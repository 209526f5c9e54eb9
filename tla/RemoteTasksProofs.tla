-------------------------- MODULE RemoteTasksProofs --------------------------
(***************************************************************************)
(* Proofs about RemoteTasks for any set of nodes.                          *)
(***************************************************************************)
EXTENDS RemoteTasks, TLAPS

LEMMA OwedIsStop ==
  ASSUME NEW n \in Nodes, NEW b \in BOOLEAN
  PROVE  [node |-> n, once |-> b] \in Stops
BY DEF Stops

\* The state of the giving machine keeps its types.
THEOREM TypeCorrect == Spec => []TypeOK
<1>1. Init => TypeOK
  BY DEF Init, TypeOK, Settled, Stops
<1>2. TypeOK /\ [Next]_vars => TypeOK'
  <2> SUFFICES ASSUME TypeOK, [Next]_vars PROVE TypeOK'
    OBVIOUS
  <2> USE DEF TypeOK, Settled, StartSteps, TakeSteps, disk, lane, carried, stopLane, aside,
              To, Returns, ReturnsAndWakes, Wake, OtherStarts, Running, FailTask,
              OweStopTo, MarkSent, Outcome, StopLeaves, StopUnheard, ForgetStops,
              WakeOwed
  <2>1. ASSUME NEW n \in Nodes, StartStep(n) PROVE TypeOK'
    <3>1. CASE StartIsMoot(n)
      BY <3>1 DEF StartIsMoot
    <3>2. CASE StartWaitsForLink(n)
      BY <3>2 DEF StartWaitsForLink
    <3>3. CASE StartSends(n)
      BY <3>3 DEF StartSends
    <3>4. CASE StartMarks(n)
      BY <3>4 DEF StartMarks
    <3>5. CASE StartIsDropped(n)
      BY <3>5 DEF StartIsDropped
    <3>6. CASE StartAsks(n)
      BY <3>6 DEF StartAsks
    <3>7. CASE StartIsHeard(n)
      BY <3>7, OwedIsStop DEF StartIsHeard
    <3>8. CASE StartCloses(n)
      BY <3>8 DEF StartCloses
    <3>9. CASE StartBreaks(n)
      BY <3>9, OwedIsStop DEF StartBreaks
    <3> QED
      BY <2>1, <3>1, <3>2, <3>3, <3>4, <3>5, <3>6, <3>7, <3>8, <3>9 DEF StartStep
  <2>2. ASSUME NEW n \in Nodes, StartAnswer(n) PROVE TypeOK'
    <3>1. CASE StartHears(n)
      BY <3>1 DEF StartHears
    <3>2. CASE StartIsPutOff(n)
      BY <3>2 DEF StartIsPutOff
    <3>3. CASE StartIsRefused(n)
      BY <3>3 DEF StartIsRefused
    <3>4. CASE StartErrs(n)
      BY <3>4 DEF StartErrs
    <3> QED
      BY <2>2, <3>1, <3>2, <3>3, <3>4 DEF StartAnswer
  <2>3. ASSUME NEW n \in Nodes, TakeStep(n) PROVE TypeOK'
    <3>1. CASE TakeWaitsForLink(n)
      BY <3>1 DEF TakeWaitsForLink
    <3>2. CASE TakeAsks(n)
      BY <3>2 DEF TakeAsks
    <3>3. CASE TakeSettles(n)
      BY <3>3 DEF TakeSettles
    <3>4. CASE TakeIsStale(n)
      BY <3>4 DEF TakeIsStale
    <3>5. CASE TakeBreaks(n)
      BY <3>5 DEF TakeBreaks
    <3> QED
      BY <2>3, <3>1, <3>2, <3>3, <3>4, <3>5 DEF TakeStep
  <2>4. ASSUME NEW n \in Nodes, TakeAnswer(n) PROVE TypeOK'
    <3>1. CASE TakeHearsOpen(n)
      BY <3>1 DEF TakeHearsOpen
    <3>2. CASE TakeHearsUnknown(n)
      BY <3>2 DEF TakeHearsUnknown
    <3>3. ASSUME NEW s \in Settled, TakeHears(n, s) PROVE TypeOK'
      BY <3>3 DEF TakeHears
    <3>4. CASE TakeIsAcked(n)
      BY <3>4 DEF TakeIsAcked
    <3>5. CASE TakeIsRefused(n)
      BY <3>5 DEF TakeIsRefused
    <3>6. CASE TakeErrs(n)
      BY <3>6 DEF TakeErrs
    <3> QED
      BY <2>4, <3>1, <3>2, <3>3, <3>4, <3>5, <3>6 DEF TakeAnswer
  <2>5. ASSUME NEW n \in Nodes, PeerSettled(n) PROVE TypeOK'
    BY <2>5 DEF PeerSettled
  <2>6. ASSUME NEW n \in Nodes, Outside(n) PROVE TypeOK'
    <3>1. CASE GiveOpens(n)
      BY <3>1 DEF GiveOpens
    <3>2. CASE GiveOwes(n)
      BY <3>2 DEF GiveOwes
    <3>3. CASE Cancel(n)
      BY <3>3 DEF Cancel
    <3>4. CASE CancelOwes(n)
      BY <3>4, OwedIsStop DEF CancelOwes
    <3>5. CASE GiveUpDrops(n)
      BY <3>5 DEF GiveUpDrops
    <3>6. CASE GiveUpFails(n)
      BY <3>6, OwedIsStop DEF GiveUpFails
    <3>7. CASE LeaveFails(n)
      BY <3>7 DEF LeaveFails
    <3> QED
      BY <2>6, <3>1, <3>2, <3>3, <3>4, <3>5, <3>6, <3>7 DEF Outside
  <2>7. ASSUME NEW e \in Stops, StopStep(e) PROVE TypeOK'
    <3>1. CASE StopAsks(e)
      BY <3>1 DEF StopAsks
    <3>2. CASE StopHasNoLink(e)
      BY <3>2 DEF StopHasNoLink
    <3>3. CASE StopExpires(e)
      BY <3>3 DEF StopExpires
    <3> QED
      BY <2>7, <3>1, <3>2, <3>3 DEF StopStep
  <2>8. ASSUME NEW e \in Stops, StopAnswer(e) PROVE TypeOK'
    <3>1. CASE StopIsHeard(e)
      BY <3>1 DEF StopIsHeard
    <3>2. CASE StopIsRefused(e)
      BY <3>2 DEF StopIsRefused
    <3> QED
      BY <2>8, <3>1, <3>2 DEF StopAnswer
  <2>9. CASE Leave
    BY <2>9 DEF Leave
  <2>10. CASE LinkLost
    BY <2>10 DEF LinkLost
  <2>11. CASE LinkUp
    BY <2>11 DEF LinkUp
  <2>12. CASE Crash
    BY <2>12 DEF Crash
  <2>13. CASE UNCHANGED vars
    BY <2>13 DEF vars
  <2> QED
    BY <2>1, <2>2, <2>3, <2>4, <2>5, <2>6, <2>7, <2>8, <2>9, <2>10, <2>11, <2>12, <2>13 DEF Next
<1> QED
  BY <1>1, <1>2, PTL DEF Spec

-----------------------------------------------------------------------------
(* Why an open task is always owed, and acknowledged only when it settled.    *)

\* Before a task is given, nothing of its node is owed and no handler runs.
GivenFirst ==
  \A n \in Nodes : given[n] = "none" =>
    n \notin starts \cup takes \cup giving /\ pc[n] = "idle"

\* The start is owed once, and no handler runs before that.
GivingIsFirst ==
  \A n \in giving : pc[n] = "idle" /\ n \notin starts \cup takes

\* A handler that outlived the account has no entry: what it does to the task
\* and what it leaves alone, leave or giveUp settles.
StaleOwesNothing ==
  \A n \in stale : pc[n] # "idle" /\ n \notin starts \cup takes

\* The start that was heard is removed once the result is owed.
ClosingIsOwed ==
  \A n \in Nodes : pc[n] = "closing" /\ given[n] = "open" =>
    n \in takes \cup lost \/ failing[n] # "no"

\* AckedIsSettled, and the task was given.
AckingSettled == \A n \in Nodes : pc[n] = "acking" => given[n] \in Settled

OwedInv ==
  /\ TypeOK
  /\ GivenFirst
  /\ GivingIsFirst
  /\ StaleOwesNothing
  /\ ClosingIsOwed
  /\ AckingSettled
  /\ OpenIsOwed

LEMMA OwedInductive == Spec => []OwedInv
<1>1. Init => OwedInv
  BY DEF Init, OwedInv, TypeOK, Settled, Stops, GivenFirst, GivingIsFirst,
         StaleOwesNothing, ClosingIsOwed, AckingSettled, OpenIsOwed
<1>2. OwedInv /\ TypeOK' /\ [Next]_vars => OwedInv'
  <2> SUFFICES ASSUME OwedInv, TypeOK', [Next]_vars PROVE OwedInv'
    OBVIOUS
  <2> USE DEF OwedInv, GivenFirst, GivingIsFirst, StaleOwesNothing, ClosingIsOwed,
              AckingSettled, OpenIsOwed,
              TypeOK, Settled, StartSteps, TakeSteps, disk, lane, carried, stopLane, aside,
              To, Returns, ReturnsAndWakes, Wake, OtherStarts, Running, FailTask,
              OweStopTo, MarkSent, Outcome, StopLeaves, StopUnheard, ForgetStops,
              WakeOwed
  <2>1. ASSUME NEW n \in Nodes, StartStep(n) PROVE OwedInv'
    <3>1. CASE StartIsMoot(n)
      BY <3>1 DEF StartIsMoot
    <3>2. CASE StartWaitsForLink(n)
      BY <3>2 DEF StartWaitsForLink
    <3>3. CASE StartSends(n)
      BY <3>3 DEF StartSends
    <3>4. CASE StartMarks(n)
      BY <3>4 DEF StartMarks
    <3>5. CASE StartIsDropped(n)
      BY <3>5 DEF StartIsDropped
    <3>6. CASE StartAsks(n)
      BY <3>6 DEF StartAsks
    <3>7. CASE StartIsHeard(n)
      BY <3>7 DEF StartIsHeard
    <3>8. CASE StartCloses(n)
      BY <3>8 DEF StartCloses
    <3>9. CASE StartBreaks(n)
      BY <3>9 DEF StartBreaks
    <3> QED
      BY <2>1, <3>1, <3>2, <3>3, <3>4, <3>5, <3>6, <3>7, <3>8, <3>9 DEF StartStep
  <2>2. ASSUME NEW n \in Nodes, StartAnswer(n) PROVE OwedInv'
    <3>1. CASE StartHears(n)
      BY <3>1 DEF StartHears
    <3>2. CASE StartIsPutOff(n)
      BY <3>2 DEF StartIsPutOff
    <3>3. CASE StartIsRefused(n)
      BY <3>3 DEF StartIsRefused
    <3>4. CASE StartErrs(n)
      BY <3>4 DEF StartErrs
    <3> QED
      BY <2>2, <3>1, <3>2, <3>3, <3>4 DEF StartAnswer
  <2>3. ASSUME NEW n \in Nodes, TakeStep(n) PROVE OwedInv'
    <3>1. CASE TakeWaitsForLink(n)
      BY <3>1 DEF TakeWaitsForLink
    <3>2. CASE TakeAsks(n)
      BY <3>2 DEF TakeAsks
    <3>3. CASE TakeSettles(n)
      BY <3>3 DEF TakeSettles
    <3>4. CASE TakeIsStale(n)
      BY <3>4 DEF TakeIsStale
    <3>5. CASE TakeBreaks(n)
      BY <3>5 DEF TakeBreaks
    <3> QED
      BY <2>3, <3>1, <3>2, <3>3, <3>4, <3>5 DEF TakeStep
  <2>4. ASSUME NEW n \in Nodes, TakeAnswer(n) PROVE OwedInv'
    <3>1. CASE TakeHearsOpen(n)
      BY <3>1 DEF TakeHearsOpen
    <3>2. CASE TakeHearsUnknown(n)
      BY <3>2 DEF TakeHearsUnknown
    <3>3. ASSUME NEW s \in Settled, TakeHears(n, s) PROVE OwedInv'
      BY <3>3 DEF TakeHears
    <3>4. CASE TakeIsAcked(n)
      BY <3>4 DEF TakeIsAcked
    <3>5. CASE TakeIsRefused(n)
      BY <3>5 DEF TakeIsRefused
    <3>6. CASE TakeErrs(n)
      BY <3>6 DEF TakeErrs
    <3> QED
      BY <2>4, <3>1, <3>2, <3>3, <3>4, <3>5, <3>6 DEF TakeAnswer
  <2>5. ASSUME NEW n \in Nodes, PeerSettled(n) PROVE OwedInv'
    BY <2>5 DEF PeerSettled
  <2>6. ASSUME NEW n \in Nodes, Outside(n) PROVE OwedInv'
    <3>1. CASE GiveOpens(n)
      BY <3>1 DEF GiveOpens
    <3>2. CASE GiveOwes(n)
      BY <3>2 DEF GiveOwes
    <3>3. CASE Cancel(n)
      BY <3>3 DEF Cancel
    <3>4. CASE CancelOwes(n)
      BY <3>4 DEF CancelOwes
    <3>5. CASE GiveUpDrops(n)
      BY <3>5 DEF GiveUpDrops
    <3>6. CASE GiveUpFails(n)
      BY <3>6 DEF GiveUpFails
    <3>7. CASE LeaveFails(n)
      BY <3>7 DEF LeaveFails
    <3> QED
      BY <2>6, <3>1, <3>2, <3>3, <3>4, <3>5, <3>6, <3>7 DEF Outside
  <2>7. ASSUME NEW e \in Stops, StopStep(e) PROVE OwedInv'
    <3>1. CASE StopAsks(e)
      BY <3>1 DEF StopAsks
    <3>2. CASE StopHasNoLink(e)
      BY <3>2 DEF StopHasNoLink
    <3>3. CASE StopExpires(e)
      BY <3>3 DEF StopExpires
    <3> QED
      BY <2>7, <3>1, <3>2, <3>3 DEF StopStep
  <2>8. ASSUME NEW e \in Stops, StopAnswer(e) PROVE OwedInv'
    <3>1. CASE StopIsHeard(e)
      BY <3>1 DEF StopIsHeard
    <3>2. CASE StopIsRefused(e)
      BY <3>2 DEF StopIsRefused
    <3> QED
      BY <2>8, <3>1, <3>2 DEF StopAnswer
  <2>9. CASE Leave
    BY <2>9 DEF Leave
  <2>10. CASE LinkLost
    BY <2>10 DEF LinkLost
  <2>11. CASE LinkUp
    BY <2>11 DEF LinkUp
  <2>12. CASE Crash
    BY <2>12 DEF Crash
  <2>13. CASE UNCHANGED vars
    BY <2>13 DEF vars
  <2> QED
    BY <2>1, <2>2, <2>3, <2>4, <2>5, <2>6, <2>7, <2>8, <2>9, <2>10, <2>11, <2>12, <2>13 DEF Next
<1>3. Spec => []TypeOK
  BY TypeCorrect
<1> QED
  BY <1>1, <1>2, <1>3, PTL DEF Spec

\* remote-tasks.ts:272-279, 442-446, 542-545: an open task is never forgotten.
THEOREM OpenStaysOwed == Spec => []OpenIsOwed
BY OwedInductive, PTL DEF OwedInv

\* remote-tasks.ts:283-287: only a result that was taken is acknowledged.
THEOREM AckedAfterSettled == Spec => []AckedIsSettled
<1>1. OwedInv => AckedIsSettled
  BY DEF OwedInv, AckingSettled, AckedIsSettled, Settled
<1> QED
  BY <1>1, OwedInductive, PTL

\* remote-tasks.ts:205-208, 286: a task settles once, whatever comes late.
THEOREM TasksSettleOnce == Spec => SettlesOnce
<1> DEFINE Kept == \A m \in Nodes : given[m] \in Settled => given'[m] = given[m]
<1>1. TypeOK /\ [Next]_vars => [\A n \in Nodes : given[n] \in Settled => given'[n] = given[n]]_given
  <2> SUFFICES ASSUME TypeOK, [Next]_vars PROVE Kept
    OBVIOUS
  <2> USE DEF TypeOK, Settled, disk, FailTask, Outcome
  <2>1. ASSUME NEW n \in Nodes, StartStep(n) PROVE Kept
    <3>1. CASE StartIsMoot(n)
      BY <3>1 DEF StartIsMoot
    <3>2. CASE StartWaitsForLink(n)
      BY <3>2 DEF StartWaitsForLink
    <3>3. CASE StartSends(n)
      BY <3>3 DEF StartSends
    <3>4. CASE StartMarks(n)
      BY <3>4 DEF StartMarks
    <3>5. CASE StartIsDropped(n)
      BY <3>5 DEF StartIsDropped
    <3>6. CASE StartAsks(n)
      BY <3>6 DEF StartAsks
    <3>7. CASE StartIsHeard(n)
      BY <3>7 DEF StartIsHeard
    <3>8. CASE StartCloses(n)
      BY <3>8 DEF StartCloses
    <3>9. CASE StartBreaks(n)
      BY <3>9 DEF StartBreaks
    <3> QED
      BY <2>1, <3>1, <3>2, <3>3, <3>4, <3>5, <3>6, <3>7, <3>8, <3>9 DEF StartStep
  <2>2. ASSUME NEW n \in Nodes, StartAnswer(n) PROVE Kept
    <3>1. CASE StartHears(n)
      BY <3>1 DEF StartHears
    <3>2. CASE StartIsPutOff(n)
      BY <3>2 DEF StartIsPutOff
    <3>3. CASE StartIsRefused(n)
      BY <3>3 DEF StartIsRefused
    <3>4. CASE StartErrs(n)
      BY <3>4 DEF StartErrs
    <3> QED
      BY <2>2, <3>1, <3>2, <3>3, <3>4 DEF StartAnswer
  <2>3. ASSUME NEW n \in Nodes, TakeStep(n) PROVE Kept
    <3>1. CASE TakeWaitsForLink(n)
      BY <3>1 DEF TakeWaitsForLink
    <3>2. CASE TakeAsks(n)
      BY <3>2 DEF TakeAsks
    <3>3. CASE TakeSettles(n)
      BY <3>3 DEF TakeSettles
    <3>4. CASE TakeIsStale(n)
      BY <3>4 DEF TakeIsStale
    <3>5. CASE TakeBreaks(n)
      BY <3>5 DEF TakeBreaks
    <3> QED
      BY <2>3, <3>1, <3>2, <3>3, <3>4, <3>5 DEF TakeStep
  <2>4. ASSUME NEW n \in Nodes, TakeAnswer(n) PROVE Kept
    <3>1. CASE TakeHearsOpen(n)
      BY <3>1 DEF TakeHearsOpen
    <3>2. CASE TakeHearsUnknown(n)
      BY <3>2 DEF TakeHearsUnknown
    <3>3. ASSUME NEW s \in Settled, TakeHears(n, s) PROVE Kept
      BY <3>3 DEF TakeHears
    <3>4. CASE TakeIsAcked(n)
      BY <3>4 DEF TakeIsAcked
    <3>5. CASE TakeIsRefused(n)
      BY <3>5 DEF TakeIsRefused
    <3>6. CASE TakeErrs(n)
      BY <3>6 DEF TakeErrs
    <3> QED
      BY <2>4, <3>1, <3>2, <3>3, <3>4, <3>5, <3>6 DEF TakeAnswer
  <2>5. ASSUME NEW n \in Nodes, PeerSettled(n) PROVE Kept
    BY <2>5 DEF PeerSettled
  <2>6. ASSUME NEW n \in Nodes, Outside(n) PROVE Kept
    <3>1. CASE GiveOpens(n)
      BY <3>1 DEF GiveOpens
    <3>2. CASE GiveOwes(n)
      BY <3>2 DEF GiveOwes
    <3>3. CASE Cancel(n)
      BY <3>3 DEF Cancel
    <3>4. CASE CancelOwes(n)
      BY <3>4 DEF CancelOwes
    <3>5. CASE GiveUpDrops(n)
      BY <3>5 DEF GiveUpDrops
    <3>6. CASE GiveUpFails(n)
      BY <3>6 DEF GiveUpFails
    <3>7. CASE LeaveFails(n)
      BY <3>7 DEF LeaveFails
    <3> QED
      BY <2>6, <3>1, <3>2, <3>3, <3>4, <3>5, <3>6, <3>7 DEF Outside
  <2>7. ASSUME NEW e \in Stops, StopStep(e) PROVE Kept
    <3>1. CASE StopAsks(e)
      BY <3>1 DEF StopAsks
    <3>2. CASE StopHasNoLink(e)
      BY <3>2 DEF StopHasNoLink
    <3>3. CASE StopExpires(e)
      BY <3>3 DEF StopExpires
    <3> QED
      BY <2>7, <3>1, <3>2, <3>3 DEF StopStep
  <2>8. ASSUME NEW e \in Stops, StopAnswer(e) PROVE Kept
    <3>1. CASE StopIsHeard(e)
      BY <3>1 DEF StopIsHeard
    <3>2. CASE StopIsRefused(e)
      BY <3>2 DEF StopIsRefused
    <3> QED
      BY <2>8, <3>1, <3>2 DEF StopAnswer
  <2>9. CASE Leave
    BY <2>9 DEF Leave
  <2>10. CASE LinkLost
    BY <2>10 DEF LinkLost
  <2>11. CASE LinkUp
    BY <2>11 DEF LinkUp
  <2>12. CASE Crash
    BY <2>12 DEF Crash
  <2>13. CASE UNCHANGED vars
    BY <2>13 DEF vars
  <2> QED
    BY <2>1, <2>2, <2>3, <2>4, <2>5, <2>6, <2>7, <2>8, <2>9, <2>10, <2>11, <2>12, <2>13 DEF Next
<1>2. Spec => []TypeOK
  BY TypeCorrect
<1> QED
  BY <1>1, <1>2, PTL DEF Spec, SettlesOnce

=============================================================================
