--------------------------- MODULE ReconnectProofs ---------------------------
(***************************************************************************)
(* Proofs about Reconnect: its type, and, for a daemon that does not go    *)
(* down, that one reconnect is owed at a time, no work is stranded and     *)
(* none is given up on early.                                              *)
(***************************************************************************)
EXTENDS Reconnect, SequenceTheorems, TLAPS

-----------------------------------------------------------------------------
(* What is counted.  Every age comes from an age that was there, from 0,   *)
(* or from the passing of time: a set A of ages is not left without it.    *)

Timed(A) == queued \in Seq(A) /\ current \in A /\ firstOwed \subseteq A

LEMMA SinceIsAge ==
  ASSUME TypeOK, NEW A, 0 \in A, Timed(A)
  PROVE  /\ Entries \in Seq(A)
         /\ Since \in A
<1>1. <<>> \in Seq(A) /\ <<current>> \in Seq(A) /\ queued \in Seq(A)
  BY EmptySeq DEF Timed
<1>2. Entries \in Seq(A)
  <2>1. CASE kept
    BY <1>1, <2>1, ConcatProperties DEF Entries
  <2>2. CASE ~ kept
    BY <1>1, <2>2, ConcatProperties DEF Entries
  <2> QED
    BY <2>1, <2>2
<1>3. CASE firstOwed # {}
  <2>1. (CHOOSE a \in firstOwed : TRUE) \in firstOwed
    BY <1>3
  <2> QED
    BY <1>2, <1>3, <2>1 DEF Since, Timed
<1>4. CASE firstOwed = {} /\ Entries # <<>>
  BY <1>2, <1>4, HeadTailProperties DEF Since
<1>5. CASE firstOwed = {} /\ Entries = <<>>
  BY <1>2, <1>5 DEF Since
<1> QED
  BY <1>3, <1>4, <1>5

LEMMA WriteTyped ==
  ASSUME NEW A, queued \in Seq(A), NEW a \in A, Write(a)
  PROVE  queued' \in Seq(A) /\ queued' # <<>> /\ Len(queued') = Len(queued) + 1
BY AppendProperties DEF Write

LEMMA WriteSinceTyped ==
  ASSUME TypeOK, NEW A, 0 \in A, Timed(A), WriteSince
  PROVE  queued' \in Seq(A) /\ firstOwed' \subseteq A
<1>1. Since \in A
  BY SinceIsAge
<1>2. queued' \in Seq(A)
  BY <1>1, WriteTyped DEF WriteSince, Timed
<1> QED
  BY <1>1, <1>2 DEF WriteSince

\* What owe writes down.
LEMMA OweTyped ==
  ASSUME TypeOK, NEW A, 0 \in A, Timed(A), Owe
  PROVE  queued' \in Seq(A) /\ firstOwed' \subseteq A
<1>1. CASE owed # {} /\ known /\ ~ Running /\ Entries = <<>>
  BY <1>1, WriteSinceTyped DEF Owe
<1>2. CASE ~ (owed # {} /\ known /\ ~ Running /\ Entries = <<>>)
  BY <1>2 DEF Owe, Timed, counts
<1> QED
  BY <1>1, <1>2

\* What the end of a handler writes down.
LEMMA EndsTyped ==
  ASSUME TypeOK, NEW A, 0 \in A, Timed(A), Ends
  PROVE  Timed(A)'
<1>1. CASE OwedAgain
  BY <1>1, WriteSinceTyped DEF Ends, Idles, Timed
<1>2. CASE ~ OwedAgain
  BY <1>2 DEF Ends, Idles, Timed
<1> QED
  BY <1>1, <1>2

\* The entry a handler begins with.
LEMMA BeginsTyped ==
  ASSUME NEW A, queued \in Seq(A), queued # <<>>, NEW step, Begins(step)
  PROVE  queued' \in Seq(A) /\ Head(queued) \in A /\ current' \in A
BY HeadTailProperties DEF Begins

LEMMA TimedKept ==
  ASSUME TypeOK, NEW A, 0 \in A, Timed(A), [Next]_vars, ~ Tick
  PROVE  Timed(A)'
<1> USE DEF Timed, work, sleep, line, handler, around, counts
<1>1. ASSUME NEW w \in Work, Give(w) \/ WorkStep(w) \/ Drop(w) PROVE Timed(A)'
  <2>1. CASE WorkWaits(w)
    BY <2>1, OweTyped DEF WorkWaits
  <2>2. CASE ~ WorkWaits(w)
    BY <1>1, <2>2
       DEF Give, WorkStep, WorkIsPutOff, WordComes, WorkIsHeard, Drop
  <2> QED
    BY <2>1, <2>2
<1>2. CASE HandlerStep
  <2>1. CASE HandlerIsMoot
    BY <2>1, HeadTailProperties DEF HandlerIsMoot
  <2>2. CASE HandlerLapses
    BY <2>2, BeginsTyped DEF HandlerLapses
  <2>3. CASE HandlerDials
    <3>1. queued' \in Seq(A) /\ Head(queued) \in A /\ current' \in A
      BY <2>3, BeginsTyped DEF HandlerDials
    <3> QED
      BY <2>3, <3>1 DEF HandlerDials
  <2>4. CASE HandlerOpened
    BY <2>4, WriteTyped DEF HandlerOpened, Idles
  <2>5. CASE HandlerEnds
    BY <2>5, EndsTyped DEF HandlerEnds
  <2>6. CASE GaveUp
    BY <2>6, EndsTyped DEF GaveUp, Idles
  <2>7. ASSUME NEW w \in Work, GiveUp(w) PROVE Timed(A)'
    BY <2>7 DEF GiveUp
  <2> QED
    BY <1>2, <2>1, <2>2, <2>3, <2>4, <2>5, <2>6, <2>7 DEF HandlerStep
<1>3. CASE DialStep
  <2>1. CASE DialOpens \/ DialIsLate
    BY <2>1 DEF DialOpens, DialIsLate
  <2>2. CASE DialFails
    BY <2>2, EndsTyped, WriteTyped DEF DialFails
  <2>3. CASE DialIsRefused
    BY <2>3 DEF DialIsRefused
  <2> QED
    BY <1>3, <2>1, <2>2, <2>3 DEF DialStep
<1>4. CASE LinkLost
  BY <1>4, OweTyped DEF LinkLost
<1>5. CASE PersonConnects
  BY <1>5 DEF PersonConnects
<1>6. CASE ForgetStep
  BY <1>6, EmptySeq
     DEF ForgetStep, UnlinkCloses, LeaveCloses, ReconnectLapses, Lapses, Forgets
<1>7. CASE Crash
  BY <1>7, SinceIsAge DEF Crash
<1>8. CASE UNCHANGED vars
  BY <1>8 DEF vars
<1> QED
  BY <1>1, <1>2, <1>3, <1>4, <1>5, <1>6, <1>7, <1>8 DEF Next

LEMMA AgesTyped ==
  ASSUME NEW a \in Age
  PROVE  Older(a) \in Age
BY TimeAssumption DEF Older, Age

LEMMA TickTyped ==
  ASSUME Timed(Age), Tick
  PROVE  Timed(Age)'
<1>1. queued' \in Seq(Age)
  BY AgesTyped DEF Tick, Timed
<1>2. firstOwed' \subseteq Age
  BY AgesTyped DEF Tick, Timed
<1> QED
  BY <1>1, <1>2 DEF Tick, Timed, handler

-----------------------------------------------------------------------------
(* The type. *)

\* All of the type but Timed(Age).
Places ==
  /\ known \in BOOLEAN
  /\ owed \subseteq Work /\ asleep \cup putOff \subseteq owed
  /\ link \in BOOLEAN /\ dialing \in BOOLEAN /\ ~ (link /\ dialing)
  /\ phase \in {"none", "dialing", "opened", "cut", "refused", "retried", "lapsing"}
  /\ kept \in BOOLEAN /\ (kept => phase # "none")
  /\ lostMeanwhile \in BOOLEAN
  /\ doomed \subseteq Work /\ (doomed # {} => phase \in {"refused", "lapsing"})
  /\ forgetting \in {"no", "unlinking", "unlinked", "leaving", "left"}

Counted == quiet \in Age /\ \A a, b \in firstOwed : a = b

LEMMA TypeParts == TypeOK <=> Timed(Age) /\ Places /\ Counted
BY DEF TypeOK, Timed, Places, Counted

LEMMA OweCounts ==
  ASSUME TypeOK, Owe
  PROVE  lostMeanwhile' \in BOOLEAN /\ \A a, b \in firstOwed' : a = b
<1>1. CASE owed # {} /\ known /\ ~ Running /\ Entries = <<>>
  BY <1>1 DEF Owe, WriteSince, TypeOK
<1>2. CASE ~ (owed # {} /\ known /\ ~ Running /\ Entries = <<>>)
  BY <1>2 DEF Owe, TypeOK, counts
<1> QED
  BY <1>1, <1>2

LEMMA EndsCounts ==
  ASSUME TypeOK, Ends
  PROVE  /\ phase' = "none" /\ kept' = FALSE /\ lostMeanwhile' = FALSE
         /\ \A a, b \in firstOwed' : a = b
BY DEF Ends, Idles, WriteSince, TypeOK

LEMMA CountedKept ==
  ASSUME TypeOK, [Next]_vars
  PROVE  Counted'
<1> USE DEF Counted, work, sleep, line, handler, around, counts
<1>0. Counted /\ 0 \in Age
  BY TypeParts, TimeAssumption DEF Age
<1>1. ASSUME NEW w \in Work, Give(w) \/ WorkStep(w) \/ Drop(w) PROVE Counted'
  <2>1. CASE WorkWaits(w)
    BY <1>0, <2>1, OweCounts DEF WorkWaits
  <2>2. CASE ~ WorkWaits(w)
    BY <1>0, <1>1, <2>2
       DEF Give, WorkStep, WorkIsPutOff, WordComes, WorkIsHeard, Drop
  <2> QED
    BY <2>1, <2>2
<1>2. CASE HandlerStep
  <2>1. CASE HandlerIsMoot \/ HandlerLapses \/ HandlerDials \/ HandlerOpened
    BY <1>0, <2>1
       DEF HandlerIsMoot, HandlerLapses, HandlerDials, HandlerOpened
  <2>2. CASE HandlerEnds \/ GaveUp
    BY <1>0, <2>2, EndsCounts DEF HandlerEnds, GaveUp, Idles
  <2>3. ASSUME NEW w \in Work, GiveUp(w) PROVE Counted'
    BY <1>0, <2>3 DEF GiveUp
  <2> QED
    BY <1>2, <2>1, <2>2, <2>3 DEF HandlerStep
<1>3. CASE DialStep
  BY <1>0, <1>3, EndsCounts
     DEF DialStep, DialOpens, DialIsLate, DialFails, DialIsRefused
<1>4. CASE LinkLost
  BY <1>0, <1>4, OweCounts DEF LinkLost
<1>5. CASE PersonConnects
  BY <1>0, <1>5 DEF PersonConnects
<1>6. CASE ForgetStep
  BY <1>0, <1>6
     DEF ForgetStep, UnlinkCloses, LeaveCloses, ReconnectLapses, Lapses, Forgets
<1>7. CASE Tick
  BY <1>0, <1>7, AgesTyped DEF Tick
<1>8. CASE Crash
  BY <1>0, <1>8 DEF Crash
<1>9. CASE UNCHANGED vars
  BY <1>0, <1>9 DEF vars
<1> QED
  BY <1>1, <1>2, <1>3, <1>4, <1>5, <1>6, <1>7, <1>8, <1>9 DEF Next

LEMMA PlacesKept ==
  ASSUME TypeOK, [Next]_vars
  PROVE  Places'
<1> USE DEF Places, work, sleep, line, handler, around, counts
<1>0. Places
  BY TypeParts
<1>1. ASSUME NEW w \in Work, Give(w) \/ WorkStep(w) \/ Drop(w) PROVE Places'
  <2>1. CASE WorkWaits(w)
    BY <1>0, <2>1, OweCounts DEF WorkWaits, Ready
  <2>2. CASE Give(w) \/ WorkIsPutOff(w) \/ WordComes(w)
    BY <1>0, <2>2 DEF Give, WorkIsPutOff, WordComes, Ready
  <2>3. CASE WorkIsHeard(w) \/ Drop(w)
    BY <1>0, <2>3 DEF WorkIsHeard, Drop, Leaves
  <2> QED
    BY <1>1, <2>1, <2>2, <2>3 DEF WorkStep
<1>2. CASE HandlerStep
  <2>1. CASE HandlerIsMoot
    BY <1>0, <2>1 DEF HandlerIsMoot
  <2>2. CASE HandlerLapses
    BY <1>0, <2>2 DEF HandlerLapses, Begins
  <2>3. CASE HandlerDials
    BY <1>0, <2>3 DEF HandlerDials, Begins
  <2>4. CASE HandlerOpened
    BY <1>0, <2>4 DEF HandlerOpened, WakeOwed, Idles
  <2>5. CASE HandlerEnds
    BY <1>0, <2>5, EndsCounts DEF HandlerEnds
  <2>6. CASE GaveUp
    BY <1>0, <2>6, EndsCounts DEF GaveUp, Idles
  <2>7. ASSUME NEW w \in Work, GiveUp(w) PROVE Places'
    BY <1>0, <2>7 DEF GiveUp, Leaves
  <2> QED
    BY <1>2, <2>1, <2>2, <2>3, <2>4, <2>5, <2>6, <2>7 DEF HandlerStep
<1>3. CASE DialStep
  <2>1. CASE DialOpens \/ DialIsLate
    <3>1. CASE phase = "dialing"
      BY <1>0, <2>1, <3>1 DEF DialOpens, DialIsLate
    <3>2. CASE phase # "dialing"
      <4>1. phase' = phase /\ dialing' = FALSE
        BY <2>1, <3>2 DEF DialOpens, DialIsLate
      <4>2. doomed' \subseteq Work /\ (doomed' # {} => phase' \in {"refused", "lapsing"})
        BY <1>0, <2>1, <4>1 DEF DialOpens, DialIsLate
      <4>3. kept' \in BOOLEAN /\ (kept' => phase' # "none")
        BY <1>0, <2>1, <4>1 DEF DialOpens, DialIsLate
      <4>4. owed' \subseteq Work /\ asleep' \cup putOff' \subseteq owed'
        BY <1>0, <2>1 DEF DialOpens, DialIsLate
      <4>5. link' \in BOOLEAN /\ ~ (link' /\ dialing')
        BY <1>0, <2>1, <4>1 DEF DialOpens, DialIsLate
      <4>6. UNCHANGED <<known, lostMeanwhile, forgetting>>
        BY <2>1 DEF DialOpens, DialIsLate
      <4> QED
        BY <1>0, <4>1, <4>2, <4>3, <4>4, <4>5, <4>6
    <3> QED
      BY <3>1, <3>2
  <2>2. CASE DialFails
    <3>1. CASE phase # "dialing"
      <4>1. UNCHANGED <<handler, counts>> /\ dialing' = FALSE
        BY <2>2, <3>1 DEF DialFails
      <4> QED
        BY <1>0, <2>2, <4>1 DEF DialFails
    <3>2. CASE phase = "dialing" /\ owed = {} /\ Ends
      BY <1>0, <2>2, <3>2, EndsCounts DEF DialFails
    <3>3. CASE phase = "dialing" /\ owed # {}
      BY <1>0, <2>2, <3>3 DEF DialFails
    <3> QED
      BY <2>2, <3>1, <3>2, <3>3 DEF DialFails
  <2>3. CASE DialIsRefused
    BY <1>0, <2>3 DEF DialIsRefused
  <2> QED
    BY <1>3, <2>1, <2>2, <2>3 DEF DialStep
<1>4. CASE LinkLost
  BY <1>0, <1>4, OweCounts DEF LinkLost
<1>5. CASE PersonConnects
  BY <1>0, <1>5 DEF PersonConnects
<1>6. CASE ForgetStep
  <2>1. CASE UnlinkCloses \/ LeaveCloses
    <3>1. phase' \in {phase, "cut"} /\ (phase' = "cut" => doomed = {})
      BY <1>0, <2>1 DEF UnlinkCloses, LeaveCloses, Closes
    <3>2. kept' => phase' # "none"
      BY <1>0, <2>1, <3>1 DEF UnlinkCloses, LeaveCloses
    <3> QED
      BY <1>0, <2>1, <3>1, <3>2 DEF UnlinkCloses, LeaveCloses, Closes
  <2>2. CASE ReconnectLapses
    BY <1>0, <2>2 DEF ReconnectLapses, Lapses
  <2>3. CASE Forgets
    BY <1>0, <2>3 DEF Forgets
  <2> QED
    BY <1>6, <2>1, <2>2, <2>3 DEF ForgetStep
<1>7. CASE Tick
  BY <1>0, <1>7 DEF Tick
<1>8. CASE Crash
  BY <1>0, <1>8 DEF Crash
<1>9. CASE UNCHANGED vars
  BY <1>0, <1>9 DEF vars
<1> QED
  BY <1>1, <1>2, <1>3, <1>4, <1>5, <1>6, <1>7, <1>8, <1>9 DEF Next

\* Reconnect keeps its type: at most one age is counted from, an entry is kept
\* only for a handler that runs, and no attempt runs beside an open link.
THEOREM TypeCorrect == Spec => []TypeOK
<1>1. Init => TypeOK
  <2>1. 0 \in Age /\ <<>> \in Seq(Age)
    BY TimeAssumption, EmptySeq DEF Age
  <2> QED
    BY <2>1 DEF Init, TypeOK
<1>2. TypeOK /\ [Next]_vars => TypeOK'
  <2> SUFFICES ASSUME TypeOK, [Next]_vars PROVE TypeOK'
    OBVIOUS
  <2>1. 0 \in Age /\ Timed(Age)
    BY TypeParts, TimeAssumption DEF Age
  <2>2. Timed(Age)'
    BY <2>1, TimedKept, TickTyped
  <2>3. Places' /\ Counted'
    BY PlacesKept, CountedKept
  <2> QED
    BY <2>2, <2>3 DEF TypeOK, Timed, Places, Counted
<1> QED
  BY <1>1, <1>2, PTL DEF Spec

-----------------------------------------------------------------------------
(* One reconnect at a time, for a daemon that stays up. *)

\* A handler that has written nothing since it began has its entry taken out.
OneInv ==
  /\ OneReconnect
  /\ phase \in {"dialing", "opened", "cut", "refused"} => queued = <<>>

LEMMA QueuedIsSeq == TypeOK => queued \in Seq(Age)
BY DEF TypeOK

LEMMA NoneQueued ==
  ASSUME TypeOK
  PROVE  Len(queued) \in Nat /\ (queued = <<>> <=> Len(queued) = 0)
BY QueuedIsSeq, EmptySeq, LenProperties

LEMMA TailOfOne ==
  ASSUME TypeOK, OneReconnect, queued # <<>>
  PROVE  Tail(queued) = <<>>
<1>1. queued \in Seq(Age) /\ Len(queued) = 1
  <2>1. queued \in Seq(Age) /\ Len(queued) \in Nat /\ Len(queued) # 0
    BY QueuedIsSeq, NoneQueued
  <2>2. Len(queued) <= 1
    BY DEF OneReconnect
  <2>3. \A n \in Nat : n # 0 /\ n <= 1 => n = 1
    OBVIOUS
  <2> QED
    BY <2>1, <2>2, <2>3
<1>2. Tail(queued) \in Seq(Age) /\ Len(Tail(queued)) = Len(queued) - 1
  BY <1>1, HeadTailProperties
<1>3. Len(Tail(queued)) = 0
  BY <1>1, <1>2
<1> QED
  BY <1>2, <1>3, EmptySeq

LEMMA WriteOne ==
  ASSUME TypeOK, queued = <<>>, NEW a \in Age, Write(a)
  PROVE  OneReconnect' /\ queued' # <<>>
<1>1. queued \in Seq(Age) /\ Len(queued) = 0
  BY QueuedIsSeq, NoneQueued
<1>2. queued' # <<>> /\ Len(queued') = Len(queued) + 1
  BY <1>1, WriteTyped
<1> QED
  BY <1>1, <1>2 DEF OneReconnect

LEMMA WriteSinceOne ==
  ASSUME TypeOK, queued = <<>>, WriteSince
  PROVE  OneReconnect' /\ queued' # <<>>
<1>1. Since \in Age
  BY SinceIsAge, TypeParts, TimeAssumption DEF Age
<1> QED
  BY <1>1, WriteOne DEF WriteSince

LEMMA NoEntriesQueued ==
  ASSUME TypeOK, Entries = <<>>
  PROVE  queued = <<>>
<1>1. queued \in Seq(Age) /\ <<>> \in Seq(Age) /\ <<current>> \in Seq(Age)
  BY EmptySeq DEF TypeOK
<1>2. ~ kept
  <2> SUFFICES ASSUME kept PROVE FALSE
    OBVIOUS
  <2>1. Len(<<current>>) = 1 /\ Len(<<>>) = 0
    OBVIOUS
  <2>2. Entries = <<current>> \o queued
    BY DEF Entries
  <2>3. Len(Entries) = 1 + Len(queued)
    BY <1>1, <2>1, <2>2, ConcatProperties
  <2> QED
    BY <2>1, <2>3, NoneQueued
<1> QED
  BY <1>1, <1>2, ConcatEmptySeq DEF Entries

\* Whoever writes a reconnect finds none queued, and no handler that runs.
LEMMA OweOne ==
  ASSUME TypeOK, OneInv, Owe, UNCHANGED phase
  PROVE  OneInv'
<1>1. CASE owed # {} /\ known /\ ~ Running /\ Entries = <<>>
  <2>1. WriteSince
    BY <1>1 DEF Owe
  <2> QED
    BY <1>1, <2>1, NoEntriesQueued, WriteSinceOne DEF OneInv, Running
<1>2. CASE ~ (owed # {} /\ known /\ ~ Running /\ Entries = <<>>)
  BY <1>2 DEF Owe, OneInv, OneReconnect
<1> QED
  BY <1>1, <1>2

LEMMA EndsOne ==
  ASSUME TypeOK, OneInv, Ends
  PROVE  OneInv'
<1>1. CASE OwedAgain
  BY <1>1, WriteSinceOne DEF Ends, Idles, OwedAgain, OneInv
<1>2. CASE ~ OwedAgain
  BY <1>2 DEF Ends, Idles, OneInv, OneReconnect
<1> QED
  BY <1>1, <1>2

LEMMA OneKept ==
  ASSUME CanCrash = FALSE, TypeOK, OneInv, [Next]_vars
  PROVE  OneInv'
<1> USE DEF work, sleep, line, handler, around, counts
<1>1. ASSUME NEW w \in Work, Give(w) \/ WorkStep(w) \/ Drop(w) PROVE OneInv'
  <2>1. CASE WorkWaits(w)
    BY <2>1, OweOne DEF WorkWaits
  <2>2. CASE ~ WorkWaits(w)
    BY <1>1, <2>2
       DEF Give, WorkStep, WorkIsPutOff, WordComes, WorkIsHeard, Drop,
           OneInv, OneReconnect
  <2> QED
    BY <2>1, <2>2
<1>2. CASE HandlerStep
  <2>1. CASE HandlerIsMoot \/ HandlerLapses \/ HandlerDials
    <3>1. queued # <<>> /\ queued' = Tail(queued)
      BY <2>1 DEF HandlerIsMoot, HandlerLapses, HandlerDials, Begins
    <3>2. queued' = <<>>
      BY <3>1, TailOfOne DEF OneInv
    <3> QED
      BY <3>2 DEF OneInv, OneReconnect
  <2>2. CASE HandlerOpened
    <3>1. 0 \in Age
      BY TimeAssumption DEF Age
    <3>2. phase' = "none"
      BY <2>2 DEF HandlerOpened, Idles
    <3>3. CASE OwedAgain
      BY <2>2, <3>1, <3>2, <3>3, WriteOne DEF HandlerOpened, OwedAgain, OneInv
    <3>4. CASE ~ OwedAgain
      BY <2>2, <3>2, <3>4 DEF HandlerOpened, OneInv, OneReconnect
    <3> QED
      BY <3>3, <3>4
  <2>3. CASE HandlerEnds
    BY <2>3, EndsOne DEF HandlerEnds
  <2>4. CASE GaveUp
    <3>1. CASE phase = "refused"
      BY <2>4, <3>1, EndsOne DEF GaveUp
    <3>2. CASE phase # "refused"
      BY <2>4, <3>2 DEF GaveUp, Idles, OneInv, OneReconnect
    <3> QED
      BY <3>1, <3>2
  <2>5. ASSUME NEW w \in Work, GiveUp(w) PROVE OneInv'
    BY <2>5 DEF GiveUp, OneInv, OneReconnect
  <2> QED
    BY <1>2, <2>1, <2>2, <2>3, <2>4, <2>5 DEF HandlerStep
<1>3. CASE DialStep
  <2>1. CASE DialOpens \/ DialIsLate \/ DialIsRefused
    <3>1. queued' = queued
      BY <2>1 DEF DialOpens, DialIsLate, DialIsRefused
    <3>2. phase' = phase \/ phase = "dialing"
      BY <2>1 DEF DialOpens, DialIsLate, DialIsRefused
    <3> QED
      BY <3>1, <3>2 DEF OneInv, OneReconnect
  <2>2. CASE DialFails
    <3>1. CASE phase # "dialing"
      BY <2>2, <3>1 DEF DialFails, OneInv, OneReconnect
    <3>2. CASE phase = "dialing" /\ owed = {}
      BY <2>2, <3>2, EndsOne DEF DialFails
    <3>3. CASE phase = "dialing" /\ owed # {}
      <4>1. Write(current) /\ phase' = "retried" /\ queued = <<>> /\ current \in Age
        BY <2>2, <3>3 DEF DialFails, OneInv, TypeOK
      <4> QED
        BY <4>1, WriteOne DEF OneInv
    <3> QED
      BY <3>1, <3>2, <3>3
  <2> QED
    BY <1>3, <2>1, <2>2 DEF DialStep
<1>4. CASE LinkLost
  BY <1>4, OweOne DEF LinkLost
<1>5. CASE PersonConnects
  BY <1>5 DEF PersonConnects, OneInv, OneReconnect
<1>6. CASE ForgetStep
  <2>1. CASE UnlinkCloses \/ LeaveCloses
    <3>1. queued' = queued
      BY <2>1 DEF UnlinkCloses, LeaveCloses
    <3>2. phase' = phase \/ phase = "dialing"
      BY <2>1 DEF UnlinkCloses, LeaveCloses, Closes
    <3> QED
      BY <3>1, <3>2 DEF OneInv, OneReconnect
  <2>2. CASE ReconnectLapses
    BY <2>2 DEF ReconnectLapses, Lapses, OneInv, OneReconnect
  <2>3. CASE Forgets
    BY <2>3 DEF Forgets, OneInv, OneReconnect
  <2> QED
    BY <1>6, <2>1, <2>2, <2>3 DEF ForgetStep
<1>7. CASE Tick
  <2>1. Len(queued') = Len(queued)
    BY <1>7, NoneQueued DEF Tick
  <2> QED
    BY <1>7, <2>1 DEF Tick, OneInv, OneReconnect
<1>8. CASE UNCHANGED vars
  BY <1>8 DEF vars, OneInv, OneReconnect
<1> QED
  BY <1>1, <1>2, <1>3, <1>4, <1>5, <1>6, <1>7, <1>8 DEF Next, Crash

\* While the daemon stays up one reconnect is owed at a time, whatever the work,
\* the link, the machine and the people do in the meantime.
THEOREM OneReconnectOnly ==
  ASSUME CanCrash = FALSE
  PROVE  Spec => []OneReconnect
<1>1. Init => OneInv
  BY DEF Init, OneInv, OneReconnect
<1>2. TypeOK /\ OneInv /\ [Next]_vars => OneInv'
  BY OneKept
<1>3. OneInv => OneReconnect
  BY DEF OneInv
<1> QED
  BY <1>1, <1>2, <1>3, TypeCorrect, PTL DEF Spec

-----------------------------------------------------------------------------
(* No work is stranded, for a daemon that stays up and a window that does  *)
(* not end: nothing is given up late, and what is forgotten is owed        *)
(* nothing.                                                                *)

OwedInv ==
  /\ ReconnectOwed
  /\ Timed({0}) /\ phase # "lapsing"
  /\ forgetting \in {"unlinking", "unlinked"} => owed = {}
  /\ ~ known /\ forgetting = "no" => owed = {}

\* What stands for the reconnect.
Stands == queued # <<>> \/ phase \in {"dialing", "opened"} \/ (Running /\ lostMeanwhile)

LEMMA StandsIsOwed == ReconnectOwed <=>
  (known /\ ~ link /\ forgetting = "no" /\ ~ asleep \cup putOff \subseteq doomed => Stands)
BY DEF ReconnectOwed, Stands

LEMMA NothingOwed ==
  ASSUME TypeOK, owed = {}
  PROVE  asleep \cup putOff \subseteq doomed
BY DEF TypeOK

LEMMA FreshKept ==
  ASSUME CanExpire = FALSE, TypeOK, OwedInv, [Next]_vars
  PROVE  Timed({0})' /\ phase' # "lapsing"
<1> USE DEF work, sleep, line, handler, around, counts
<1>1. ~ Tick
  BY DEF Tick
<1>2. Timed({0})'
  BY <1>1, TimedKept DEF OwedInv
<1>3. ~ HandlerLapses
  <2> SUFFICES ASSUME HandlerLapses PROVE FALSE
    OBVIOUS
  <2>1. queued \in Seq({0}) /\ queued # <<>> /\ Head(queued) = Lifetime
    BY DEF HandlerLapses, OwedInv, Timed
  <2>2. Head(queued) \in {0}
    BY <2>1, HeadTailProperties
  <2> QED
    BY <2>1, <2>2, TimeAssumption
<1>4. phase # "lapsing"
  BY DEF OwedInv
<1>5. ASSUME NEW w \in Work, Give(w) \/ WorkStep(w) \/ Drop(w) PROVE phase' = phase
  BY <1>5 DEF Give, WorkStep, WorkWaits, WorkIsPutOff, WordComes, WorkIsHeard, Drop
<1>6. CASE HandlerStep
  <2>1. ASSUME NEW w \in Work, GiveUp(w) PROVE phase' = phase
    BY <2>1 DEF GiveUp
  <2>2. CASE HandlerIsMoot \/ HandlerDials \/ HandlerOpened
    BY <1>2, <1>4, <2>2 DEF HandlerIsMoot, HandlerDials, Begins, HandlerOpened, Idles
  <2>3. CASE HandlerEnds \/ GaveUp
    BY <1>2, <1>4, <2>3 DEF HandlerEnds, GaveUp, Ends, Idles
  <2> QED
    BY <1>2, <1>3, <1>4, <1>6, <2>1, <2>2, <2>3 DEF HandlerStep
<1>7. CASE DialStep
  <2>1. CASE phase = "dialing"
    BY <1>2, <1>7, <2>1
       DEF DialStep, DialOpens, DialIsLate, DialFails, DialIsRefused, Ends, Idles
  <2>2. CASE phase # "dialing"
    BY <1>2, <1>4, <1>7, <2>2
       DEF DialStep, DialOpens, DialIsLate, DialFails, DialIsRefused
  <2> QED
    BY <1>2, <2>1, <2>2
<1>8. CASE LinkLost \/ PersonConnects
  BY <1>2, <1>4, <1>8 DEF LinkLost, PersonConnects
<1>9. CASE ForgetStep
  BY <1>2, <1>4, <1>9
     DEF ForgetStep, UnlinkCloses, LeaveCloses, Closes, ReconnectLapses, Forgets
<1>10. CASE Crash \/ UNCHANGED vars
  BY <1>2, <1>4, <1>10 DEF Crash, vars
<1> QED
  BY <1>1, <1>2, <1>4, <1>5, <1>6, <1>7, <1>8, <1>9, <1>10 DEF Next

\* owe leaves a reconnect behind whenever there is work.
LEMMA OweStands ==
  ASSUME TypeOK, OwedInv, Owe, owed # {}, known, UNCHANGED phase
  PROVE  Stands'
<1>1. CASE Running
  BY <1>1 DEF Owe, Stands, Running
<1>2. CASE ~ Running /\ Entries # <<>>
  <2>1. ~ kept
    BY <1>2 DEF TypeOK, OwedInv, Running
  <2>2. queued \in Seq(Age) /\ Entries = <<>> \o queued
    BY <2>1 DEF Entries, TypeOK
  <2>3. queued # <<>>
    BY <1>2, <2>2, ConcatEmptySeq
  <2> QED
    BY <1>2, <2>3 DEF Owe, Stands
<1>3. CASE ~ Running /\ Entries = <<>>
  BY <1>3, NoEntriesQueued, WriteSinceOne DEF Owe, Stands
<1> QED
  BY <1>1, <1>2, <1>3

\* A handler that ends leaves the reconnect that stood behind, and only what is
\* woken or heard needs none.
LEMMA EndsStands ==
  ASSUME TypeOK, Stands, ~ link, phase \in {"cut", "refused", "retried"}, Ends
  PROVE  Stands'
<1>1. CASE queued = <<>>
  <2>1. OwedAgain
    BY <1>1 DEF Stands, OwedAgain
  <2> QED
    BY <1>1, <2>1, WriteSinceOne DEF Ends, Stands
<1>2. CASE queued # <<>>
  BY <1>2 DEF Ends, OwedAgain, Stands
<1> QED
  BY <1>1, <1>2

LEMMA ForgottenKept ==
  ASSUME CanCrash = FALSE, TypeOK, OwedInv, [Next]_vars
  PROVE  /\ forgetting' \in {"unlinking", "unlinked"} => owed' = {}
         /\ ~ known' /\ forgetting' = "no" => owed' = {}
<1> USE DEF work, sleep, line, handler, around, counts
<1>0. /\ forgetting \in {"unlinking", "unlinked"} => owed = {}
      /\ ~ known /\ forgetting = "no" => owed = {}
  BY DEF OwedInv
<1>1. ASSUME NEW w \in Work, Give(w) PROVE known' /\ forgetting' = "no"
  BY <1>1 DEF Give
<1>2. ASSUME NEW w \in Work, WorkStep(w) \/ Drop(w) \/ GiveUp(w)
      PROVE  owed' \subseteq owed /\ UNCHANGED <<known, forgetting>>
  BY <1>2 DEF WorkStep, WorkWaits, WorkIsPutOff, WordComes, WorkIsHeard, Drop,
              GiveUp, Leaves
<1>3. CASE HandlerIsMoot \/ HandlerLapses \/ HandlerDials \/ HandlerOpened
             \/ HandlerEnds \/ GaveUp
  BY <1>0, <1>3 DEF HandlerIsMoot, HandlerLapses, HandlerDials, HandlerOpened,
                    HandlerEnds, GaveUp
<1>4. CASE DialStep \/ LinkLost
  BY <1>0, <1>4 DEF DialStep, DialOpens, DialIsLate, DialFails, DialIsRefused, LinkLost
<1>5. CASE PersonConnects
  BY <1>0, <1>5 DEF PersonConnects
<1>6. CASE ForgetStep
  BY <1>0, <1>6 DEF ForgetStep, UnlinkCloses, LeaveCloses, ReconnectLapses, Forgets,
                    TypeOK
<1>7. CASE Tick \/ UNCHANGED vars
  BY <1>0, <1>7 DEF Tick, vars
<1> QED
  BY <1>0, <1>1, <1>2, <1>3, <1>4, <1>5, <1>6, <1>7 DEF Next, HandlerStep, Crash

\* Work that leaves wakes nobody and strands nobody.
LEMMA LeavesStrandsNone ==
  ASSUME NEW w \in Work, Leaves(w), asleep \cup putOff \subseteq doomed
  PROVE  asleep' \cup putOff' \subseteq doomed'
BY DEF Leaves

LEMMA OwedKept ==
  ASSUME CanExpire = FALSE, CanCrash = FALSE, TypeOK, OwedInv, [Next]_vars
  PROVE  ReconnectOwed'
<1> USE DEF work, sleep, line, handler, around, counts
<1> SUFFICES ASSUME known', ~ link', forgetting' = "no",
                    ~ asleep' \cup putOff' \subseteq doomed'
             PROVE  Stands'
  BY DEF ReconnectOwed, Stands
<1>0. known /\ ~ link /\ forgetting = "no" /\ ~ asleep \cup putOff \subseteq doomed
        => Stands
  BY StandsIsOwed DEF OwedInv
<1>1. ASSUME NEW w \in Work, Give(w) PROVE Stands'
  BY <1>0, <1>1 DEF Give, Stands, Running
<1>2. ASSUME NEW w \in Work, WorkStep(w) PROVE Stands'
  <2>1. CASE WorkWaits(w)
    <3>1. Owe /\ owed # {} /\ known /\ UNCHANGED phase
      BY <2>1 DEF WorkWaits, Ready
    <3> QED
      BY <3>1, OweStands
  <2>2. CASE ~ WorkWaits(w)
    <3>1. link /\ link' = link
      BY <1>2, <2>2 DEF WorkStep, WorkIsPutOff, WordComes, WorkIsHeard
    <3> QED
      BY <3>1
  <2> QED
    BY <2>1, <2>2
<1>3. ASSUME NEW w \in Work, Drop(w) \/ GiveUp(w) PROVE Stands'
  <2>1. Leaves(w) /\ UNCHANGED <<around, queued, line, handler, counts>>
    BY <1>3 DEF Drop, GiveUp
  <2>2. known /\ ~ link /\ forgetting = "no" /\ ~ asleep \cup putOff \subseteq doomed
    BY <2>1, LeavesStrandsNone
  <2> QED
    BY <1>0, <2>1, <2>2 DEF Stands, Running
<1>4. CASE HandlerIsMoot
  <2>1. owed = {}
    BY <1>4 DEF HandlerIsMoot
  <2> QED
    BY <1>4, <2>1, NothingOwed DEF HandlerIsMoot
<1>5. CASE HandlerLapses \/ HandlerDials
  <2>1. phase' \in {"lapsing", "dialing", "opened"}
    BY <1>5 DEF HandlerLapses, HandlerDials, Begins
  <2> QED
    BY <2>1, FreshKept DEF Stands
<1>6. CASE HandlerOpened
  BY <1>6 DEF HandlerOpened, WakeOwed
<1>7. CASE HandlerEnds \/ GaveUp
  <2>1. phase \in {"cut", "refused", "retried"} /\ Ends
    BY <1>7 DEF HandlerEnds, GaveUp, OwedInv
  <2>2. UNCHANGED <<work, link, known, forgetting>>
    BY <1>7 DEF HandlerEnds, GaveUp
  <2> QED
    BY <1>0, <2>1, <2>2, EndsStands
<1>8. CASE DialOpens \/ DialIsLate
  BY <1>8 DEF DialOpens, DialIsLate
<1>9. CASE DialFails
  <2>1. UNCHANGED <<work, link, known, forgetting>>
    BY <1>9 DEF DialFails
  <2>2. CASE phase # "dialing"
    BY <1>0, <1>9, <2>1, <2>2 DEF DialFails, Stands, Running
  <2>3. CASE phase = "dialing" /\ owed = {}
    BY <2>1, <2>3, NothingOwed
  <2>4. CASE phase = "dialing" /\ owed # {}
    <3>1. Write(current) /\ queued \in Seq(Age) /\ current \in Age
      BY <1>9, <2>4 DEF DialFails, TypeOK
    <3> QED
      BY <3>1, WriteTyped DEF Stands
  <2> QED
    BY <2>2, <2>3, <2>4
<1>10. CASE DialIsRefused
  <2>1. CASE phase = "dialing"
    BY <1>10, <2>1 DEF DialIsRefused, TypeOK
  <2>2. CASE phase # "dialing"
    BY <1>0, <1>10, <2>2 DEF DialIsRefused, Stands, Running
  <2> QED
    BY <2>1, <2>2
<1>11. CASE LinkLost
  <2>1. owed # {}
    BY <1>11, NothingOwed DEF LinkLost
  <2> QED
    BY <1>11, <2>1, OweStands DEF LinkLost
<1>12. CASE PersonConnects
  <2>1. owed # {}
    BY <1>12, NothingOwed DEF PersonConnects
  <2>2. known
    BY <1>12, <2>1 DEF PersonConnects, OwedInv
  <2> QED
    BY <1>0, <1>12, <2>2 DEF PersonConnects, Stands, Running
<1>13. CASE ForgetStep
  <2>1. CASE Forgets
    BY <2>1 DEF Forgets
  <2>2. CASE ~ Forgets
    BY <1>13, <2>2 DEF ForgetStep, UnlinkCloses, LeaveCloses, ReconnectLapses
  <2> QED
    BY <2>1, <2>2
<1>14. CASE UNCHANGED vars
  BY <1>0, <1>14 DEF vars, Stands, Running
<1> QED
  BY <1>1, <1>2, <1>3, <1>4, <1>5, <1>6, <1>7, <1>8, <1>9, <1>10, <1>11, <1>12,
     <1>13, <1>14 DEF Next, HandlerStep, DialStep, Tick, Crash

\* While the daemon stays up and no window ends, work that waits for a link that is
\* down has a reconnect that stands for it, whatever the order of lost links,
\* attempts, refusals, stops, unlinks and leaves.
THEOREM NoWorkStranded ==
  ASSUME CanExpire = FALSE, CanCrash = FALSE
  PROVE  Spec => []ReconnectOwed
<1>1. Init => OwedInv
  <2>1. <<>> \in Seq({0})
    BY EmptySeq
  <2> QED
    BY <2>1 DEF Init, OwedInv, ReconnectOwed, Timed
<1>2. TypeOK /\ OwedInv /\ [Next]_vars => OwedInv'
  <2> SUFFICES ASSUME TypeOK, OwedInv, [Next]_vars PROVE OwedInv'
    OBVIOUS
  <2>1. Timed({0})' /\ phase' # "lapsing"
    BY FreshKept
  <2>2. /\ forgetting' \in {"unlinking", "unlinked"} => owed' = {}
        /\ ~ known' /\ forgetting' = "no" => owed' = {}
    BY ForgottenKept
  <2>3. ReconnectOwed'
    BY OwedKept
  <2> QED
    BY <2>1, <2>2, <2>3 DEF OwedInv
<1>3. OwedInv => ReconnectOwed
  BY DEF OwedInv
<1> QED
  BY <1>1, <1>2, <1>3, TypeCorrect, PTL DEF Spec

-----------------------------------------------------------------------------
(* No window ends early, for a daemon that stays up and links that only    *)
(* the handler opens: what is counted is never longer than no link was     *)
(* open.  What a handler counted is not looked at any more once it opened  *)
(* the link.                                                               *)

Past == 0 .. quiet

LateInv ==
  /\ queued \in Seq(Past)
  /\ phase # "opened" => firstOwed \subseteq Past
  /\ phase \notin {"none", "opened"} => current \in Past
  /\ dialing => phase = "dialing"
  /\ link /\ phase # "opened" => firstOwed = {}

\* What is written down for the work counts from an age that is not too old.
LEMMA SinceIsPast ==
  ASSUME TypeOK, LateInv, phase # "opened"
  PROVE  Since \in Past
<1>1. queued \in Seq(Past) /\ <<>> \in Seq(Past) /\ 0 \in Past
  BY EmptySeq DEF LateInv, Past, TypeOK, Age
<1>2. Entries \in Seq(Past)
  <2>1. CASE kept
    <3>1. <<current>> \in Seq(Past)
      BY <2>1 DEF LateInv, TypeOK
    <3> QED
      BY <1>1, <2>1, <3>1, ConcatProperties DEF Entries
  <2>2. CASE ~ kept
    BY <1>1, <2>2, ConcatProperties DEF Entries
  <2> QED
    BY <2>1, <2>2
<1>3. CASE firstOwed # {}
  <2>1. (CHOOSE a \in firstOwed : TRUE) \in firstOwed
    BY <1>3
  <2> QED
    BY <1>3, <2>1 DEF Since, LateInv
<1>4. CASE firstOwed = {} /\ Entries # <<>>
  BY <1>2, <1>4, HeadTailProperties DEF Since
<1>5. CASE firstOwed = {} /\ Entries = <<>>
  BY <1>1, <1>5 DEF Since
<1> QED
  BY <1>3, <1>4, <1>5

LEMMA WritesPast ==
  ASSUME TypeOK, LateInv, phase # "opened", WriteSince
  PROVE  queued' \in Seq(Past) /\ firstOwed' \subseteq Past
<1>1. Since \in Past
  BY SinceIsPast
<1>2. queued' \in Seq(Past)
  BY <1>1, WriteTyped DEF WriteSince, LateInv
<1> QED
  BY <1>1, <1>2 DEF WriteSince

\* owe writes nothing for a handler that runs.
LEMMA OwesPast ==
  ASSUME TypeOK, LateInv, Owe, UNCHANGED <<phase, current, dialing, quiet>>, ~ link'
  PROVE  LateInv'
<1>1. Past' = Past
  BY DEF Past
<1>2. CASE owed # {} /\ known /\ ~ Running /\ Entries = <<>>
  <2>1. WriteSince /\ phase # "opened"
    BY <1>2 DEF Owe, Running
  <2> QED
    BY <1>1, <2>1, WritesPast DEF LateInv
<1>3. CASE ~ (owed # {} /\ known /\ ~ Running /\ Entries = <<>>)
  BY <1>1, <1>3 DEF Owe, LateInv, counts
<1> QED
  BY <1>2, <1>3

LEMMA EndsPast ==
  ASSUME TypeOK, LateInv, phase # "opened", Ends, UNCHANGED <<link, quiet>>, dialing' = FALSE
  PROVE  LateInv'
<1>1. Past' = Past
  BY DEF Past
<1>2. CASE OwedAgain
  <2>1. WriteSince /\ ~ link
    BY <1>2 DEF Ends, OwedAgain
  <2> QED
    BY <1>1, <2>1, WritesPast DEF Ends, Idles, LateInv
<1>3. CASE ~ OwedAgain
  BY <1>1, <1>3 DEF Ends, Idles, LateInv
<1> QED
  BY <1>2, <1>3

LEMMA LateKept ==
  ASSUME CanConnect = FALSE, CanCrash = FALSE, TypeOK, OneInv, LateInv, [Next]_vars
  PROVE  LateInv'
<1> USE DEF work, sleep, line, handler, around, counts
<1>0. /\ quiet \in Nat /\ 0 \in Past /\ queued \in Seq(Past) /\ <<>> \in Seq(Past)
      /\ (UNCHANGED quiet => Past' = Past)
  BY EmptySeq DEF LateInv, Past, TypeOK, Age
<1>1. ASSUME NEW w \in Work, Give(w) \/ WorkStep(w) \/ Drop(w) PROVE LateInv'
  <2>1. CASE WorkWaits(w)
    BY <2>1, OwesPast DEF WorkWaits
  <2>2. CASE ~ WorkWaits(w)
    BY <1>0, <1>1, <2>2
       DEF Give, WorkStep, WorkIsPutOff, WordComes, WorkIsHeard, Drop, LateInv
  <2> QED
    BY <2>1, <2>2
<1>2. CASE HandlerStep
  <2>1. CASE HandlerIsMoot
    <3>1. Tail(queued) \in Seq(Past)
      BY <1>0, <2>1, HeadTailProperties DEF HandlerIsMoot
    <3> QED
      BY <1>0, <2>1, <3>1 DEF HandlerIsMoot, LateInv
  <2>2. CASE HandlerLapses
    <3>1. queued' \in Seq(Past) /\ current' \in Past
      BY <1>0, <2>2, BeginsTyped DEF HandlerLapses
    <3> QED
      BY <1>0, <2>2, <3>1 DEF HandlerLapses, Begins, LateInv
  <2>3. CASE HandlerDials
    <3>1. queued' \in Seq(Past) /\ Head(queued) \in Past /\ current' \in Past
      BY <1>0, <2>3, BeginsTyped DEF HandlerDials
    <3>2. phase' = (IF link THEN "opened" ELSE "dialing") /\ dialing' = ~ link
          /\ firstOwed' = {Head(queued)} /\ UNCHANGED <<link, quiet>>
      BY <2>3 DEF HandlerDials, Begins
    <3> QED
      BY <1>0, <3>1, <3>2 DEF LateInv, TypeOK
  <2>4. CASE HandlerOpened
    <3>1. queued' \in Seq(Past)
      BY <1>0, <2>4, WriteTyped DEF HandlerOpened
    <3> QED
      BY <1>0, <2>4, <3>1 DEF HandlerOpened, Idles, LateInv
  <2>5. CASE HandlerEnds
    <3>1. dialing' = FALSE /\ phase # "opened"
      BY <2>5 DEF HandlerEnds, LateInv, TypeOK
    <3> QED
      BY <2>5, <3>1, EndsPast DEF HandlerEnds
  <2>6. CASE GaveUp
    <3>1. dialing' = FALSE /\ phase # "opened"
      BY <2>6 DEF GaveUp, LateInv, TypeOK
    <3>2. CASE phase = "refused"
      BY <2>6, <3>1, <3>2, EndsPast DEF GaveUp
    <3>3. CASE phase # "refused"
      BY <1>0, <2>6, <3>1, <3>3 DEF GaveUp, Idles, LateInv
    <3> QED
      BY <3>2, <3>3
  <2>7. ASSUME NEW w \in Work, GiveUp(w) PROVE LateInv'
    BY <1>0, <2>7 DEF GiveUp, LateInv
  <2> QED
    BY <1>2, <2>1, <2>2, <2>3, <2>4, <2>5, <2>6, <2>7 DEF HandlerStep
<1>3. CASE DialStep
  <2>0. phase = "dialing" /\ queued = <<>> /\ current \in Past /\ ~ link
    BY <1>3 DEF DialStep, DialOpens, DialIsLate, DialFails, DialIsRefused, LateInv, OneInv, TypeOK
  <2>1. CASE DialOpens
    <3>1. queued' = <<>> /\ phase' = "opened" /\ dialing' = FALSE
      BY <2>0, <2>1 DEF DialOpens
    <3> QED
      BY <3>1, EmptySeq DEF LateInv
  <2>2. CASE DialIsLate \/ DialIsRefused
    <3>1. phase' \in {"cut", "refused"} /\ dialing' = FALSE
      BY <2>0, <2>2 DEF DialIsLate, DialIsRefused
    <3>2. UNCHANGED <<queued, current, link, quiet>> /\ firstOwed' \subseteq firstOwed
      BY <2>0, <2>2 DEF DialIsLate, DialIsRefused
    <3> QED
      BY <1>0, <2>0, <3>1, <3>2 DEF LateInv
  <2>3. CASE DialFails /\ owed = {}
    BY <2>0, <2>3, EndsPast DEF DialFails
  <2>4. CASE DialFails /\ owed # {}
    <3>1. Write(current) /\ phase' = "retried" /\ dialing' = FALSE
          /\ UNCHANGED <<current, firstOwed, link, quiet>>
      BY <2>0, <2>4 DEF DialFails
    <3>2. queued' \in Seq(Past)
      BY <1>0, <2>0, <3>1, WriteTyped
    <3> QED
      BY <1>0, <2>0, <3>1, <3>2 DEF LateInv
  <2> QED
    BY <1>3, <2>1, <2>2, <2>3, <2>4 DEF DialStep
<1>4. CASE LinkLost
  BY <1>4, OwesPast DEF LinkLost
<1>5. CASE ForgetStep
  <2>1. CASE UnlinkCloses \/ LeaveCloses
    <3>1. /\ phase' = (IF phase = "dialing" THEN "cut" ELSE phase)
          /\ dialing' = FALSE /\ link' = FALSE
          /\ UNCHANGED <<queued, current, firstOwed, quiet>>
      BY <2>1 DEF UnlinkCloses, LeaveCloses, Closes
    <3> QED
      BY <1>0, <3>1 DEF LateInv
  <2>2. CASE ReconnectLapses
    BY <1>0, <2>2 DEF ReconnectLapses, Lapses, LateInv
  <2>3. CASE Forgets
    BY <1>0, <2>3 DEF Forgets, LateInv
  <2> QED
    BY <1>5, <2>1, <2>2, <2>3 DEF ForgetStep
<1>6. CASE Tick
  <2>1. UNCHANGED <<phase, current, link, dialing>> /\ phase = "none" /\ ~ dialing
    BY <1>6 DEF Tick
  <2>2. CASE link
    <3>1. queued = <<>> /\ firstOwed = {} /\ Len(queued) = 0
      BY <1>6, <2>1, <2>2 DEF Tick, LateInv
    <3>2. queued' = <<>>
      BY <1>6, <3>1 DEF Tick
    <3>3. firstOwed' = {}
      BY <1>6, <3>1 DEF Tick
    <3> QED
      BY <2>1, <3>2, <3>3, EmptySeq DEF LateInv
  <2>3. CASE ~ link
    <3>1. quiet' = Older(quiet) /\ \A a \in Past : Older(a) \in Past'
      <4>1. quiet' = Older(quiet) /\ quiet \in 0 .. Lifetime /\ Lifetime \in Nat
        BY <1>6, <2>3, TimeAssumption DEF Tick, TypeOK, Age
      <4> QED
        BY <4>1 DEF Older, Past
    <3>2. queued' \in Seq(Past')
      BY <1>0, <1>6, <3>1 DEF Tick
    <3>3. firstOwed' \subseteq Past'
      BY <1>6, <2>1, <3>1 DEF Tick, LateInv
    <3> QED
      BY <2>1, <2>3, <3>2, <3>3 DEF LateInv
  <2> QED
    BY <2>2, <2>3
<1>7. CASE UNCHANGED vars
  BY <1>0, <1>7 DEF vars, LateInv
<1> QED
  BY <1>1, <1>2, <1>3, <1>4, <1>5, <1>6, <1>7 DEF Next, Crash, PersonConnects

\* The window ends for a handler only, and for an entry as old as the window.
LEMMA LapsesLate ==
  ASSUME TypeOK, LateInv, [Next]_vars, phase # "lapsing", phase' = "lapsing"
  PROVE  quiet = Lifetime
<1> USE DEF work, sleep, line, handler, around, counts
<1>1. HandlerLapses
  <2>1. ASSUME NEW w \in Work, Give(w) \/ WorkStep(w) \/ Drop(w) \/ GiveUp(w) PROVE FALSE
    BY <2>1 DEF Give, WorkStep, WorkWaits, WorkIsPutOff, WordComes, WorkIsHeard, Drop, GiveUp
  <2>2. ~ (HandlerIsMoot \/ HandlerDials \/ HandlerOpened \/ HandlerEnds \/ GaveUp)
    BY DEF HandlerIsMoot, HandlerDials, Begins, HandlerOpened, HandlerEnds, GaveUp, Ends, Idles
  <2>3. ~ DialStep
    BY DEF DialStep, DialOpens, DialIsLate, DialFails, DialIsRefused, Ends, Idles
  <2>4. ~ (LinkLost \/ PersonConnects \/ ForgetStep \/ Tick \/ Crash \/ UNCHANGED vars)
    BY DEF LinkLost, PersonConnects, ForgetStep, UnlinkCloses, LeaveCloses, Closes,
           ReconnectLapses, Forgets, Tick, Crash, vars
  <2> QED
    BY <2>1, <2>2, <2>3, <2>4 DEF Next, HandlerStep
<1>2. Lifetime \in Past
  BY <1>1, HeadTailProperties DEF HandlerLapses, LateInv
<1> QED
  BY <1>2, TimeAssumption DEF Past, TypeOK, Age

\* connect-peer.ts:48-49, 105-110: while the daemon stays up and only its handler opens
\* links, work is given up on only after a whole window in which no link was open, whatever
\* failures, refusals, lost links, stops, unlinks and leaves fell into it.
THEOREM NoWindowEndsEarly ==
  ASSUME CanConnect = FALSE, CanCrash = FALSE
  PROVE  Spec => GivesUpLate
<1>1. Init => LateInv /\ OneInv
  BY EmptySeq DEF Init, LateInv, OneInv, OneReconnect, Past
<1>2. TypeOK /\ OneInv /\ LateInv /\ [Next]_vars => LateInv' /\ OneInv'
  BY LateKept, OneKept
<1>3. TypeOK /\ LateInv /\ [Next]_vars
        => [phase # "lapsing" /\ phase' = "lapsing" => quiet = Lifetime]_vars
  BY LapsesLate
<1> QED
  BY <1>1, <1>2, <1>3, TypeCorrect, PTL DEF Spec, GivesUpLate

=============================================================================
