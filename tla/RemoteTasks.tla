----------------------------- MODULE RemoteTasks -----------------------------
(***************************************************************************)
(* The tasks of this machine that run on another one: the giving machine   *)
(* of apps/server/src/remote/remote-tasks.ts.                              *)
(*                                                                         *)
(* One other machine, one task for each node.  What is owed to the machine *)
(* are entries of the outbox, which is on disk: a start, then the result   *)
(* to take, or a stop.  The worker of the outbox (external) runs one       *)
(* handler at a time for each node and one for the stops; a handler that   *)
(* returns 'wait' keeps its entry, which runs again when its target is     *)
(* woken, also when it was woken while the handler ran.  A handler is cut  *)
(* at its awaits.  What the other machine answers is any answer here; the  *)
(* module Delegation answers with PeerTasks.                               *)
(***************************************************************************)
EXTENDS Naturals, FiniteSets

CONSTANTS
  Nodes,      \* the nodes that stand for agents on the other machine
  CanGiveUp,  \* whether the machine may stay out of reach for 7 days
  CanLeave,   \* whether this machine may leave its account
  CanCrash    \* whether the daemon may go down

ASSUME EventsAssumption ==
  CanGiveUp \in BOOLEAN /\ CanLeave \in BOOLEAN /\ CanCrash \in BOOLEAN

VARIABLES
  \* on disk
  given,     \* the task of each node
  starts,    \* nodes with a start-remote-agent entry
  sent,      \* start entries marked as sent
  takes,     \* nodes with a take-remote-result entry
  stops,     \* the stop-remote-agent entries
  \* in memory
  giving,    \* tasks opened whose start is not owed yet
  pc,        \* where the handler of each node is
  report,    \* the status the machine reported, while the work comes back
  waiting,   \* nodes whose entry waits for a wake
  woken,     \* nodes woken while their handler ran
  dead,      \* handlers that hold a link that is gone
  stale,     \* handlers that began before this machine left its account
  stopWait,  \* stop entries that wait for a wake
  ending,    \* the stop entry that is being asked
  dropping,  \* oweStop dropped the entries of the node and owes its stop next
  failing,   \* giveUp or leave dropped the entries and fails the task next
  link,      \* whether the link to the machine is open
  lost       \* ghost: a crash came while the node was in giving or in failing

vars == <<given, starts, sent, takes, stops, giving, pc, report, waiting, woken,
          dead, stale, stopWait, ending, dropping, failing, link, lost>>

disk == <<given, starts, sent, takes, stops>>
carried == <<report, waiting, woken, dead, stale>>
lane == <<pc, carried>>
stopLane == <<stopWait, ending>>
aside == <<giving, dropping, failing, lost>>

Settled == {"done", "failed", "cancelled"}
StartSteps == {"sending", "marking", "asked", "heard", "closing"}
TakeSteps == {"asking", "bringing", "acking"}
\* Steps that hold the link; those of Asking only wait for its answer.
Linked == {"sending", "marking", "asked"} \cup TakeSteps
Asking == {"asked", "asking", "acking"}
Stops == [node : Nodes, once : BOOLEAN]

TypeOK ==
  /\ given \in [Nodes -> {"none", "open"} \cup Settled]
  /\ starts \subseteq Nodes /\ sent \subseteq Nodes /\ takes \subseteq Nodes
  /\ stops \subseteq Stops
  /\ giving \subseteq Nodes
  /\ pc \in [Nodes -> {"idle"} \cup StartSteps \cup TakeSteps]
  /\ report \in [Nodes -> {"none"} \cup Settled]
  /\ waiting \subseteq Nodes /\ woken \subseteq Nodes
  /\ dead \subseteq Nodes /\ stale \subseteq Nodes
  /\ stopWait \subseteq stops /\ ending \subseteq Stops
  /\ dropping \subseteq Nodes
  /\ failing \in [Nodes -> {"no", "unreached", "left"}]
  /\ link \in BOOLEAN
  /\ lost \subseteq Nodes

Init ==
  /\ given = [n \in Nodes |-> "none"]
  /\ starts = {} /\ sent = {} /\ takes = {} /\ stops = {} /\ giving = {}
  /\ pc = [n \in Nodes |-> "idle"]
  /\ report = [n \in Nodes |-> "none"]
  /\ waiting = {} /\ woken = {} /\ dead = {} /\ stale = {}
  /\ stopWait = {} /\ ending = {} /\ dropping = {}
  /\ failing = [n \in Nodes |-> "no"]
  /\ link = FALSE
  /\ lost = {}

-----------------------------------------------------------------------------
(* What handlers share. *)

Running == {n \in Nodes : pc[n] # "idle"}

\* The worker may run an entry of the node.
Ready(n) == pc[n] = "idle" /\ n \notin waiting

To(n, step) == pc' = [pc EXCEPT ![n] = step]

\* The handler of a node returns; waits says whether its entry stays for a wake.
Returns(n, waits) ==
  /\ To(n, "idle")
  /\ waiting' = IF waits /\ n \notin woken THEN waiting \cup {n} ELSE waiting
  /\ woken' = woken \ {n}
  /\ dead' = dead \ {n}
  /\ stale' = stale \ {n}
  /\ report' = [report EXCEPT ![n] = "none"]

\* The handler returns and what waits in S looks again.
ReturnsAndWakes(n, S) ==
  /\ To(n, "idle")
  /\ waiting' = waiting \ S
  /\ woken' = (woken \cup (S \cap Running)) \ {n}
  /\ dead' = dead \ {n}
  /\ stale' = stale \ {n}
  /\ report' = [report EXCEPT ![n] = "none"]

\* wake: an entry that waits is ready, a handler that runs will run once more.
Wake(S) ==
  /\ waiting' = waiting \ S
  /\ woken' = woken \cup (S \cap Running)

\* Mutant: the nodes that wait for a place are never told.
NoStarts(n) == {}

\* wakeStarts: the other nodes that wait to start.
OtherStarts(n) == starts \ {n}

\* Mutant: a task fails whatever became of it.
FailAnyTask(n) == given' = [given EXCEPT ![n] = "failed"]

FailTask(n) == given' = [given EXCEPT ![n] = IF @ = "open" THEN "failed" ELSE @]

\* oweStopTo: one stop that is not asked once is enough.
OweStopTo(n) == stops' = stops \cup {[node |-> n, once |-> FALSE]}

-----------------------------------------------------------------------------
(* A task is given: the task first, then the entry that asks for its start. *)

GiveOpens(n) ==
  /\ given[n] = "none"
  /\ given' = [given EXCEPT ![n] = "open"]
  /\ giving' = giving \cup {n}
  /\ UNCHANGED <<starts, sent, takes, stops, lane, stopLane, dropping, failing,
                 link, lost>>

GiveOwes(n) ==
  /\ n \in giving
  /\ giving' = giving \ {n}
  /\ starts' = starts \cup {n}
  /\ UNCHANGED <<given, sent, takes, stops, lane, stopLane, dropping, failing, link,
                 lost>>

-----------------------------------------------------------------------------
(* start *)

\* Stopped before it started: nothing was asked, so nothing is owed.
StartIsMoot(n) ==
  /\ Ready(n) /\ n \in starts
  /\ given[n] # "open"
  /\ starts' = starts \ {n} /\ sent' = sent \ {n}
  /\ UNCHANGED <<given, takes, stops, lane, stopLane, aside, link>>

StartWaitsForLink(n) ==
  /\ Ready(n) /\ n \in starts
  /\ given[n] = "open" /\ ~ link
  /\ waiting' = waiting \cup {n}
  /\ UNCHANGED <<disk, pc, report, woken, dead, stale, stopLane, aside, link>>

StartSends(n) ==
  /\ Ready(n) /\ n \in starts
  /\ given[n] = "open" /\ link
  /\ To(n, "sending")
  /\ UNCHANGED <<disk, carried, stopLane, aside, link>>

MarkSent(n) == sent' = sent \cup {n}

\* The checkout went over, or there is none: the entry is marked before the ask.
StartMarks(n) ==
  /\ pc[n] = "sending" /\ n \notin dead
  /\ To(n, "marking")
  /\ MarkSent(n)
  /\ UNCHANGED <<given, starts, takes, stops, carried, stopLane, aside, link>>

\* Stopped while the checkout went over: the start is not asked at all.
StartIsDropped(n) ==
  /\ pc[n] = "marking" /\ n \notin starts
  /\ Returns(n, FALSE)
  /\ sent' = sent \ {n}
  /\ UNCHANGED <<given, starts, takes, stops, stopLane, aside, link>>

StartAsks(n) ==
  /\ pc[n] = "marking" /\ n \in starts /\ n \notin dead
  /\ To(n, "asked")
  /\ UNCHANGED <<disk, carried, stopLane, aside, link>>

StartHears(n) ==
  /\ pc[n] = "asked" /\ n \notin dead
  /\ To(n, "heard")
  /\ UNCHANGED <<disk, carried, stopLane, aside, link>>

\* started: the result is owed from now on, or a stop when the task ended.
StartIsHeard(n) ==
  /\ pc[n] = "heard"
  /\ To(n, "closing")
  /\ IF n \in stale THEN UNCHANGED <<takes, stops>>
     ELSE IF given[n] = "open"
     THEN takes' = takes \cup {n} /\ UNCHANGED stops
     ELSE OweStopTo(n) /\ UNCHANGED takes
  /\ UNCHANGED <<given, starts, sent, carried, stopLane, aside, link>>

\* The worker removes the entry; a start that sent a checkout left room for
\* the others.
StartCloses(n) ==
  /\ pc[n] = "closing"
  /\ \E S \in {{}, OtherStarts(n)} : ReturnsAndWakes(n, S)
  /\ starts' = starts \ {n} /\ sent' = sent \ {n}
  /\ UNCHANGED <<given, takes, stops, stopLane, aside, link>>

\* Mutant: a start whose link went counts as refused.
StartBreaksOff(n) ==
  /\ pc[n] \in {"sending", "asked"} \/ (pc[n] = "marking" /\ n \in starts)
  /\ n \in dead
  /\ FailTask(n)
  /\ starts' = starts \ {n} /\ sent' = sent \ {n}
  /\ Returns(n, FALSE)
  /\ UNCHANGED <<takes, stops, stopLane, aside, link>>

\* The link went while something was out: wait for it, owe the stop of a start
\* that was dropped meanwhile, or try again over a link that is open already.
StartBreaks(n) ==
  /\ pc[n] \in {"sending", "asked"} \/ (pc[n] = "marking" /\ n \in starts)
  /\ n \in dead
  /\ LET dropped == n \notin stale /\ ~ link /\ n \in sent /\ n \notin starts
     IN  /\ IF dropped THEN OweStopTo(n) ELSE UNCHANGED stops
         /\ Returns(n, n \notin stale /\ ~ link /\ ~ dropped)
  /\ sent' = IF n \in starts THEN sent ELSE sent \ {n}
  /\ UNCHANGED <<given, starts, takes, stopLane, aside, link>>

\* peer-busy, or peer-bundle-limit while the checkout goes over.
StartIsPutOff(n) ==
  /\ pc[n] \in {"sending", "asked"} /\ n \notin dead
  /\ IF n \in stale THEN UNCHANGED sent ELSE sent' = sent \ {n}
  /\ Returns(n, n \notin stale)
  /\ UNCHANGED <<given, starts, takes, stops, stopLane, aside, link>>

StartIsRefused(n) ==
  /\ pc[n] \in {"sending", "asked"} /\ n \notin dead
  /\ IF n \in stale THEN UNCHANGED given ELSE FailTask(n)
  /\ starts' = starts \ {n} /\ sent' = sent \ {n}
  /\ Returns(n, FALSE)
  /\ UNCHANGED <<takes, stops, stopLane, aside, link>>

\* An error that is no refusal is thrown: the worker tries the entry again.
StartErrs(n) ==
  /\ pc[n] \in {"sending", "asked"} /\ n \notin dead
  /\ Returns(n, FALSE)
  /\ sent' = IF n \in starts THEN sent ELSE sent \ {n}
  /\ UNCHANGED <<given, starts, takes, stops, stopLane, aside, link>>

-----------------------------------------------------------------------------
(* take *)

TakeWaitsForLink(n) ==
  /\ Ready(n) /\ n \in takes /\ ~ link
  /\ waiting' = waiting \cup {n}
  /\ UNCHANGED <<disk, pc, report, woken, dead, stale, stopLane, aside, link>>

\* Settled here before: only the acknowledgment is left.
TakeAsks(n) ==
  /\ Ready(n) /\ n \in takes /\ link
  /\ To(n, IF given[n] = "open" THEN "asking" ELSE "acking")
  /\ UNCHANGED <<disk, carried, stopLane, aside, link>>

TakeHearsOpen(n) ==
  /\ pc[n] = "asking" /\ n \notin dead
  /\ Returns(n, n \notin stale)
  /\ UNCHANGED <<disk, stopLane, aside, link>>

\* Mutant: the report is acknowledged and the task left open.
TakeAcksUnknown(n) ==
  /\ pc[n] = "asking" /\ n \notin dead
  /\ IF n \in stale
     THEN Returns(n, FALSE)
     ELSE /\ To(n, "acking")
          /\ UNCHANGED <<report, waiting, woken, dead, stale>>
  /\ UNCHANGED <<disk, stopLane, aside, link>>

TakeHearsUnknown(n) ==
  /\ pc[n] = "asking" /\ n \notin dead
  /\ IF n \in stale
     THEN Returns(n, FALSE) /\ UNCHANGED given
     ELSE /\ FailTask(n) /\ To(n, "acking")
          /\ UNCHANGED <<report, waiting, woken, dead, stale>>
  /\ UNCHANGED <<starts, sent, takes, stops, stopLane, aside, link>>

TakeHears(n, status) ==
  /\ pc[n] = "asking" /\ n \notin dead
  /\ IF n \in stale
     THEN Returns(n, FALSE)
     ELSE /\ To(n, "bringing")
          /\ report' = [report EXCEPT ![n] = status]
          /\ UNCHANGED <<waiting, woken, dead, stale>>
  /\ UNCHANGED <<disk, stopLane, aside, link>>

\* What was stopped there failed here.
Outcome(status) == IF status = "done" THEN "done" ELSE "failed"

\* settle: the work came back or could not, and the task settles from the report.
TakeSettles(n) ==
  /\ pc[n] = "bringing" /\ n \notin dead /\ n \notin stale
  /\ given' = [given EXCEPT ![n] = IF @ = "open" THEN Outcome(report[n]) ELSE @]
  /\ To(n, "acking")
  /\ UNCHANGED <<starts, sent, takes, stops, carried, stopLane, aside, link>>

\* A handler that outlived the account keeps nothing.
TakeIsStale(n) ==
  /\ pc[n] \in {"bringing", "acking"} /\ n \in stale
  /\ Returns(n, FALSE)
  /\ UNCHANGED <<disk, stopLane, aside, link>>

TakeIsAcked(n) ==
  /\ pc[n] = "acking" /\ n \notin dead
  /\ takes' = takes \ {n}
  /\ ReturnsAndWakes(n, OtherStarts(n))
  /\ UNCHANGED <<given, starts, sent, stops, stopLane, aside, link>>

\* The link went: wait for it.  An ask that failed over a link that is open
\* again is thrown, a transfer waits.
TakeBreaks(n) ==
  /\ pc[n] \in TakeSteps /\ n \in dead
  /\ Returns(n, n \notin stale /\ (~ link \/ pc[n] = "bringing"))
  /\ UNCHANGED <<disk, stopLane, aside, link>>

\* Mutant: a refusal drops the entry and leaves the task open.
TakeIsDropped(n) ==
  /\ pc[n] \in {"asking", "acking"} /\ n \notin dead
  /\ takes' = takes \ {n}
  /\ Returns(n, FALSE)
  /\ UNCHANGED <<given, starts, sent, stops, stopLane, aside, link>>

\* The machine will not report: peer-not-linked and every other refusal.
TakeIsRefused(n) ==
  /\ pc[n] \in {"asking", "acking"} /\ n \notin dead
  /\ IF n \in stale THEN UNCHANGED given ELSE FailTask(n)
  /\ takes' = takes \ {n}
  /\ Returns(n, FALSE)
  /\ UNCHANGED <<starts, sent, stops, stopLane, aside, link>>

TakeErrs(n) ==
  /\ pc[n] \in {"asking", "acking"} /\ n \notin dead
  /\ Returns(n, FALSE)
  /\ UNCHANGED <<disk, stopLane, aside, link>>

-----------------------------------------------------------------------------
(* peerSettled *)

Unwaited(n) == n \notin starts \cup takes /\ given[n] # "open"

\* Mutant: the entry of the node itself is not woken.
PeerSettledForOthers(n) ==
  /\ ~ Unwaited(n)
  /\ Wake(OtherStarts(n))
  /\ UNCHANGED <<disk, pc, report, dead, stale, stopLane, aside, link>>

\* The machine said a task settled that something here waits for.
PeerSettled(n) ==
  /\ ~ Unwaited(n)
  /\ Wake({n} \cup OtherStarts(n))
  /\ UNCHANGED <<disk, pc, report, dead, stale, stopLane, aside, link>>

-----------------------------------------------------------------------------
(* stop *)

StopLeaves(e) == stops' = stops \ {e} /\ stopWait' = stopWait \ {e}

StopAsks(e) ==
  /\ ending = {} /\ e \in stops \ stopWait
  /\ link
  /\ ending' = {e}
  /\ UNCHANGED <<disk, lane, stopWait, aside, link>>

\* Mutant: without a link every stop is over.
StopUnheardOnce(e) == StopLeaves(e)

\* No link: a stop asked once is over, another waits for the reconnect.
StopUnheard(e) ==
  IF e.once THEN StopLeaves(e)
  ELSE stopWait' = stopWait \cup ({e} \cap stops) /\ UNCHANGED stops

StopHasNoLink(e) ==
  /\ \/ ending = {} /\ e \in stops \ stopWait
     \/ ending = {e}
  /\ ~ link
  /\ ending' = {}
  /\ StopUnheard(e)
  /\ UNCHANGED <<given, starts, sent, takes, lane, aside, link>>

StopIsHeard(e) ==
  /\ ending = {e} /\ link
  /\ ending' = {}
  /\ StopLeaves(e)
  /\ Wake(OtherStarts(e.node))
  /\ UNCHANGED <<given, starts, sent, takes, pc, report, dead, stale, aside, link>>

StopIsRefused(e) ==
  /\ ending = {e} /\ link
  /\ ending' = {}
  /\ StopLeaves(e)
  /\ UNCHANGED <<given, starts, sent, takes, lane, aside, link>>

\* 7 days after it was owed.
StopExpires(e) ==
  /\ CanGiveUp
  /\ ending = {} /\ e \in stops \ stopWait /\ ~ e.once
  /\ StopLeaves(e)
  /\ UNCHANGED <<given, starts, sent, takes, lane, ending, aside, link>>

-----------------------------------------------------------------------------
(* oweStop, giveUp and leave: entries are removed first, the rest follows. *)

\* The agent of the node is ended, or its node is gone: the task is cancelled
\* and its entries go.
Cancel(n) ==
  /\ given[n] = "open"
  /\ given' = [given EXCEPT ![n] = "cancelled"]
  /\ starts' = starts \ {n} /\ takes' = takes \ {n}
  /\ sent' = IF pc[n] = "idle" THEN sent \ {n} ELSE sent
  /\ dropping' = IF n \in takes \cup (starts \cap sent)
                 THEN dropping \cup {n} ELSE dropping
  /\ UNCHANGED <<stops, giving, lane, stopLane, failing, link, lost>>

CancelOwes(n) ==
  /\ n \in dropping
  /\ dropping' = dropping \ {n}
  /\ OweStopTo(n)
  /\ UNCHANGED <<given, starts, sent, takes, giving, lane, stopLane, failing, link,
                 lost>>

\* giveUp, one entry after the other.
GiveUpDrops(n) ==
  /\ CanGiveUp /\ ~ link
  /\ n \in starts \cup takes
  /\ starts' = starts \ {n} /\ takes' = takes \ {n}
  /\ sent' = IF pc[n] = "idle" THEN sent \ {n} ELSE sent
  /\ failing' = [failing EXCEPT ![n] = "unreached"]
  /\ UNCHANGED <<given, stops, giving, lane, stopLane, dropping, link, lost>>

\* A stop asked over a link that happens to be open.
GiveUpFails(n) ==
  /\ failing[n] = "unreached"
  /\ failing' = [failing EXCEPT ![n] = "no"]
  /\ FailTask(n)
  /\ stops' = IF \E e \in stops : e.node = n THEN stops
              ELSE stops \cup {[node |-> n, once |-> TRUE]}
  /\ UNCHANGED <<starts, sent, takes, giving, lane, stopLane, dropping, link, lost>>

\* Mutant: what waited for a wake is not forgotten with its entry.
ForgetStopEntries == stops' = {} /\ ending' = {} /\ UNCHANGED stopWait

ForgetStops == stops' = {} /\ ending' = {} /\ stopWait' = {}

\* The links were closed before, so no handler waits for an answer.
Leave ==
  /\ CanLeave /\ ~ link
  /\ \A n \in dead : pc[n] \notin Asking
  /\ stale' = Running
  /\ failing' = [n \in Nodes |-> IF n \in starts \cup takes THEN "left"
                                 ELSE failing[n]]
  /\ starts' = {} /\ takes' = {} /\ ForgetStops
  /\ sent' = sent \cap Running
  /\ UNCHANGED <<given, giving, pc, report, waiting, woken, dead, dropping, link,
                 lost>>

LeaveFails(n) ==
  /\ failing[n] = "left"
  /\ failing' = [failing EXCEPT ![n] = "no"]
  /\ FailTask(n)
  /\ UNCHANGED <<starts, sent, takes, stops, giving, lane, stopLane, dropping, link,
                 lost>>

-----------------------------------------------------------------------------
(* The link, and the daemon. *)

LinkLost ==
  /\ link
  /\ link' = FALSE
  /\ dead' = {n \in Nodes : pc[n] \in Linked}
  /\ UNCHANGED <<disk, pc, report, waiting, woken, stale, stopLane, aside>>

\* Mutant: results are not asked for again.
WakeOwedStarts == stopWait' = {} /\ Wake(starts)

\* Mutant: stops are not asked again.
WakeOwedTasks == UNCHANGED stopWait /\ Wake(starts \cup takes)

\* wakeOwed: all that is owed to the machine looks again.
WakeOwed == stopWait' = {} /\ Wake(starts \cup takes)

\* A request that was out is rejected as the link goes, long before another is
\* made; a handler busy with files or git may still hold the one that went.
LinkUp ==
  /\ ~ link
  /\ ending = {} /\ \A n \in dead : pc[n] \notin Asking
  /\ link' = TRUE
  /\ WakeOwed
  /\ UNCHANGED <<disk, pc, report, dead, stale, ending, aside>>

\* Every entry runs again.
Crash ==
  /\ CanCrash
  /\ sent' = sent \cap starts
  /\ lost' = lost \cup giving \cup {n \in Nodes : failing[n] # "no"}
  /\ giving' = {} /\ dropping' = {}
  /\ failing' = [n \in Nodes |-> "no"]
  /\ pc' = [n \in Nodes |-> "idle"]
  /\ report' = [n \in Nodes |-> "none"]
  /\ waiting' = {} /\ woken' = {} /\ dead' = {} /\ stale' = {}
  /\ stopWait' = {} /\ ending' = {}
  /\ link' = FALSE
  /\ UNCHANGED <<given, starts, takes, stops>>

-----------------------------------------------------------------------------
StartStep(n) ==
  \/ StartIsMoot(n) \/ StartWaitsForLink(n) \/ StartSends(n) \/ StartMarks(n)
  \/ StartIsDropped(n) \/ StartAsks(n) \/ StartIsHeard(n) \/ StartCloses(n)
  \/ StartBreaks(n)

StartAnswer(n) ==
  \/ StartHears(n) \/ StartIsPutOff(n) \/ StartIsRefused(n) \/ StartErrs(n)

TakeStep(n) ==
  \/ TakeWaitsForLink(n) \/ TakeAsks(n) \/ TakeSettles(n) \/ TakeIsStale(n)
  \/ TakeBreaks(n)

TakeAnswer(n) ==
  \/ TakeHearsOpen(n) \/ TakeHearsUnknown(n)
  \/ \E status \in Settled : TakeHears(n, status)
  \/ TakeIsAcked(n) \/ TakeIsRefused(n) \/ TakeErrs(n)

\* What people and time do to a task.
Outside(n) ==
  \/ GiveOpens(n) \/ GiveOwes(n) \/ Cancel(n) \/ CancelOwes(n)
  \/ GiveUpDrops(n) \/ GiveUpFails(n) \/ LeaveFails(n)

StopStep(e) == StopAsks(e) \/ StopHasNoLink(e) \/ StopExpires(e)
StopAnswer(e) == StopIsHeard(e) \/ StopIsRefused(e)

Next ==
  \/ \E n \in Nodes :
       \/ StartStep(n) \/ StartAnswer(n) \/ TakeStep(n) \/ TakeAnswer(n)
       \/ PeerSettled(n) \/ Outside(n)
  \/ \E e \in stops \cup ending : StopStep(e) \/ StopAnswer(e)
  \/ Leave \/ LinkLost \/ LinkUp \/ Crash

Spec == Init /\ [][Next]_vars

-----------------------------------------------------------------------------
(* Correctness. *)

\* remote-tasks.ts:272-279, 442-446, 542-545: an open task is never forgotten.
\* Its start or its result is owed, or it is being opened or failed; a restart
\* loses it only inside those two pairs of writes.
OpenIsOwed ==
  \A n \in Nodes : given[n] = "open" =>
    n \in starts \cup takes \cup giving \cup lost \/ failing[n] # "no"

\* remote-tasks.ts:283-287: the machine hears that its result was taken only
\* once the task settled here.
AckedIsSettled == \A n \in Nodes : pc[n] = "acking" => given[n] # "open"

\* remote-tasks.ts:205-208, 286: a task settles once, whatever comes late.
SettlesOnce ==
  [][\A n \in Nodes : given[n] \in Settled => given'[n] = given[n]]_given

=============================================================================
