------------------------------ MODULE Reconnect ------------------------------
(***************************************************************************)
(* The reconnect to another machine: ConnectPeer of                        *)
(* apps/server/src/remote/connect-peer.ts with the attempts of             *)
(* remote/remote-connections.ts, for one machine.                          *)
(*                                                                         *)
(* What is owed to the machine are the start and take entries of           *)
(* RemoteTasks, here without their contents: an entry that runs with no    *)
(* link owes a reconnect and waits to be woken.  The connect-peer entries  *)
(* run one at a time, some time after they were written; the worker        *)
(* (external) removes an entry as its handler ends.  Time is the age of    *)
(* what was written down, which counts no further than Lifetime.           *)
(***************************************************************************)
EXTENDS Naturals, Sequences

CONSTANTS
  Work,        \* what may be owed to the machine
  Lifetime,    \* RECONNECT_LIFETIME_MS
  MaxEntries,  \* bound: connect-peer entries a crash may leave
  CanExpire,   \* whether time passes
  CanDrop,     \* whether people stop what is owed
  CanConnect,  \* whether a person opens the link (remote.connect, an artifact)
  CanRefuse,   \* whether the machine may refuse this one
  CanUnlink,   \* whether the last project may unlink the machine
  CanLeave,    \* whether this machine may leave its account
  CanCrash     \* whether the daemon may go down

ASSUME TimeAssumption == Lifetime \in Nat \ {0} /\ MaxEntries \in Nat
ASSUME EventsAssumption ==
  {CanExpire, CanDrop, CanConnect, CanRefuse, CanUnlink, CanLeave, CanCrash}
    \subseteq BOOLEAN

VARIABLES
  \* on disk
  known,          \* the machine has a record (PeerMachines)
  owed,           \* the work owed to it
  queued,         \* since of each connect-peer entry that does not run
  \* in memory
  asleep,         \* work that waits for the link
  putOff,         \* work that waits for word of the machine
  link,           \* whether the link is open
  dialing,        \* whether an attempt runs that a close did not end
  phase,          \* where the handler is
  current,        \* since of the entry the handler runs for
  kept,           \* that entry is in the outbox still
  firstOwed,      \* when work was first owed: a set of one age, or empty
  lostMeanwhile,  \* a reconnect was owed while the handler ran
  doomed,         \* what a running giveUp fails next
  forgetting,     \* where an unlink or a leave is
  quiet           \* ghost: how long no link was open

vars == <<known, owed, queued, asleep, putOff, link, dialing, phase, current,
          kept, firstOwed, lostMeanwhile, doomed, forgetting, quiet>>

sleep == <<asleep, putOff>>
work == <<owed, sleep, doomed>>
line == <<link, dialing>>
handler == <<phase, current, kept>>
around == <<known, forgetting, quiet>>
counts == <<firstOwed, lostMeanwhile>>

Age == 0 .. Lifetime

TypeOK ==
  /\ known \in BOOLEAN
  /\ owed \subseteq Work /\ asleep \cup putOff \subseteq owed
  /\ queued \in Seq(Age)
  /\ link \in BOOLEAN /\ dialing \in BOOLEAN /\ ~ (link /\ dialing)
  /\ phase \in {"none", "dialing", "opened", "cut", "refused", "retried", "lapsing"}
  /\ current \in Age
  /\ kept \in BOOLEAN /\ (kept => phase # "none")
  /\ firstOwed \subseteq Age /\ \A a, b \in firstOwed : a = b
  /\ lostMeanwhile \in BOOLEAN
  /\ doomed \subseteq Work /\ (doomed # {} => phase \in {"refused", "lapsing"})
  /\ forgetting \in {"no", "unlinking", "unlinked", "leaving", "left"}
  /\ quiet \in Age

Init ==
  /\ known = TRUE
  /\ owed = {} /\ asleep = {} /\ putOff = {} /\ doomed = {}
  /\ queued = <<>>
  /\ link = FALSE /\ dialing = FALSE
  /\ phase = "none" /\ current = 0 /\ kept = FALSE
  /\ firstOwed = {} /\ lostMeanwhile = FALSE
  /\ forgetting = "no"
  /\ quiet = 0

-----------------------------------------------------------------------------
(* What the steps share. *)

\* running: lapsing is not, its branch returns before the attempt.
Running == phase \in {"dialing", "opened", "cut", "refused", "retried"}

\* entriesOf: the entry that runs is in the outbox until its handler ends.
Entries == (IF kept THEN <<current>> ELSE <<>>) \o queued

\* sinceOf
Since ==
  IF firstOwed # {} THEN CHOOSE a \in firstOwed : TRUE
  ELSE IF Entries # <<>> THEN Head(Entries) ELSE 0

Write(since) == queued' = Append(queued, since)

WriteSince == Write(Since) /\ firstOwed' = {Since}

\* Mutant: a reconnect owed while the handler runs is not remembered.
OweUnlessRunning ==
  \/ /\ owed = {} \/ ~ known
     /\ firstOwed' = {}
     /\ UNCHANGED <<queued, lostMeanwhile>>
  \/ /\ owed # {} /\ known /\ Entries # <<>>
     /\ UNCHANGED <<queued, counts>>
  \/ /\ owed # {} /\ known /\ Entries = <<>>
     /\ WriteSince /\ UNCHANGED lostMeanwhile

\* owe, which is asked only while the link is down.
Owe ==
  \/ /\ owed = {} \/ ~ known
     /\ firstOwed' = {}
     /\ UNCHANGED <<queued, lostMeanwhile>>
  \/ /\ owed # {} /\ known /\ Running
     /\ lostMeanwhile' = TRUE
     /\ UNCHANGED <<queued, firstOwed>>
  \/ /\ owed # {} /\ known /\ ~ Running /\ Entries # <<>>
     /\ UNCHANGED <<queued, counts>>
  \/ /\ owed # {} /\ known /\ ~ Running /\ Entries = <<>>
     /\ WriteSince /\ UNCHANGED lostMeanwhile

Idles == phase' = "none" /\ kept' = FALSE /\ UNCHANGED current

\* Mutant: the entry that retry wrote is not looked for.
OwedAnyway == lostMeanwhile /\ ~ link

\* Whether a reconnect was owed meanwhile that no other entry stands for.
OwedAgain == lostMeanwhile /\ ~ link /\ queued = <<>>

\* The handler ends and writes what was owed meanwhile.
Ends ==
  /\ Idles
  /\ lostMeanwhile' = FALSE
  /\ IF OwedAgain THEN WriteSince ELSE UNCHANGED <<queued, firstOwed>>

-----------------------------------------------------------------------------
(* The work owed to the machine. *)

\* Entries whose handler runs.
Ready == owed \ (asleep \cup putOff)

Give(w) ==
  /\ known /\ forgetting = "no"
  /\ w \notin owed
  /\ owed' = owed \cup {w}
  /\ UNCHANGED <<around, queued, sleep, line, handler, counts, doomed>>

\* waitForLink
WorkWaits(w) ==
  /\ w \in Ready /\ ~ link
  /\ asleep' = asleep \cup {w}
  /\ Owe
  /\ UNCHANGED <<around, owed, putOff, line, handler, doomed>>

\* A result that is not there yet, or a place that is taken.
WorkIsPutOff(w) ==
  /\ w \in Ready /\ link
  /\ putOff' = putOff \cup {w}
  /\ UNCHANGED <<around, owed, queued, asleep, line, handler, counts, doomed>>

\* Word may come for work that waits for the link as well.
WordComes(w) ==
  /\ w \in asleep \cup putOff /\ link
  /\ asleep' = asleep \ {w} /\ putOff' = putOff \ {w}
  /\ UNCHANGED <<around, owed, queued, line, handler, counts, doomed>>

Leaves(w) ==
  /\ owed' = owed \ {w} /\ doomed' = doomed \ {w}
  /\ asleep' = asleep \ {w} /\ putOff' = putOff \ {w}

WorkIsHeard(w) ==
  /\ w \in Ready /\ link
  /\ Leaves(w)
  /\ UNCHANGED <<around, queued, line, handler, counts>>

Drop(w) ==
  /\ CanDrop
  /\ w \in owed
  /\ Leaves(w)
  /\ UNCHANGED <<around, queued, line, handler, counts>>

-----------------------------------------------------------------------------
(* The handler of a connect-peer entry. *)

\* Nothing is owed any more, or the machine is not known.
HandlerIsMoot ==
  /\ phase = "none" /\ queued # <<>>
  /\ ~ known \/ owed = {}
  /\ queued' = Tail(queued)
  /\ firstOwed' = {}
  /\ UNCHANGED <<around, work, line, handler, lostMeanwhile>>

Begins(step) ==
  /\ phase' = step
  /\ current' = Head(queued)
  /\ kept' = TRUE
  /\ queued' = Tail(queued)

\* The window is over: what is owed now fails, one after the other.
HandlerLapses ==
  /\ phase = "none" /\ queued # <<>>
  /\ known /\ owed # {} /\ Head(queued) = Lifetime
  /\ Begins("lapsing")
  /\ firstOwed' = {}
  /\ doomed' = owed
  /\ UNCHANGED <<around, owed, sleep, line, lostMeanwhile>>

\* Mutant: the link that is open is not looked for.
HandlerDialsAnyway ==
  /\ phase = "none" /\ queued # <<>>
  /\ known /\ owed # {} /\ Head(queued) < Lifetime
  /\ Begins("dialing")
  /\ firstOwed' = {Head(queued)}
  /\ dialing' = TRUE
  /\ UNCHANGED <<around, work, link, lostMeanwhile>>

\* connect: the link that is open, the attempt that runs, or one of its own.
HandlerDials ==
  /\ phase = "none" /\ queued # <<>>
  /\ known /\ owed # {} /\ Head(queued) < Lifetime
  /\ Begins(IF link THEN "opened" ELSE "dialing")
  /\ firstOwed' = {Head(queued)}
  /\ dialing' = ~ link
  /\ UNCHANGED <<around, work, link, lostMeanwhile>>

\* Mutant: nothing that waits is woken.
WakeNone == UNCHANGED sleep

WakeOwed == asleep' = {} /\ putOff' = {}

\* Mutant: a link that opens does not start the count over.
OpenedAsBefore ==
  /\ phase = "opened"
  /\ WakeOwed
  /\ Ends
  /\ UNCHANGED <<around, owed, line, doomed>>

\* The link opened; it may be lost again before the handler goes on.
HandlerOpened ==
  /\ phase = "opened"
  /\ WakeOwed
  /\ Idles
  /\ lostMeanwhile' = FALSE
  /\ firstOwed' = {}
  /\ IF OwedAgain THEN Write(0) ELSE UNCHANGED queued
  /\ UNCHANGED <<around, owed, line, doomed>>

\* retry wrote the next entry; or the link was closed while it was made.
HandlerEnds ==
  /\ phase \in {"retried", "cut"}
  /\ Ends
  /\ UNCHANGED <<around, work, line>>

GiveUp(w) ==
  /\ w \in doomed
  /\ Leaves(w)
  /\ UNCHANGED <<around, queued, line, handler, counts>>

GaveUp ==
  /\ phase \in {"refused", "lapsing"} /\ doomed = {}
  /\ IF phase = "refused" THEN Ends ELSE Idles /\ UNCHANGED <<queued, counts>>
  /\ UNCHANGED <<around, work, line>>

-----------------------------------------------------------------------------
(* The attempt, and the link. *)

DialOpens ==
  /\ dialing /\ known
  /\ link' = TRUE /\ dialing' = FALSE
  /\ phase' = IF phase = "dialing" THEN "opened" ELSE phase
  /\ quiet' = 0
  /\ UNCHANGED <<known, work, queued, current, kept, counts, forgetting>>

\* The machine was forgotten while the link was made.
DialIsLate ==
  /\ dialing /\ ~ known
  /\ dialing' = FALSE
  /\ phase' = IF phase = "dialing" THEN "cut" ELSE phase
  /\ UNCHANGED <<around, work, queued, link, current, kept, counts>>

\* retry: with nothing owed any more the handler ends at once.
DialFails ==
  /\ dialing
  /\ dialing' = FALSE
  /\ \/ phase # "dialing" /\ UNCHANGED <<handler, queued, counts>>
     \/ phase = "dialing" /\ owed = {} /\ Ends
     \/ /\ phase = "dialing" /\ owed # {}
        /\ phase' = "retried" /\ UNCHANGED <<current, kept>>
        /\ Write(current)
        /\ UNCHANGED counts
  /\ UNCHANGED <<around, work, link>>

DialIsRefused ==
  /\ CanRefuse
  /\ dialing
  /\ dialing' = FALSE
  /\ IF phase = "dialing"
     THEN phase' = "refused" /\ doomed' = owed /\ firstOwed' = {}
     ELSE UNCHANGED <<phase, doomed, firstOwed>>
  /\ UNCHANGED <<around, owed, queued, sleep, link, current, kept, lostMeanwhile>>

LinkLost ==
  /\ link
  /\ link' = FALSE
  /\ Owe
  /\ UNCHANGED <<around, work, dialing, handler>>

\* A person's window hands over a statement, or opens an artifact; nothing that
\* waits is woken by it.
PersonConnects ==
  /\ CanConnect
  /\ ~ link /\ ~ dialing
  /\ known' = TRUE
  /\ dialing' = TRUE
  /\ UNCHANGED <<work, queued, link, handler, counts, forgetting, quiet>>

-----------------------------------------------------------------------------
(* The last project unlinks the machine, or this machine leaves its account. *)

\* close
Closes ==
  /\ link' = FALSE /\ dialing' = FALSE
  /\ phase' = IF phase = "dialing" THEN "cut" ELSE phase

\* lapse, lapseAll
Lapses == queued' = <<>> /\ kept' = FALSE /\ firstOwed' = {}

\* A machine a node still runs on is not unlinked.
UnlinkCloses ==
  /\ CanUnlink /\ forgetting = "no"
  /\ known /\ owed = {}
  /\ Closes
  /\ forgetting' = "unlinking"
  /\ UNCHANGED <<known, work, queued, current, kept, counts, quiet>>

LeaveCloses ==
  /\ CanLeave /\ forgetting = "no"
  /\ Closes
  /\ known' = FALSE
  /\ forgetting' = "leaving"
  /\ UNCHANGED <<work, queued, current, kept, counts, quiet>>

ReconnectLapses ==
  /\ forgetting \in {"unlinking", "leaving"}
  /\ Lapses
  /\ forgetting' = IF forgetting = "leaving" THEN "left" ELSE "unlinked"
  /\ UNCHANGED <<known, work, line, phase, current, lostMeanwhile, quiet>>

\* machines.remove, or the leave of RemoteTasks.
Forgets ==
  /\ forgetting \in {"unlinked", "left"}
  /\ known' = (known /\ forgetting = "left")
  /\ IF forgetting = "left"
     THEN owed' = {} /\ asleep' = {} /\ putOff' = {} /\ doomed' = {}
     ELSE UNCHANGED work
  /\ forgetting' = "no"
  /\ UNCHANGED <<queued, line, handler, counts, quiet>>

-----------------------------------------------------------------------------
(* Time, and the daemon. *)

Older(a) == IF a < Lifetime THEN a + 1 ELSE a

\* Days, in which an attempt or a giveUp ends.  A machine that sleeps or is off
\* leaves an entry for days; one whose link is open does not.
Tick ==
  /\ CanExpire
  /\ phase = "none" /\ ~ dialing
  /\ queued # <<>> => ~ link
  /\ queued' = [i \in 1 .. Len(queued) |-> Older(queued[i])]
  /\ firstOwed' = {Older(a) : a \in firstOwed}
  /\ quiet' = IF link THEN 0 ELSE Older(quiet)
  /\ UNCHANGED <<known, work, line, handler, lostMeanwhile, forgetting>>

\* Every entry is due at once.
Crash ==
  /\ CanCrash /\ Len(Entries) <= MaxEntries
  /\ queued' = Entries
  /\ asleep' = {} /\ putOff' = {} /\ doomed' = {}
  /\ link' = FALSE /\ dialing' = FALSE
  /\ phase' = "none" /\ current' = 0 /\ kept' = FALSE
  /\ firstOwed' = {} /\ lostMeanwhile' = FALSE
  /\ forgetting' = "no"
  /\ UNCHANGED <<known, owed, quiet>>

-----------------------------------------------------------------------------
WorkStep(w) == WorkWaits(w) \/ WorkIsPutOff(w) \/ WordComes(w) \/ WorkIsHeard(w)

HandlerStep ==
  \/ HandlerIsMoot \/ HandlerLapses \/ HandlerDials \/ HandlerOpened
  \/ HandlerEnds \/ GaveUp \/ \E w \in Work : GiveUp(w)

DialStep == DialOpens \/ DialIsLate \/ DialFails \/ DialIsRefused

ForgetStep == UnlinkCloses \/ LeaveCloses \/ ReconnectLapses \/ Forgets

Next ==
  \/ \E w \in Work : Give(w) \/ WorkStep(w) \/ Drop(w)
  \/ HandlerStep \/ DialStep
  \/ LinkLost \/ PersonConnects
  \/ ForgetStep
  \/ Tick \/ Crash

Spec == Init /\ [][Next]_vars

\* Entries get their turn, an attempt ends, and a machine that is tried again
\* and again is reached some time and hears what it is told before the link is
\* lost, or the daemon goes down, again.  Word is sure only for what was put off.
Fairness ==
  /\ WF_vars(HandlerStep) /\ WF_vars(DialStep) /\ WF_vars(ForgetStep)
  /\ SF_vars(DialOpens) /\ SF_vars(link /\ HandlerOpened)
  /\ \A w \in Work :
       /\ WF_vars(WorkWaits(w))
       /\ SF_vars(w \in putOff /\ WordComes(w)) /\ SF_vars(WorkIsHeard(w))

FairSpec == Spec /\ Fairness

-----------------------------------------------------------------------------
(* Correctness. *)

\* connect-peer.ts:63, 137-140: no work is stranded.  While work waits for a link
\* that is down, a reconnect is owed: an entry is queued, an attempt runs, or the
\* handler that ends will write one.
ReconnectOwed ==
  known /\ ~ link /\ forgetting = "no" /\ ~ asleep \cup putOff \subseteq doomed =>
    \/ queued # <<>>
    \/ phase \in {"dialing", "opened"}
    \/ Running /\ lostMeanwhile

\* connect-peer.ts:63, 76-78, 137-138: one reconnect is owed at a time, so a
\* machine that sleeps is not knocked at by two.
OneReconnect == Len(queued) <= 1

\* connect-peer.ts:48-49: what is owed is given up on only after the whole window
\* in which no link opened.
GivesUpLate == [][phase # "lapsing" /\ phase' = "lapsing" => quiet = Lifetime]_vars

\* connect-peer.ts:45-49: work that is owed is heard in the end, through
\* failures, lost links and restarts, if the machine answers some time.
WorkEnds == \A w \in Work : w \in owed ~> w \notin owed

=============================================================================
