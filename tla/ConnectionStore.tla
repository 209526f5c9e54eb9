--------------------------- MODULE ConnectionStore ---------------------------
(***************************************************************************)
(* The database connections of a project: ConnectionStore of               *)
(* apps/server/src/database/connection-store.ts, and the windows that edit *)
(* them, createDatabaseConnections of                                      *)
(* apps/client/src/database/connections.ts.                                *)
(*                                                                         *)
(* The daemon keeps the list of an open project in memory under a rev and  *)
(* in two files on disk (PairedWrite).  It serves one call at a time, cut  *)
(* at the steps of the files; a watcher takes an edit of the files in      *)
(* between two calls.  A window shows the list it last heard, saves an     *)
(* edit against its rev, and follows the changes it is told of.  Requests  *)
(* and what comes back keep their order over a link.                       *)
(***************************************************************************)
EXTENDS Naturals, Sequences

CONSTANTS
  Windows,      \* the windows that have the project open
  SharedTexts,  \* what the shared file may say
  Bodies,       \* what the person's own file may list, next to its rev
  Absent,       \* a file that is not there, a list with nothing on that side
  Broken,       \* a file that does not parse
  MaxEdits,     \* bound: edits people make in a window
  MaxOutside,   \* bound: edits of the files outside the daemon
  MaxFaults     \* bound: crashes, failures of the disk and lost links

ASSUME BoundsAssumption == {MaxEdits, MaxOutside, MaxFaults} \subseteq Nat
ASSUME WindowsAssumption == "nobody" \notin Windows  \* the caller of a call nobody waits for
ASSUME TextsAssumption ==  \* Absent and Broken are no text and no list
  Absent # Broken /\ {Absent, Broken} \cap (SharedTexts \cup Bodies) = {}

OwnTexts == [rev : Nat, body : Bodies]
Texts == SharedTexts \cup OwnTexts \cup {Absent, Broken}
Lists == [shared : SharedTexts \cup {Absent}, body : Bodies \cup {Absent}]
Documents == [rev : Nat, list : Lists]

VARIABLES
  disk, intent, step, touched, unseen,  \* the files: PairedWrite
  \* the daemon
  loaded,    \* whether the project is in memory and watched
  state,     \* what is in memory: the rev and the text of each file
  at,        \* where the call that runs is
  call,      \* the call that runs
  \* the windows
  linked,    \* the windows with a link
  queue,     \* the requests of each window on their way
  inbox,     \* what is on its way to each window
  win,       \* what each window holds
  spent      \* how much of each bound is used

P == INSTANCE PairedWrite

files == <<disk, intent, step, touched, unseen>>
daemon == <<loaded, state, at, call>>
wire == <<linked, queue, inbox>>
vars == <<files, daemon, wire, win, spent>>

NoList == [shared |-> Broken, body |-> Broken]
NoBasis == [list |-> NoList, old |-> FALSE]
NoSave == [base |-> 0, list |-> NoList, basis |-> NoBasis]
NoCall == [kind |-> "none", by |-> "nobody", live |-> FALSE, save |-> NoSave]
NoState == [rev |-> 0, shared |-> Absent, own |-> Absent]
NoDocument == [rev |-> 0, list |-> [shared |-> Absent, body |-> Absent]]

Bases == [list : Lists \cup {NoList}, old : BOOLEAN]
Saves == [base : Nat, list : Lists \cup {NoList}, basis : Bases]
\* What a window holds: the document it last took, and whether that is of the
\* project as it is open now; the edit that is not saved, if any; whether it waits
\* for the list; how far its save is, and whether the edit went on since.  Ghost:
\* the list its person saw under the edit, and whether that was of an earlier link
\* or of a project let go of, or the list was read again since (basis).
Held == [shown : Documents, status : {"no", "stale", "ready"},
         local : Lists \cup {NoList}, basis : Bases,
         reading : {"no", "yes", "superseded"},
         saving : {"no", "sent", "answered", "reloading", "reloaded"},
         save : Saves, more : BOOLEAN]
Fresh == [shown |-> NoDocument, status |-> "no", local |-> NoList,
          basis |-> NoBasis, reading |-> "no", saving |-> "no",
          save |-> NoSave, more |-> FALSE]

Words == {"list", "noList", "changed", "echo", "saved", "conflict", "failed"}

TypeOK ==
  /\ P!TypeOK
  /\ loaded \in BOOLEAN
  /\ state \in [rev : Nat, shared : SharedTexts \cup {Absent},
                own : OwnTexts \cup {Absent}]
  /\ at \in {"idle", "load", "again", "save", "glance"}
  /\ call \in [kind : {"none", "read", "save", "glance"},
               by : Windows \cup {"nobody"}, live : BOOLEAN, save : Saves]
  /\ linked \subseteq Windows
  /\ queue \in [Windows -> Seq({"read", "save"})]
  /\ inbox \in [Windows -> Seq([word : Words, doc : Documents])]
  /\ win \in [Windows -> Held]
  /\ spent \in [edits : 0 .. MaxEdits, outside : 0 .. MaxOutside,
                faults : 0 .. MaxFaults]

Init ==
  /\ disk \in [P!Files -> {Absent}] /\ intent = P!NoIntent /\ step = "rest"
  /\ touched = FALSE /\ unseen = {}
  /\ loaded = FALSE /\ state = NoState /\ at = "idle" /\ call = NoCall
  /\ linked = {}
  /\ queue = [w \in Windows |-> <<>>] /\ inbox = [w \in Windows |-> <<>>]
  /\ win = [w \in Windows |-> Fresh]
  /\ spent = [edits |-> 0, outside |-> 0, faults |-> 0]

Spend(what, max) ==
  /\ spent[what] < max
  /\ spent' = [spent EXCEPT ![what] = @ + 1]


-----------------------------------------------------------------------------
(* What the daemon reads and says. *)

ListOf(s) == [shared |-> s.shared,
              body |-> IF s.own = Absent THEN Absent ELSE s.own.body]
DocumentOf(s) == [rev |-> s.rev, list |-> ListOf(s)]

\* readState: a file that does not parse is set aside.
Readable(f) == IF disk[f] = Broken THEN Absent ELSE disk[f]
ReadState ==
  [rev |-> IF Readable("own") = Absent THEN 0 ELSE Readable("own").rev,
   shared |-> Readable("shared"), own |-> Readable("own")]

Unreadable == \E f \in P!Files : disk[f] = Broken
OutsideEdits == disk["shared"] # state.shared \/ disk["own"] # state.own

Later(m, n) == IF m > n THEN m ELSE n

\* Mutant: an edit of the shared file alone leaves the rev as it was.
TakenAsIs ==
  [rev |-> IF disk["own"] \in {state.own, Absent} THEN state.rev ELSE disk["own"].rev,
   shared |-> disk["shared"], own |-> disk["own"]]

\* takeOutsideEdits: what is in memory once it took the files in.
Taken ==
  [rev |-> Later(IF disk["own"] \in {state.own, Absent} THEN 0 ELSE disk["own"].rev,
                 state.rev + 1),
   shared |-> disk["shared"], own |-> disk["own"]]

Word(word, doc) == <<[word |-> word, doc |-> doc]>>

\* A change, told by a call that outlived its project or not: the window cannot
\* tell the two apart.
Change == IF loaded THEN "changed" ELSE "echo"

\* emitChanged to the holders `told`, and then the answer to the call.
Says(told, doc, word, w) ==
  inbox' = [v \in Windows |->
              inbox[v] \o (IF v \in told THEN Word(Change, doc) ELSE <<>>)
                       \o (IF v = w THEN Word(word, doc) ELSE <<>>)]

Caller == IF call.live THEN call.by ELSE "nobody"
Answers(word, doc) == Says({}, doc, word, Caller)

\* The call is over.  What was released while it ran goes with it.
Ends ==
  /\ at' = "idle" /\ call' = NoCall
  /\ UNCHANGED loaded
Keeps(s) == state' = IF loaded THEN s ELSE NoState

-----------------------------------------------------------------------------
(* read, save and connectionsOf, one at a time. *)

Served(w) == /\ at = "idle"
             /\ queue' = [queue EXCEPT ![w] = Tail(@)]
             /\ UNCHANGED <<linked, win, spent>>

Recovers(stage, kind, w, save) ==
  /\ at' = stage
  /\ call' = [kind |-> kind, by |-> w, live |-> TRUE, save |-> save]
  /\ step' = "look"
  /\ UNCHANGED <<disk, intent, touched, unseen, loaded, state>>

Read(w) ==
  /\ queue[w] # <<>> /\ Head(queue[w]) = "read"
  /\ Served(w)
  /\ IF loaded
     THEN Says({}, DocumentOf(state), "list", w) /\ UNCHANGED <<files, daemon>>
     ELSE Recovers("load", "read", w, NoSave) /\ UNCHANGED inbox

\* Mutant: the rev of a save is not compared.
AnyRev(save, s) == TRUE

SameRev(save, s) == save.base = s.rev

Save(w) ==
  /\ queue[w] # <<>> /\ Head(queue[w]) = "save"
  /\ Served(w)
  /\ IF loaded /\ ~ SameRev(win[w].save, state)
     THEN Says({}, DocumentOf(state), "conflict", w) /\ UNCHANGED <<files, daemon>>
     ELSE /\ Recovers(IF loaded THEN "again" ELSE "load", "save", w, win[w].save)
          /\ UNCHANGED inbox

\* load: what is read is watched from here on.
Load ==
  /\ at = "load" /\ step = "over"
  /\ disk' = [f \in P!Files |-> Readable(f)]
  /\ loaded' = TRUE /\ state' = ReadState
  /\ IF call.kind = "save" /\ SameRev(call.save, ReadState)
     THEN at' = "again" /\ step' = "look" /\ UNCHANGED <<call, inbox>>
     ELSE /\ at' = "idle" /\ step' = "rest" /\ call' = NoCall
          /\ Answers(IF call.kind = "read" THEN "list" ELSE "conflict",
                     DocumentOf(ReadState))
  /\ UNCHANGED <<intent, touched, unseen, linked, queue, win, spent>>

\* An edit of the files is heard of before anything is written over it.
SaveOvertaken ==
  /\ at = "again" /\ step = "over"
  /\ \/ Unreadable /\ Keeps(state) /\ Answers("conflict", DocumentOf(state))
     \/ /\ ~ Unreadable /\ OutsideEdits
        /\ Keeps(Taken)
        /\ Says(linked, DocumentOf(Taken), "conflict", Caller)
  /\ Ends /\ P!Rests
  /\ UNCHANGED <<linked, queue, win, spent>>

\* The text the shared file gets: a list that shares nothing makes no file, and
\* empties one that is there.
SharedAfter(list) ==
  IF list.shared # Absent THEN {list.shared}
  ELSE IF state.shared = Absent THEN {Absent} ELSE SharedTexts

Intent(shared, body) ==
  LET after == [shared |-> shared, own |-> [rev |-> state.rev + 1, body |-> body]]
      before == [shared |-> state.shared, own |-> state.own]
  IN  [f \in IF shared = state.shared THEN {"own"} ELSE P!Files |->
         [before |-> before[f], after |-> after[f]]]

SaveWrites ==
  /\ at = "again" /\ step = "over" /\ ~ Unreadable /\ ~ OutsideEdits
  /\ \E shared \in SharedAfter(call.save.list) :
       /\ P!WriteIntent(Intent(shared, call.save.list.body))
       /\ call' = [call EXCEPT !.save.list.shared = shared]
  /\ at' = "save"
  /\ UNCHANGED <<loaded, state, wire, win, spent>>

\* Everyone but the window that saved is told.
Saved ==
  LET list == call.save.list
      now == [rev |-> state.rev + 1, shared |-> list.shared,
              own |-> [rev |-> state.rev + 1, body |-> list.body]]
  IN  /\ at = "save" /\ step = "over"
      /\ Keeps(now)
      /\ Says(linked \ {call.by}, DocumentOf(now), "saved", Caller)
      /\ Ends /\ P!Rests
      /\ UNCHANGED <<linked, queue, win, spent>>

SaveRaced ==
  /\ at = "save" /\ step = "raced"
  /\ Keeps(state) /\ Answers("conflict", DocumentOf(state))
  /\ Ends /\ P!Rests
  /\ UNCHANGED <<linked, queue, win, spent>>

CallFails ==
  /\ at \in {"load", "again", "save"} /\ step \in {"stuck", "failed"}
  /\ Keeps(state)
  /\ Answers(IF call.kind = "read" THEN "noList" ELSE "failed", NoDocument)
  /\ Ends /\ P!Rests
  /\ UNCHANGED <<linked, queue, win, spent>>

\* connectionsOf for a project nobody holds.  With no intent on disk it only reads.
Glance ==
  /\ at = "idle" /\ ~ loaded /\ intent # P!NoIntent
  /\ Recovers("glance", "glance", "nobody", NoSave)
  /\ UNCHANGED <<wire, win, spent>>

GlanceEnds ==
  /\ at = "glance" /\ step \in {"over", "stuck", "failed"}
  /\ Keeps(state)
  /\ Ends /\ P!Rests
  /\ UNCHANGED <<wire, win, spent>>

FilesMove ==
  /\ P!FileStep
  /\ UNCHANGED <<daemon, wire, win, spent>>

\* watchOutsideEdits: in turn with the calls.  A file caught halfway waits.
WatcherTakes ==
  /\ at = "idle" /\ loaded /\ ~ Unreadable /\ OutsideEdits
  /\ state' = Taken
  /\ Says(linked, DocumentOf(Taken), "none", "nobody")
  /\ UNCHANGED <<files, loaded, at, call, linked, queue, win, spent>>

-----------------------------------------------------------------------------
(* A window.  Reading the passwords of a list it took is not a step here. *)

Hears(w, word) ==
  /\ inbox[w] # <<>> /\ Head(inbox[w]).word = word
  /\ inbox' = [inbox EXCEPT ![w] = Tail(@)]

Doc(w) == Head(inbox[w]).doc

Asks(w, what) == queue' = [queue EXCEPT ![w] = Append(@, what)]

\* flush: the edit goes against the rev of what is shown.
Flushed(h) ==
  [h EXCEPT !.saving = "sent", !.more = FALSE,
            !.save = [base |-> h.shown.rev, list |-> h.local, basis |-> h.basis]]

\* subscribeStatus: an edit that waited is saved, else the list is read.
LinkUp(w) ==
  /\ w \notin linked
  /\ linked' = linked \cup {w}
  /\ IF win[w].local = NoList
     THEN win' = [win EXCEPT ![w].reading = "yes"] /\ Asks(w, "read")
     ELSE win' = [win EXCEPT ![w] = Flushed(@)] /\ Asks(w, "save")
  /\ UNCHANGED <<files, daemon, inbox, spent>>

\* A person reads the list again after it failed.
Reload(w) ==
  /\ w \in linked /\ win[w].status = "no" /\ win[w].reading = "no"
  /\ win' = [win EXCEPT ![w].reading = "yes"] /\ Asks(w, "read")
  /\ UNCHANGED <<files, daemon, linked, inbox, spent>>

\* What a person may make of a list that shows `seen`.
Edited(seen) ==
  [shared : SharedTexts \cup (IF seen.shared = Absent THEN {Absent} ELSE {}),
   body : Bodies]

Basis(w) ==
  IF win[w].local # NoList THEN win[w].basis
  ELSE [list |-> win[w].shown.list,
        old |-> w \notin linked \/ win[w].status # "ready"]

Edit(w) ==
  LET h == win[w] IN
  /\ Spend("edits", MaxEdits)
  /\ h.status # "no"
  /\ \E list \in Edited(IF h.local = NoList THEN h.shown.list ELSE h.local) :
       LET now == [h EXCEPT !.local = list, !.basis = Basis(w)] IN
       IF w \in linked /\ h.saving = "no"
       THEN win' = [win EXCEPT ![w] = Flushed(now)] /\ Asks(w, "save")
       ELSE /\ win' = [win EXCEPT ![w] = [now EXCEPT !.more = h.saving # "no"]]
            /\ UNCHANGED queue
  /\ UNCHANGED <<files, daemon, linked, inbox>>

\* load: an answer a change came before is left alone.  An edit that waits is not
\* asked about.
TakeList(w) ==
  /\ Hears(w, "list")
  /\ LET h == win[w] IN win' = [win EXCEPT ![w] =
       IF h.reading = "superseded" THEN [h EXCEPT !.reading = "no"]
       ELSE [h EXCEPT !.reading = "no", !.shown = Doc(w), !.status = "ready",
                      !.basis.old = h.local # NoList,
                      !.saving = IF @ = "reloading" THEN "reloaded" ELSE @]]
  /\ UNCHANGED <<files, daemon, linked, queue, spent>>

TakeNoList(w) ==
  /\ Hears(w, "noList")
  /\ LET h == win[w] IN win' = [win EXCEPT ![w] =
       [h EXCEPT !.reading = "no",
                 !.status = IF h.reading = "yes" THEN "no" ELSE @,
                 !.saving = IF @ = "reloading" THEN "no" ELSE @]]
  /\ UNCHANGED <<files, daemon, linked, queue, spent>>

\* onChanged: a change drops the edit it overtakes; while a save is on its way it
\* is left to that save.
TakeChanged(w) ==
  /\ Hears(w, "changed") \/ Hears(w, "echo")
  /\ LET h == win[w] IN win' = [win EXCEPT ![w] =
       IF h.saving # "no" THEN h
       ELSE [h EXCEPT !.shown = Doc(w),
                      !.status = IF Head(inbox[w]).word = "echo" THEN "stale" ELSE "ready",
                      !.local = NoList, !.basis = NoBasis, !.more = FALSE,
                      !.reading = IF @ = "no" THEN "no" ELSE "superseded"]]
  /\ UNCHANGED <<files, daemon, linked, queue, spent>>

TakeSaved(w) ==
  /\ Hears(w, "saved")
  /\ LET h == win[w] IN win' = [win EXCEPT ![w] =
       [h EXCEPT !.shown = Doc(w), !.status = "ready", !.saving = "answered",
                 !.save = NoSave, !.local = IF h.more THEN @ ELSE NoList,
                 !.basis = IF h.more THEN [list |-> Doc(w).list, old |-> FALSE]
                           ELSE NoBasis]]
  /\ UNCHANGED <<files, daemon, linked, queue, spent>>

TakeConflict(w) ==
  /\ Hears(w, "conflict")
  /\ win' = [win EXCEPT ![w] =
       [win[w] EXCEPT !.local = NoList, !.basis = NoBasis, !.save = NoSave,
                 !.more = FALSE, !.saving = "reloading", !.reading = "yes"]]
  /\ Asks(w, "read")
  /\ UNCHANGED <<files, daemon, linked, spent>>

TakeFailed(w) ==
  /\ Hears(w, "failed")
  /\ win' = [win EXCEPT ![w].saving = "no", ![w].save = NoSave]
  /\ UNCHANGED <<files, daemon, linked, queue, spent>>

\* flush, once the passwords are handed over.
SaveEnds(w) ==
  /\ win[w].saving \in {"answered", "reloaded"}
  /\ IF win[w].saving = "answered" /\ win[w].more
     THEN win' = [win EXCEPT ![w] = Flushed(@)] /\ Asks(w, "save")
     ELSE win' = [win EXCEPT ![w].saving = "no"] /\ UNCHANGED queue
  /\ UNCHANGED <<files, daemon, linked, inbox, spent>>

-----------------------------------------------------------------------------
(* What goes wrong, and what happens to the files outside. *)

\* A window without a link: its request is not heard of again.
Cut(h) ==
  [h EXCEPT !.status = IF @ = "no" THEN "no" ELSE "stale", !.reading = "no",
            !.saving = "no", !.save = NoSave, !.more = FALSE,
            !.basis.old = h.local # NoList]

\* The last holder that goes lets go of the project; a call that runs goes on.
LinkLost(w) ==
  /\ w \in linked
  /\ Spend("faults", MaxFaults)
  /\ linked' = linked \ {w}
  /\ queue' = [queue EXCEPT ![w] = <<>>] /\ inbox' = [inbox EXCEPT ![w] = <<>>]
  /\ win' = [win EXCEPT ![w] = Cut(@)]
  /\ call' = IF call.by = w THEN [call EXCEPT !.live = FALSE] ELSE call
  /\ loaded' = (loaded /\ linked # {w})
  /\ state' = IF linked = {w} /\ at = "idle" THEN NoState ELSE state
  /\ UNCHANGED <<files, at>>

Crash ==
  /\ Spend("faults", MaxFaults)
  /\ P!Rests
  /\ loaded' = FALSE /\ state' = NoState /\ at' = "idle" /\ call' = NoCall
  /\ linked' = {}
  /\ queue' = [w \in Windows |-> <<>>] /\ inbox' = [w \in Windows |-> <<>>]
  /\ win' = [w \in Windows |-> Cut(win[w])]

DiskFails ==
  /\ P!Fail /\ Spend("faults", MaxFaults)
  /\ UNCHANGED <<daemon, wire, win>>

OutsideTexts(f) ==
  {Absent, Broken} \cup
  IF f = "shared" THEN SharedTexts ELSE [rev : 0 .. 1, body : Bodies]

Outside ==
  /\ Spend("outside", MaxOutside)
  /\ \E f \in P!Files : \E text \in OutsideTexts(f) : P!Edit(f, text)
  /\ UNCHANGED <<daemon, wire, win>>

IntentDeleted ==
  /\ at = "idle" /\ P!DeleteIntent
  /\ UNCHANGED <<daemon, wire, win, spent>>

-----------------------------------------------------------------------------
CallStep ==
  \/ Load \/ SaveOvertaken \/ SaveWrites \/ Saved \/ SaveRaced \/ CallFails
  \/ GlanceEnds \/ FilesMove

WindowHears(w) ==
  \/ TakeList(w) \/ TakeNoList(w) \/ TakeChanged(w) \/ TakeSaved(w)
  \/ TakeConflict(w) \/ TakeFailed(w)

Next ==
  \/ \E w \in Windows :
       \/ Read(w) \/ Save(w) \/ LinkUp(w) \/ Reload(w) \/ Edit(w)
       \/ WindowHears(w) \/ SaveEnds(w) \/ LinkLost(w)
  \/ CallStep \/ Glance \/ WatcherTakes
  \/ Crash \/ DiskFails \/ Outside \/ IntentDeleted

Spec == Init /\ [][Next]_vars

-----------------------------------------------------------------------------
(* Correctness. *)

\* paired-write.ts:72-76: a save that is cut off is finished by whoever comes next,
\* so both files are of one save when its intent goes.
WholeWrites == [][P!Whole]_files

\* paired-write.ts:15-19: no write goes over an edit that was there when it looked.
EditsKept == P!EditsKept

\* connections.ts:114-119: a change from elsewhere is never written over.  The list
\* a save replaces is the one its author saw under the edit, unless that list came
\* over an earlier link or from a call that outlived its project, or was read again
\* under the edit.
OverwritesOnlySeen ==
  at = "save" /\ ~ call.save.basis.old => ListOf(state) = call.save.basis.list

\* connection-store.ts:341-343: a rev stands for one list.  A window that shows the
\* rev the daemon is at shows the list the daemon has, unless what it shows came
\* over an earlier link or from a call that outlived its project.
RevNamesList ==
  \A w \in linked :
    loaded /\ win[w].status = "ready" /\ win[w].shown.rev = state.rev =>
      win[w].shown.list = ListOf(state)

=============================================================================
