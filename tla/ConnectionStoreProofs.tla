------------------------ MODULE ConnectionStoreProofs ------------------------
(***************************************************************************)
(* Proofs about ConnectionStore and the PairedWrite under it, for any      *)
(* windows, texts, edits and faults.                                       *)
(***************************************************************************)
EXTENDS ConnectionStore, SequenceTheorems, TLAPS

-----------------------------------------------------------------------------
(* The files. *)

\* An intent names files of the project, and is gone once an operation is over.
IntentOfFiles ==
  /\ DOMAIN disk = P!Files /\ DOMAIN intent \subseteq P!Files
  /\ step \in {"over", "raced"} => intent = P!NoIntent

\* How far a write that nobody touched has come.
Progress ==
  ~ touched =>
    /\ \A f \in DOMAIN intent : disk[f] \in {intent[f].before, intent[f].after}
    /\ step = "check" => \A f \in DOMAIN intent : disk[f] = intent[f].before
    /\ step \in {"own", "remove"} /\ "shared" \in DOMAIN intent =>
         disk["shared"] = intent["shared"].after
    /\ step = "remove" /\ "own" \in DOMAIN intent => disk["own"] = intent["own"].after

FilesInv == IntentOfFiles /\ Progress /\ EditsKept

\* What a step of the whole system may do to the files.
Looks == step' = "look" /\ UNCHANGED <<disk, intent, touched, unseen>>
SetsAside ==
  /\ step = "over" /\ step' \in {"look", "rest"}
  /\ disk' = [f \in P!Files |-> Readable(f)]
  /\ UNCHANGED <<intent, touched, unseen>>
Intends ==
  /\ step = "over"
  /\ \E new : DOMAIN new \subseteq P!Files /\ P!WriteIntent(new)
FilesNext ==
  \/ P!FileStep \/ P!Fail \/ P!Rests \/ P!DeleteIntent \/ Looks \/ SetsAside
  \/ SaveWrites \/ \E f \in P!Files : \E text \in OutsideTexts(f) : P!Edit(f, text)

LEMMA SaveIntends == SaveWrites => Intends
<1> SUFFICES ASSUME SaveWrites PROVE Intends
  OBVIOUS
<1>1. PICK shared : P!WriteIntent(Intent(shared, call.save.list.body))
  BY DEF SaveWrites
<1>2. DOMAIN Intent(shared, call.save.list.body) \subseteq P!Files
  BY DEF Intent, P!Files
<1> QED
  BY <1>1, <1>2 DEF SaveWrites, Intends

LEMMA FilesMoveSo == [Next]_vars => [FilesNext]_files
<1> SUFFICES ASSUME Next \/ UNCHANGED vars, ~ UNCHANGED files PROVE FilesNext
  BY DEF vars
<1>1. ASSUME NEW w \in Windows, Read(w) PROVE FilesNext
  BY <1>1 DEF Read, Recovers, Looks, FilesNext
<1>2. ASSUME NEW w \in Windows, Save(w) PROVE FilesNext
  BY <1>2 DEF Save, Recovers, Looks, FilesNext
<1>3. CASE Load
  BY <1>3 DEF Load, SetsAside, FilesNext
<1>4. CASE SaveOvertaken \/ Saved \/ SaveRaced \/ CallFails \/ GlanceEnds \/ Crash
  BY <1>4 DEF SaveOvertaken, Saved, SaveRaced, CallFails, GlanceEnds, Crash, FilesNext
<1>5. CASE SaveWrites
  BY <1>5 DEF FilesNext
<1>6. CASE Glance
  BY <1>6 DEF Glance, Recovers, Looks, FilesNext
<1>7. CASE FilesMove \/ DiskFails \/ Outside \/ IntentDeleted
  BY <1>7 DEF FilesMove, DiskFails, Outside, IntentDeleted, FilesNext
<1>8. ASSUME NEW w \in Windows,
             \/ LinkUp(w) \/ Reload(w) \/ Edit(w) \/ WindowHears(w) \/ SaveEnds(w)
             \/ LinkLost(w)
      PROVE FALSE
  BY <1>8 DEF LinkUp, Reload, Edit, WindowHears, SaveEnds, LinkLost, TakeList, TakeNoList,
     TakeChanged, TakeSaved, TakeConflict, TakeFailed, files
<1>9. CASE WatcherTakes
  BY <1>9 DEF WatcherTakes
<1>10. CASE UNCHANGED vars
  BY <1>10 DEF vars
<1> QED
  BY <1>1, <1>2, <1>3, <1>4, <1>5, <1>6, <1>7, <1>8, <1>9, <1>10 DEF Next, CallStep

LEMMA FilesInit == Init => FilesInv
BY DEF Init, FilesInv, IntentOfFiles, Progress, EditsKept, P!EditsKept, P!NoIntent

LEMMA FilesStep == FilesInv /\ [FilesNext]_files => FilesInv'
<1> SUFFICES ASSUME FilesInv, [FilesNext]_files PROVE FilesInv'
  OBVIOUS
<1> USE DEF FilesInv, IntentOfFiles, Progress, EditsKept, P!EditsKept, P!NoIntent,
            P!BeforeOrAfter
<1>1. CASE P!Look
  BY <1>1 DEF P!Look, P!Moved
<1>2. CASE P!Check
  BY <1>2 DEF P!Check, P!Moved, P!Before, P!Forget
<1>3. CASE P!WriteShared
  BY <1>3 DEF P!WriteShared, P!Puts, P!Files
<1>4. CASE P!WriteOwn
  BY <1>4 DEF P!WriteOwn, P!Puts, P!Files
<1>5. CASE P!Remove
  BY <1>5 DEF P!Remove, P!Forget
<1>6. CASE P!Fail
  BY <1>6 DEF P!Fail
<1>7. CASE P!Rests
  BY <1>7 DEF P!Rests
<1>8. CASE P!DeleteIntent
  BY <1>8 DEF P!DeleteIntent, P!Forget
<1>9. CASE Looks
  BY <1>9 DEF Looks
<1>10. CASE SetsAside
  BY <1>10 DEF SetsAside
<1>11. CASE SaveWrites
  BY <1>11, SaveIntends DEF Intends, P!WriteIntent
<1>12. ASSUME NEW f \in P!Files, NEW text, P!Edit(f, text) PROVE FilesInv'
  BY <1>12 DEF P!Edit
<1>13. CASE UNCHANGED files
  BY <1>13 DEF files
<1> QED
  BY <1>1, <1>2, <1>3, <1>4, <1>5, <1>6, <1>7, <1>8, <1>9, <1>10, <1>11, <1>12, <1>13
     DEF FilesNext, P!FileStep, P!Apply

LEMMA FilesWhole == FilesInv /\ [FilesNext]_files => [P!Whole]_files
<1> SUFFICES ASSUME FilesInv, FilesNext, intent' # intent, ~ touched,
                    NEW f \in DOMAIN intent
             PROVE  disk[f] = intent[f].after
  BY DEF P!Whole
<1>1. CASE P!Remove
  BY <1>1 DEF P!Remove, FilesInv, IntentOfFiles, Progress, P!Files
<1>2. CASE P!Check
  \* An intent that nobody edited under has not moved when it is checked.
  BY <1>2 DEF P!Check, P!Moved, P!Before, FilesInv, Progress
<1>3. CASE P!DeleteIntent
  BY <1>3 DEF P!DeleteIntent, P!Moved, P!BeforeOrAfter, FilesInv, Progress
<1>4. CASE SaveWrites
  BY <1>4, SaveIntends DEF Intends, FilesInv, IntentOfFiles, P!NoIntent
<1>5. ASSUME \/ P!Look \/ P!WriteShared \/ P!WriteOwn \/ P!Fail \/ P!Rests \/ Looks
             \/ SetsAside \/ \E g \in P!Files : \E text \in OutsideTexts(g) : P!Edit(g, text)
      PROVE FALSE
  BY <1>5 DEF P!Look, P!WriteShared, P!WriteOwn, P!Fail, P!Rests, Looks, SetsAside, P!Edit
<1> QED
  BY <1>1, <1>2, <1>3, <1>4, <1>5 DEF FilesNext, P!FileStep, P!Apply

LEMMA FilesHold == Spec => []FilesInv
<1>1. FilesInv /\ [Next]_vars => FilesInv'
  BY FilesMoveSo, FilesStep
<1> QED
  BY <1>1, FilesInit, PTL DEF Spec

\* Whoever writes, fails, crashes, recovers or edits when: no file is written while it
\* holds an edit that was there when the write looked.
THEOREM KeepsEdits == Spec => []EditsKept
<1>1. FilesInv => EditsKept
  BY DEF FilesInv
<1> QED
  BY <1>1, FilesHold, PTL

\* An intent that nobody edited under goes only when every file it names holds what it
\* was to hold: a save reaches both files or neither, over any number of crashes.
THEOREM WritesWhole == Spec => WholeWrites
<1>1. FilesInv /\ [Next]_vars => [P!Whole]_files
  BY FilesMoveSo, FilesWhole
<1> QED
  BY <1>1, FilesHold, PTL DEF Spec, WholeWrites

-----------------------------------------------------------------------------
(* Messages: what is put on a queue and what is taken off. *)

Inbox == Seq([word : Words, doc : Documents])

LEMMA Appended ==
  ASSUME NEW S, NEW q \in Seq(S), NEW e \in S
  PROVE  /\ Append(q, e) \in Seq(S) /\ Len(Append(q, e)) = Len(q) + 1
         /\ \A i \in DOMAIN Append(q, e) :
              \/ i \in DOMAIN q /\ Append(q, e)[i] = q[i]
              \/ i = Len(q) + 1 /\ Append(q, e)[i] = e
         /\ DOMAIN q = 1 .. Len(q) /\ Len(q) \in Nat
<1>1. DOMAIN Append(q, e) = 1 .. Len(q) + 1 /\ Len(q) \in Nat
  BY AppendProperties, LenProperties
<1> QED
  BY <1>1, AppendProperties, LenProperties

LEMMA TakenOff ==
  ASSUME NEW S, NEW q \in Seq(S), q # <<>>
  PROVE  /\ Tail(q) \in Seq(S) /\ Head(q) \in S /\ Head(q) = q[1] /\ 1 \in DOMAIN q
         /\ \A i \in DOMAIN Tail(q) :
              i \in Nat /\ i + 1 \in DOMAIN q /\ i + 1 # 1 /\ Tail(q)[i] = q[i + 1]
OBVIOUS

\* What Says leaves in the inboxes: what was there, a change, and last the answer.
After(box, told, change, doc, word, w) ==
  [v \in Windows |->
     box[v] \o (IF v \in told THEN Word(change, doc) ELSE <<>>)
            \o (IF v = w THEN Word(word, doc) ELSE <<>>)]

Added(box, after, told, change, doc, word, w) ==
  /\ \A v \in Windows : \A i \in DOMAIN after[v] :
       \/ i \in DOMAIN box[v] /\ after[v][i] = box[v][i]
       \/ /\ v \in told /\ i = Len(box[v]) + 1
          /\ after[v][i] = [word |-> change, doc |-> doc]
       \/ /\ v = w /\ i \in Nat /\ i > Len(box[v]) /\ i = Len(after[v])
          /\ after[v][i] = [word |-> word, doc |-> doc]
  /\ \A v \in Windows : v \notin told /\ v # w => after[v] = box[v]

LEMMA SaysAfter ==
  ASSUME NEW told, NEW doc, NEW word, NEW w
  PROVE  Says(told, doc, word, w) => inbox' = After(inbox, told, Change, doc, word, w)
BY DEF Says, After

LEMMA SaidWhat ==
  ASSUME NEW box \in [Windows -> Inbox], NEW told, NEW change \in {"changed", "echo"},
         NEW doc \in Documents, NEW word \in Words, NEW w,
         NEW after, after = After(box, told, change, doc, word, w)
  PROVE  after \in [Windows -> Inbox] /\ Added(box, after, told, change, doc, word, w)
<1> DEFINE M == [word : Words, doc : Documents]
           c == [word |-> change, doc |-> doc]
           a == [word |-> word, doc |-> doc]
<1>1. c \in M /\ a \in M
  BY DEF Words
<1>2. /\ DOMAIN after = Windows /\ after = [v \in Windows |-> after[v]]
      /\ \A v \in Windows :
           after[v] = box[v] \o (IF v \in told THEN <<c>> ELSE <<>>)
                             \o (IF v = w THEN <<a>> ELSE <<>>)
  BY DEF After, Word
<1>3. \A v \in Windows : box[v] \in Seq(M)
  BY DEF Inbox
<1>4. Inbox = Seq(M)
  BY DEF Inbox
<1> HIDE DEF c, a, M
<1>5. ASSUME NEW v \in Windows
      PROVE  /\ after[v] \in Seq(M)
             /\ \A i \in DOMAIN after[v] :
                  \/ i \in DOMAIN box[v] /\ after[v][i] = box[v][i]
                  \/ v \in told /\ i = Len(box[v]) + 1 /\ after[v][i] = c
                  \/ /\ v = w /\ i \in Nat /\ i > Len(box[v]) /\ i = Len(after[v])
                     /\ after[v][i] = a
             /\ v \notin told /\ v # w => after[v] = box[v]
  <2> DEFINE q == box[v]
  <2>0. q \in Seq(M) /\ q \o <<>> = q
    BY <1>3, <1>5, ConcatEmptySeq
  <2> HIDE DEF q
  <2>1. CASE v \in told /\ v = w
    <3> DEFINE r == Append(q, c)
    <3>1. r = q \o <<c>> /\ r \in Seq(M)
      BY <1>1, <2>0, AppendIsConcat, Appended
    <3>2. after[v] = Append(r, a)
      <4>1. after[v] = r \o <<a>>
        BY <1>2, <1>5, <2>1, <3>1 DEF q
      <4> QED
        BY <1>1, <3>1, <4>1, AppendIsConcat
    <3>3. /\ \A i \in DOMAIN r : (i \in DOMAIN q /\ r[i] = q[i]) \/ (i = Len(q) + 1 /\ r[i] = c)
          /\ Len(r) = Len(q) + 1 /\ Len(q) \in Nat
      BY <1>1, <2>0, Appended
    <3> HIDE DEF r
    <3>4. /\ \A i \in DOMAIN after[v] :
               \/ i \in DOMAIN r /\ after[v][i] = r[i]
               \/ i = Len(r) + 1 /\ after[v][i] = a
          /\ Len(after[v]) = Len(r) + 1 /\ after[v] \in Seq(M)
      BY <1>1, <3>1, <3>2, Appended
    <3> QED
      BY <2>1, <3>3, <3>4 DEF q
  <2>2. CASE v \in told /\ v # w
    <3>1. q \o <<c>> = Append(q, c) /\ Append(q, c) \in Seq(M)
      BY <1>1, <2>0, AppendIsConcat, Appended
    <3>2. after[v] = Append(q, c)
      BY <1>2, <1>5, <2>2, <3>1, ConcatEmptySeq DEF q
    <3> QED
      BY <1>1, <2>0, <2>2, <3>2, Appended DEF q
  <2>3. CASE v \notin told /\ v = w
    <3>0. after[v] = (q \o <<>>) \o <<a>>
      BY <1>2, <1>5, <2>3 DEF q
    <3>1. after[v] = Append(q, a)
      BY <1>1, <2>0, <3>0, AppendIsConcat
    <3>2. /\ \A i \in DOMAIN after[v] :
               \/ i \in DOMAIN q /\ after[v][i] = q[i]
               \/ i = Len(q) + 1 /\ after[v][i] = a
          /\ Len(after[v]) = Len(q) + 1 /\ after[v] \in Seq(M) /\ Len(q) \in Nat
      BY <1>1, <2>0, <3>1, Appended
    <3> QED
      BY <2>3, <3>2 DEF q
  <2>4. CASE v \notin told /\ v # w
    <3>1. after[v] = q
      BY <1>2, <1>5, <2>0, <2>4 DEF q
    <3> QED
      BY <2>0, <3>1 DEF q
  <2> QED
    BY <2>1, <2>2, <2>3, <2>4
<1> QED
  BY <1>2, <1>4, <1>5 DEF c, a, Added

-----------------------------------------------------------------------------
(* Types, and where a save and a call are. *)

\* What each file may say, and what an edit in a window may be.
TextsOf(f) == (IF f = "shared" THEN SharedTexts ELSE OwnTexts) \cup {Absent, Broken}
EditLists == [shared : SharedTexts \cup {Absent}, body : Bodies]

FilesTyped ==
  /\ P!TypeOK
  /\ \A f \in P!Files : disk[f] \in TextsOf(f)
  /\ \A f \in DOMAIN intent :
       intent[f].before \in TextsOf(f) /\ intent[f].after \in TextsOf(f)

\* The call that runs: what it is at each stage, and that its caller is there.
CallInv ==
  /\ at = "idle" => call = NoCall
  /\ at = "load" => ~ loaded /\ call.kind \in {"read", "save"}
  /\ at \in {"again", "save"} => call.kind = "save"
  /\ at = "glance" => call.kind = "glance"
  /\ call.kind = "read" => at = "load"
  /\ call.kind = "save" => call.save.list \in EditLists
  /\ call.kind \in {"read", "save"} /\ call.live => call.by \in linked
  /\ at \in {"again", "save"} /\ call.live => loaded

DaemonTyped ==
  /\ loaded \in BOOLEAN
  /\ state \in [rev : Nat, shared : SharedTexts \cup {Absent},
                own : OwnTexts \cup {Absent}]
  /\ at \in {"idle", "load", "again", "save", "glance"}
  /\ call \in [kind : {"none", "read", "save", "glance"},
               by : Windows \cup {"nobody"}, live : BOOLEAN, save : Saves]
  /\ linked \subseteq Windows

WireTyped ==
  /\ queue \in [Windows -> Seq({"read", "save"})]
  /\ inbox \in [Windows -> Inbox]
  /\ win \in [Windows -> Held]

SpentTyped ==
  spent \in [edits : 0 .. MaxEdits, outside : 0 .. MaxOutside, faults : 0 .. MaxFaults]

\* A save is asked for, served or answered, and in one place only.
SaysBack == {"saved", "conflict", "failed"}
Asked(w) == \E i \in DOMAIN queue[w] : queue[w][i] = "save"
Told(w) == \E i \in DOMAIN inbox[w] : inbox[w][i].word \in SaysBack
Serving(w) == call.kind = "save" /\ call.by = w /\ call.live

OneSave(w) ==
  /\ \A i, j \in DOMAIN queue[w] : queue[w][i] = "save" /\ queue[w][j] = "save" => i = j
  /\ \A i, j \in DOMAIN inbox[w] :
       inbox[w][i].word \in SaysBack /\ inbox[w][j].word \in SaysBack => i = j
  /\ Asked(w) => ~ Told(w) /\ ~ Serving(w)
  /\ Serving(w) => ~ Told(w)
  /\ Asked(w) \/ Told(w) \/ Serving(w) => win[w].saving = "sent"

HeldInv(w) ==
  /\ win[w].saving = "sent" => win[w].save.list \in EditLists
  /\ win[w].local \in EditLists \cup {NoList}
  /\ win[w].more => win[w].local # NoList
  /\ w \notin linked =>
       /\ queue[w] = <<>> /\ inbox[w] = <<>>
       /\ win[w].status # "ready" /\ win[w].saving = "no" /\ ~ win[w].more

TypeInv ==
  /\ FilesTyped /\ DaemonTyped /\ WireTyped /\ SpentTyped
  /\ CallInv /\ \A w \in Windows : OneSave(w) /\ HeldInv(w)

LEMMA TypeInvTypes == TypeInv => TypeOK
BY DEF TypeInv, TypeOK, FilesTyped, DaemonTyped, WireTyped, SpentTyped, Inbox

LEMMA TypeInvInit == Init => TypeInv
<1> SUFFICES ASSUME Init PROVE TypeInv
  OBVIOUS
<1>1. FilesTyped
  BY DEF Init, FilesTyped, P!TypeOK, P!Files, P!NoIntent, P!IsIntent, P!Steps, Texts, TextsOf
<1>2. DaemonTyped /\ CallInv
  BY DEF Init, DaemonTyped, CallInv, NoState, NoCall, NoSave, NoBasis, Saves, Bases
<1>3. SpentTyped
  BY BoundsAssumption DEF Init, SpentTyped
<1>4. WireTyped
  <2>1. Fresh \in Held
    BY DEF Fresh, Held, NoDocument, Documents, Lists, NoBasis, NoSave, Bases, Saves
  <2> QED
    BY <2>1 DEF Init, WireTyped, Inbox
<1>5. ASSUME NEW w \in Windows PROVE OneSave(w) /\ HeldInv(w)
  BY DEF Init, OneSave, HeldInv, Asked, Told, Serving, NoCall, Fresh
<1> QED
  BY <1>1, <1>2, <1>3, <1>4, <1>5 DEF TypeInv

\* What is read from the files, and what is said of it.
LEMMA ReadsTyped ==
  ASSUME FilesTyped, DaemonTyped
  PROVE  /\ ReadState \in [rev : Nat, shared : SharedTexts \cup {Absent},
                           own : OwnTexts \cup {Absent}]
         /\ ~ Unreadable => /\ Taken \in [rev : Nat, shared : SharedTexts \cup {Absent},
                                          own : OwnTexts \cup {Absent}]
                            /\ Taken.rev > state.rev
<1>1. \A f \in P!Files : disk[f] \in TextsOf(f)
  BY DEF FilesTyped
<1>2. /\ Readable("shared") \in SharedTexts \cup {Absent}
      /\ Readable("own") \in OwnTexts \cup {Absent}
  BY <1>1 DEF TextsOf, Readable, P!Files
<1>3. ReadState \in [rev : Nat, shared : SharedTexts \cup {Absent}, own : OwnTexts \cup {Absent}]
  BY <1>2 DEF ReadState, OwnTexts
<1>4. ASSUME ~ Unreadable
      PROVE  /\ disk["shared"] \in SharedTexts \cup {Absent}
             /\ disk["own"] \in OwnTexts \cup {Absent}
  BY <1>1, <1>4 DEF TextsOf, Unreadable, P!Files
<1>5. state.rev \in Nat
  BY DEF DaemonTyped
<1> QED
  BY <1>3, <1>4, <1>5 DEF Taken, Later, OwnTexts

LEMMA SaidTyped ==
  ASSUME NEW s \in [rev : Nat, shared : SharedTexts \cup {Absent}, own : OwnTexts \cup {Absent}]
  PROVE  DocumentOf(s) \in Documents /\ DocumentOf(s).rev = s.rev
           /\ DocumentOf(s).list = ListOf(s) /\ ListOf(s) \in Lists
BY DEF DocumentOf, ListOf, Documents, Lists, OwnTexts

LEMMA FilesTypedStep == TypeInv /\ [Next]_vars => FilesTyped'
<1> SUFFICES ASSUME TypeInv, [FilesNext]_files PROVE FilesTyped'
  BY FilesMoveSo
<1> USE DEF FilesTyped, P!TypeOK
<1>0. FilesTyped
  BY DEF TypeInv
<1>1. CASE P!Look
  BY <1>0, <1>1 DEF P!Look, P!Steps
<1>2. CASE P!Check
  BY <1>0, <1>2 DEF P!Check, P!Forget, P!Steps, P!IsIntent, P!NoIntent
<1>3. CASE P!WriteShared \/ P!WriteOwn
  BY <1>0, <1>3 DEF P!WriteShared, P!WriteOwn, P!Puts, P!Steps, P!Files, P!IsIntent, P!NoIntent
<1>4. CASE P!Remove
  BY <1>0, <1>4 DEF P!Remove, P!Forget, P!Steps, P!IsIntent, P!NoIntent
<1>5. CASE P!Fail \/ P!Rests \/ Looks
  BY <1>0, <1>5 DEF P!Fail, P!Rests, Looks, P!Steps
<1>6. CASE P!DeleteIntent
  BY <1>0, <1>6 DEF P!DeleteIntent, P!Forget, P!IsIntent, P!NoIntent
<1>7. CASE SetsAside
  BY <1>0, <1>7 DEF SetsAside, P!Steps, Readable, TextsOf, Texts, P!Files
<1>8. ASSUME NEW f \in P!Files, NEW text \in OutsideTexts(f), P!Edit(f, text)
      PROVE  FilesTyped'
  <2>1. text \in TextsOf(f) /\ text \in Texts
    BY <1>8 DEF OutsideTexts, TextsOf, Texts, OwnTexts, P!Files
  <2> QED
    BY <1>0, <1>8, <2>1 DEF P!Edit
<1>9. CASE SaveWrites
  <2>1. PICK shared \in SharedAfter(call.save.list) :
          P!WriteIntent(Intent(shared, call.save.list.body))
    BY <1>9 DEF SaveWrites
  <2>2. call.save.list \in EditLists
    BY <1>9 DEF SaveWrites, TypeInv, CallInv
  <2>3. shared \in SharedTexts \cup {Absent} /\ call.save.list.body \in Bodies
    BY <2>1, <2>2 DEF SharedAfter, EditLists
  <2>4. /\ state.rev \in Nat /\ state.own \in OwnTexts \cup {Absent}
        /\ state.shared \in SharedTexts \cup {Absent}
    BY DEF TypeInv, DaemonTyped
  <2>5. [rev |-> state.rev + 1, body |-> call.save.list.body] \in OwnTexts
    BY <2>3, <2>4 DEF OwnTexts
  <2> DEFINE new == Intent(shared, call.save.list.body)
  <2>6. /\ new \in [IF shared = state.shared THEN {"own"} ELSE P!Files
                      -> [before : Texts, after : Texts]]
        /\ \A f \in DOMAIN new : new[f].before \in TextsOf(f) /\ new[f].after \in TextsOf(f)
    BY <2>3, <2>4, <2>5 DEF Intent, Texts, TextsOf, P!Files
  <2> HIDE DEF new
  <2>7. P!WriteIntent(new) /\ P!IsIntent(new)
    BY <2>1, <2>6 DEF new, P!IsIntent
  <2> QED
    BY <1>0, <2>6, <2>7 DEF P!WriteIntent, P!Steps, P!IsIntent
<1>10. CASE UNCHANGED files
  BY <1>0, <1>10 DEF files, P!IsIntent
<1> QED
  BY <1>1, <1>2, <1>3, <1>4, <1>5, <1>6, <1>7, <1>8, <1>9, <1>10
     DEF FilesNext, P!FileStep, P!Apply

LEMMA DaemonTypedStep == TypeInv /\ [Next]_vars => DaemonTyped' /\ CallInv'
<1> SUFFICES ASSUME TypeInv, [Next]_vars PROVE DaemonTyped' /\ CallInv'
  OBVIOUS
<1>0. /\ FilesTyped /\ DaemonTyped /\ WireTyped /\ CallInv
      /\ \A w \in Windows : OneSave(w) /\ HeldInv(w)
  BY DEF TypeInv
<1> USE DEF DaemonTyped, CallInv
<1>n. NoSave \in Saves /\ NoCall.kind = "none" /\ NoCall.by = "nobody"
        /\ NoCall \in [kind : {"none"}, by : {"nobody"}, live : {FALSE}, save : Saves]
        /\ NoState \in [rev : Nat, shared : SharedTexts \cup {Absent},
                        own : OwnTexts \cup {Absent}]
  BY DEF NoSave, NoBasis, Saves, Bases, NoCall, NoState
<1>r. /\ ReadState \in [rev : Nat, shared : SharedTexts \cup {Absent}, own : OwnTexts \cup {Absent}]
      /\ ~ Unreadable => Taken \in [rev : Nat, shared : SharedTexts \cup {Absent},
                                    own : OwnTexts \cup {Absent}]
  BY <1>0, ReadsTyped
<1>1. ASSUME NEW w \in Windows, Read(w) PROVE DaemonTyped' /\ CallInv'
  <2>1. w \in linked
    BY <1>0, <1>1 DEF Read, HeldInv
  <2>2. CASE loaded
    BY <1>0, <1>1, <2>2 DEF Read, Served, daemon
  <2>3. CASE ~ loaded
    <3>1. Recovers("load", "read", w, NoSave) /\ UNCHANGED linked
      BY <1>1, <2>3 DEF Read, Served
    <3> QED
      BY <1>0, <1>n, <2>1, <2>3, <3>1 DEF Recovers
  <2> QED
    BY <2>2, <2>3
<1>2. ASSUME NEW w \in Windows, Save(w) PROVE DaemonTyped' /\ CallInv'
  <2>1. w \in linked
    BY <1>0, <1>2 DEF Save, HeldInv
  <2>2. win[w].save \in Saves /\ win[w].save.list \in EditLists
    <3>1. queue[w] \in Seq({"read", "save"}) /\ queue[w] # <<>> /\ Head(queue[w]) = "save"
      BY <1>0, <1>2 DEF Save, WireTyped
    <3>2. Asked(w)
      BY <3>1, TakenOff DEF Asked
    <3> QED
      BY <1>0, <3>2 DEF OneSave, HeldInv, WireTyped, Held
  <2>3. CASE loaded /\ ~ SameRev(win[w].save, state)
    BY <1>0, <1>2, <2>3 DEF Save, Served, daemon
  <2>4. CASE ~ (loaded /\ ~ SameRev(win[w].save, state))
    <3>1. Recovers(IF loaded THEN "again" ELSE "load", "save", w, win[w].save)
            /\ UNCHANGED linked
      BY <1>2, <2>4 DEF Save, Served
    <3> QED
      BY <1>0, <2>1, <2>2, <3>1 DEF Recovers
  <2> QED
    BY <2>3, <2>4
<1>3. CASE Load
  BY <1>0, <1>3, <1>n, <1>r DEF Load
<1>4. CASE SaveOvertaken
  BY <1>0, <1>4, <1>n, <1>r DEF SaveOvertaken, Ends, Keeps
<1>5. CASE SaveWrites
  <2>1. PICK shared \in SharedAfter(call.save.list) :
          call' = [call EXCEPT !.save.list.shared = shared]
    BY <1>5 DEF SaveWrites
  <2>2. call.save.list \in EditLists /\ call.save \in Saves /\ call.kind = "save"
    BY <1>0, <1>5 DEF SaveWrites
  <2>3. shared \in SharedTexts \cup {Absent}
    BY <2>1, <2>2 DEF SharedAfter, EditLists
  <2> DEFINE l == [call.save.list EXCEPT !.shared = shared]
  <2>4. l \in EditLists /\ l \in Lists
    BY <2>2, <2>3 DEF EditLists, Lists
  <2> HIDE DEF l
  <2>5. [call.save EXCEPT !.list = l] \in Saves /\ [call.save EXCEPT !.list = l].list = l
    BY <2>2, <2>4 DEF Saves
  <2>6. call' = [call EXCEPT !.save = [call.save EXCEPT !.list = l]]
    BY <2>1 DEF l
  <2>7. /\ call' \in [kind : {"none", "read", "save", "glance"},
                     by : Windows \cup {"nobody"}, live : BOOLEAN, save : Saves]
        /\ call'.kind = "save" /\ call'.by = call.by /\ call'.live = call.live
        /\ call'.save.list = l
    BY <1>0, <2>2, <2>5, <2>6
  <2> QED
    BY <1>0, <1>5, <2>4, <2>7 DEF SaveWrites, wire
<1>6. CASE Saved
  <2> DEFINE now == [rev |-> state.rev + 1, shared |-> call.save.list.shared,
              own |-> [rev |-> state.rev + 1, body |-> call.save.list.body]]
  <2>1. call.save.list \in EditLists /\ state.rev \in Nat
    BY <1>0, <1>6 DEF Saved
  <2>2. now \in [rev : Nat, shared : SharedTexts \cup {Absent}, own : OwnTexts \cup {Absent}]
    BY <2>1 DEF EditLists, OwnTexts
  <2>3. Keeps(now) /\ Ends /\ UNCHANGED linked
    BY <1>6 DEF Saved
  <2> HIDE DEF now
  <2> QED
    BY <1>0, <1>n, <2>2, <2>3 DEF Keeps, Ends
<1>7. CASE SaveRaced \/ CallFails \/ GlanceEnds
  BY <1>0, <1>7, <1>n DEF SaveRaced, CallFails, GlanceEnds, Keeps, Ends, wire
<1>8. CASE Glance
  BY <1>0, <1>8, <1>n DEF Glance, Recovers, wire
<1>9. CASE WatcherTakes
  BY <1>0, <1>9, <1>r DEF WatcherTakes
<1>10. CASE FilesMove \/ DiskFails \/ Outside \/ IntentDeleted
  BY <1>0, <1>10 DEF FilesMove, DiskFails, Outside, IntentDeleted, daemon, wire
<1>11. CASE Crash
  BY <1>0, <1>11, <1>n DEF Crash
<1>12. ASSUME NEW w \in Windows, LinkLost(w) PROVE DaemonTyped' /\ CallInv'
  <2>1. /\ call' \in [kind : {"none", "read", "save", "glance"},
                     by : Windows \cup {"nobody"}, live : BOOLEAN, save : Saves]
        /\ call'.kind = call.kind /\ call'.by = call.by /\ call'.save = call.save
        /\ call'.live => call.live /\ call.by # w
        /\ call = NoCall => call' = NoCall
    <3>1. CASE call.by = w
      <4>1. call' = [call EXCEPT !.live = FALSE] /\ call # NoCall
        BY <1>12, <3>1, WindowsAssumption DEF LinkLost, NoCall
      <4> QED
        BY <1>0, <4>1
    <3>2. CASE call.by # w
      BY <1>0, <1>12, <3>2 DEF LinkLost
    <3> QED
      BY <3>1, <3>2
  <2> QED
    BY <1>0, <1>12, <1>n, <2>1 DEF LinkLost
<1>13. ASSUME NEW w \in Windows,
              Reload(w) \/ Edit(w) \/ WindowHears(w) \/ SaveEnds(w)
       PROVE  DaemonTyped' /\ CallInv'
  <2>1. UNCHANGED <<daemon, linked>>
    BY <1>13 DEF Reload, Edit, WindowHears, SaveEnds, TakeList, TakeNoList, TakeChanged,
       TakeSaved, TakeConflict, TakeFailed
  <2> QED
    BY <1>0, <2>1 DEF daemon
<1>14. ASSUME NEW w \in Windows, LinkUp(w) PROVE DaemonTyped' /\ CallInv'
  BY <1>0, <1>14 DEF LinkUp, daemon
<1>15. CASE UNCHANGED vars
  BY <1>0, <1>15 DEF vars, daemon, wire
<1> QED
  BY <1>1, <1>2, <1>3, <1>4, <1>5, <1>6, <1>7, <1>8, <1>9, <1>10, <1>11, <1>12, <1>13, <1>14,
     <1>15 DEF Next, CallStep

LEMMA SpentTypedStep == TypeInv /\ [Next]_vars => SpentTyped'
<1> SUFFICES ASSUME TypeInv, [Next]_vars PROVE SpentTyped'
  OBVIOUS
<1>0. SpentTyped
  BY DEF TypeInv
<1>1. ASSUME \/ Spend("edits", MaxEdits) \/ Spend("outside", MaxOutside)
             \/ Spend("faults", MaxFaults)
      PROVE  SpentTyped'
  BY <1>0, <1>1, BoundsAssumption DEF Spend, SpentTyped
<1>2. CASE UNCHANGED spent
  BY <1>0, <1>2 DEF SpentTyped
<1>3. \/ UNCHANGED spent \/ Spend("edits", MaxEdits) \/ Spend("outside", MaxOutside)
      \/ Spend("faults", MaxFaults)
  BY DEF Next, CallStep, WindowHears, Read, Save, Served, LinkUp, Reload, Edit, TakeList,
     TakeNoList, TakeChanged, TakeSaved, TakeConflict, TakeFailed, SaveEnds, LinkLost, Load,
     SaveOvertaken, SaveWrites, Saved, SaveRaced, CallFails, Glance, GlanceEnds, FilesMove,
     WatcherTakes, Crash, DiskFails, Outside, IntentDeleted, vars
<1> QED
  BY <1>1, <1>2, <1>3

\* A window that a step leaves alone.
LEMMA WindowKept ==
  ASSUME NEW v \in Windows, OneSave(v), HeldInv(v),
         queue'[v] = queue[v], inbox'[v] = inbox[v], win'[v] = win[v],
         v \in linked' <=> v \in linked, Serving(v)' => Serving(v)
  PROVE  OneSave(v)' /\ HeldInv(v)'
BY DEF OneSave, HeldInv, Asked, Told, Serving

\* The end of a call, with a change told to some and an answer to who asked.
LEMMA CallAnswered ==
  ASSUME TypeInv, NEW told \in SUBSET linked, NEW doc \in Documents, NEW word \in Words,
         Says(told, doc, word, Caller), call' = NoCall, UNCHANGED <<queue, win, linked>>,
         word \in SaysBack => call.kind = "save", call.kind \in {"read", "save"}
  PROVE  WireTyped' /\ \A v \in Windows : OneSave(v)' /\ HeldInv(v)'
<1>0. WireTyped /\ loaded \in BOOLEAN /\ CallInv
  BY DEF TypeInv, DaemonTyped
<1>c. /\ Change \in {"changed", "echo"}
      /\ inbox' = After(inbox, told, Change, doc, word, Caller)
  BY SaysAfter DEF Change
<1>1. /\ inbox' \in [Windows -> Inbox]
      /\ \A v \in Windows : \A i \in DOMAIN inbox'[v] :
           \/ i \in DOMAIN inbox[v] /\ inbox'[v][i] = inbox[v][i]
           \/ /\ v \in told /\ i = Len(inbox[v]) + 1
              /\ inbox'[v][i] = [word |-> Change, doc |-> doc]
           \/ /\ v = Caller /\ i \in Nat /\ i > Len(inbox[v]) /\ i = Len(inbox'[v])
              /\ inbox'[v][i] = [word |-> word, doc |-> doc]
  <2>1. /\ inbox' \in [Windows -> Inbox]
        /\ Added(inbox, inbox', told, Change, doc, word, Caller)
    BY <1>0, <1>c, SaidWhat DEF WireTyped
  <2> QED
    BY <2>1 DEF Added
<1>2. WireTyped'
  BY <1>0, <1>1 DEF WireTyped
<1>3. ASSUME NEW v \in Windows PROVE OneSave(v)' /\ HeldInv(v)'
  <2>0. OneSave(v) /\ HeldInv(v)
    BY DEF TypeInv
  <2>1. Change \notin SaysBack /\ ~ Serving(v)'
    BY DEF Change, SaysBack, Serving, NoCall
  <2>2. v = Caller /\ word \in SaysBack => Serving(v) /\ ~ Told(v) /\ ~ Asked(v)
    BY <2>0, WindowsAssumption DEF Caller, Serving, OneSave
  <2>3. OneSave(v)'
    <3>1. CASE v = Caller /\ word \in SaysBack
      <4>1. \A i \in DOMAIN inbox'[v] : inbox'[v][i].word \in SaysBack => i = Len(inbox'[v])
        BY <1>1, <2>1, <2>2, <3>1 DEF Told
      <4> QED
        BY <2>0, <2>1, <2>2, <3>1, <4>1 DEF OneSave, Told, Asked
    <3>2. CASE ~ (v = Caller /\ word \in SaysBack)
      <4>1. \A i \in DOMAIN inbox'[v] :
              inbox'[v][i].word \in SaysBack =>
                i \in DOMAIN inbox[v] /\ inbox'[v][i] = inbox[v][i]
        BY <1>1, <2>1, <3>2
      <4>2. Told(v)' => Told(v)
        BY <4>1 DEF Told
      <4> QED
        BY <2>0, <2>1, <4>1, <4>2 DEF OneSave, Asked
    <3> QED
      BY <3>1, <3>2
  <2>4. HeldInv(v)'
    <3>1. CASE v \in linked
      BY <2>0, <3>1 DEF HeldInv
    <3>2. CASE v \notin linked
      <4>1. v # Caller /\ v \notin told
        BY <1>0, <3>2, WindowsAssumption DEF Caller, CallInv
      <4>2. inbox'[v] = inbox[v]
        <5>1. inbox'[v] = inbox[v] \o <<>> \o <<>> /\ inbox[v] \in Inbox
          BY <1>0, <4>1 DEF Says, WireTyped
        <5> QED
          BY <5>1, ConcatEmptySeq DEF Inbox
      <4> QED
        BY <2>0, <4>2 DEF HeldInv
    <3> QED
      BY <3>1, <3>2
  <2> QED
    BY <2>3, <2>4
<1> QED
  BY <1>2, <1>3

\* A call that is taken off the queue of a window, answered at once or not.
LEMMA CallTaken ==
  ASSUME TypeInv, NEW w \in Windows, Read(w) \/ Save(w)
  PROVE  WireTyped' /\ \A v \in Windows : OneSave(v)' /\ HeldInv(v)'
<1>0. WireTyped /\ DaemonTyped /\ CallInv /\ OneSave(w) /\ HeldInv(w)
  BY DEF TypeInv
<1>1. /\ queue' = [queue EXCEPT ![w] = Tail(queue[w])] /\ queue[w] # <<>>
      /\ UNCHANGED <<linked, win>> /\ call = NoCall
  BY <1>0 DEF Read, Save, Served, CallInv
<1>2. /\ queue[w] \in Seq({"read", "save"})
      /\ queue' \in [Windows -> Seq({"read", "save"})]
      /\ Head(queue[w]) = queue[w][1] /\ 1 \in DOMAIN queue[w]
      /\ \A i \in DOMAIN queue'[w] :
           i \in Nat /\ i + 1 \in DOMAIN queue[w] /\ i + 1 # 1 /\ queue'[w][i] = queue[w][i + 1]
  BY <1>0, <1>1, TakenOff DEF WireTyped
<1>3. w \in linked
  BY <1>0, <1>1 DEF HeldInv
<1>4. Asked(w)' => Asked(w)
  BY <1>2 DEF Asked
<1>5. \A i, j \in DOMAIN queue'[w] : queue'[w][i] = "save" /\ queue'[w][j] = "save" => i = j
  <2>1. ASSUME NEW i \in DOMAIN queue'[w], NEW j \in DOMAIN queue'[w],
               queue'[w][i] = "save", queue'[w][j] = "save"
        PROVE  i = j
    <3>1. i + 1 = j + 1
      BY <1>0, <1>2, <2>1 DEF OneSave
    <3> QED
      BY <1>2, <3>1
  <2> QED
    BY <2>1
<1>6. ASSUME NEW v \in Windows, v # w, inbox'[v] = inbox[v], Serving(v)' => Serving(v)
      PROVE  OneSave(v)' /\ HeldInv(v)'
  <2>1. queue'[v] = queue[v] /\ win'[v] = win[v] /\ OneSave(v) /\ HeldInv(v)
    BY <1>0, <1>1, <1>6 DEF WireTyped, TypeInv
  <2> QED
    BY <1>1, <1>6, <2>1, WindowKept
<1>7. HeldInv(w)'
  BY <1>0, <1>1, <1>3 DEF HeldInv
<1>8. CASE inbox' = inbox /\ call'.by = w /\ (call'.kind = "save" => Save(w))
  <2>1. Save(w) => Asked(w) /\ ~ Asked(w)' /\ ~ Told(w)
    <3>1. SUFFICES ASSUME Save(w) PROVE Asked(w) /\ ~ Asked(w)' /\ ~ Told(w)
      OBVIOUS
    <3>2. queue[w][1] = "save"
      BY <1>2, <3>1 DEF Save
    <3>3. Asked(w)
      BY <1>2, <3>2 DEF Asked
    <3>4. ~ Asked(w)'
      BY <1>0, <1>2, <3>2 DEF Asked, OneSave
    <3> QED
      BY <1>0, <3>3, <3>4 DEF OneSave
  <2>2. OneSave(w)'
    BY <1>0, <1>1, <1>4, <1>5, <1>8, <2>1 DEF OneSave, Told, Serving, NoCall
  <2>3. WireTyped'
    BY <1>0, <1>1, <1>2, <1>8 DEF WireTyped
  <2>4. \A v \in Windows : v # w => inbox'[v] = inbox[v] /\ ~ Serving(v)'
    BY <1>8 DEF Serving
  <2> QED
    BY <1>6, <1>7, <2>2, <2>3, <2>4
<1>9. ASSUME NEW word \in {"list", "conflict"}, Says({}, DocumentOf(state), word, w),
             UNCHANGED call, word = "conflict" => Save(w)
      PROVE  WireTyped' /\ \A v \in Windows : OneSave(v)' /\ HeldInv(v)'
  <2>0. DocumentOf(state) \in Documents /\ word \in Words /\ loaded \in BOOLEAN
    BY <1>0, SaidTyped DEF DaemonTyped, Words
  <2>c. /\ Change \in {"changed", "echo"}
        /\ inbox' = After(inbox, {}, Change, DocumentOf(state), word, w)
    BY <1>9, SaysAfter DEF Change
  <2>1. /\ inbox' \in [Windows -> Inbox]
        /\ \A v \in Windows : \A i \in DOMAIN inbox'[v] :
             \/ i \in DOMAIN inbox[v] /\ inbox'[v][i] = inbox[v][i]
             \/ /\ v = w /\ i \in Nat /\ i > Len(inbox[v]) /\ i = Len(inbox'[v])
                /\ inbox'[v][i] = [word |-> word, doc |-> DocumentOf(state)]
    <3>1. /\ inbox' \in [Windows -> Inbox]
          /\ Added(inbox, inbox', {}, Change, DocumentOf(state), word, w)
      BY <1>0, <2>0, <2>c, SaidWhat DEF WireTyped
    <3> QED
      BY <3>1 DEF Added
  <2>2. WireTyped'
    BY <1>0, <1>1, <1>2, <2>1 DEF WireTyped
  <2>3. \A v \in Windows : v # w => inbox'[v] = inbox[v]
    <3>1. ASSUME NEW v \in Windows, v # w PROVE inbox'[v] = inbox[v]
      <4>1. inbox'[v] = inbox[v] \o <<>> \o <<>> /\ inbox[v] \in Inbox
        BY <1>0, <1>9, <3>1 DEF Says, WireTyped
      <4> QED
        BY <4>1, ConcatEmptySeq DEF Inbox
    <3> QED
      BY <3>1
  <2>4. OneSave(w)'
    <3>1. ~ Serving(w) /\ ~ Serving(w)'
      BY <1>1, <1>9 DEF Serving, NoCall
    <3>2. CASE word = "conflict"
      <4>1. queue[w][1] = "save"
        BY <1>2, <1>9, <3>2 DEF Save
      <4>2. Asked(w) /\ ~ Asked(w)'
        BY <1>0, <1>2, <4>1 DEF Asked, OneSave
      <4>3. ~ Told(w) /\ win[w].saving = "sent"
        BY <1>0, <4>2 DEF OneSave
      <4>4. \A i \in DOMAIN inbox'[w] : inbox'[w][i].word \in SaysBack => i = Len(inbox'[w])
        BY <2>1, <4>3 DEF Told
      <4> QED
        BY <1>1, <1>5, <3>1, <4>2, <4>3, <4>4 DEF OneSave
    <3>3. CASE word = "list"
      <4>1. \A i \in DOMAIN inbox'[w] : inbox'[w][i].word \in SaysBack =>
              i \in DOMAIN inbox[w] /\ inbox'[w][i] = inbox[w][i]
        BY <2>1, <3>3 DEF SaysBack
      <4>2. Told(w)' => Told(w)
        BY <4>1 DEF Told
      <4> QED
        BY <1>0, <1>1, <1>4, <1>5, <3>1, <4>1, <4>2 DEF OneSave
    <3> QED
      BY <3>2, <3>3
  <2> QED
    BY <1>6, <1>7, <1>9, <2>2, <2>3, <2>4 DEF Serving
<1>10. CASE Read(w)
  <2>1. CASE loaded
    BY <1>9, <1>10, <2>1 DEF Read, daemon
  <2>2. CASE ~ loaded
    BY <1>8, <1>10, <2>2 DEF Read, Recovers
  <2> QED
    BY <2>1, <2>2
<1>11. CASE Save(w)
  <2>1. CASE loaded /\ ~ SameRev(win[w].save, state)
    BY <1>9, <1>11, <2>1 DEF Save, daemon
  <2>2. CASE ~ (loaded /\ ~ SameRev(win[w].save, state))
    BY <1>8, <1>11, <2>2 DEF Save, Recovers
  <2> QED
    BY <2>1, <2>2
<1> QED
  BY <1>10, <1>11

\* A request put on the queue of a window, and a message taken from its inbox.
Grown(q, r, e) ==
  \A i \in DOMAIN r : \/ i \in DOMAIN q /\ r[i] = q[i]
                      \/ i = Len(q) + 1 /\ r[i] = e
Shifted(q, r) ==
  \A i \in DOMAIN r : i \in Nat /\ i + 1 \in DOMAIN q /\ i + 1 # 1 /\ r[i] = q[i + 1]

LEMMA Asking ==
  ASSUME NEW q \in [Windows -> Seq({"read", "save"})], NEW w \in Windows,
         NEW what \in {"read", "save"}, NEW r, r = [q EXCEPT ![w] = Append(@, what)]
  PROVE  /\ r \in [Windows -> Seq({"read", "save"})] /\ Grown(q[w], r[w], what)
         /\ DOMAIN q[w] = 1 .. Len(q[w]) /\ Len(q[w]) \in Nat
         /\ \A v \in Windows : v # w => r[v] = q[v]
<1>1. q[w] \in Seq({"read", "save"}) /\ r[w] = Append(q[w], what)
  OBVIOUS
<1>2. r[w] \in Seq({"read", "save"}) /\ Grown(q[w], r[w], what)
        /\ DOMAIN q[w] = 1 .. Len(q[w]) /\ Len(q[w]) \in Nat
  BY <1>1, Appended DEF Grown
<1> QED
  BY <1>2

LEMMA Hearing ==
  ASSUME NEW box \in [Windows -> Inbox], NEW w \in Windows, box[w] # <<>>,
         NEW after, after = [box EXCEPT ![w] = Tail(@)]
  PROVE  /\ after \in [Windows -> Inbox] /\ Shifted(box[w], after[w])
         /\ Head(box[w]) = box[w][1] /\ 1 \in DOMAIN box[w]
         /\ Head(box[w]).doc \in Documents
         /\ \A v \in Windows : v # w => after[v] = box[v]
<1> DEFINE M == [word : Words, doc : Documents]
<1>1. box[w] \in Seq(M) /\ after[w] = Tail(box[w]) /\ Inbox = Seq(M)
  BY DEF Inbox
<1>2. \A m \in M : m.doc \in Documents
  OBVIOUS
<1> HIDE DEF M
<1>3. /\ after[w] \in Seq(M) /\ Shifted(box[w], after[w])
      /\ Head(box[w]) \in M /\ Head(box[w]) = box[w][1] /\ 1 \in DOMAIN box[w]
  BY <1>1, TakenOff DEF Shifted
<1> QED
  BY <1>1, <1>2, <1>3

\* A window that asks for a save has none under way.
LEMMA AsksSave ==
  ASSUME NEW w \in Windows, OneSave(w), win[w].saving # "sent",
         queue[w] \in Seq({"read", "save"}), DOMAIN queue[w] = 1 .. Len(queue[w]),
         Len(queue[w]) \in Nat, Grown(queue[w], queue'[w], "save"),
         inbox'[w] = inbox[w], UNCHANGED call, win'[w].saving = "sent"
  PROVE  OneSave(w)'
<1>1. ~ Asked(w) /\ ~ Told(w) /\ ~ Serving(w)
  BY DEF OneSave
<1>2. \A i \in DOMAIN queue'[w] : queue'[w][i] = "save" => i = Len(queue[w]) + 1
  BY <1>1 DEF Grown, Asked
<1> QED
  BY <1>1, <1>2 DEF OneSave, Told, Serving

\* One that asks for the list, or for nothing.
LEMMA AsksNoSave ==
  ASSUME NEW w \in Windows, OneSave(w), queue'[w] = queue[w] \/ Grown(queue[w], queue'[w], "read"),
         inbox'[w] = inbox[w], UNCHANGED call,
         win[w].saving = "sent" => win'[w].saving = "sent"
  PROVE  OneSave(w)'
<1>1. \A i \in DOMAIN queue'[w] : queue'[w][i] = "save" =>
        i \in DOMAIN queue[w] /\ queue'[w][i] = queue[w][i]
  BY DEF Grown
<1>2. Asked(w)' => Asked(w)
  BY <1>1 DEF Asked
<1> QED
  BY <1>1, <1>2 DEF OneSave, Told, Serving

\* One that hears a word: the answer to its save, or another one.
LEMMA HearsOne ==
  ASSUME NEW w \in Windows, OneSave(w), Shifted(inbox[w], inbox'[w]), 1 \in DOMAIN inbox[w],
         queue'[w] = queue[w] \/ Grown(queue[w], queue'[w], "read"), UNCHANGED call,
         \/ inbox[w][1].word \in SaysBack
         \/ win[w].saving = "sent" => win'[w].saving = "sent"
  PROVE  OneSave(w)'
<1>1. /\ \A i \in DOMAIN queue'[w] : queue'[w][i] = "save" =>
           i \in DOMAIN queue[w] /\ queue'[w][i] = queue[w][i]
      /\ Asked(w)' => Asked(w)
  BY DEF Grown, Asked
<1>2. /\ \A i \in DOMAIN inbox'[w] : i \in Nat /\ i + 1 \in DOMAIN inbox[w] /\ i + 1 # 1
                                     /\ inbox'[w][i] = inbox[w][i + 1]
      /\ Told(w)' => Told(w)
  BY DEF Shifted, Told
<1>3. ASSUME NEW i \in DOMAIN inbox'[w], NEW j \in DOMAIN inbox'[w],
             inbox'[w][i].word \in SaysBack, inbox'[w][j].word \in SaysBack
      PROVE  i = j
  <2>1. i + 1 = j + 1
    BY <1>2, <1>3 DEF OneSave
  <2> QED
    BY <1>2, <2>1
<1>4. CASE inbox[w][1].word \in SaysBack
  <2>1. Told(w)
    BY <1>4 DEF Told
  <2>2. ~ Told(w)'
    BY <1>2, <1>4 DEF Told, OneSave
  <2> QED
    BY <1>1, <1>3, <2>1, <2>2 DEF OneSave, Serving
<1>5. CASE win[w].saving = "sent" => win'[w].saving = "sent"
  BY <1>1, <1>2, <1>3, <1>5 DEF OneSave, Serving
<1> QED
  BY <1>4, <1>5

LEMMA FlushedHeld ==
  ASSUME NEW h \in Held
  PROVE  /\ Flushed(h) \in Held /\ Flushed(h).saving = "sent" /\ ~ Flushed(h).more
         /\ Flushed(h).local = h.local /\ Flushed(h).status = h.status
         /\ Flushed(h).shown = h.shown /\ Flushed(h).basis = h.basis
         /\ Flushed(h).save.list = h.local /\ Flushed(h).save.base = h.shown.rev
         /\ Flushed(h).save.basis = h.basis
<1>1. h.shown.rev \in Nat /\ h.local \in Lists \cup {NoList} /\ h.basis \in Bases
  BY DEF Held, Documents
<1>2. [base |-> h.shown.rev, list |-> h.local, basis |-> h.basis] \in Saves
  BY <1>1 DEF Saves
<1> QED
  BY <1>2 DEF Flushed, Held

\* A step of one window: what it leaves of the window's own state is right, and the
\* others are left alone.
LEMMA OneWindow ==
  ASSUME TypeInv, NEW w \in Windows, WireTyped', OneSave(w)', HeldInv(w)',
         \A v \in Windows : v # w =>
           /\ queue'[v] = queue[v] /\ inbox'[v] = inbox[v] /\ win'[v] = win[v]
           /\ v \in linked' <=> v \in linked
           /\ Serving(v)' => Serving(v)
  PROVE  WireTyped' /\ \A v \in Windows : OneSave(v)' /\ HeldInv(v)'
<1>1. ASSUME NEW v \in Windows, v # w PROVE OneSave(v)' /\ HeldInv(v)'
  BY <1>1, WindowKept DEF TypeInv
<1> QED
  BY <1>1

LEMMA WindowStep ==
  ASSUME TypeInv, NEW w \in Windows,
         \/ LinkUp(w) \/ Reload(w) \/ Edit(w) \/ WindowHears(w) \/ SaveEnds(w) \/ LinkLost(w)
  PROVE  WireTyped' /\ \A v \in Windows : OneSave(v)' /\ HeldInv(v)'
<1>0. WireTyped /\ DaemonTyped /\ CallInv /\ OneSave(w) /\ HeldInv(w)
  BY DEF TypeInv
<1> DEFINE h == win[w]
<1>h. h \in Held /\ DOMAIN queue[w] = 1 .. Len(queue[w]) /\ Len(queue[w]) \in Nat
  <2>1. queue[w] \in Seq({"read", "save"})
    BY <1>0 DEF WireTyped
  <2> QED
    BY <1>0, <2>1, LenProperties DEF WireTyped
<1>u. WireTyped => queue[w] \in Seq({"read", "save"})
  BY DEF WireTyped
\* A step that takes nothing from the inbox and asks for the list or for nothing.
<1>A. ASSUME UNCHANGED <<call, inbox>>, NEW x \in Held, win' = [win EXCEPT ![w] = x],
             Asks(w, "read") \/ UNCHANGED queue, h.saving = "sent" => x.saving = "sent",
             linked' \in {linked, linked \cup {w}}, HeldInv(w)'
      PROVE  WireTyped' /\ \A v \in Windows : OneSave(v)' /\ HeldInv(v)'
  <2>1. /\ queue' \in [Windows -> Seq({"read", "save"})]
        /\ queue'[w] = queue[w] \/ Grown(queue[w], queue'[w], "read")
        /\ \A v \in Windows : v # w => queue'[v] = queue[v]
    BY <1>0, <1>A, Asking DEF WireTyped, Asks
  <2>2. WireTyped' /\ win'[w] = x
    BY <1>0, <1>A, <2>1 DEF WireTyped
  <2>3. OneSave(w)'
    BY <1>0, <1>A, <2>1, <2>2, AsksNoSave
  <2> QED
    BY <1>0, <1>A, <2>1, <2>2, <2>3, OneWindow DEF WireTyped, Serving
\* One that asks for a save.
<1>B. ASSUME UNCHANGED <<call, inbox>>, NEW y \in Held, win' = [win EXCEPT ![w] = Flushed(y)],
             Asks(w, "save"), h.saving # "sent", y.local \in EditLists,
             linked' \in {linked, linked \cup {w}}, w \in linked'
      PROVE  WireTyped' /\ \A v \in Windows : OneSave(v)' /\ HeldInv(v)'
  <2>1. /\ queue' \in [Windows -> Seq({"read", "save"})]
        /\ Grown(queue[w], queue'[w], "save")
        /\ \A v \in Windows : v # w => queue'[v] = queue[v]
    BY <1>0, <1>B, Asking DEF WireTyped, Asks
  <2> DEFINE x == Flushed(y)
  <2>2. /\ x \in Held /\ x.saving = "sent" /\ ~ x.more /\ x.local = y.local
        /\ x.save.list = y.local
    BY <1>B, FlushedHeld
  <2> HIDE DEF x
  <2>3. WireTyped' /\ win'[w] = x
    BY <1>0, <1>B, <2>1, <2>2 DEF WireTyped, x
  <2>4. OneSave(w)'
    BY <1>0, <1>B, <1>h, <1>u, <2>1, <2>2, <2>3, AsksSave
  <2>5. HeldInv(w)'
    BY <1>B, <2>2, <2>3 DEF HeldInv
  <2> QED
    BY <1>0, <1>B, <2>1, <2>3, <2>4, <2>5, OneWindow DEF WireTyped, Serving
\* One that hears a word.
<1>C. ASSUME NEW word \in Words, Hears(w, word), UNCHANGED <<call, linked>>,
             Asks(w, "read") \/ UNCHANGED queue,
             NEW x \in Held, win' = [win EXCEPT ![w] = x],
             word \in SaysBack \/ (h.saving = "sent" => x.saving = "sent"),
             x.saving = "sent" => x.save.list \in EditLists,
             x.local \in EditLists \cup {NoList}, x.more => x.local # NoList
      PROVE  WireTyped' /\ \A v \in Windows : OneSave(v)' /\ HeldInv(v)'
  <2>1. /\ queue' \in [Windows -> Seq({"read", "save"})]
        /\ queue'[w] = queue[w] \/ Grown(queue[w], queue'[w], "read")
        /\ \A v \in Windows : v # w => queue'[v] = queue[v]
    BY <1>0, <1>C, Asking DEF WireTyped, Asks
  <2>2. /\ inbox' \in [Windows -> Inbox] /\ Shifted(inbox[w], inbox'[w])
        /\ Head(inbox[w]) = inbox[w][1] /\ 1 \in DOMAIN inbox[w]
        /\ \A v \in Windows : v # w => inbox'[v] = inbox[v]
    BY <1>0, <1>C, Hearing DEF WireTyped, Hears
  <2>3. WireTyped' /\ win'[w] = x
    BY <1>0, <1>C, <2>1, <2>2 DEF WireTyped
  <2>4. inbox[w][1].word = word /\ w \in linked
    BY <1>0, <1>C, <2>2 DEF Hears, HeldInv
  <2>5. OneSave(w)'
    BY <1>0, <1>C, <2>1, <2>2, <2>3, <2>4, HearsOne
  <2>6. HeldInv(w)'
    BY <1>C, <2>3, <2>4 DEF HeldInv
  <2> QED
    BY <1>0, <1>C, <2>1, <2>2, <2>3, <2>5, <2>6, OneWindow DEF WireTyped, Serving
<1>l. /\ h.saving = "sent" => h.save.list \in EditLists
      /\ h.local \in EditLists \cup {NoList} /\ (h.more => h.local # NoList)
      /\ w \notin linked => h.saving = "no" /\ ~ h.more
  BY <1>0 DEF HeldInv
<1>m. w \notin linked => queue[w] = <<>> /\ inbox[w] = <<>> /\ h.status # "ready"
  BY <1>0 DEF HeldInv
<1>d. inbox[w] # <<>> => Doc(w) \in Documents
  BY <1>0, Hearing DEF WireTyped, Doc
<1>e. EditLists \subseteq Lists
  BY DEF EditLists, Lists
<1>n. NoBasis \in Bases /\ NoSave \in Saves
  BY DEF NoBasis, NoSave, Bases, Saves
<1> HIDE DEF h
<1>1. CASE LinkUp(w)
  <2>1. CASE h.local = NoList
    <3> DEFINE x == [h EXCEPT !.reading = "yes"]
    <3>1. x \in Held /\ x.saving = h.saving
      BY <1>h DEF Held
    <3>2. win' = [win EXCEPT ![w] = x] /\ Asks(w, "read") /\ linked' = linked \cup {w}
            /\ UNCHANGED <<call, inbox>>
      BY <1>1, <2>1 DEF LinkUp, h, daemon
    <3>3. HeldInv(w)'
      <4>1. /\ win'[w].saving = h.saving /\ win'[w].local = h.local /\ win'[w].more = h.more
            /\ win'[w].save = h.save /\ w \in linked'
        BY <1>0, <1>h, <3>2 DEF WireTyped, Held
      <4> QED
        BY <1>l, <4>1 DEF HeldInv
    <3> QED
      BY <1>A, <3>1, <3>2, <3>3
  <2>2. CASE h.local # NoList
    BY <1>1, <1>B, <1>h, <1>l, <2>2 DEF LinkUp, h, daemon
  <2> QED
    BY <2>1, <2>2
<1>2. CASE Reload(w)
  <2> DEFINE x == [h EXCEPT !.reading = "yes"]
  <2>1. x \in Held /\ x.saving = h.saving
    BY <1>h DEF Held
  <2>2. win' = [win EXCEPT ![w] = x] /\ Asks(w, "read") /\ UNCHANGED <<linked, call, inbox>>
          /\ w \in linked
    BY <1>2 DEF Reload, h, daemon
  <2>3. HeldInv(w)'
    <3>1. /\ win'[w].saving = h.saving /\ win'[w].local = h.local /\ win'[w].more = h.more
          /\ win'[w].save = h.save /\ w \in linked'
      BY <1>0, <1>h, <2>2 DEF WireTyped, Held
    <3> QED
      BY <1>l, <3>1 DEF HeldInv
  <2> QED
    BY <1>A, <2>1, <2>2, <2>3
<1>3. CASE Edit(w)
  <2>1. PICK list \in Edited(IF h.local = NoList THEN h.shown.list ELSE h.local) :
          LET now == [h EXCEPT !.local = list, !.basis = Basis(w)] IN
          IF w \in linked /\ h.saving = "no"
          THEN win' = [win EXCEPT ![w] = Flushed(now)] /\ Asks(w, "save")
          ELSE /\ win' = [win EXCEPT ![w] = [now EXCEPT !.more = h.saving # "no"]]
               /\ UNCHANGED queue
    BY <1>3 DEF Edit, h
  <2>2. list \in EditLists
    BY <2>1 DEF Edited, EditLists
  <2>3. Basis(w) \in Bases
    <3>1. h.basis \in Bases /\ h.shown.list \in Lists
      BY <1>h DEF Held, Documents
    <3> QED
      BY <3>1 DEF Basis, Bases, h
  <2> DEFINE now == [h EXCEPT !.local = list, !.basis = Basis(w)]
  <2>4. /\ now \in Held /\ now.local = list /\ now.saving = h.saving /\ now.save = h.save
        /\ now.status = h.status
    BY <1>h, <1>e, <2>2, <2>3 DEF Held
  <2>5. UNCHANGED <<call, inbox, linked>>
    BY <1>3 DEF Edit, daemon
  <2>6. CASE w \in linked /\ h.saving = "no"
    <3>1. win' = [win EXCEPT ![w] = Flushed(now)] /\ Asks(w, "save")
      BY <2>1, <2>6
    <3> HIDE DEF now
    <3> QED
      BY <1>B, <2>2, <2>4, <2>5, <2>6, <3>1 DEF h
  <2>7. CASE ~ (w \in linked /\ h.saving = "no")
    <3> DEFINE x == [now EXCEPT !.more = h.saving # "no"]
    <3>1. win' = [win EXCEPT ![w] = x] /\ UNCHANGED queue
      BY <2>1, <2>7
    <3> HIDE DEF now
    <3>2. /\ x \in Held /\ x.local = list /\ x.saving = h.saving /\ x.save = h.save
          /\ x.status = h.status /\ x.more = (h.saving # "no")
      BY <2>4 DEF Held
    <3> HIDE DEF x
    <3>3. HeldInv(w)'
      <4>1. win'[w] = x
        BY <1>0, <3>1 DEF WireTyped
      <4>3. list # NoList
        BY <2>2, TextsAssumption DEF EditLists, NoList
      <4>4. CASE w \in linked
        BY <1>l, <2>2, <2>5, <3>2, <4>1, <4>3, <4>4 DEF HeldInv
      <4>5. CASE w \notin linked
        <5>1. /\ queue'[w] = <<>> /\ inbox'[w] = <<>> /\ h.saving = "no"
              /\ h.status # "ready" /\ w \notin linked'
          BY <1>l, <1>m, <2>5, <3>1, <4>5
        <5> QED
          BY <2>2, <3>2, <4>1, <5>1 DEF HeldInv
      <4> QED
        BY <4>4, <4>5
    <3> QED
      BY <1>A, <2>5, <3>1, <3>2, <3>3
  <2> QED
    BY <2>6, <2>7
<1>4. CASE TakeList(w)
  <2>1. PICK x : x = IF h.reading = "superseded" THEN [h EXCEPT !.reading = "no"]
       ELSE [h EXCEPT !.reading = "no", !.shown = Doc(w), !.status = "ready",
                      !.basis.old = h.local # NoList,
                      !.saving = IF @ = "reloading" THEN "reloaded" ELSE @]
    OBVIOUS
  <2>2. /\ Hears(w, "list") /\ win' = [win EXCEPT ![w] = x]
        /\ UNCHANGED <<call, linked, queue>> /\ inbox[w] # <<>>
    BY <1>4, <2>1 DEF TakeList, h, daemon, Hears
  <2>3. [h.basis EXCEPT !.old = h.local # NoList] \in Bases
    BY <1>h DEF Held, Bases
  <2>4. x \in Held /\ x.local = h.local /\ x.save = h.save /\ x.more = h.more
          /\ (x.saving = "sent" <=> h.saving = "sent")
    BY <1>h, <1>d, <2>1, <2>2, <2>3 DEF Held
  <2> QED
    BY <1>C, <1>l, <2>2, <2>4 DEF Words
<1>5. CASE TakeNoList(w)
  <2>1. PICK x : x = [h EXCEPT !.reading = "no",
                 !.status = IF h.reading = "yes" THEN "no" ELSE @,
                 !.saving = IF @ = "reloading" THEN "no" ELSE @]
    OBVIOUS
  <2>2. /\ Hears(w, "noList") /\ win' = [win EXCEPT ![w] = x]
        /\ UNCHANGED <<call, linked, queue>>
    BY <1>5, <2>1 DEF TakeNoList, h, daemon
  <2>4. x \in Held /\ x.local = h.local /\ x.save = h.save /\ x.more = h.more
          /\ (x.saving = "sent" <=> h.saving = "sent")
    BY <1>h, <2>1 DEF Held
  <2> QED
    BY <1>C, <1>l, <2>2, <2>4 DEF Words
<1>6. CASE TakeChanged(w)
  <2>1. PICK x : x = IF h.saving # "no" THEN h
       ELSE [h EXCEPT !.shown = Doc(w),
                      !.status = IF Head(inbox[w]).word = "echo" THEN "stale" ELSE "ready",
                      !.local = NoList, !.basis = NoBasis, !.more = FALSE,
                      !.reading = IF @ = "no" THEN "no" ELSE "superseded"]
    OBVIOUS
  <2>2. /\ win' = [win EXCEPT ![w] = x]
        /\ UNCHANGED <<call, linked, queue>>
        /\ Hears(w, "changed") \/ Hears(w, "echo")
    BY <1>6, <2>1 DEF TakeChanged, h, daemon
  <2>3. inbox[w] # <<>>
    BY <2>2 DEF Hears
  <2>4. x \in Held /\ x.local \in {h.local, NoList} /\ x.save = h.save
          /\ (x.more => x.local # NoList) /\ x.saving = h.saving
    BY <1>h, <1>d, <1>l, <1>n, <2>1, <2>3 DEF Held
  <2> QED
    BY <1>C, <1>l, <2>2, <2>4 DEF Words
<1>7. CASE TakeSaved(w)
  <2>1. PICK x : x = [h EXCEPT !.shown = Doc(w), !.status = "ready", !.saving = "answered",
                 !.save = NoSave, !.local = IF h.more THEN @ ELSE NoList,
                 !.basis = IF h.more THEN [list |-> Doc(w).list, old |-> FALSE]
                           ELSE NoBasis]
    OBVIOUS
  <2>2. /\ Hears(w, "saved") /\ win' = [win EXCEPT ![w] = x]
        /\ UNCHANGED <<call, linked, queue>> /\ inbox[w] # <<>>
    BY <1>7, <2>1 DEF TakeSaved, h, daemon, Hears
  <2>3. [list |-> Doc(w).list, old |-> FALSE] \in Bases
    BY <1>d, <2>2 DEF Bases, Documents
  <2>4. x \in Held /\ x.local \in {h.local, NoList} /\ x.saving = "answered"
          /\ (x.more => x.local # NoList)
    BY <1>h, <1>d, <1>l, <1>n, <2>1, <2>2, <2>3 DEF Held
  <2> QED
    BY <1>C, <1>l, <2>2, <2>4 DEF Words, SaysBack
<1>8. CASE TakeConflict(w)
  <2>1. PICK x : x = [h EXCEPT !.local = NoList, !.basis = NoBasis, !.save = NoSave,
                 !.more = FALSE, !.saving = "reloading", !.reading = "yes"]
    OBVIOUS
  <2>2. /\ Hears(w, "conflict") /\ win' = [win EXCEPT ![w] = x]
        /\ UNCHANGED <<call, linked>> /\ Asks(w, "read")
    BY <1>8, <2>1 DEF TakeConflict, h, daemon
  <2>4. x \in Held /\ x.local = NoList /\ x.saving = "reloading" /\ ~ x.more
    BY <1>h, <1>n, <2>1 DEF Held
  <2> QED
    BY <1>C, <1>l, <2>2, <2>4 DEF Words, SaysBack
<1>9. CASE TakeFailed(w)
  <2>1. PICK x : x = [h EXCEPT !.saving = "no", !.save = NoSave]
    OBVIOUS
  <2>2. /\ Hears(w, "failed") /\ win' = [win EXCEPT ![w] = x]
        /\ UNCHANGED <<call, linked, queue>>
    BY <1>9, <2>1 DEF TakeFailed, h, daemon
  <2>4. x \in Held /\ x.local = h.local /\ x.saving = "no" /\ x.more = h.more
    BY <1>h, <1>n, <2>1 DEF Held
  <2> QED
    BY <1>C, <1>l, <2>2, <2>4 DEF Words, SaysBack
<1>10. CASE SaveEnds(w)
  <2>1. /\ h.saving \in {"answered", "reloaded"} /\ w \in linked
        /\ UNCHANGED <<call, inbox, linked>>
    BY <1>l, <1>10 DEF SaveEnds, h, daemon
  <2>2. CASE h.saving = "answered" /\ h.more
    BY <1>B, <1>h, <1>l, <1>10, <2>1, <2>2 DEF SaveEnds, h
  <2>3. CASE ~ (h.saving = "answered" /\ h.more)
    <3> DEFINE x == [h EXCEPT !.saving = "no"]
    <3>1. /\ x \in Held /\ x.saving = "no" /\ x.local = h.local /\ x.more = h.more
          /\ x.save = h.save
      BY <1>h DEF Held
    <3>2. win' = [win EXCEPT ![w] = x] /\ UNCHANGED queue
      BY <1>10, <2>3 DEF SaveEnds, h
    <3> HIDE DEF x
    <3>3. win'[w] = x
      BY <1>0, <3>2 DEF WireTyped
    <3>4. HeldInv(w)'
      BY <1>l, <2>1, <3>1, <3>3 DEF HeldInv
    <3> QED
      BY <1>A, <2>1, <3>1, <3>2, <3>4
  <2> QED
    BY <2>2, <2>3
<1>11. CASE LinkLost(w)
  <2>1. PICK x : x = Cut(h)
    OBVIOUS
  <2>2. [h.basis EXCEPT !.old = h.local # NoList] \in Bases
    BY <1>h DEF Held, Bases
  <2>3. /\ x \in Held /\ x.local = h.local /\ x.saving = "no" /\ ~ x.more
        /\ x.status # "ready"
    BY <1>h, <1>n, <2>1, <2>2 DEF Held, Cut
  <2>4. /\ win' = [win EXCEPT ![w] = x] /\ linked' = linked \ {w}
        /\ queue' = [queue EXCEPT ![w] = <<>>] /\ inbox' = [inbox EXCEPT ![w] = <<>>]
    BY <1>11, <2>1 DEF LinkLost, h
  <2>5. <<>> \in Inbox /\ <<>> \in Seq({"read", "save"})
    BY DEF Inbox
  <2>6. /\ WireTyped' /\ win'[w] = x /\ queue'[w] = <<>> /\ inbox'[w] = <<>>
        /\ \A v \in Windows : v # w =>
             queue'[v] = queue[v] /\ inbox'[v] = inbox[v] /\ win'[v] = win[v]
    BY <1>0, <2>3, <2>4, <2>5 DEF WireTyped
  <2>7. /\ call'.kind = call.kind /\ call'.by = call.by /\ (call'.live => call.live /\ call.by # w)
    <3>1. CASE call.by = w
      <4>1. call' = [call EXCEPT !.live = FALSE]
        BY <1>11, <3>1 DEF LinkLost
      <4> QED
        BY <1>0, <4>1 DEF DaemonTyped
    <3>2. CASE call.by # w
      BY <1>11, <3>2 DEF LinkLost
    <3> QED
      BY <3>1, <3>2
  <2>8. OneSave(w)'
    BY <2>6, <2>7 DEF OneSave, Asked, Told, Serving
  <2>9. HeldInv(w)'
    BY <1>l, <2>3, <2>6 DEF HeldInv
  <2> QED
    BY <2>4, <2>6, <2>7, <2>8, <2>9, OneWindow DEF Serving
<1> QED
  BY <1>1, <1>2, <1>3, <1>4, <1>5, <1>6, <1>7, <1>8, <1>9, <1>10, <1>11 DEF WindowHears

LEMMA WireStep ==
  TypeInv /\ [Next]_vars => WireTyped' /\ \A v \in Windows : OneSave(v)' /\ HeldInv(v)'
<1> SUFFICES ASSUME TypeInv, [Next]_vars
             PROVE  WireTyped' /\ \A v \in Windows : OneSave(v)' /\ HeldInv(v)'
  OBVIOUS
<1>0. WireTyped /\ DaemonTyped /\ CallInv /\ FilesTyped
        /\ \A v \in Windows : OneSave(v) /\ HeldInv(v)
  BY DEF TypeInv
<1>d. /\ DocumentOf(state) \in Documents /\ DocumentOf(ReadState) \in Documents
      /\ ~ Unreadable => DocumentOf(Taken) \in Documents
      /\ NoDocument \in Documents
  <2>1. NoDocument \in Documents
    BY DEF NoDocument, Documents, Lists
  <2> QED
    BY <1>0, <2>1, ReadsTyped, SaidTyped DEF DaemonTyped
<1>1. ASSUME NEW w \in Windows, Read(w) \/ Save(w)
      PROVE  WireTyped' /\ \A v \in Windows : OneSave(v)' /\ HeldInv(v)'
  BY <1>1, CallTaken
<1>2. ASSUME NEW w \in Windows,
             \/ LinkUp(w) \/ Reload(w) \/ Edit(w) \/ WindowHears(w) \/ SaveEnds(w)
             \/ LinkLost(w)
      PROVE  WireTyped' /\ \A v \in Windows : OneSave(v)' /\ HeldInv(v)'
  BY <1>2, WindowStep
\* Nothing moves on the wire, and no save begins to be served.
<1>3. ASSUME UNCHANGED <<queue, inbox, win, linked>>,
             \A v \in Windows : Serving(v)' => Serving(v)
      PROVE  WireTyped' /\ \A v \in Windows : OneSave(v)' /\ HeldInv(v)'
  BY <1>0, <1>3, WindowKept DEF WireTyped
<1>4. CASE Load
  <2>1. CASE call.kind = "save" /\ SameRev(call.save, ReadState)
    BY <1>3, <1>4, <2>1 DEF Load, Serving
  <2>2. CASE ~ (call.kind = "save" /\ SameRev(call.save, ReadState))
    <3> DEFINE word == IF call.kind = "read" THEN "list" ELSE "conflict"
    <3>1. Says({}, DocumentOf(ReadState), word, Caller) /\ call' = NoCall
      BY <1>4, <2>2 DEF Load, Answers
    <3>2. /\ call.kind \in {"read", "save"} /\ UNCHANGED <<queue, win, linked>>
          /\ word \in Words /\ (word \in SaysBack => call.kind = "save")
      BY <1>0, <1>4 DEF Load, CallInv, Words, SaysBack
    <3> HIDE DEF word
    <3> QED
      BY <1>d, <3>1, <3>2, CallAnswered
  <2> QED
    BY <2>1, <2>2
<1>5. CASE SaveOvertaken
  <2>1. /\ call.kind = "save" /\ call' = NoCall /\ UNCHANGED <<queue, win, linked>>
        /\ "conflict" \in Words
    BY <1>0, <1>5 DEF SaveOvertaken, CallInv, Ends, Words
  <2>2. \/ Says({}, DocumentOf(state), "conflict", Caller)
        \/ ~ Unreadable /\ Says(linked, DocumentOf(Taken), "conflict", Caller)
    BY <1>5 DEF SaveOvertaken, Answers
  <2> QED
    BY <1>d, <2>1, <2>2, CallAnswered
<1>6. CASE SaveWrites
  <2>1. \A v \in Windows : Serving(v)' => Serving(v)
    <3>1. PICK shared : call' = [call EXCEPT !.save.list.shared = shared]
      BY <1>6 DEF SaveWrites
    <3> QED
      BY <1>0, <3>1 DEF DaemonTyped, Serving
  <2> QED
    BY <1>3, <1>6, <2>1 DEF SaveWrites, wire
<1>7. CASE Saved
  <2> DEFINE list == call.save.list
             now == [rev |-> state.rev + 1, shared |-> list.shared,
                     own |-> [rev |-> state.rev + 1, body |-> list.body]]
             told == linked \ {call.by}
  <2>1. /\ call.kind = "save" /\ call' = NoCall /\ UNCHANGED <<queue, win, linked>>
        /\ "saved" \in Words /\ list \in EditLists
    BY <1>0, <1>7 DEF Saved, CallInv, Ends, Words
  <2>2. DocumentOf(now) \in Documents
    <3>1. now \in [rev : Nat, shared : SharedTexts \cup {Absent}, own : OwnTexts \cup {Absent}]
      BY <1>0, <2>1 DEF DaemonTyped, EditLists, OwnTexts
    <3> QED
      BY <3>1, SaidTyped
  <2>3. Says(told, DocumentOf(now), "saved", Caller) /\ told \in SUBSET linked
    BY <1>7 DEF Saved
  <2> HIDE DEF now, list, told
  <2> QED
    BY <2>1, <2>2, <2>3, CallAnswered
<1>8. CASE SaveRaced
  <2>1. /\ call.kind = "save" /\ call' = NoCall /\ UNCHANGED <<queue, win, linked>>
        /\ "conflict" \in Words /\ Says({}, DocumentOf(state), "conflict", Caller)
    BY <1>0, <1>8 DEF SaveRaced, CallInv, Ends, Words, Answers
  <2> QED
    BY <1>d, <2>1, CallAnswered
<1>9. CASE CallFails
  <2> DEFINE word == IF call.kind = "read" THEN "noList" ELSE "failed"
  <2>1. /\ call.kind \in {"read", "save"} /\ call' = NoCall /\ UNCHANGED <<queue, win, linked>>
        /\ word \in Words /\ Says({}, NoDocument, word, Caller)
        /\ (word \in SaysBack => call.kind = "save")
    BY <1>0, <1>9 DEF CallFails, CallInv, Ends, Words, Answers, SaysBack
  <2> HIDE DEF word
  <2> QED
    BY <1>d, <2>1, CallAnswered
<1>10. CASE GlanceEnds \/ Glance
  BY <1>3, <1>10 DEF GlanceEnds, Glance, Recovers, Ends, Serving, NoCall, wire
<1>11. CASE WatcherTakes
  <2>1. /\ ~ Unreadable /\ UNCHANGED <<call, queue, win, linked>>
        /\ Says(linked, DocumentOf(Taken), "none", "nobody") /\ call = NoCall
    BY <1>0, <1>11 DEF WatcherTakes, CallInv
  <2>2. Says(linked, DocumentOf(Taken), "list", Caller)
    BY <2>1, WindowsAssumption DEF Says, Caller, NoCall
  <2>3. inbox' = After(inbox, linked, Change, DocumentOf(Taken), "list", Caller)
          /\ Change \in {"changed", "echo"} /\ "list" \in Words /\ Caller = "nobody"
    BY <2>1, <2>2, SaysAfter DEF Change, Words, Caller, NoCall
  <2>4. /\ inbox' \in [Windows -> Inbox]
        /\ Added(inbox, inbox', linked, Change, DocumentOf(Taken), "list", Caller)
    BY <1>0, <1>d, <2>1, <2>3, SaidWhat DEF WireTyped
  <2>5. WireTyped'
    BY <1>0, <2>1, <2>4 DEF WireTyped
  <2>6. ASSUME NEW v \in Windows PROVE OneSave(v)' /\ HeldInv(v)'
    <3>1. \A i \in DOMAIN inbox'[v] : inbox'[v][i].word \in SaysBack =>
            i \in DOMAIN inbox[v] /\ inbox'[v][i] = inbox[v][i]
      BY <2>3, <2>4, WindowsAssumption DEF Added, SaysBack
    <3>2. v \notin linked => inbox'[v] = inbox[v]
      BY <2>3, <2>4, WindowsAssumption DEF Added
    <3>3. Told(v)' => Told(v)
      BY <3>1 DEF Told
    <3>4. OneSave(v)'
      BY <1>0, <2>1, <3>1, <3>3 DEF OneSave, Asked, Serving
    <3> QED
      BY <1>0, <2>1, <3>2, <3>4 DEF HeldInv
  <2> QED
    BY <2>5, <2>6
<1>12. CASE FilesMove \/ DiskFails \/ Outside \/ IntentDeleted \/ UNCHANGED vars
  BY <1>3, <1>12 DEF FilesMove, DiskFails, Outside, IntentDeleted, vars, daemon, wire, Serving
<1>13. CASE Crash
  <2>1. <<>> \in Inbox /\ <<>> \in Seq({"read", "save"})
    BY DEF Inbox
  <2>2. ASSUME NEW v \in Windows
        PROVE  /\ win'[v] \in Held /\ win'[v].local = win[v].local /\ win'[v].saving = "no"
               /\ ~ win'[v].more /\ win'[v].status # "ready"
    <3>1. win[v] \in Held /\ win'[v] = Cut(win[v])
      BY <1>0, <1>13 DEF WireTyped, Crash
    <3>2. [win[v].basis EXCEPT !.old = win[v].local # NoList] \in Bases /\ NoSave \in Saves
      BY <3>1 DEF Held, Bases, NoSave, NoBasis, Saves
    <3> QED
      BY <3>1, <3>2 DEF Held, Cut
  <2>3. WireTyped'
    BY <1>13, <2>1, <2>2 DEF WireTyped, Crash
  <2>4. ASSUME NEW v \in Windows PROVE OneSave(v)' /\ HeldInv(v)'
    BY <1>0, <1>13, <2>2 DEF Crash, OneSave, HeldInv, Asked, Told, Serving, NoCall
  <2> QED
    BY <2>3, <2>4
<1> QED
  BY <1>1, <1>2, <1>4, <1>5, <1>6, <1>7, <1>8, <1>9, <1>10, <1>11, <1>12, <1>13 DEF Next, CallStep

LEMMA TypeInvStep == TypeInv /\ [Next]_vars => TypeInv'
BY FilesTypedStep, DaemonTypedStep, SpentTypedStep, WireStep DEF TypeInv

LEMMA TypeInvHolds == Spec => []TypeInv
BY TypeInvStep, TypeInvInit, PTL DEF Spec

\* For any windows, texts, edits and faults every variable keeps its type.
THEOREM TypeCorrect == Spec => []TypeOK
BY TypeInvHolds, TypeInvTypes, PTL

=============================================================================
