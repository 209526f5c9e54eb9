------------------------- MODULE ConnectionSeenProofs -------------------------
(***************************************************************************)
(* What a save replaces, for any windows, texts, edits and faults: the     *)
(* list a rev stands for, and the one a person saw under an edit.          *)
(***************************************************************************)
EXTENDS ConnectionStoreProofs

\* A document that is right: the list of its rev, as long as the daemon is at it.
Truthful(doc) ==
  loaded /\ doc.rev <= state.rev /\ (doc.rev = state.rev => doc.list = ListOf(state))

\* The words that carry the list of the project as it is open.
Telling == {"list", "changed", "saved", "conflict"}

\* What a window shows is right.
Shows(h) == h.status = "ready" => Truthful(h.shown)

\* What is on its way to a window is right.  No list fails to be read where a window
\* shows one, nor behind the word that makes it show one.
RevInv(w) ==
  /\ \A i \in DOMAIN inbox[w] : inbox[w][i].word \in Telling => Truthful(inbox[w][i].doc)
  /\ \A i \in DOMAIN inbox[w] : inbox[w][i].word = "noList" =>
       /\ win[w].status # "ready"
       /\ \A j \in DOMAIN inbox[w] : j < i => inbox[w][j].word \notin Telling

\* An edit whose author saw the list it is over goes out against the rev of that list.
Sees(h) ==
  /\ h.local # NoList /\ ~ h.basis.old =>
       h.status = "ready" /\ h.basis.list = h.shown.list
  /\ h.saving = "sent" /\ ~ h.save.basis.old =>
       Truthful([rev |-> h.save.base, list |-> h.save.basis.list])
  /\ h.saving = "sent" => h.local # NoList

\* The save that is served replaces that list.
ServedInv ==
  call.kind = "save" /\ ~ call.save.basis.old =>
    at # "load" /\ (at \in {"again", "save"} => ListOf(state) = call.save.basis.list)

WindowInv(w) == RevInv(w) /\ Shows(win[w]) /\ Sees(win[w])
SeenInv == TypeInv /\ (\A w \in Windows : WindowInv(w)) /\ ServedInv

LEMMA SeenInvInit == Init => SeenInv
<1> SUFFICES ASSUME Init PROVE SeenInv
  OBVIOUS
<1>1. TypeInv
  BY TypeInvInit
<1>2. ServedInv
  BY DEF Init, ServedInv, NoCall
<1>3. ASSUME NEW w \in Windows PROVE WindowInv(w)
  BY DEF Init, WindowInv, RevInv, Shows, Sees, Fresh
<1> QED
  BY <1>1, <1>2, <1>3 DEF SeenInv

\* While the project stays open, its rev goes up with every change of its list: what
\* was right stays right.
LEMMA TruthKept ==
  ASSUME DaemonTyped, DaemonTyped',
         loaded => loaded' /\ (state' = state \/ state'.rev > state.rev),
         NEW doc, doc.rev \in Nat, Truthful(doc)
  PROVE  Truthful(doc)'
BY DEF Truthful, DaemonTyped, ListOf

LEMMA RevsTyped ==
  ASSUME WireTyped, NEW w \in Windows
  PROVE  /\ \A i \in DOMAIN inbox[w] : inbox[w][i].doc.rev \in Nat
         /\ win[w].shown.rev \in Nat /\ win[w].save.base \in Nat
         /\ DOMAIN inbox[w] = 1 .. Len(inbox[w]) /\ Len(inbox[w]) \in Nat
<1> DEFINE M == [word : Words, doc : Documents]
<1>1. \A m \in M : m.doc.rev \in Nat
  BY DEF Documents
<1>2. inbox[w] \in Seq(M) /\ win[w] \in Held
  BY DEF WireTyped, Inbox
<1>3. win[w].shown.rev \in Nat /\ win[w].save.base \in Nat
  BY <1>2 DEF Held, Documents, Saves
<1> HIDE DEF M
<1>4. /\ DOMAIN inbox[w] = 1 .. Len(inbox[w]) /\ Len(inbox[w]) \in Nat
      /\ \A i \in DOMAIN inbox[w] : inbox[w][i] \in M
  BY <1>2, LenProperties, ElementOfSeq
<1> QED
  BY <1>1, <1>3, <1>4

LEMMA HeldKept ==
  ASSUME TypeInv, DaemonTyped',
         loaded => loaded' /\ (state' = state \/ state'.rev > state.rev),
         NEW w \in Windows, Shows(win[w]), Sees(win[w]), win'[w] = win[w]
  PROVE  Shows(win[w])' /\ Sees(win[w])'
<1> DEFINE shown == win[w].shown
           sent == [rev |-> win[w].save.base, list |-> win[w].save.basis.list]
<1>0. DaemonTyped /\ WireTyped
  BY DEF TypeInv
<1>1. PICK d, e : d = shown /\ e = sent
  OBVIOUS
<1>2. d.rev \in Nat /\ e.rev \in Nat
  BY <1>0, <1>1, RevsTyped
<1>3. (Truthful(d) => Truthful(d)') /\ (Truthful(e) => Truthful(e)')
  BY <1>0, <1>2, TruthKept
<1>4. shown' = d /\ sent' = e
  BY <1>1
<1>5. Shows(win[w])'
  BY <1>1, <1>3, <1>4 DEF Shows, Truthful
<1>6. Sees(win[w])'
  BY <1>1, <1>3, <1>4 DEF Sees, Truthful
<1> QED
  BY <1>5, <1>6

\* What a step of the daemon says to a window is right when it is said.
LEMMA DaemonSays ==
  ASSUME TypeInv, DaemonTyped',
         loaded => loaded' /\ (state' = state \/ state'.rev > state.rev),
         NEW w \in Windows, WindowInv(w), win'[w] = win[w],
         NEW told, NEW change \in {"changed", "echo"}, NEW doc \in Documents, NEW word, NEW who,
         Added(inbox, inbox', told, change, doc, word, who),
         (w \in told /\ change = "changed") \/ (w = who /\ word \in Telling) =>
           Truthful(doc)',
         w = who /\ word = "noList" => ~ loaded /\ w \notin told
  PROVE  WindowInv(w)'
<1>0. DaemonTyped /\ WireTyped
  BY DEF TypeInv
<1>1. Shows(win[w])' /\ Sees(win[w])'
  BY HeldKept DEF WindowInv
<1>2. \A i \in DOMAIN inbox'[w] :
        \/ i \in DOMAIN inbox[w] /\ inbox'[w][i] = inbox[w][i]
        \/ /\ w \in told /\ i = Len(inbox[w]) + 1
           /\ inbox'[w][i] = [word |-> change, doc |-> doc]
        \/ /\ w = who /\ i \in Nat /\ i > Len(inbox[w]) /\ i = Len(inbox'[w])
           /\ inbox'[w][i] = [word |-> word, doc |-> doc]
  BY DEF Added
<1>3. ASSUME NEW i \in DOMAIN inbox'[w], inbox'[w][i].word \in Telling
      PROVE  Truthful(inbox[w][i].doc)'
  <2>1. PICK d : d = inbox'[w][i].doc
    OBVIOUS
  <2>2. CASE i \in DOMAIN inbox[w] /\ inbox'[w][i] = inbox[w][i]
    <3>1. d.rev \in Nat /\ Truthful(d)
      BY <1>0, <1>3, <2>1, <2>2, RevsTyped DEF WindowInv, RevInv
    <3>2. Truthful(d)'
      BY <1>0, <3>1, TruthKept
    <3> QED
      BY <2>1, <3>2 DEF Truthful
  <2>3. CASE ~ (i \in DOMAIN inbox[w] /\ inbox'[w][i] = inbox[w][i])
    <3>1. d = doc /\ ((w \in told /\ change = "changed") \/ (w = who /\ word \in Telling))
      BY <1>2, <1>3, <2>1, <2>3 DEF Telling
    <3> QED
      BY <2>1, <3>1 DEF Truthful
  <2> QED
    BY <2>2, <2>3
<1>4. ASSUME NEW i \in DOMAIN inbox'[w], inbox'[w][i].word = "noList"
      PROVE  /\ win'[w].status # "ready"
             /\ \A j \in DOMAIN inbox'[w] : j < i => inbox'[w][j].word \notin Telling
  <2>0. DOMAIN inbox[w] = 1 .. Len(inbox[w]) /\ Len(inbox[w]) \in Nat
    BY <1>0, RevsTyped
  <2>1. CASE i \in DOMAIN inbox[w] /\ inbox'[w][i] = inbox[w][i]
    BY <1>2, <1>4, <2>0, <2>1 DEF WindowInv, RevInv
  <2>2. CASE ~ (i \in DOMAIN inbox[w] /\ inbox'[w][i] = inbox[w][i])
    <3>1. ~ loaded /\ w \notin told /\ w = who /\ word = "noList" /\ i = Len(inbox'[w])
      BY <1>2, <1>4, <2>2
    <3>2. \A j \in DOMAIN inbox'[w] : j < i => j \in DOMAIN inbox[w] /\ inbox'[w][j] = inbox[w][j]
      BY <1>2, <3>1
    <3> QED
      BY <3>1, <3>2 DEF WindowInv, RevInv, Shows, Truthful
  <2> QED
    BY <2>1, <2>2
<1>5. RevInv(w)'
  BY <1>3, <1>4 DEF RevInv
<1> QED
  BY <1>1, <1>5 DEF WindowInv

LEMMA NothingSaid ==
  ASSUME TypeInv, DaemonTyped',
         loaded => loaded' /\ (state' = state \/ state'.rev > state.rev),
         NEW w \in Windows, WindowInv(w), win'[w] = win[w], inbox'[w] = inbox[w]
  PROVE  WindowInv(w)'
<1>0. DaemonTyped /\ WireTyped
  BY DEF TypeInv
<1>1. Shows(win[w])' /\ Sees(win[w])'
  BY HeldKept DEF WindowInv
<1>2. ASSUME NEW i \in DOMAIN inbox[w], inbox[w][i].word \in Telling
      PROVE  Truthful(inbox[w][i].doc)'
  <2>1. PICK d : d = inbox[w][i].doc
    OBVIOUS
  <2>2. d.rev \in Nat /\ Truthful(d)
    BY <1>0, <1>2, <2>1, RevsTyped DEF WindowInv, RevInv
  <2>3. Truthful(d)'
    BY <1>0, <2>2, TruthKept
  <2> QED
    BY <2>1, <2>3 DEF Truthful
<1>3. RevInv(w)'
  BY <1>2 DEF WindowInv, RevInv
<1> QED
  BY <1>1, <1>3 DEF WindowInv

\* A window that lost its link: nothing is on its way, and what it shows is stale.
LEMMA LinkGone ==
  ASSUME TypeInv', NEW w \in Windows, w \notin linked',
         win'[w].local # NoList => win'[w].basis.old
  PROVE  WindowInv(w)'
<1>1. HeldInv(w)'
  BY DEF TypeInv
<1> QED
  BY <1>1 DEF HeldInv, WindowInv, RevInv, Shows, Sees

LEMMA FlushedSees ==
  ASSUME NEW h \in Held, h.local # NoList, Shows(h),
         ~ h.basis.old => h.status = "ready" /\ h.basis.list = h.shown.list
  PROVE  Sees(Flushed(h))
<1>1. PICK x : x = Flushed(h)
  OBVIOUS
<1>2. /\ x.saving = "sent" /\ x.local = h.local /\ x.status = h.status /\ x.shown = h.shown
      /\ x.basis = h.basis /\ x.save.base = h.shown.rev /\ x.save.basis = h.basis
  BY <1>1, FlushedHeld
<1>3. Sees(x)
  BY <1>2 DEF Sees, Shows, Truthful
<1> QED
  BY <1>1, <1>3

\* What a window does itself, with the daemon as it was.
LEMMA WindowSees ==
  ASSUME TypeInv, WireTyped', NEW w \in Windows, WindowInv(w),
         LinkUp(w) \/ Reload(w) \/ Edit(w) \/ WindowHears(w) \/ SaveEnds(w)
  PROVE  WindowInv(w)'
<1> DEFINE h == win[w]
<1>0. /\ WireTyped /\ HeldInv(w) /\ h \in Held
      /\ RevInv(w) /\ Shows(h) /\ Sees(h)
  BY DEF TypeInv, WireTyped, WindowInv
<1>u. UNCHANGED <<loaded, state>>
  BY DEF LinkUp, Reload, Edit, WindowHears, SaveEnds, TakeList, TakeNoList, TakeChanged,
     TakeSaved, TakeConflict, TakeFailed, daemon
<1>l. h.more => h.local # NoList
  BY <1>0 DEF HeldInv
<1>A. ASSUME inbox' = inbox, NEW x, win'[w] = x, x.status = h.status, x.shown = h.shown, Sees(x)
      PROVE  WindowInv(w)'
  <2>1. Sees(x)' /\ Shows(x)'
    BY <1>0, <1>u, <1>A DEF Sees, Shows, Truthful, ListOf
  <2>2. Sees(win[w])' /\ Shows(win[w])'
    BY <1>A, <2>1 DEF Sees, Shows, Truthful, ListOf
  <2>3. RevInv(w)'
    BY <1>0, <1>u, <1>A DEF RevInv, Truthful, ListOf
  <2> QED
    BY <2>2, <2>3 DEF WindowInv
<1>C. ASSUME NEW word, Hears(w, word), NEW x, win'[w] = x, Sees(x),
             x.status = "ready" => \/ h.status = "ready" /\ x.shown = h.shown
                                   \/ word \in Telling /\ x.shown = Doc(w)
      PROVE  WindowInv(w)'
  <2>1. /\ Shifted(inbox[w], inbox'[w]) /\ 1 \in DOMAIN inbox[w]
        /\ inbox[w][1].word = word /\ inbox[w][1].doc = Doc(w)
    <3>0. /\ inbox[w] # <<>> /\ inbox' = [inbox EXCEPT ![w] = Tail(@)]
          /\ inbox \in [Windows -> Inbox]
      BY <1>0, <1>C DEF WireTyped, Hears
    <3>1. /\ Shifted(inbox[w], inbox'[w]) /\ 1 \in DOMAIN inbox[w]
          /\ Head(inbox[w]) = inbox[w][1]
      BY <3>0, Hearing
    <3> QED
      BY <1>C, <3>1 DEF Hears, Doc
  <2>2. Sees(x) /\ Shows(x)
    BY <1>0, <1>C, <2>1 DEF Shows, RevInv
  <2>3. Sees(x)' /\ Shows(x)'
    BY <1>u, <2>2 DEF Sees, Shows, Truthful, ListOf
  <2>4. Sees(win[w])' /\ Shows(win[w])'
    BY <1>C, <2>3 DEF Sees, Shows, Truthful, ListOf
  <2>5. \A i \in DOMAIN inbox'[w] :
          /\ i \in Nat /\ i # 0 /\ i + 1 \in DOMAIN inbox[w]
          /\ inbox'[w][i] = inbox[w][i + 1]
    BY <2>1 DEF Shifted
  <2>6. ASSUME NEW i \in DOMAIN inbox'[w], inbox'[w][i].word = "noList"
        PROVE  /\ win'[w].status # "ready"
               /\ \A j \in DOMAIN inbox'[w] : j < i => inbox'[w][j].word \notin Telling
    <3>1. /\ h.status # "ready"
          /\ \A j \in DOMAIN inbox[w] : j < i + 1 => inbox[w][j].word \notin Telling
      BY <1>0, <2>5, <2>6 DEF RevInv
    <3>2. word \notin Telling
      BY <2>1, <2>5, <2>6, <3>1
    <3> QED
      BY <1>C, <2>5, <2>6, <3>1, <3>2
  <2>7. RevInv(w)'
    BY <1>0, <1>u, <2>5, <2>6 DEF RevInv, Truthful, ListOf
  <2> QED
    BY <2>4, <2>7 DEF WindowInv
<1> HIDE DEF h
<1>1. CASE LinkUp(w)
  <2>1. CASE h.local = NoList
    <3>1. PICK x : x = [h EXCEPT !.reading = "yes"]
      OBVIOUS
    <3>2. win'[w] = x /\ inbox' = inbox
      BY <1>0, <1>1, <2>1, <3>1 DEF LinkUp, h, WireTyped
    <3>3. x.status = h.status /\ x.shown = h.shown /\ Sees(x)
      BY <1>0, <3>1 DEF Held, Sees
    <3> QED
      BY <1>A, <3>2, <3>3
  <2>2. CASE h.local # NoList
    <3>1. PICK x : x = Flushed(h)
      OBVIOUS
    <3>2. win'[w] = x /\ inbox' = inbox
      BY <1>0, <1>1, <2>2, <3>1 DEF LinkUp, h, WireTyped
    <3>3. Sees(x)
      BY <1>0, <2>2, <3>1, FlushedSees DEF Sees
    <3>4. x.status = h.status /\ x.shown = h.shown
      BY <1>0, <3>1, FlushedHeld
    <3> QED
      BY <1>A, <3>2, <3>3, <3>4
  <2> QED
    BY <2>1, <2>2
<1>2. CASE Reload(w)
  <2>1. PICK x : x = [h EXCEPT !.reading = "yes"]
    OBVIOUS
  <2>2. win'[w] = x /\ inbox' = inbox
    BY <1>0, <1>2, <2>1 DEF Reload, h, WireTyped
  <2>3. x.status = h.status /\ x.shown = h.shown /\ Sees(x)
    BY <1>0, <2>1 DEF Held, Sees
  <2> QED
    BY <1>A, <2>2, <2>3
<1>3. CASE Edit(w)
  <2>1. PICK list \in Edited(IF h.local = NoList THEN h.shown.list ELSE h.local) :
          LET now == [h EXCEPT !.local = list, !.basis = Basis(w)] IN
          IF w \in linked /\ h.saving = "no"
          THEN win' = [win EXCEPT ![w] = Flushed(now)] /\ Asks(w, "save")
          ELSE /\ win' = [win EXCEPT ![w] = [now EXCEPT !.more = h.saving # "no"]]
               /\ UNCHANGED queue
    BY <1>3 DEF Edit, h
  <2>2. list \in EditLists /\ list # NoList /\ list \in Lists
    BY <2>1, TextsAssumption DEF Edited, EditLists, Lists, NoList
  <2>3. PICK b : b = Basis(w)
    OBVIOUS
  <2>4. b \in Bases
    <3>1. h.basis \in Bases /\ h.shown.list \in Lists
      BY <1>0 DEF Held, Documents
    <3> QED
      BY <2>3, <3>1 DEF Basis, Bases, h
  <2>5. ~ b.old => h.status = "ready" /\ b.list = h.shown.list
    BY <1>0, <2>3 DEF Basis, Sees, h
  <2>6. PICK now : now = [h EXCEPT !.local = list, !.basis = b]
    OBVIOUS
  <2>7. /\ now \in Held /\ now.local = list /\ now.basis = b /\ now.status = h.status
        /\ now.shown = h.shown /\ now.saving = h.saving /\ now.save = h.save
    BY <1>0, <2>2, <2>4, <2>6 DEF Held
  <2>8. inbox' = inbox
    BY <1>3 DEF Edit
  <2>9. CASE w \in linked /\ h.saving = "no"
    <3>1. PICK x : x = Flushed(now)
      OBVIOUS
    <3>2. win'[w] = x
      BY <1>0, <2>1, <2>3, <2>6, <2>9, <3>1 DEF WireTyped
    <3>3. Shows(now)
      BY <1>0, <2>7 DEF Shows
    <3>4. Sees(x)
      BY <2>2, <2>5, <2>7, <3>1, <3>3, FlushedSees
    <3>5. x.status = h.status /\ x.shown = h.shown
      BY <2>7, <3>1, FlushedHeld
    <3> QED
      BY <1>A, <2>8, <3>2, <3>4, <3>5
  <2>10. CASE ~ (w \in linked /\ h.saving = "no")
    <3>1. PICK x : x = [now EXCEPT !.more = h.saving # "no"]
      OBVIOUS
    <3>2. win'[w] = x
      BY <1>0, <2>1, <2>3, <2>6, <2>10, <3>1 DEF WireTyped
    <3>3. /\ x.local = list /\ x.basis = b /\ x.status = h.status /\ x.shown = h.shown
          /\ x.saving = h.saving /\ x.save = h.save
      BY <2>7, <3>1 DEF Held
    <3>4. Sees(x)
      BY <1>0, <2>2, <2>5, <3>3 DEF Sees
    <3> QED
      BY <1>A, <2>8, <3>2, <3>3, <3>4
  <2> QED
    BY <2>9, <2>10
<1>4. CASE TakeList(w)
  <2>1. PICK x : x = IF h.reading = "superseded" THEN [h EXCEPT !.reading = "no"]
       ELSE [h EXCEPT !.reading = "no", !.shown = Doc(w), !.status = "ready",
                      !.basis.old = h.local # NoList,
                      !.saving = IF @ = "reloading" THEN "reloaded" ELSE @]
    OBVIOUS
  <2>2. Hears(w, "list") /\ win' = [win EXCEPT ![w] = x]
    BY <1>4, <2>1 DEF TakeList, h
  <2>3. win'[w] = x /\ h.basis.old \in BOOLEAN
    BY <1>0, <2>2 DEF WireTyped, Held, Bases
  <2>4. CASE h.reading = "superseded"
    <3>1. x.status = h.status /\ x.shown = h.shown /\ Sees(x)
      BY <1>0, <2>1, <2>4 DEF Held, Sees
    <3> QED
      BY <1>C, <2>2, <2>3, <3>1
  <2>5. CASE h.reading # "superseded"
    <3>1. [h.basis EXCEPT !.old = h.local # NoList].old = (h.local # NoList)
      BY <1>0 DEF Held, Bases
    <3>a. /\ x.shown = Doc(w) /\ x.local = h.local /\ x.save = h.save
          /\ (x.saving = "sent" <=> h.saving = "sent")
      BY <1>0, <2>1, <2>5 DEF Held
    <3>b. x.basis = [h.basis EXCEPT !.old = h.local # NoList]
      BY <1>0, <2>1, <2>5 DEF Held
    <3>2. /\ x.shown = Doc(w) /\ x.local = h.local /\ x.save = h.save
          /\ x.basis.old = (h.local # NoList)
          /\ (x.saving = "sent" <=> h.saving = "sent")
      BY <3>1, <3>a, <3>b
    <3>3. Sees(x)
      BY <1>0, <3>2 DEF Sees
    <3> QED
      BY <1>C, <2>2, <2>3, <3>2, <3>3 DEF Telling
  <2> QED
    BY <2>4, <2>5
<1>5. CASE TakeNoList(w)
  <2>1. PICK x : x = [h EXCEPT !.reading = "no",
                 !.status = IF h.reading = "yes" THEN "no" ELSE @,
                 !.saving = IF @ = "reloading" THEN "no" ELSE @]
    OBVIOUS
  <2>2. Hears(w, "noList") /\ win' = [win EXCEPT ![w] = x]
    BY <1>5, <2>1 DEF TakeNoList, h
  <2>3. win'[w] = x
    BY <1>0, <2>2 DEF WireTyped
  <2>4. h.status # "ready"
    <3>0. /\ inbox[w] # <<>> /\ inbox' = [inbox EXCEPT ![w] = Tail(@)]
          /\ inbox \in [Windows -> Inbox] /\ Head(inbox[w]).word = "noList"
      BY <1>0, <2>2 DEF WireTyped, Hears
    <3>1. 1 \in DOMAIN inbox[w] /\ inbox[w][1].word = "noList"
      BY <3>0, Hearing
    <3> QED
      BY <1>0, <3>1 DEF RevInv, h
  <2>5. /\ x.local = h.local /\ x.save = h.save /\ x.basis = h.basis /\ x.status # "ready"
        /\ (x.saving = "sent" <=> h.saving = "sent")
    BY <1>0, <2>1, <2>4 DEF Held
  <2>6. Sees(x)
    BY <1>0, <2>4, <2>5 DEF Sees
  <2> QED
    BY <1>C, <2>2, <2>3, <2>5, <2>6
<1>6. CASE TakeChanged(w)
  <2>1. PICK x : x = IF h.saving # "no" THEN h
       ELSE [h EXCEPT !.shown = Doc(w),
                      !.status = IF Head(inbox[w]).word = "echo" THEN "stale" ELSE "ready",
                      !.local = NoList, !.basis = NoBasis, !.more = FALSE,
                      !.reading = IF @ = "no" THEN "no" ELSE "superseded"]
    OBVIOUS
  <2>2. /\ Hears(w, "changed") \/ Hears(w, "echo")
        /\ win' = [win EXCEPT ![w] = x]
    BY <1>6, <2>1 DEF TakeChanged, h
  <2>3. win'[w] = x
    BY <1>0, <2>2 DEF WireTyped
  <2>4. CASE h.saving # "no"
    <3>1. x = h
      BY <2>1, <2>4
    <3> QED
      BY <1>0, <1>C, <2>2, <2>3, <3>1
  <2>5. CASE h.saving = "no"
    <3>1. /\ x.shown = Doc(w) /\ x.local = NoList /\ x.saving = "no"
          /\ (x.status = "ready" => Head(inbox[w]).word # "echo")
      BY <1>0, <2>1, <2>5 DEF Held
    <3>2. Sees(x)
      BY <3>1 DEF Sees
    <3>3. CASE Hears(w, "changed")
      BY <1>C, <2>3, <3>1, <3>2, <3>3 DEF Telling
    <3>4. CASE Hears(w, "echo")
      <4>1. x.status # "ready"
        BY <3>1, <3>4 DEF Hears
      <4> QED
        BY <1>C, <2>3, <3>2, <3>4, <4>1
    <3> QED
      BY <2>2, <3>3, <3>4
  <2> QED
    BY <2>4, <2>5
<1>7. CASE TakeSaved(w)
  <2>1. PICK x : x = [h EXCEPT !.shown = Doc(w), !.status = "ready", !.saving = "answered",
                 !.save = NoSave, !.local = IF h.more THEN @ ELSE NoList,
                 !.basis = IF h.more THEN [list |-> Doc(w).list, old |-> FALSE]
                           ELSE NoBasis]
    OBVIOUS
  <2>2. Hears(w, "saved") /\ win' = [win EXCEPT ![w] = x]
    BY <1>7, <2>1 DEF TakeSaved, h
  <2>3. win'[w] = x
    BY <1>0, <2>2 DEF WireTyped
  <2>4. /\ x.shown = Doc(w) /\ x.status = "ready" /\ x.saving = "answered"
        /\ x.local = NoList \/ x.basis.list = Doc(w).list
    BY <1>0, <2>1 DEF Held
  <2>5. Sees(x)
    BY <2>4 DEF Sees
  <2> QED
    BY <1>C, <2>2, <2>3, <2>4, <2>5 DEF Telling
<1>8. CASE TakeConflict(w)
  <2>1. PICK x : x = [h EXCEPT !.local = NoList, !.basis = NoBasis, !.save = NoSave,
                 !.more = FALSE, !.saving = "reloading", !.reading = "yes"]
    OBVIOUS
  <2>2. Hears(w, "conflict") /\ win' = [win EXCEPT ![w] = x]
    BY <1>8, <2>1 DEF TakeConflict, h
  <2>3. win'[w] = x
    BY <1>0, <2>2 DEF WireTyped
  <2>4. x.local = NoList /\ x.saving = "reloading" /\ x.status = h.status /\ x.shown = h.shown
    BY <1>0, <2>1 DEF Held
  <2>5. Sees(x)
    BY <2>4 DEF Sees
  <2> QED
    BY <1>C, <2>2, <2>3, <2>4, <2>5
<1>9. CASE TakeFailed(w)
  <2>1. PICK x : x = [h EXCEPT !.saving = "no", !.save = NoSave]
    OBVIOUS
  <2>2. Hears(w, "failed") /\ win' = [win EXCEPT ![w] = x]
    BY <1>9, <2>1 DEF TakeFailed, h
  <2>3. win'[w] = x
    BY <1>0, <2>2 DEF WireTyped
  <2>4. /\ x.local = h.local /\ x.basis = h.basis /\ x.saving = "no"
        /\ x.status = h.status /\ x.shown = h.shown
    BY <1>0, <2>1 DEF Held
  <2>5. Sees(x)
    BY <1>0, <2>4 DEF Sees
  <2> QED
    BY <1>C, <2>2, <2>3, <2>4, <2>5
<1>10. CASE SaveEnds(w)
  <2>1. CASE h.saving = "answered" /\ h.more
    <3>1. PICK x : x = Flushed(h)
      OBVIOUS
    <3>2. win'[w] = x /\ inbox' = inbox
      BY <1>0, <1>10, <2>1, <3>1 DEF SaveEnds, h, WireTyped
    <3>3. Sees(x)
      BY <1>0, <1>l, <2>1, <3>1, FlushedSees DEF Sees
    <3>4. x.status = h.status /\ x.shown = h.shown
      BY <1>0, <3>1, FlushedHeld
    <3> QED
      BY <1>A, <3>2, <3>3, <3>4
  <2>2. CASE ~ (h.saving = "answered" /\ h.more)
    <3>1. PICK x : x = [h EXCEPT !.saving = "no"]
      OBVIOUS
    <3>2. win'[w] = x /\ inbox' = inbox
      BY <1>0, <1>10, <2>2, <3>1 DEF SaveEnds, h, WireTyped
    <3>3. /\ x.local = h.local /\ x.basis = h.basis /\ x.saving = "no"
          /\ x.status = h.status /\ x.shown = h.shown
      BY <1>0, <3>1 DEF Held
    <3>4. Sees(x)
      BY <1>0, <3>3 DEF Sees
    <3> QED
      BY <1>A, <3>2, <3>3, <3>4
  <2> QED
    BY <2>1, <2>2
<1> QED
  BY <1>1, <1>2, <1>3, <1>4, <1>5, <1>6, <1>7, <1>8, <1>9, <1>10 DEF WindowHears

\* The windows a step of another one leaves alone.
LEMMA OthersSee ==
  ASSUME TypeInv, DaemonTyped', NEW w \in Windows,
         LinkUp(w) \/ Reload(w) \/ Edit(w) \/ WindowHears(w) \/ SaveEnds(w),
         NEW v \in Windows, v # w, WindowInv(v)
  PROVE  WindowInv(v)'
<1>0. win \in [Windows -> Held] /\ inbox \in [Windows -> Inbox]
  BY DEF TypeInv, WireTyped
<1>1. UNCHANGED <<loaded, state>>
  BY DEF LinkUp, Reload, Edit, WindowHears, SaveEnds, TakeList, TakeNoList, TakeChanged,
     TakeSaved, TakeConflict, TakeFailed, daemon
<1>2. inbox'[v] = inbox[v]
  BY <1>0 DEF LinkUp, Reload, Edit, WindowHears, SaveEnds, TakeList, TakeNoList, TakeChanged,
     TakeSaved, TakeConflict, TakeFailed, Hears
<1>3. \E x : win' = [win EXCEPT ![w] = x]
  <2>1. CASE LinkUp(w) \/ Reload(w)
    BY <2>1 DEF LinkUp, Reload
  <2>2. CASE Edit(w)
    BY <2>2 DEF Edit
  <2>3. CASE TakeList(w) \/ TakeNoList(w) \/ TakeChanged(w)
    BY <2>3, Zenon DEF TakeList, TakeNoList, TakeChanged
  <2>4. CASE TakeSaved(w) \/ TakeConflict(w)
    BY <2>4, Zenon DEF TakeSaved, TakeConflict
  <2>5. CASE TakeFailed(w) \/ SaveEnds(w)
    BY <2>5 DEF TakeFailed, SaveEnds
  <2> QED
    BY <2>1, <2>2, <2>3, <2>4, <2>5 DEF WindowHears
<1>4. win'[v] = win[v]
  BY <1>0, <1>3
<1> QED
  BY <1>1, <1>2, <1>4, NothingSaid

\* A link that goes.
LEMMA LostSees ==
  ASSUME TypeInv, TypeInv', NEW w \in Windows, LinkLost(w), \A v \in Windows : WindowInv(v),
         NEW v \in Windows
  PROVE  WindowInv(v)'
<1>0. WireTyped /\ DaemonTyped /\ DaemonTyped' /\ HeldInv(v)
  BY DEF TypeInv
<1>1. /\ win' = [win EXCEPT ![w] = Cut(win[w])] /\ inbox' = [inbox EXCEPT ![w] = <<>>]
      /\ linked' = linked \ {w} /\ loaded' = (loaded /\ linked # {w})
      /\ state' = IF linked = {w} /\ at = "idle" THEN NoState ELSE state
  BY DEF LinkLost
<1>2. CASE v = w
  <2>1. win'[v] = Cut(win[v]) /\ win[v] \in Held
    BY <1>0, <1>1, <1>2 DEF WireTyped
  <2>2. [win[v].basis EXCEPT !.old = win[v].local # NoList].old = (win[v].local # NoList)
    BY <2>1 DEF Held, Bases
  <2>3. /\ win'[v].local = win[v].local
        /\ win'[v].basis = [win[v].basis EXCEPT !.old = win[v].local # NoList]
    BY <2>1 DEF Held, Cut
  <2> QED
    BY <1>1, <1>2, <2>2, <2>3, LinkGone
<1>3. CASE v # w /\ linked = {w}
  <2>1. win'[v] = win[v] /\ v \notin linked'
    BY <1>0, <1>1, <1>3 DEF WireTyped
  <2>2. win[v].status # "ready"
    BY <1>0, <1>3 DEF HeldInv
  <2>3. win[v].local # NoList => win[v].basis.old
    BY <2>2 DEF WindowInv, Sees
  <2> QED
    BY <2>1, <2>3, LinkGone
<1>4. CASE v # w /\ linked # {w}
  <2>1. win'[v] = win[v] /\ inbox'[v] = inbox[v] /\ UNCHANGED <<loaded, state>>
    BY <1>0, <1>1, <1>4 DEF WireTyped, DaemonTyped
  <2> QED
    BY <1>0, <2>1, NothingSaid
<1> QED
  BY <1>2, <1>3, <1>4

LEMMA CrashSees ==
  ASSUME TypeInv, TypeInv', Crash, NEW v \in Windows
  PROVE  WindowInv(v)'
<1>1. win'[v] = Cut(win[v]) /\ win[v] \in Held /\ linked' = {}
  BY DEF TypeInv, WireTyped, Crash
<1>2. [win[v].basis EXCEPT !.old = win[v].local # NoList].old = (win[v].local # NoList)
  BY <1>1 DEF Held, Bases
<1>3. /\ win'[v].local = win[v].local
      /\ win'[v].basis = [win[v].basis EXCEPT !.old = win[v].local # NoList]
  BY <1>1 DEF Held, Cut
<1> QED
  BY <1>1, <1>2, <1>3, LinkGone

\* What the daemon says of what it has, and of what it then takes on.
LEMMA WindowsSee ==
  ASSUME SeenInv, TypeInv', [Next]_vars, NEW v \in Windows
  PROVE  WindowInv(v)'
<1>0. /\ TypeInv /\ DaemonTyped /\ CallInv /\ WireTyped /\ DaemonTyped' /\ WireTyped'
      /\ FilesTyped /\ \A w \in Windows : WindowInv(w)
  BY DEF SeenInv, TypeInv
<1>d. /\ DocumentOf(state) \in Documents /\ DocumentOf(ReadState) \in Documents
      /\ ~ Unreadable => DocumentOf(Taken) \in Documents /\ Taken.rev > state.rev
      /\ NoDocument \in Documents /\ state.rev \in Nat
  <2>1. NoDocument \in Documents
    BY DEF NoDocument, Documents, Lists
  <2> QED
    BY <1>0, <2>1, ReadsTyped, SaidTyped DEF DaemonTyped
\* A document of what the daemon is left with is right.
<1>t. ASSUME NEW d, d = DocumentOf(state'), loaded' PROVE Truthful(d)'
  BY <1>0, <1>t DEF Truthful, DocumentOf, ListOf, DaemonTyped
<1>N. ASSUME UNCHANGED <<inbox, win>>, loaded => loaded' /\ state' = state
      PROVE  WindowInv(v)'
  BY <1>0, <1>N, NothingSaid
<1>A. ASSUME win' = win, loaded => loaded' /\ (state' = state \/ state'.rev > state.rev),
             NEW told, NEW d \in Documents, NEW word \in Words, NEW who,
             Says(told, d, word, who), loaded /\ v \in told => Truthful(d)',
             v = who /\ word \in Telling => Truthful(d)',
             word = "noList" => ~ loaded /\ v \notin told
      PROVE  WindowInv(v)'
  <2>1. PICK change : change = Change
    OBVIOUS
  <2>2. change \in {"changed", "echo"} /\ inbox' = After(inbox, told, change, d, word, who)
    BY <1>A, <2>1, SaysAfter DEF Change
  <2>3. Added(inbox, inbox', told, change, d, word, who)
    <3>1. inbox \in [Windows -> Inbox]
      BY <1>0 DEF WireTyped
    <3>2. PICK after : after = inbox'
      OBVIOUS
    <3>3. after = After(inbox, told, change, d, word, who)
      BY <2>2, <3>2
    <3>4. change \in {"changed", "echo"}
      BY <2>2
    <3>5. Added(inbox, after, told, change, d, word, who)
      BY <3>1, <3>3, <3>4, SaidWhat
    <3> QED
      BY <3>2, <3>5
  <2>4. change = "changed" => loaded
    BY <2>1 DEF Change
  <2> QED
    BY <1>0, <1>A, <2>2, <2>3, <2>4, DaemonSays
<1>1. ASSUME NEW w \in Windows, Read(w) \/ Save(w) PROVE WindowInv(v)'
  <2>1. PICK d : d = DocumentOf(state)
    OBVIOUS
  <2>2. \/ UNCHANGED <<inbox, win, loaded, state>>
        \/ /\ loaded /\ UNCHANGED <<win, loaded, state>>
           /\ Says({}, d, "list", w) \/ Says({}, d, "conflict", w)
    BY <1>1, <2>1 DEF Read, Save, Served, Recovers, daemon
  <2>3. CASE UNCHANGED <<inbox, win, loaded, state>>
    BY <1>N, <2>3
  <2>4. CASE /\ loaded /\ UNCHANGED <<win, loaded, state>>
             /\ Says({}, d, "list", w) \/ Says({}, d, "conflict", w)
    <3>1. Truthful(d)' /\ {"list", "conflict"} \subseteq Words
      BY <1>t, <2>1, <2>4 DEF Words
    <3> QED
      BY <1>A, <1>d, <2>1, <2>4, <3>1
  <2> QED
    BY <2>2, <2>3, <2>4
<1>2. ASSUME NEW w \in Windows,
             LinkUp(w) \/ Reload(w) \/ Edit(w) \/ WindowHears(w) \/ SaveEnds(w)
      PROVE  WindowInv(v)'
  BY <1>0, <1>2, WindowSees, OthersSee
<1>3. ASSUME NEW w \in Windows, LinkLost(w) PROVE WindowInv(v)'
  BY <1>0, <1>3, LostSees
<1>4. CASE Load
  <2>1. ~ loaded /\ loaded' /\ state' = ReadState /\ win' = win /\ call.kind \in {"read", "save"}
    BY <1>0, <1>4 DEF Load, CallInv
  <2>2. CASE inbox' = inbox
    BY <1>N, <2>1, <2>2
  <2>3. CASE Answers(IF call.kind = "read" THEN "list" ELSE "conflict", DocumentOf(ReadState))
    <3>1. PICK d, word, who : /\ d = DocumentOf(ReadState) /\ who = Caller
                              /\ word = IF call.kind = "read" THEN "list" ELSE "conflict"
      OBVIOUS
    <3>2. Says({}, d, word, who) /\ d \in Documents /\ word \in Words /\ word # "noList"
      BY <1>d, <2>3, <3>1 DEF Answers, Words
    <3>3. Truthful(d)'
      BY <1>t, <2>1, <3>1
    <3> QED
      BY <1>A, <2>1, <3>2, <3>3
  <2> QED
    BY <1>4, <2>2, <2>3 DEF Load
<1>l. at \in {"again", "save"} /\ v = Caller => loaded
  BY <1>0, WindowsAssumption DEF Caller, CallInv
<1>5. CASE SaveOvertaken
  <2>0. at = "again" /\ win' = win /\ loaded' = loaded
    BY <1>5 DEF SaveOvertaken, Ends
  <2>1. CASE Keeps(state) /\ Answers("conflict", DocumentOf(state))
    <3>1. PICK d, who : d = DocumentOf(state) /\ who = Caller
      OBVIOUS
    <3>2. Says({}, d, "conflict", who) /\ d \in Documents /\ "conflict" \in Words
      BY <1>d, <2>1, <3>1 DEF Answers, Words
    <3>3. loaded => state' = state /\ Truthful(d)'
      BY <1>t, <2>0, <2>1, <3>1 DEF Keeps
    <3> QED
      BY <1>A, <1>l, <2>0, <3>1, <3>2, <3>3
  <2>2. CASE /\ ~ Unreadable /\ Keeps(Taken)
             /\ Says(linked, DocumentOf(Taken), "conflict", Caller)
    <3>1. PICK d, who, told : d = DocumentOf(Taken) /\ who = Caller /\ told = linked
      OBVIOUS
    <3>2. Says(told, d, "conflict", who) /\ d \in Documents /\ "conflict" \in Words
      BY <1>d, <2>2, <3>1 DEF Words
    <3>3. loaded => state'.rev > state.rev /\ Truthful(d)'
      BY <1>d, <1>t, <2>0, <2>2, <3>1 DEF Keeps
    <3> QED
      BY <1>A, <1>l, <2>0, <3>1, <3>2, <3>3
  <2> QED
    BY <1>5, <2>1, <2>2 DEF SaveOvertaken
<1>6. CASE Saved
  <2>0. at = "save" /\ win' = win /\ loaded' = loaded
    BY <1>6 DEF Saved, Ends
  <2> DEFINE now == [rev |-> state.rev + 1, shared |-> call.save.list.shared,
                     own |-> [rev |-> state.rev + 1, body |-> call.save.list.body]]
  <2>1. now \in [rev : Nat, shared : SharedTexts \cup {Absent}, own : OwnTexts \cup {Absent}]
    BY <1>0, <1>d, <2>0 DEF CallInv, EditLists, OwnTexts
  <2>2. Keeps(now) /\ Says(linked \ {call.by}, DocumentOf(now), "saved", Caller)
    BY <1>6 DEF Saved
  <2>3. now.rev > state.rev
    BY <1>d
  <2> HIDE DEF now
  <2>4. PICK d, who, told : d = DocumentOf(now) /\ who = Caller /\ told = linked \ {call.by}
    OBVIOUS
  <2>5. Says(told, d, "saved", who) /\ d \in Documents /\ "saved" \in Words
    BY <2>1, <2>2, <2>4, SaidTyped DEF Words
  <2>6. loaded => state'.rev > state.rev /\ Truthful(d)'
    BY <1>t, <2>0, <2>2, <2>3, <2>4 DEF Keeps
  <2> QED
    BY <1>A, <1>l, <2>0, <2>4, <2>5, <2>6
<1>7. CASE SaveRaced
  <2>0. at = "save" /\ win' = win /\ loaded' = loaded
    BY <1>7 DEF SaveRaced, Ends
  <2>1. PICK d, who : d = DocumentOf(state) /\ who = Caller
    OBVIOUS
  <2>2. Says({}, d, "conflict", who) /\ d \in Documents /\ "conflict" \in Words
    BY <1>7, <1>d, <2>1 DEF SaveRaced, Answers, Words
  <2>3. loaded => state' = state /\ Truthful(d)'
    BY <1>7, <1>t, <2>0, <2>1 DEF SaveRaced, Keeps
  <2> QED
    BY <1>A, <1>l, <2>0, <2>1, <2>2, <2>3
<1>8. CASE CallFails
  <2>0. win' = win /\ loaded' = loaded /\ (loaded => state' = state)
    BY <1>8 DEF CallFails, Ends, Keeps
  <2>1. PICK d, word, who : /\ d = NoDocument /\ who = Caller
                            /\ word = IF call.kind = "read" THEN "noList" ELSE "failed"
    OBVIOUS
  <2>2. Says({}, d, word, who) /\ d \in Documents /\ word \in Words /\ word \notin Telling
    BY <1>8, <1>d, <2>1 DEF CallFails, Answers, Words, Telling
  <2>3. word = "noList" => ~ loaded
    BY <1>0, <2>1 DEF CallInv
  <2> QED
    BY <1>A, <2>0, <2>2, <2>3
<1>9. CASE WatcherTakes
  <2>0. /\ win' = win /\ loaded' = loaded /\ state' = Taken /\ ~ Unreadable
        /\ Says(linked, DocumentOf(Taken), "none", "nobody")
    BY <1>9 DEF WatcherTakes
  <2>1. PICK d, told : d = DocumentOf(Taken) /\ told = linked
    OBVIOUS
  <2>2. Says(told, d, "failed", "nobody") /\ d \in Documents /\ "failed" \in Words
    BY <1>d, <2>0, <2>1, WindowsAssumption DEF Says, Words
  <2>3. loaded => Truthful(d)'
    BY <1>t, <2>0, <2>1
  <2> QED
    BY <1>A, <1>d, <2>0, <2>2, <2>3, WindowsAssumption
<1>10. CASE SaveWrites \/ Glance \/ GlanceEnds
  BY <1>N, <1>10 DEF SaveWrites, Glance, GlanceEnds, Recovers, Ends, Keeps, wire
<1>11. CASE FilesMove \/ DiskFails \/ Outside \/ IntentDeleted \/ UNCHANGED vars
  BY <1>N, <1>11 DEF FilesMove, DiskFails, Outside, IntentDeleted, vars, daemon, wire
<1>12. CASE Crash
  BY <1>0, <1>12, CrashSees
<1> QED
  BY <1>1, <1>2, <1>3, <1>4, <1>5, <1>6, <1>7, <1>8, <1>9, <1>10, <1>11, <1>12 DEF Next, CallStep

LEMMA ServedStep ==
  ASSUME SeenInv, [Next]_vars
  PROVE  ServedInv'
<1>0. /\ DaemonTyped /\ CallInv /\ WireTyped /\ ServedInv
      /\ \A w \in Windows : OneSave(w) /\ Sees(win[w])
  BY DEF SeenInv, TypeInv, WindowInv
<1>1. ASSUME call'.kind # "save" PROVE ServedInv'
  BY <1>1 DEF ServedInv
<1>2. ASSUME call' = call \/ (call'.kind = call.kind /\ call'.save.basis = call.save.basis),
             state' = state, at' # "load" \/ at' = at, at' \in {"again", "save"} => at \in {"again", "save"}
      PROVE  ServedInv'
  BY <1>0, <1>2 DEF ServedInv, ListOf
<1>3. ASSUME NEW w \in Windows, Read(w) PROVE ServedInv'
  <2>1. CASE loaded
    BY <1>2, <1>3, <2>1 DEF Read, daemon
  <2>2. CASE ~ loaded
    BY <1>1, <1>3, <2>2 DEF Read, Recovers
  <2> QED
    BY <2>1, <2>2
<1>4. ASSUME NEW w \in Windows, Save(w) PROVE ServedInv'
  <2>1. CASE loaded /\ ~ SameRev(win[w].save, state)
    BY <1>2, <1>4, <2>1 DEF Save, daemon
  <2>2. CASE ~ (loaded /\ ~ SameRev(win[w].save, state))
    <3>1. queue[w] \in Seq({"read", "save"}) /\ queue[w] # <<>> /\ Head(queue[w]) = "save"
      BY <1>0, <1>4 DEF Save, WireTyped
    <3>2. Asked(w)
      BY <3>1, TakenOff DEF Asked
    <3>3. /\ Recovers(IF loaded THEN "again" ELSE "load", "save", w, win[w].save)
          /\ (loaded => win[w].save.base = state.rev)
      BY <1>4, <2>2 DEF Save, SameRev
    <3>4. ~ win[w].save.basis.old => loaded /\ ListOf(state) = win[w].save.basis.list
      BY <1>0, <3>2, <3>3 DEF OneSave, Sees, Truthful
    <3> QED
      BY <3>3, <3>4 DEF Recovers, ServedInv, ListOf
  <2> QED
    BY <2>1, <2>2
<1>5. CASE Load
  <2>1. call' = NoCall \/ (call' = call /\ (call.kind = "save" => call.save.basis.old))
    BY <1>0, <1>5 DEF Load, ServedInv
  <2> QED
    BY <2>1 DEF ServedInv, NoCall
<1>6. CASE SaveWrites
  <2>1. PICK shared : call' = [call EXCEPT !.save.list.shared = shared]
    BY <1>6 DEF SaveWrites
  <2>2. call'.kind = call.kind /\ call'.save.basis = call.save.basis
    BY <1>0, <2>1 DEF DaemonTyped, Saves
  <2> QED
    BY <1>2, <1>6, <2>2 DEF SaveWrites
<1>7. CASE SaveOvertaken \/ Saved \/ SaveRaced \/ CallFails \/ GlanceEnds \/ Crash
  BY <1>1, <1>7 DEF SaveOvertaken, Saved, SaveRaced, CallFails, GlanceEnds, Ends, Crash, NoCall
<1>8. CASE Glance
  BY <1>1, <1>8 DEF Glance, Recovers
<1>9. CASE WatcherTakes
  BY <1>0, <1>1, <1>9 DEF WatcherTakes, CallInv, NoCall
<1>10. CASE FilesMove \/ DiskFails \/ Outside \/ IntentDeleted \/ UNCHANGED vars
  BY <1>2, <1>10 DEF FilesMove, DiskFails, Outside, IntentDeleted, vars, daemon
<1>11. ASSUME NEW w \in Windows,
              LinkUp(w) \/ Reload(w) \/ Edit(w) \/ WindowHears(w) \/ SaveEnds(w)
       PROVE  ServedInv'
  BY <1>2, <1>11 DEF LinkUp, Reload, Edit, WindowHears, SaveEnds, TakeList, TakeNoList,
     TakeChanged, TakeSaved, TakeConflict, TakeFailed, daemon
<1>12. ASSUME NEW w \in Windows, LinkLost(w) PROVE ServedInv'
  <2>1. call'.kind = call.kind /\ call'.save.basis = call.save.basis
    BY <1>0, <1>12 DEF LinkLost, DaemonTyped
  <2>2. CASE at = "idle"
    BY <1>0, <1>1, <2>1, <2>2 DEF CallInv, NoCall
  <2>3. CASE at # "idle"
    BY <1>2, <1>12, <2>1, <2>3 DEF LinkLost
  <2> QED
    BY <2>2, <2>3
<1> QED
  BY <1>3, <1>4, <1>5, <1>6, <1>7, <1>8, <1>9, <1>10, <1>11, <1>12 DEF Next, CallStep

LEMMA SeenInvHolds == Spec => []SeenInv
<1>1. SeenInv /\ [Next]_vars => SeenInv'
  <2> SUFFICES ASSUME SeenInv, [Next]_vars PROVE SeenInv'
    OBVIOUS
  <2>1. TypeInv'
    BY TypeInvStep DEF SeenInv
  <2>2. ServedInv'
    BY ServedStep
  <2>3. ASSUME NEW v \in Windows PROVE WindowInv(v)'
    BY <2>1, WindowsSee
  <2> QED
    BY <2>1, <2>2, <2>3 DEF SeenInv
<1> QED
  BY <1>1, SeenInvInit, PTL DEF Spec

\* A rev stands for one list: a window that shows the rev the daemon is at shows the
\* list the daemon has, whatever was told, saved, edited on disk or cut off between.
THEOREM RevsName == Spec => []RevNamesList
<1>1. SeenInv => RevNamesList
  <2> SUFFICES ASSUME SeenInv, NEW w \in linked, loaded, win[w].status = "ready",
                      win[w].shown.rev = state.rev
               PROVE  win[w].shown.list = ListOf(state)
    BY DEF RevNamesList
  <2>1. w \in Windows
    BY DEF SeenInv, TypeInv, DaemonTyped
  <2> QED
    BY <2>1 DEF SeenInv, WindowInv, Shows, Truthful
<1> QED
  BY <1>1, SeenInvHolds, PTL

\* A change from elsewhere is never written over: the list a save replaces is the one
\* its author saw under the edit, unless the window knew that list from an earlier link.
THEOREM ReplacesSeen == Spec => []OverwritesOnlySeen
<1>1. SeenInv => OverwritesOnlySeen
  <2> SUFFICES ASSUME SeenInv, at = "save", ~ call.save.basis.old
               PROVE  ListOf(state) = call.save.basis.list
    BY DEF OverwritesOnlySeen
  <2>1. call.kind = "save"
    BY DEF SeenInv, TypeInv, CallInv
  <2> QED
    BY <2>1 DEF SeenInv, ServedInv
<1> QED
  BY <1>1, SeenInvHolds, PTL

=============================================================================
