----------------------------- MODULE PairedWrite -----------------------------
(***************************************************************************)
(* Two files that belong together: writePaired and recoverPaired of        *)
(* apps/server/src/projects/paired-write.ts, over the file a project       *)
(* shares and the person's own file, which carries the rev.                *)
(*                                                                         *)
(* A write puts its intent on disk, with the text of each file before and  *)
(* after, before it touches a file, and removes the intent after the last  *)
(* one.  Whoever comes next finishes an intent that is still there.  A     *)
(* file is written by a durable rename, so each write is one step; a       *)
(* program, a pull or a person may edit a file between any two.            *)
(***************************************************************************)
EXTENDS Naturals

CONSTANTS
  Texts,   \* what a file may hold
  Absent   \* the file is not there

Files == {"shared", "own"}

\* An intent names the files it writes: both, or the person's own alone.
NoIntent == [f \in {} |-> Absent]
IsIntent(i) ==
  i = NoIntent \/ \E F \in {{"own"}, Files} : i \in [F -> [before : Texts, after : Texts]]

VARIABLES
  disk,     \* the text of each file
  intent,   \* the intent on disk
  step,     \* how far the operation under way is with the files
  touched,  \* ghost: a file was edited outside since the intent was written
  unseen    \* ghost: the files edited outside since a write that runs checked them

files == <<disk, intent, step, touched, unseen>>

Steps == {"rest", "look", "check", "shared", "own", "remove", "over", "raced",
          "stuck", "failed"}

TypeOK ==
  /\ disk \in [Files -> Texts] /\ IsIntent(intent) /\ step \in Steps
  /\ touched \in BOOLEAN /\ unseen \subseteq Files

Init ==
  /\ disk \in [Files -> Texts] /\ intent = NoIntent /\ step = "rest"
  /\ touched = FALSE /\ unseen = {}

-----------------------------------------------------------------------------
\* writePaired, up to the durable write of the intent.
WriteIntent(new) ==
  /\ step' = "check"
  /\ intent' = new
  /\ touched' = (\E f \in DOMAIN new : disk[f] # new[f].before)
  /\ UNCHANGED <<disk, unseen>>

Before == [f \in DOMAIN intent |-> {intent[f].before}]
BeforeOrAfter == [f \in DOMAIN intent |-> {intent[f].before, intent[f].after}]

\* Mutant: what is on disk is not looked at again.
MovedNever(accepted) == FALSE

\* moved: a file whose text is none of those the caller accepts.
Moved(accepted) == \E f \in DOMAIN intent : disk[f] \notin accepted[f]

Forget == intent' = NoIntent /\ touched' = FALSE

\* writePaired: a file that moved under the write stops it before its first byte.
Check ==
  /\ step = "check"
  /\ IF Moved(Before)
     THEN step' = "raced" /\ Forget
     ELSE step' = "shared" /\ UNCHANGED <<intent, touched>>
  /\ UNCHANGED <<disk, unseen>>

\* Mutant: an interrupted write is dropped.
LookForgets ==
  /\ step = "look"
  /\ step' = "over" /\ Forget
  /\ UNCHANGED <<disk, unseen>>

\* recoverPaired: nothing to finish, an edit in the way, or finish it forward.
Look ==
  /\ step = "look"
  /\ step' = IF intent = NoIntent THEN "over"
             ELSE IF Moved(BeforeOrAfter) THEN "stuck" ELSE "shared"
  /\ UNCHANGED <<disk, intent, touched, unseen>>

\* writeChangedFiles: the files in the order of the intent.
Puts(f) ==
  disk' = IF f \in DOMAIN intent THEN [disk EXCEPT ![f] = intent[f].after] ELSE disk

WriteShared ==
  /\ step = "shared"
  /\ Puts("shared")
  /\ step' = "own"
  /\ UNCHANGED <<intent, touched, unseen>>

WriteOwn ==
  /\ step = "own"
  /\ Puts("own")
  /\ step' = "remove" /\ unseen' = {}
  /\ UNCHANGED <<intent, touched>>

Remove ==
  /\ step = "remove"
  /\ step' = "over" /\ Forget
  /\ UNCHANGED <<disk, unseen>>

\* A read, a write or the removal throws; what is on disk stays.
Fail ==
  /\ step \in {"look", "check", "shared", "own", "remove"}
  /\ step' = "failed" /\ unseen' = {}
  /\ UNCHANGED <<disk, intent, touched>>

Apply == WriteShared \/ WriteOwn \/ Remove
FileStep == Look \/ Check \/ Apply

\* The daemon goes down, or its operation is over.
Rests ==
  /\ step' = "rest" /\ unseen' = {}
  /\ UNCHANGED <<disk, intent, touched>>

-----------------------------------------------------------------------------
(* Outside the daemon. *)

Edit(f, text) ==
  /\ text # disk[f]
  /\ disk' = [disk EXCEPT ![f] = text]
  /\ touched' = (touched \/ f \in DOMAIN intent)
  /\ unseen' = IF step \in {"shared", "own"} THEN unseen \cup {f} ELSE {}
  /\ UNCHANGED <<intent, step>>

\* A person deletes the intent that is in the way, as PairedWriteStuck says.
DeleteIntent ==
  /\ Moved(BeforeOrAfter)
  /\ Forget
  /\ UNCHANGED <<disk, step, unseen>>

-----------------------------------------------------------------------------
(* Correctness. *)

\* paired-write.ts:72-76: a crash leaves the files all before or all after.  When
\* an intent goes, every file it named holds what it was to hold, however the
\* write was cut off and by whom it was finished, unless one was edited outside.
Whole ==
  intent' # intent /\ ~ touched =>
    \A f \in DOMAIN intent : disk[f] = intent[f].after

\* paired-write.ts:15-19: a write goes over a text it knows, never over an edit
\* that was there when it looked.
EditsKept ==
  step \in {"shared", "own"} =>
    \A f \in DOMAIN intent :
      disk[f] \in BeforeOrAfter[f] \/ f \in unseen

=============================================================================
