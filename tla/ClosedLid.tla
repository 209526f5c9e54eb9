------------------------------ MODULE ClosedLid ------------------------------
(***************************************************************************)
(* Keeping a Mac awake with its lid closed: ClosedLid of                   *)
(* apps/server/src/power/closed-lid.ts, on the system of closed-lid-       *)
(* system.ts.                                                              *)
(*                                                                         *)
(* Sleep is a setting of the whole machine, which outlives whoever turned  *)
(* it off.  The daemon turns it off with sudo while it holds, beside a     *)
(* marker on disk and a watchdog, a process that turns it on again once    *)
(* the daemon is gone.  Every change of what the decision rests on decides *)
(* anew; what was decided is carried out one change at a time, cut at its  *)
(* awaits.  A command of sudo runs on when its daemon goes.                *)
(***************************************************************************)
EXTENDS Naturals

CONSTANTS
  Calls,      \* the calls that install or remove the rule
  MaxEnds,    \* bound: daemons that are stopped or go down, and power cuts
  MaxLoose,   \* bound: watchdogs of daemons that are gone
  CanRefuse,  \* whether sudo or pmset may refuse while the rule is there
  CanMeddle   \* whether others switch sleep, or add or delete the rule

ASSUME BoundsAssumption == {MaxEnds, MaxLoose} \subseteq Nat
ASSUME EventsAssumption == {CanRefuse, CanMeddle} \subseteq BOOLEAN

VARIABLES
  \* the machine
  word,      \* on whose word sleep is off, "nobody" while it is on (ghost but for that)
  ruleFile,  \* whether the sudoers rule is there
  marker,    \* whether this home's marker is there
  loose,     \* watchdogs whose daemon is gone
  orphan,    \* a command of sudo whose daemon is gone
  \* the daemon
  up, started, stopped,  \* whether it runs, began to decide, is on its way out
  rule, refused, removing,  \* whether the rule was seen, was refused, is being removed
  lid,       \* the switch a person sets with keep awake on, kept between starts
  work,      \* whether keep awake itself would hold
  watch,     \* whether the power source is followed
  power,     \* whether its last reading allows to hold
  target,    \* what was decided
  pending,   \* whether a change is queued behind the one that runs
  at,        \* where that one is, or the start
  sudo,      \* the command of sudo it waits for
  held,      \* whether sleep is off as far as the daemon knows
  dog,       \* whether the watchdog of this hold runs
  strays,    \* whether watchdogs of failed releases run
  stage,     \* where each call is
  owes,      \* ghost: turning sleep on failed since the marker was written
  ends       \* how much of MaxEnds is used

machine == <<word, ruleFile, marker, loose, orphan>>
facts == <<started, stopped, rule, refused, removing, lid, work>>
reading == <<watch, power>>
decided == <<target, pending>>
doing == <<at, sudo, held, dog, strays>>
vars == <<machine, up, facts, reading, decided, doing, stage, owes, ends>>

HoldSteps == {"marking", "marked", "disabling", "unmarking", "refusing"}
ReleaseSteps == {"enabling", "clearing"}
StartSteps == {"recover", "recovering", "forgetting", "ready"}

TypeOK ==
  /\ word \in {"nobody", "ours", "cut", "kept", "orphan", "other"}
  /\ ruleFile \in BOOLEAN /\ marker \in BOOLEAN /\ loose \in 0 .. MaxLoose
  /\ orphan \in {"none", "off", "on"}
  /\ up \in BOOLEAN /\ started \in BOOLEAN /\ stopped \in BOOLEAN
  /\ rule \in BOOLEAN /\ refused \in BOOLEAN /\ removing \in BOOLEAN
  /\ lid \in BOOLEAN /\ work \in BOOLEAN /\ watch \in BOOLEAN /\ power \in BOOLEAN
  /\ target \in BOOLEAN /\ pending \in BOOLEAN
  /\ at \in {"idle"} \cup HoldSteps \cup ReleaseSteps \cup StartSteps
  /\ sudo \in {"none", "off", "on", "ok", "no"}
  /\ held \in BOOLEAN /\ dog \in BOOLEAN /\ strays \in BOOLEAN
  /\ held => dog  \* `held` is the watchdog
  /\ stage \in [Calls -> {"none", "installing", "letting", "removing", "ran",
                          "cancelled", "reads"}]
  /\ owes \in BOOLEAN /\ ends \in 0 .. MaxEnds

\* A home that never held, on a machine whose sleep is on.
Init ==
  /\ word = "nobody" /\ ruleFile \in BOOLEAN /\ marker = FALSE
  /\ loose = 0 /\ orphan = "none"
  /\ up = FALSE /\ started = FALSE /\ stopped = FALSE
  /\ rule = FALSE /\ refused = FALSE /\ removing = FALSE
  /\ lid = FALSE /\ work = FALSE /\ watch = FALSE /\ power = FALSE
  /\ target = FALSE /\ pending = FALSE
  /\ at = "idle" /\ sudo = "none" /\ held = FALSE /\ dog = FALSE /\ strays = FALSE
  /\ stage = [c \in Calls |-> "none"]
  /\ owes = FALSE /\ ends = 0

-----------------------------------------------------------------------------
(* The decision. *)

\* closedLidHolds, and no rule that is being removed.
Holds(r, f, m, l, w, p) == r /\ ~ f /\ ~ m /\ l /\ w /\ p
Wanted == Holds(rule, refused, removing, lid, work, power)

\* decide, on what is so after the step.
Decides ==
  LET wanted == Holds(rule', refused', removing', lid', work', power') IN
  /\ target' = wanted
  /\ pending' = (pending \/ wanted # target)

\* followPower: a stream that starts anew has said nothing yet.
FollowsPower ==
  /\ watch' = (rule' /\ ~ refused' /\ lid')
  /\ power' = (power /\ watch /\ watch')

Checks ==
  IF started' /\ ~ stopped
  THEN FollowsPower /\ Decides
  ELSE UNCHANGED <<reading, decided>>

WorkChanges ==
  /\ up
  /\ work' = ~ work
  /\ UNCHANGED <<started, stopped, rule, refused, removing, lid>>
  /\ Checks
  /\ UNCHANGED <<machine, up, doing, stage, owes, ends>>

\* It is turned on only with a rule that works.
LidChanges ==
  /\ up /\ (~ lid => rule /\ ~ refused)
  /\ lid' = ~ lid
  /\ UNCHANGED <<started, stopped, rule, refused, removing, work>>
  /\ Checks
  /\ UNCHANGED <<machine, up, doing, stage, owes, ends>>

\* powerChanged: a reading, or the end of the stream.
PowerChanges ==
  /\ up /\ started /\ watch
  /\ power' \in BOOLEAN
  /\ watch' \in BOOLEAN /\ (power' => watch')
  /\ UNCHANGED facts
  /\ Decides
  /\ UNCHANGED <<machine, up, doing, stage, owes, ends>>

-----------------------------------------------------------------------------
(* apply: hold and release. *)

\* Sleep goes on, or it stays off after a try.
TurnsOn(ok) ==
  word' = IF ok THEN "nobody" ELSE IF word \in {"ours", "cut"} THEN "kept" ELSE word

Accepts(ok) == (ok => ruleFile) /\ (~ ok => CanRefuse \/ ~ ruleFile)

Unmark == marker' = FALSE /\ owes' = FALSE /\ UNCHANGED <<word, ruleFile, loose, orphan>>

\* releaseNow: waited on.
ReleaseNow ==
  /\ held' = FALSE /\ dog' = FALSE
  /\ \E ok \in BOOLEAN :
       /\ Accepts(ok) /\ TurnsOn(ok)
       /\ marker' = (marker /\ ~ ok) /\ owes' = (marker /\ ~ ok)
       /\ strays' = (strays \/ ~ ok)
  /\ UNCHANGED <<ruleFile, loose, orphan>>

Does(step, command) == at' = step /\ sudo' = command
Unsaid == UNCHANGED <<up, facts, reading, stage, ends>>

Begins ==
  /\ up /\ at = "idle" /\ pending
  /\ pending' = FALSE
  /\ \/ ~ stopped /\ target /\ ~ held /\ Does("marking", "none") /\ UNCHANGED held
     \/ ~ stopped /\ ~ target /\ held /\ Does("enabling", "on") /\ held' = FALSE
     \/ (stopped \/ target = held) /\ UNCHANGED <<at, sudo, held>>
  /\ Unsaid /\ UNCHANGED <<machine, target, dog, strays, owes>>

GivesUp == target' = FALSE /\ UNCHANGED pending

MarkerFails ==
  /\ at = "marking"
  /\ Does("idle", "none") /\ GivesUp
  /\ Unsaid /\ UNCHANGED <<machine, held, dog, strays, owes>>

MarkerWritten ==
  /\ at = "marking"
  /\ marker' = TRUE
  /\ Does("marked", "none")
  /\ Unsaid
  /\ UNCHANGED <<word, ruleFile, loose, orphan, decided, held, dog, strays, owes>>

\* Mutant: sleep goes off before the watchdog is up.
DogComesLate ==
  /\ at = "marked"
  /\ Does("disabling", "off")
  /\ Unsaid /\ UNCHANGED <<machine, decided, held, dog, strays, owes>>

DogStarts ==
  /\ at = "marked"
  /\ dog' = TRUE
  /\ Does("disabling", "off")
  /\ Unsaid /\ UNCHANGED <<machine, decided, held, strays, owes>>

DogFails ==
  /\ at = "marked"
  /\ Does("unmarking", "none")
  /\ Unsaid /\ UNCHANGED <<machine, decided, held, dog, strays, owes>>

DogForgotten ==
  /\ at = "unmarking"
  /\ Unmark /\ Does("idle", "none") /\ GivesUp
  /\ Unsaid /\ UNCHANGED <<held, dog, strays>>

HoldDone ==
  /\ at = "disabling" /\ sudo = "ok"
  /\ Does("idle", "none")
  /\ \/ ~ stopped /\ held' = TRUE /\ UNCHANGED <<machine, dog, strays, owes>>
     \/ stopped /\ ReleaseNow
  /\ Unsaid /\ UNCHANGED decided

HoldIsRefused ==
  /\ at = "disabling" /\ sudo = "no"
  /\ dog' = FALSE
  /\ Does("refusing", "none")
  /\ Unsaid /\ UNCHANGED <<machine, decided, held, strays, owes>>

\* ruleChanged: a rule that went takes the switch with it.
Refused ==
  /\ at = "refusing"
  /\ Unmark /\ Does("idle", "none") /\ GivesUp
  /\ refused' = TRUE /\ lid' = (lid /\ rule)
  /\ UNCHANGED <<up, started, stopped, rule, removing, work, reading, stage, ends, held,
                 dog, strays>>

ReleaseDone ==
  /\ at = "enabling" /\ sudo = "ok"
  /\ dog' = FALSE
  /\ Does("clearing", "none")
  /\ Unsaid /\ UNCHANGED <<machine, decided, held, strays, owes>>

Cleared ==
  /\ at = "clearing"
  /\ Unmark /\ Does("idle", "none")
  /\ Unsaid /\ UNCHANGED <<decided, held, dog, strays>>

\* Mutant: a release that failed holds again, without its watchdog.
ReleaseFailsHeld ==
  /\ at = "enabling" /\ sudo = "no"
  /\ held' = TRUE /\ dog' = FALSE /\ strays' = TRUE /\ owes' = marker
  /\ Does("idle", "none")
  /\ Unsaid /\ UNCHANGED <<machine, decided>>

\* The watchdog stays for one more try, and so does the marker.
ReleaseFails ==
  /\ at = "enabling" /\ sudo = "no"
  /\ dog' = FALSE /\ strays' = TRUE /\ owes' = marker
  /\ Does("idle", "none")
  /\ Unsaid /\ UNCHANGED <<machine, decided, held>>

-----------------------------------------------------------------------------
(* start: what a daemon before this one left. *)

\* Mutant: a start that puts nothing back.
BootsAsIs ==
  /\ ~ up
  /\ up' = TRUE
  /\ Does("ready", "none")
  /\ UNCHANGED <<machine, facts, reading, decided, held, dog, strays, stage, owes,
                 ends>>

Boots ==
  /\ ~ up
  /\ up' = TRUE
  /\ Does("recover", "none")
  /\ UNCHANGED <<machine, facts, reading, decided, held, dog, strays, stage, owes,
                 ends>>

\* Sleep off without the marker is somebody else's.
RecoverReads ==
  /\ at = "recover"
  /\ CASE marker /\ word # "nobody" -> Does("recovering", "on")
       [] marker /\ word = "nobody" -> Does("forgetting", "none")
       [] OTHER                     -> Does("ready", "none")
  /\ Unsaid /\ UNCHANGED <<machine, decided, held, dog, strays, owes>>

\* Mutant: the marker outlives the recovery.
RecoverAskedOnly ==
  /\ at = "recovering" /\ sudo \in {"ok", "no"}
  /\ Does("ready", "none")
  /\ owes' = (owes \/ sudo = "no")
  /\ Unsaid /\ UNCHANGED <<machine, decided, held, dog, strays>>

RecoverAsked ==
  /\ at = "recovering" /\ sudo \in {"ok", "no"}
  /\ Does(IF sudo = "ok" THEN "forgetting" ELSE "ready", "none")
  /\ owes' = (owes \/ sudo = "no")
  /\ Unsaid /\ UNCHANGED <<machine, decided, held, dog, strays>>

RecoverForgets ==
  /\ at = "forgetting"
  /\ Unmark /\ Does("ready", "none")
  /\ Unsaid /\ UNCHANGED <<decided, held, dog, strays>>

Starts ==
  /\ at = "ready"
  /\ Does("idle", "none")
  /\ rule' = ruleFile /\ started' = TRUE
  /\ UNCHANGED <<stopped, refused, removing, lid, work>>
  /\ Checks
  /\ UNCHANGED <<machine, up, held, dog, strays, stage, owes, ends>>

-----------------------------------------------------------------------------
(* The rule. *)

\* readRule, and ruleChanged when it is said.
ReadsRule(announce) ==
  /\ rule' = ruleFile
  /\ refused' = (refused /\ rule = ruleFile)
  /\ UNCHANGED <<started, stopped, removing, work>>
  /\ IF announce \/ (rule' /\ ~ refused') # (rule /\ ~ refused)
     THEN lid' = (lid /\ ruleFile) /\ Checks
     ELSE UNCHANGED <<lid, reading, decided>>

RefreshesRule ==
  /\ up
  /\ ReadsRule(FALSE)
  /\ UNCHANGED <<machine, up, doing, stage, owes, ends>>

Reaches(c, s) == stage' = [stage EXCEPT ![c] = s]

AsksInstall(c) ==
  /\ up /\ stage[c] = "none"
  /\ Reaches(c, "installing")
  /\ UNCHANGED <<machine, up, facts, reading, decided, doing, owes, ends>>

\* Mutant: a removal does not let go first.
RemovesAtOnce(c) ==
  /\ up /\ stage[c] = "none"
  /\ Reaches(c, "letting")
  /\ removing' = TRUE
  /\ UNCHANGED <<started, stopped, rule, refused, lid, work, reading, decided>>
  /\ UNCHANGED <<machine, up, doing, owes, ends>>

AsksRemoval(c) ==
  /\ up /\ stage[c] = "none"
  /\ Reaches(c, "letting")
  /\ removing' = TRUE
  /\ UNCHANGED <<started, stopped, rule, refused, lid, work>>
  /\ Checks
  /\ UNCHANGED <<machine, up, doing, owes, ends>>

LetGo(c) ==
  /\ stage[c] = "letting"
  /\ ~ pending /\ at \in {"idle"} \cup StartSteps
  /\ Reaches(c, "removing")
  /\ UNCHANGED <<machine, up, facts, reading, decided, doing, owes, ends>>

\* The script runs as root, after macOS's own dialog.
ScriptRuns(c) ==
  /\ stage[c] \in {"installing", "removing"}
  /\ Reaches(c, "ran")
  /\ ruleFile' = (stage[c] = "installing")
  /\ word' = IF stage[c] = "removing" THEN "nobody" ELSE word
  /\ UNCHANGED <<marker, loose, orphan, up, facts, reading, decided, doing, owes, ends>>

DialogCancelled(c) ==
  /\ stage[c] \in {"installing", "removing"}
  /\ Reaches(c, "cancelled")
  /\ UNCHANGED <<machine, up, facts, reading, decided, doing, owes, ends>>

DialogHeard(c) ==
  /\ stage[c] \in {"ran", "cancelled"}
  /\ Reaches(c, "reads")
  /\ removing' = FALSE
  /\ refused' = (refused /\ stage[c] = "cancelled")
  /\ UNCHANGED <<machine, up, started, stopped, rule, lid, work, reading, decided, doing,
                 owes, ends>>

CallEnds(c) ==
  /\ stage[c] = "reads"
  /\ Reaches(c, "none")
  /\ ReadsRule(TRUE)
  /\ UNCHANGED <<machine, up, doing, owes, ends>>

-----------------------------------------------------------------------------
(* sudo, the watchdogs, and the ends of a daemon. *)

SudoRuns ==
  /\ sudo \in {"off", "on"}
  /\ \E ok \in BOOLEAN :
       /\ Accepts(ok)
       /\ sudo' = IF ok THEN "ok" ELSE "no"
       /\ IF sudo = "on" THEN TurnsOn(ok)
          ELSE word' = IF ok THEN "ours" ELSE word
  /\ UNCHANGED <<ruleFile, marker, loose, orphan, up, facts, reading, decided, at, held,
                 dog, strays, stage, owes, ends>>

Daemon == <<up, facts, reading, decided, doing, stage, ends>>

OrphanRuns ==
  /\ orphan # "none"
  /\ orphan' = "none"
  /\ \E ok \in BOOLEAN :
       /\ Accepts(ok)
       /\ IF orphan = "on" THEN TurnsOn(ok)
          ELSE word' = IF ok THEN "orphan" ELSE word
  /\ UNCHANGED <<ruleFile, marker, loose, owes, Daemon>>

\* The end of the pipe: one try, and the watchdog is gone.
DogBites ==
  /\ loose > 0
  /\ loose' = loose - 1
  /\ \E ok \in BOOLEAN : Accepts(ok) /\ TurnsOn(ok)
  /\ UNCHANGED <<ruleFile, marker, orphan, owes, Daemon>>

\* stop, when a shutdown begins: sleep goes on first, and nothing is decided any more.
Stop ==
  /\ up /\ ~ stopped
  /\ ends < MaxEnds /\ ends' = ends + 1
  /\ stopped' = TRUE /\ watch' = FALSE
  /\ IF held THEN ReleaseNow ELSE UNCHANGED <<machine, held, dog, strays, owes>>
  /\ UNCHANGED <<up, started, rule, refused, removing, lid, work, power, decided, at, sudo,
                 stage>>

\* What is in memory goes; the switch and what runs outside stay.
Ends ==
  /\ up' = FALSE /\ started' = FALSE /\ stopped' = FALSE
  /\ rule' = FALSE /\ refused' = FALSE /\ removing' = FALSE
  /\ work' = FALSE /\ watch' = FALSE /\ power' = FALSE
  /\ target' = FALSE /\ pending' = FALSE
  /\ at' = "idle" /\ sudo' = "none"
  /\ held' = FALSE /\ dog' = FALSE /\ strays' = FALSE
  /\ stage' = [c \in Calls |-> "none"]
  /\ UNCHANGED <<ruleFile, lid>>

\* A crash at any step, or the end of a shutdown, which its deadline may cut anywhere.
Exit ==
  LET dogs == loose + (IF dog THEN 1 ELSE 0) + (IF strays THEN 1 ELSE 0) IN
  /\ up
  /\ dogs <= MaxLoose /\ loose' = dogs
  /\ sudo \in {"off", "on"} => orphan = "none"
  /\ orphan' = IF sudo \in {"off", "on"} THEN sudo ELSE orphan
  /\ Ends
  /\ UNCHANGED <<word, marker, owes>>

Crash == ends < MaxEnds /\ ~ stopped /\ ends' = ends + 1 /\ Exit
Leaves == stopped /\ UNCHANGED ends /\ Exit

PowerCut ==
  /\ ends < MaxEnds /\ ends' = ends + 1
  /\ Ends
  /\ loose' = 0 /\ orphan' = "none"
  /\ word' = IF word = "ours" THEN "cut" ELSE word
  /\ UNCHANGED <<marker, owes>>

OthersSwitch ==
  /\ CanMeddle
  /\ word' = IF word = "nobody" THEN "other" ELSE "nobody"
  /\ UNCHANGED <<ruleFile, marker, loose, orphan, owes, Daemon>>

RuleChanges ==
  /\ CanMeddle
  /\ ruleFile' = ~ ruleFile
  /\ UNCHANGED <<word, marker, loose, orphan, owes, Daemon>>

-----------------------------------------------------------------------------
HoldStep ==
  \/ MarkerFails \/ MarkerWritten \/ DogStarts \/ DogFails \/ DogForgotten
  \/ HoldDone \/ HoldIsRefused \/ Refused
ReleaseStep == ReleaseDone \/ Cleared \/ ReleaseFails
StartStep == RecoverReads \/ RecoverAsked \/ RecoverForgets \/ Starts
CallStep(c) ==
  \/ AsksInstall(c) \/ AsksRemoval(c) \/ LetGo(c) \/ ScriptRuns(c)
  \/ DialogCancelled(c) \/ DialogHeard(c) \/ CallEnds(c)

Next ==
  \/ WorkChanges \/ LidChanges \/ PowerChanges
  \/ Begins \/ HoldStep \/ ReleaseStep \/ Boots \/ StartStep
  \/ RefreshesRule \/ \E c \in Calls : CallStep(c)
  \/ SudoRuns \/ OrphanRuns \/ DogBites
  \/ Stop \/ Crash \/ Leaves \/ PowerCut \/ OthersSwitch \/ RuleChanges

Spec == Init /\ [][Next]_vars

\* What the daemon awaits comes, its processes run, and it is started again.
Fairness ==
  /\ WF_vars(Begins) /\ WF_vars(HoldStep) /\ WF_vars(ReleaseStep)
  /\ WF_vars(Boots) /\ WF_vars(StartStep) /\ WF_vars(Leaves)
  /\ WF_vars(SudoRuns) /\ WF_vars(OrphanRuns) /\ WF_vars(DogBites)

FairSpec == Spec /\ Fairness

-----------------------------------------------------------------------------
(* Correctness.  `word` tells apart on whose word sleep is off: "ours", or after a *)
(* power cut "cut"; "kept" once a try to turn it on failed; "orphan" if a command  *)
(* that outlived its daemon turned it off.                                         *)

\* closed-lid.ts:448: sleep is never off on the daemon's word without its marker, by
\* which the next start knows (:224), nor without a watchdog, which turns it on again
\* when the daemon goes, or is about to (:145-149).  A power cut takes the watchdog.
OffIsGuarded ==
  /\ word \in {"ours", "cut"} => marker
  /\ word = "ours" => dog \/ loose > 0

\* closed-lid.ts:246-248, 257: once all that was decided is carried out, nothing is
\* held that is not wanted; so not while the dialog that removes the rule is up.
HeldIsWanted == started /\ at = "idle" /\ ~ pending /\ held => Wanted

\* closed-lid.ts:224: at rest the marker stands for a hold, or for a try to turn sleep
\* on that failed: one left behind would have the next start turn on what somebody
\* else turned off.
MarkerMeans == started /\ at = "idle" /\ ~ held /\ marker => owes

\* closed-lid.ts:246-248: with the switch off for good, sleep does not stay off on the
\* daemon's word, through shutdowns, crashes and power cuts: it goes on, or a try to
\* turn it on failed.
SleepReturns == <>[] ~ lid => <>[](word \notin {"ours", "cut"})

=============================================================================
