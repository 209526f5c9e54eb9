--------------------------- MODULE ClosedLidProofs ---------------------------
(***************************************************************************)
(* Proofs about ClosedLid, for any number of calls, daemons and watchdogs. *)
(***************************************************************************)
EXTENDS ClosedLid, TLAPS

\* A daemon that does not run holds nothing, and one that starts has decided nothing.
Runs ==
  /\ started <=> up /\ at \notin StartSteps
  /\ ~ up => at = "idle" /\ ~ dog /\ ~ stopped
  /\ pending => started
  /\ held => started

\* The steps of a hold and a release have their marker and their watchdog.
Steady ==
  /\ sudo = "off" => at = "disabling"
  /\ held => at = "idle" /\ ~ stopped
  /\ at \in {"disabling", "enabling"} => dog
  /\ at \in {"marked", "disabling", "unmarking", "refusing"} => marker

\* Where the daemon is while sleep is off on its word.
OffWhen ==
  word \in {"ours", "cut"} =>
    \/ ~ up \/ at = "recover"
    \/ at = "recovering" /\ sudo = "on"
    \/ /\ word = "ours"
       /\ held \/ (at = "disabling" /\ sudo = "ok") \/ (at = "enabling" /\ sudo = "on")

\* Where a marker without a hold is one that is owed.
MarkedWhen ==
  at \in {"ready", "marking"} \/ (at = "idle" /\ up /\ ~ held) => (marker => owes)

\* What was decided is wanted, and what is done without another change behind it
\* is what was decided.
Decided ==
  /\ started /\ ~ stopped /\ target => Wanted
  /\ at \in {"marking", "marked", "disabling"} /\ ~ pending => target
  /\ held /\ ~ pending => target

IInv == TypeOK /\ Runs /\ Steady /\ OffWhen /\ MarkedWhen /\ Decided /\ OffIsGuarded

\* The type invariant in two parts.
Flags ==
  /\ ruleFile \in BOOLEAN /\ marker \in BOOLEAN
  /\ up \in BOOLEAN /\ started \in BOOLEAN /\ stopped \in BOOLEAN
  /\ rule \in BOOLEAN /\ refused \in BOOLEAN /\ removing \in BOOLEAN
  /\ lid \in BOOLEAN /\ work \in BOOLEAN /\ watch \in BOOLEAN /\ power \in BOOLEAN
  /\ target \in BOOLEAN /\ pending \in BOOLEAN
  /\ held \in BOOLEAN /\ dog \in BOOLEAN /\ strays \in BOOLEAN
  /\ held => dog
  /\ owes \in BOOLEAN

Places ==
  /\ word \in {"nobody", "ours", "cut", "kept", "orphan", "other"}
  /\ loose \in 0 .. MaxLoose /\ orphan \in {"none", "off", "on"}
  /\ at \in {"idle"} \cup HoldSteps \cup ReleaseSteps \cup StartSteps
  /\ sudo \in {"none", "off", "on", "ok", "no"}
  /\ stage \in [Calls -> {"none", "installing", "letting", "removing", "ran",
                          "cancelled", "reads"}]
  /\ ends \in 0 .. MaxEnds

LEMMA TypeParts == (Flags /\ Places <=> TypeOK) /\ (Flags' /\ Places' <=> TypeOK')
BY DEF Flags, Places, TypeOK

LEMMA Bounds == MaxEnds \in Nat /\ MaxLoose \in Nat
BY BoundsAssumption

LEMMA InitInv == Init => IInv
<1> SUFFICES ASSUME Init PROVE IInv
  OBVIOUS
<1>1. Flags
  BY Zenon DEF Init, Flags
<1>2. Places
  BY Bounds DEF Init, Places
<1> QED
  BY <1>1, <1>2, TypeParts DEF Init, IInv, Runs, Steady, OffWhen, MarkedWhen, Decided,
     OffIsGuarded,
   StartSteps, HoldSteps, ReleaseSteps

LEMMA StepInv == IInv /\ [Next]_vars => IInv'
<1>1. ASSUME IInv, WorkChanges PROVE IInv'
  BY Bounds, <1>1 DEF IInv, TypeOK, Runs, Steady, OffWhen, MarkedWhen, Decided,
     OffIsGuarded, Wanted, Holds, WorkChanges, machine, facts, reading, decided, doing,
     Checks, Decides, FollowsPower, HoldSteps, ReleaseSteps, StartSteps
<1>2. ASSUME IInv, LidChanges PROVE IInv'
  BY Bounds, <1>2 DEF IInv, TypeOK, Runs, Steady, OffWhen, MarkedWhen, Decided,
     OffIsGuarded, Wanted, Holds, LidChanges, machine, facts, reading, decided, doing,
     Checks, Decides, FollowsPower, HoldSteps, ReleaseSteps, StartSteps
<1>3. ASSUME IInv, PowerChanges PROVE IInv'
  BY Bounds, <1>3 DEF IInv, TypeOK, Runs, Steady, OffWhen, MarkedWhen, Decided,
     OffIsGuarded, Wanted, Holds, PowerChanges, machine, facts, reading, decided, doing,
     Decides, HoldSteps, ReleaseSteps, StartSteps
<1>4. ASSUME IInv, Begins PROVE IInv'
  <2>1. held' \in BOOLEAN /\ pending' \in BOOLEAN
    BY <1>4, Zenon DEF IInv, TypeOK, Begins, machine, facts, reading, decided, doing,
       Does, Unsaid
  <2> QED
    BY Bounds, <1>4, <2>1 DEF IInv, TypeOK, Runs, Steady, OffWhen, MarkedWhen, Decided,
       OffIsGuarded, Wanted, Holds, Begins, machine, facts, reading, decided, doing,
       Does, Unsaid, HoldSteps, ReleaseSteps, StartSteps
<1>5. ASSUME IInv, MarkerFails PROVE IInv'
  <2>1. target' \in BOOLEAN
    BY <1>5, Zenon DEF IInv, TypeOK, MarkerFails, machine, facts, reading, decided,
       doing, Does, Unsaid, GivesUp
  <2> QED
    BY Bounds, <1>5, <2>1 DEF IInv, TypeOK, Runs, Steady, OffWhen, MarkedWhen, Decided,
       OffIsGuarded, Wanted, Holds, MarkerFails, machine, facts, reading, decided,
       doing, Does, Unsaid, GivesUp, HoldSteps, ReleaseSteps, StartSteps
<1>6. ASSUME IInv, MarkerWritten PROVE IInv'
  BY Bounds, <1>6 DEF IInv, TypeOK, Runs, Steady, OffWhen, MarkedWhen, Decided,
     OffIsGuarded, Wanted, Holds, MarkerWritten, decided, machine, facts, reading,
     doing, Does, Unsaid, HoldSteps, ReleaseSteps, StartSteps
<1>7. ASSUME IInv, DogStarts PROVE IInv'
  BY Bounds, <1>7 DEF IInv, TypeOK, Runs, Steady, OffWhen, MarkedWhen, Decided,
     OffIsGuarded, Wanted, Holds, DogStarts, machine, facts, reading, decided, doing,
     Does, Unsaid, HoldSteps, ReleaseSteps, StartSteps
<1>8. ASSUME IInv, DogFails PROVE IInv'
  BY Bounds, <1>8 DEF IInv, TypeOK, Runs, Steady, OffWhen, MarkedWhen, Decided,
     OffIsGuarded, Wanted, Holds, DogFails, machine, facts, reading, decided, doing,
     Does, Unsaid, HoldSteps, ReleaseSteps, StartSteps
<1>9. ASSUME IInv, DogForgotten PROVE IInv'
  <2>1. marker' \in BOOLEAN /\ owes' \in BOOLEAN /\ target' \in BOOLEAN
    BY <1>9, Zenon DEF IInv, TypeOK, DogForgotten, Unmark, Does, facts, machine,
       reading, decided, doing, Unsaid, GivesUp
  <2> QED
    BY Bounds, <1>9, <2>1 DEF IInv, TypeOK, Runs, Steady, OffWhen, MarkedWhen, Decided,
       OffIsGuarded, Wanted, Holds, DogForgotten, Unmark, Does, facts, machine, reading,
       decided, doing, Unsaid, GivesUp, HoldSteps, ReleaseSteps, StartSteps
<1>10. ASSUME IInv, HoldDone PROVE IInv'
  <2>1. /\  held' \in BOOLEAN /\ dog' \in BOOLEAN /\ strays' \in BOOLEAN
        /\ marker' \in BOOLEAN /\ owes' \in BOOLEAN
    BY <1>10, Zenon DEF IInv, TypeOK, HoldDone, machine, facts, reading, decided, doing,
       ReleaseNow, TurnsOn, Accepts, Does, Unsaid
  <2>2. CASE ~ stopped
    <3>1. /\ at = "disabling" /\ sudo = "ok" /\ at' = "idle" /\ sudo' = "none" /\ held' = TRUE
          /\ UNCHANGED <<machine, dog, strays, owes, decided, up, facts, reading, stage, ends>>
      BY <1>10, <2>2 DEF HoldDone, Does, Unsaid
    <3> QED
      BY Bounds, <1>10, <2>1, <2>2, <3>1 DEF IInv, TypeOK, Runs, Steady, OffWhen,
         MarkedWhen, Decided, OffIsGuarded, Wanted, Holds, machine, facts, reading,
         decided, HoldSteps, ReleaseSteps, StartSteps
  <2>3. CASE stopped
    BY Bounds, <1>10, <2>1, <2>3 DEF IInv, TypeOK, Runs, Steady, OffWhen, MarkedWhen,
       Decided, OffIsGuarded, Wanted, Holds, HoldDone, machine, facts, reading, decided,
       doing, ReleaseNow, TurnsOn, Accepts, Does, Unsaid, HoldSteps, ReleaseSteps,
       StartSteps
  <2> QED
    BY <2>2, <2>3 DEF IInv, TypeOK
<1>11. ASSUME IInv, HoldIsRefused PROVE IInv'
  <2>1. dog' \in BOOLEAN
    BY <1>11, Zenon DEF IInv, TypeOK, HoldIsRefused, machine, facts, reading, decided,
       doing, Does, Unsaid
  <2> QED
    BY Bounds, <1>11, <2>1 DEF IInv, TypeOK, Runs, Steady, OffWhen, MarkedWhen, Decided,
       OffIsGuarded, Wanted, Holds, HoldIsRefused, machine, facts, reading, decided,
       doing, Does, Unsaid, HoldSteps, ReleaseSteps, StartSteps
<1>12. ASSUME IInv, Refused PROVE IInv'
  <2>1. /\  marker' \in BOOLEAN /\ owes' \in BOOLEAN /\ target' \in BOOLEAN
        /\ refused' \in BOOLEAN /\ lid' \in BOOLEAN
    BY <1>12, Zenon DEF IInv, TypeOK, Refused, reading, machine, facts, decided, doing,
       Unmark, Does, Unsaid, GivesUp
  <2> QED
    BY Bounds, <1>12, <2>1 DEF IInv, TypeOK, Runs, Steady, OffWhen, MarkedWhen, Decided,
       OffIsGuarded, Wanted, Holds, Refused, reading, machine, facts, decided, doing,
       Unmark, Does, Unsaid, GivesUp, HoldSteps, ReleaseSteps, StartSteps
<1>13. ASSUME IInv, ReleaseDone PROVE IInv'
  <2>1. dog' \in BOOLEAN
    BY <1>13, Zenon DEF IInv, TypeOK, ReleaseDone, machine, facts, reading, decided,
       doing, Does, Unsaid
  <2> QED
    BY Bounds, <1>13, <2>1 DEF IInv, TypeOK, Runs, Steady, OffWhen, MarkedWhen, Decided,
       OffIsGuarded, Wanted, Holds, ReleaseDone, machine, facts, reading, decided,
       doing, Does, Unsaid, HoldSteps, ReleaseSteps, StartSteps
<1>14. ASSUME IInv, Cleared PROVE IInv'
  <2>1. marker' \in BOOLEAN /\ owes' \in BOOLEAN
    BY <1>14, Zenon DEF IInv, TypeOK, Cleared, decided, machine, facts, reading, doing,
       Unmark, Does, Unsaid
  <2> QED
    BY Bounds, <1>14, <2>1 DEF IInv, TypeOK, Runs, Steady, OffWhen, MarkedWhen, Decided,
       OffIsGuarded, Wanted, Holds, Cleared, decided, machine, facts, reading, doing,
       Unmark, Does, Unsaid, HoldSteps, ReleaseSteps, StartSteps
<1>15. ASSUME IInv, ReleaseFails PROVE IInv'
  <2>1. dog' \in BOOLEAN /\ strays' \in BOOLEAN /\ owes' \in BOOLEAN
    BY <1>15, Zenon DEF IInv, TypeOK, ReleaseFails, machine, facts, reading, decided,
       doing, Does, Unsaid
  <2> QED
    BY Bounds, <1>15, <2>1 DEF IInv, TypeOK, Runs, Steady, OffWhen, MarkedWhen, Decided,
       OffIsGuarded, Wanted, Holds, ReleaseFails, machine, facts, reading, decided,
       doing, Does, Unsaid, HoldSteps, ReleaseSteps, StartSteps
<1>16. ASSUME IInv, Boots PROVE IInv'
  BY Bounds, <1>16 DEF IInv, TypeOK, Runs, Steady, OffWhen, MarkedWhen, Decided,
     OffIsGuarded, Wanted, Holds, Boots, machine, facts, reading, decided, doing, Does,
     Unsaid, HoldSteps, ReleaseSteps, StartSteps
<1>17. ASSUME IInv, RecoverReads PROVE IInv'
  BY Bounds, <1>17 DEF IInv, TypeOK, Runs, Steady, OffWhen, MarkedWhen, Decided,
     OffIsGuarded, Wanted, Holds, RecoverReads, machine, facts, reading, decided, doing,
     Does, Unsaid, HoldSteps, ReleaseSteps, StartSteps
<1>18. ASSUME IInv, RecoverAsked PROVE IInv'
  BY Bounds, <1>18 DEF IInv, TypeOK, Runs, Steady, OffWhen, MarkedWhen, Decided,
     OffIsGuarded, Wanted, Holds, RecoverAsked, machine, facts, reading, decided, doing,
     Does, Unsaid, HoldSteps, ReleaseSteps, StartSteps
<1>19. ASSUME IInv, RecoverForgets PROVE IInv'
  <2>1. marker' \in BOOLEAN /\ owes' \in BOOLEAN
    BY <1>19, Zenon DEF IInv, TypeOK, RecoverForgets, decided, machine, facts, reading,
       doing, Unmark, Does, Unsaid
  <2> QED
    BY Bounds, <1>19, <2>1 DEF IInv, TypeOK, Runs, Steady, OffWhen, MarkedWhen, Decided,
       OffIsGuarded, Wanted, Holds, RecoverForgets, decided, machine, facts, reading,
       doing, Unmark, Does, Unsaid, HoldSteps, ReleaseSteps, StartSteps
<1>20. ASSUME IInv, Starts PROVE IInv'
  BY Bounds, <1>20 DEF IInv, TypeOK, Runs, Steady, OffWhen, MarkedWhen, Decided,
     OffIsGuarded, Wanted, Holds, Starts, machine, facts, reading, decided, doing,
     Checks, Decides, FollowsPower, Does, Unsaid, HoldSteps, ReleaseSteps, StartSteps
<1>21. ASSUME IInv, RefreshesRule PROVE IInv'
  BY Bounds, <1>21 DEF IInv, TypeOK, Runs, Steady, OffWhen, MarkedWhen, Decided,
     OffIsGuarded, Wanted, Holds, RefreshesRule, machine, facts, reading, decided,
     doing, ReadsRule, Checks, Decides, FollowsPower, HoldSteps, ReleaseSteps,
     StartSteps
<1>22. ASSUME IInv, NEW c \in Calls, AsksInstall(c) PROVE IInv'
  BY Bounds, <1>22 DEF IInv, TypeOK, Runs, Steady, OffWhen, MarkedWhen, Decided,
     OffIsGuarded, Wanted, Holds, AsksInstall, machine, facts, reading, decided, doing,
     Reaches, HoldSteps, ReleaseSteps, StartSteps
<1>23. ASSUME IInv, NEW c \in Calls, AsksRemoval(c) PROVE IInv'
  BY Bounds, <1>23 DEF IInv, TypeOK, Runs, Steady, OffWhen, MarkedWhen, Decided,
     OffIsGuarded, Wanted, Holds, AsksRemoval, machine, facts, reading, decided, doing,
     Checks, Decides, FollowsPower, Reaches, HoldSteps, ReleaseSteps, StartSteps
<1>24. ASSUME IInv, NEW c \in Calls, LetGo(c) PROVE IInv'
  BY Bounds, <1>24 DEF IInv, TypeOK, Runs, Steady, OffWhen, MarkedWhen, Decided,
     OffIsGuarded, Wanted, Holds, LetGo, machine, facts, reading, decided, doing,
     StartSteps, Reaches, HoldSteps, ReleaseSteps
<1>25. ASSUME IInv, NEW c \in Calls, ScriptRuns(c) PROVE IInv'
  BY Bounds, <1>25 DEF IInv, TypeOK, Runs, Steady, OffWhen, MarkedWhen, Decided,
     OffIsGuarded, Wanted, Holds, ScriptRuns, facts, machine, reading, decided, doing,
     Reaches, HoldSteps, ReleaseSteps, StartSteps
<1>26. ASSUME IInv, NEW c \in Calls, DialogCancelled(c) PROVE IInv'
  BY Bounds, <1>26 DEF IInv, TypeOK, Runs, Steady, OffWhen, MarkedWhen, Decided,
     OffIsGuarded, Wanted, Holds, DialogCancelled, machine, facts, reading, decided,
     doing, Reaches, HoldSteps, ReleaseSteps, StartSteps
<1>27. ASSUME IInv, NEW c \in Calls, DialogHeard(c) PROVE IInv'
  <2>1. removing' \in BOOLEAN /\ refused' \in BOOLEAN
    BY <1>27, Zenon DEF IInv, TypeOK, DialogHeard, machine, facts, reading, decided,
       doing, Reaches
  <2> QED
    BY Bounds, <1>27, <2>1 DEF IInv, TypeOK, Runs, Steady, OffWhen, MarkedWhen, Decided,
       OffIsGuarded, Wanted, Holds, DialogHeard, machine, facts, reading, decided,
       doing, Reaches, HoldSteps, ReleaseSteps, StartSteps
<1>28. ASSUME IInv, NEW c \in Calls, CallEnds(c) PROVE IInv'
  BY Bounds, <1>28 DEF IInv, TypeOK, Runs, Steady, OffWhen, MarkedWhen, Decided,
     OffIsGuarded, Wanted, Holds, CallEnds, machine, facts, reading, decided, doing,
     ReadsRule, Checks, Decides, FollowsPower, Reaches, HoldSteps, ReleaseSteps,
     StartSteps
<1>29. ASSUME IInv, SudoRuns PROVE IInv'
  BY Bounds, <1>29 DEF IInv, TypeOK, Runs, Steady, OffWhen, MarkedWhen, Decided,
     OffIsGuarded, Wanted, Holds, SudoRuns, facts, machine, reading, decided, doing,
     TurnsOn, Accepts, HoldSteps, ReleaseSteps, StartSteps
<1>30. ASSUME IInv, OrphanRuns PROVE IInv'
  BY Bounds, <1>30 DEF IInv, TypeOK, Runs, Steady, OffWhen, MarkedWhen, Decided,
     OffIsGuarded, Wanted, Holds, OrphanRuns, TurnsOn, Accepts, Daemon, facts, machine,
     reading, decided, doing, HoldSteps, ReleaseSteps, StartSteps
<1>31. ASSUME IInv, DogBites PROVE IInv'
  BY Bounds, <1>31 DEF IInv, TypeOK, Runs, Steady, OffWhen, MarkedWhen, Decided,
     OffIsGuarded, Wanted, Holds, DogBites, TurnsOn, Accepts, Daemon, facts, machine,
     reading, decided, doing, HoldSteps, ReleaseSteps, StartSteps
<1>32. ASSUME IInv, Stop PROVE IInv'
  <2>1. /\  stopped' \in BOOLEAN /\ watch' \in BOOLEAN /\ held' \in BOOLEAN
        /\ dog' \in BOOLEAN /\ strays' \in BOOLEAN /\ marker' \in BOOLEAN
        /\ owes' \in BOOLEAN
    BY <1>32, Zenon DEF IInv, TypeOK, Stop, machine, facts, reading, decided, doing,
       ReleaseNow, TurnsOn, Accepts
  <2> QED
    BY Bounds, <1>32, <2>1 DEF IInv, TypeOK, Runs, Steady, OffWhen, MarkedWhen, Decided,
       OffIsGuarded, Wanted, Holds, Stop, machine, facts, reading, decided, doing,
       ReleaseNow, TurnsOn, Accepts, HoldSteps, ReleaseSteps, StartSteps
<1>33. ASSUME IInv, Crash PROVE IInv'
  <2>1. /\  up' \in BOOLEAN /\ started' \in BOOLEAN /\ stopped' \in BOOLEAN
        /\ rule' \in BOOLEAN /\ refused' \in BOOLEAN /\ removing' \in BOOLEAN
        /\ work' \in BOOLEAN /\ watch' \in BOOLEAN /\ power' \in BOOLEAN
        /\ target' \in BOOLEAN /\ pending' \in BOOLEAN /\ held' \in BOOLEAN
        /\ dog' \in BOOLEAN /\ strays' \in BOOLEAN
    BY <1>33, Zenon DEF IInv, TypeOK, Crash, Exit, Ends
  <2> QED
    BY Bounds, <1>33, <2>1 DEF IInv, TypeOK, Runs, Steady, OffWhen, MarkedWhen, Decided,
       OffIsGuarded, Wanted, Holds, Crash, Exit, Ends, HoldSteps, ReleaseSteps,
       StartSteps
<1>34. ASSUME IInv, Leaves PROVE IInv'
  <2>1. /\  up' \in BOOLEAN /\ started' \in BOOLEAN /\ stopped' \in BOOLEAN
        /\ rule' \in BOOLEAN /\ refused' \in BOOLEAN /\ removing' \in BOOLEAN
        /\ work' \in BOOLEAN /\ watch' \in BOOLEAN /\ power' \in BOOLEAN
        /\ target' \in BOOLEAN /\ pending' \in BOOLEAN /\ held' \in BOOLEAN
        /\ dog' \in BOOLEAN /\ strays' \in BOOLEAN
    BY <1>34, Zenon DEF IInv, TypeOK, Leaves, Exit, Ends
  <2> QED
    BY Bounds, <1>34, <2>1 DEF IInv, TypeOK, Runs, Steady, OffWhen, MarkedWhen, Decided,
       OffIsGuarded, Wanted, Holds, Leaves, Exit, Ends, HoldSteps, ReleaseSteps,
       StartSteps
<1>35. ASSUME IInv, PowerCut PROVE IInv'
  <2>1. /\  up' \in BOOLEAN /\ started' \in BOOLEAN /\ stopped' \in BOOLEAN
        /\ rule' \in BOOLEAN /\ refused' \in BOOLEAN /\ removing' \in BOOLEAN
        /\ work' \in BOOLEAN /\ watch' \in BOOLEAN /\ power' \in BOOLEAN
        /\ target' \in BOOLEAN /\ pending' \in BOOLEAN /\ held' \in BOOLEAN
        /\ dog' \in BOOLEAN /\ strays' \in BOOLEAN
    BY <1>35, Zenon DEF IInv, TypeOK, PowerCut, Ends
  <2> QED
    BY Bounds, <1>35, <2>1 DEF IInv, TypeOK, Runs, Steady, OffWhen, MarkedWhen, Decided,
       OffIsGuarded, Wanted, Holds, PowerCut, Ends, HoldSteps, ReleaseSteps, StartSteps
<1>36. ASSUME IInv, OthersSwitch PROVE IInv'
  BY Bounds, <1>36 DEF IInv, TypeOK, Runs, Steady, OffWhen, MarkedWhen, Decided,
     OffIsGuarded, Wanted, Holds, OthersSwitch, Daemon, facts, machine, reading,
     decided, doing, HoldSteps, ReleaseSteps, StartSteps
<1>37. ASSUME IInv, RuleChanges PROVE IInv'
  BY Bounds, <1>37 DEF IInv, TypeOK, Runs, Steady, OffWhen, MarkedWhen, Decided,
     OffIsGuarded, Wanted, Holds, RuleChanges, Daemon, facts, machine, reading, decided,
     doing, HoldSteps, ReleaseSteps, StartSteps
<1>u. ASSUME IInv, UNCHANGED vars PROVE IInv'
  BY <1>u DEF vars, machine, facts, reading, decided, doing, IInv, TypeOK, Runs, Steady,
     OffWhen, MarkedWhen, Decided, OffIsGuarded, Wanted, Holds
<1>q. QED
  BY <1>1, <1>2, <1>3, <1>4, <1>5, <1>6, <1>7, <1>8, <1>9, <1>10, <1>11, <1>12, <1>13,
     <1>14, <1>15, <1>16, <1>17, <1>18, <1>19, <1>20, <1>21, <1>22, <1>23, <1>24, <1>25,
     <1>26, <1>27, <1>28, <1>29, <1>30, <1>31, <1>32, <1>33, <1>34, <1>35, <1>36, <1>37,
     <1>u DEF Next, HoldStep, ReleaseStep, StartStep, CallStep

-----------------------------------------------------------------------------
LEMMA InvHolds == Spec => []IInv
BY InitInv, StepInv, PTL DEF Spec

\* Every variable keeps its type, and a daemon that holds has its watchdog.
THEOREM TypeCorrect == Spec => []TypeOK
<1>1. IInv => TypeOK
  BY DEF IInv
<1> QED
  BY <1>1, InvHolds, PTL

\* Whatever goes down when, sleep is off on the daemon's word only beside the marker
\* and, but for a power cut, a watchdog.  The steps between a command of sudo and its
\* answer are what OffWhen and Steady are for.
THEOREM StaysGuarded == Spec => []OffIsGuarded
<1>1. IInv => OffIsGuarded
  BY DEF IInv
<1> QED
  BY <1>1, InvHolds, PTL

\* At rest nothing is held that the switch, keep awake, the rule, the power and a
\* removal do not all allow: what was carried out last is what was decided last.
THEOREM HoldsOnlyWanted == Spec => []HeldIsWanted
<1>1. IInv => HeldIsWanted
  BY DEF IInv, Steady, Decided, HeldIsWanted
<1> QED
  BY <1>1, InvHolds, PTL

\* At rest a marker without a hold stands for a try to turn sleep on that failed.
THEOREM MarkerIsMeant == Spec => []MarkerMeans
<1>1. IInv => MarkerMeans
  BY DEF IInv, Runs, MarkedWhen, MarkerMeans
<1> QED
  BY <1>1, InvHolds, PTL

=============================================================================
