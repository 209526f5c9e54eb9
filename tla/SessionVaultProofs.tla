------------------------- MODULE SessionVaultProofs -------------------------
(***************************************************************************)
(* What SessionVault keeps to for any vaults, any number of calls and any  *)
(* losses: the types, that a session signed out of stays out, that the     *)
(* kept token can always be refreshed from, and that no token is spent     *)
(* twice without a cause.  A vault that is alone also answers for no       *)
(* session signed out of, agrees with its store when it is quiet, never    *)
(* takes the store back, clears it only for a cause, and when it signs out *)
(* ends the session with what a refresh brings or the kept token buys.     *)
(***************************************************************************)
EXTENDS SessionVault, SequenceTheorems, TLAPS

-----------------------------------------------------------------------------
(* The queue before the store. *)

\* A task put last, and one taken first.
Grown(q, r, e) ==
  /\ \A i \in DOMAIN r : \/ i \in DOMAIN q /\ r[i] = q[i]
                         \/ i = Len(q) + 1 /\ r[i] = e
  /\ \A i \in DOMAIN q : i \in DOMAIN r /\ r[i] = q[i]
  /\ Len(q) + 1 \in DOMAIN r /\ r[Len(q) + 1] = e
  /\ DOMAIN q = 1 .. Len(q) /\ Len(q) \in Nat
Shifted(q, r) ==
  /\ \A i \in DOMAIN r : i \in Nat /\ i > 0 /\ i + 1 \in DOMAIN q /\ r[i] = q[i + 1]
  /\ \A i \in DOMAIN q : i # 1 => i \in Nat /\ i > 1 /\ i - 1 \in DOMAIN r /\ r[i - 1] = q[i]
  /\ 1 \in DOMAIN q

LEMMA Appended ==
  ASSUME NEW S, NEW q \in Seq(S), NEW e \in S
  PROVE  Append(q, e) \in Seq(S) /\ Grown(q, Append(q, e), e)
<1>1. /\ DOMAIN q = 1 .. Len(q) /\ Len(q) \in Nat
      /\ DOMAIN Append(q, e) = 1 .. Len(q) + 1
  BY AppendProperties, LenProperties
<1>2. /\ \A i \in 1 .. Len(q) : Append(q, e)[i] = q[i]
      /\ Append(q, e)[Len(q) + 1] = e /\ Append(q, e) \in Seq(S)
  BY AppendProperties
<1> QED
  BY <1>1, <1>2 DEF Grown

LEMMA TakenOff ==
  ASSUME NEW S, NEW q \in Seq(S), q # <<>>
  PROVE  /\ Tail(q) \in Seq(S) /\ Head(q) \in S /\ Head(q) = q[1]
         /\ Shifted(q, Tail(q))
<1>1. /\ Len(q) \in Nat /\ Len(q) > 0 /\ DOMAIN q = 1 .. Len(q)
      /\ Tail(q) \in Seq(S) /\ Head(q) \in S /\ Head(q) = q[1]
      /\ Len(Tail(q)) = Len(q) - 1 /\ DOMAIN Tail(q) = 1 .. Len(Tail(q))
      /\ \A i \in 1 .. Len(q) - 1 : Tail(q)[i] = q[i + 1]
  OBVIOUS
<1> QED
  BY <1>1 DEF Shifted

LEMMA Replaced ==
  ASSUME NEW S, NEW q \in Seq(S), q # <<>>, NEW e \in S
  PROVE  /\ [q EXCEPT ![1] = e] \in Seq(S) /\ DOMAIN [q EXCEPT ![1] = e] = DOMAIN q
         /\ [q EXCEPT ![1] = e][1] = e /\ 1 \in DOMAIN q
         /\ \A i \in DOMAIN q : i # 1 => [q EXCEPT ![1] = e][i] = q[i]
OBVIOUS

-----------------------------------------------------------------------------
(* Types, and what a task or a call under way says of its vault. *)

SignIns == [at : {"none", "asked", "keeping", "ending"}, signOuts : Nat]
Refreshes == [at : {"none", "waiting", "reading", "read", "asked", "writing", "done", "threw"},
              epoch : Nat, token : Maybe]
SignOuts == [at : {"none", "waiting", "clearing", "cleared", "joining", "spending", "ending"},
             known : Maybe, joins : BOOLEAN, view : Maybe, stored : Maybe,
             meant : SUBSET Sessions]
Calls == [at : {"none", "sent", "read", "answered", "refused", "lost"},
          what : {"none", "exchange", "refresh", "end"}, token : Maybe]
Rows == [at : Nat, is : {"none", "open", "ended", "reused"}, fresh : BOOLEAN,
         live : BOOLEAN, past : Nat]

KeptTyped == store \in Maybe /\ hasKey \in BOOLEAN
KnownTyped ==
  /\ current \in [Vaults -> Maybe] /\ epoch \in [Vaults -> Nat]
  /\ signOuts \in [Vaults -> Nat]
TailTyped == tail \in [Vaults -> Seq(Tasks)]
OpsTyped ==
  /\ signIn \in [Vaults -> SignIns] /\ refreshing \in [Vaults -> Refreshes]
  /\ signOut \in [Vaults -> SignOuts]
CallsTyped == calls \in [Slots -> Calls]
RowsTyped == rows \in [Sessions -> Rows]
CountTyped ==
  /\ lock \in [Turns -> Nat] /\ begun \in [DOMAIN Bound -> Nat]
  /\ \A what \in DOMAIN Bound : begun[what] <= Bound[what]
GhostsTyped ==
  /\ given \in [Vaults -> {0} \cup Sessions]
  /\ leaving \subseteq Sessions /\ signedOut \subseteq Sessions

\* A call: what its stage says of what it asked for and of its token.
CallInv(c) ==
  /\ c.what = "exchange" => c.at \in {"sent", "answered", "lost"}
  /\ c.at = "answered" \/ c.what \in {"refresh", "end"} => c.token \in Tokens
  /\ c.at = "read" => c.what = "refresh"

\* A refresh asks for the session it read, and keeps nothing before it read.
RefreshInv(v) ==
  /\ refreshing[v].at = "asked" =>
       /\ Answer(v, "refresh").what = "refresh"
       /\ Answer(v, "refresh").token.of = refreshing[v].token.of
  /\ refreshing[v].at \in {"none", "waiting", "reading"} => refreshing[v].token = NoToken
  /\ refreshing[v].epoch <= epoch[v]
  /\ ~ HasLock => refreshing[v].at # "waiting" /\ signOut[v].at # "waiting"

\* Who waits for a task is at the stage of that task.
TaskAt(t, refreshes, signsOut) ==
  /\ t.do # "write" \/ t.who \in {"nobody", "signOut"} => t.what = NoToken
  /\ t.who = "signIn" => t.do = "write" /\ t.what \in Tokens
  /\ t.who = "refresh" => refreshes = (IF t.do = "read" THEN "reading" ELSE "writing")
  /\ t.do = "write" /\ t.who = "signOut" => signsOut = "clearing"
TaskInv(v, t) == TaskAt(t, refreshing[v].at, signOut[v].at)

TailInv(v) ==
  /\ \A i \in DOMAIN tail[v] : TaskInv(v, tail[v][i])
  /\ \A i, j \in DOMAIN tail[v] :
       tail[v][i].who = "refresh" /\ tail[v][j].who = "refresh" => i = j
  /\ \A i, j \in DOMAIN tail[v] :
       tail[v][i] = Write("signOut", NoToken) /\ tail[v][j] = Write("signOut", NoToken) => i = j

TypeInv ==
  /\ KeptTyped /\ KnownTyped /\ TailTyped /\ OpsTyped /\ CallsTyped /\ RowsTyped
  /\ CountTyped /\ GhostsTyped
  /\ \A o \in Slots : CallInv(calls[o])
  /\ \A v \in Vaults : RefreshInv(v) /\ TailInv(v)

LEMMA TypeInvTypes == TypeInv => TypeOK
<1> SUFFICES ASSUME TypeInv PROVE TypeOK
  OBVIOUS
<1>1. \A what \in DOMAIN Bound : Bound[what] \in Nat
  BY BoundsAssumption DEF Bound
<1>2. \A what \in DOMAIN Bound : begun[what] \in 0 .. Bound[what]
  BY <1>1 DEF TypeInv, CountTyped
<1> QED
  BY <1>2 DEF TypeInv, TypeOK, KeptTyped, KnownTyped, TailTyped, OpsTyped, CallsTyped, RowsTyped,
     CountTyped, GhostsTyped, SignIns, Refreshes, SignOuts, Calls, Rows

LEMMA NoneTyped ==
  /\ NoToken \in Maybe /\ NoSignIn \in SignIns /\ NoRefresh \in Refreshes
  /\ NoSignOut \in SignOuts /\ NoCall \in Calls /\ NoRow \in Rows /\ CallInv(NoCall)
  /\ \A v \in Vaults, kind \in Kinds : <<v, kind>> \in Slots
  /\ \A v \in Vaults, kind \in {"refresh", "signOut"} : <<v, kind>> \in Turns
BY DEF NoToken, Maybe, NoSignIn, SignIns, NoRefresh, Refreshes, NoSignOut, SignOuts, NoCall,
   Calls, NoRow, Rows, CallInv, Slots, Kinds, Turns

LEMMA TypeInvInit == Init => TypeInv
<1> SUFFICES ASSUME Init PROVE TypeInv
  OBVIOUS
<1>1. KeptTyped /\ KnownTyped /\ OpsTyped /\ CallsTyped /\ RowsTyped /\ GhostsTyped
  BY NoneTyped DEF Init, KeptTyped, KnownTyped, OpsTyped, CallsTyped, RowsTyped, GhostsTyped
<1>2. CountTyped
  BY BoundsAssumption DEF Init, CountTyped, Bound
<1>3. TailTyped /\ \A v \in Vaults : TailInv(v)
  BY DEF Init, TailTyped, TailInv
<1>4. ASSUME NEW v \in Vaults PROVE RefreshInv(v)
  <2>1. NoRefresh.at = "none" /\ NoRefresh.token = NoToken /\ NoRefresh.epoch = 0 /\ NoSignOut.at = "none"
    BY DEF NoRefresh, NoSignOut
  <2>2. refreshing[v] = NoRefresh /\ signOut[v] = NoSignOut /\ epoch[v] = 0
    BY DEF Init
  <2>3. /\ refreshing[v].at = "none" /\ refreshing[v].token = NoToken
        /\ refreshing[v].epoch <= epoch[v] /\ signOut[v].at = "none"
    BY <2>1, <2>2
  <2> QED
    BY <2>3 DEF RefreshInv
<1>5. \A o \in Slots : CallInv(calls[o])
  BY NoneTyped DEF Init
<1> QED
  BY <1>1, <1>2, <1>3, <1>4, <1>5 DEF TypeInv

\* What each step leaves alone.
LEMMA WhoTouches ==
  ASSUME [Next]_vars
  PROVE  /\ \/ \E v \in Vaults : StoreWrites(v)
            \/ KeyLost \/ UNCHANGED <<store, hasKey>>
         /\ \/ \E v \in Vaults : \/ SignInKept(v) \/ NothingKept(v) \/ CannotRotate(v)
                                 \/ Rotated(v) \/ BeginSignOut(v) \/ Close(v)
            \/ UNCHANGED memory
         /\ \/ \E v \in Vaults :
                 \/ SignInKept(v) \/ Restore(v) \/ BeginRefresh(v) \/ RefreshGetsLock(v)
                 \/ CannotRotate(v) \/ Rotated(v) \/ BeginSignOut(v) \/ SignOutGetsLock(v)
                 \/ StoreStep(v) \/ Close(v)
            \/ UNCHANGED tail
         /\ \/ \E v \in Vaults :
                 \/ BeginSignIn(v) \/ SignInKept(v) \/ SignInOvertaken(v) \/ SignInOver(v)
                 \/ StoreWrites(v) \/ Close(v)
            \/ UNCHANGED signIn
         /\ \/ \E v \in Vaults :
                 \/ BeginRefresh(v) \/ RefreshGetsLock(v) \/ NothingKept(v) \/ CannotRotate(v)
                 \/ AskRotation(v) \/ Rotated(v) \/ RotationLost(v) \/ FinishRefresh(v)
                 \/ StoreReads(v) \/ StoreWrites(v) \/ Close(v)
            \/ UNCHANGED refreshing
         /\ \/ \E v \in Vaults :
                 \/ BeginSignOut(v) \/ SignOutGetsLock(v) \/ Cleared(v) \/ SpendKept(v)
                 \/ NothingToSpend(v) \/ AskEnd(v) \/ SignOutAnswered(v) \/ FinishRefresh(v)
                 \/ StoreReads(v) \/ StoreWrites(v) \/ Close(v)
            \/ UNCHANGED signOut
         /\ \/ \E v \in Vaults :
                 \/ BeginSignIn(v) \/ SignInKept(v) \/ SignInOvertaken(v) \/ SignInOver(v)
                 \/ CannotRotate(v) \/ AskRotation(v) \/ Rotated(v) \/ RotationLost(v)
                 \/ SpendKept(v) \/ NothingToSpend(v) \/ AskEnd(v) \/ SignOutAnswered(v)
                 \/ Close(v)
            \/ \E o \in Slots : BookStep(o) \/ CallLost(o)
            \/ UNCHANGED calls
         /\ \/ \E o \in Slots : BookStep(o)
            \/ \E t \in Sessions : ClockMoves(t)
            \/ UNCHANGED rows
         /\ \/ \E v \in Vaults :
                 BeginRefresh(v) \/ FinishRefresh(v) \/ BeginSignOut(v) \/ Cleared(v) \/ Close(v)
            \/ UNCHANGED lock
         /\ \/ \E what \in DOMAIN Bound : Begins(what)
            \/ UNCHANGED begun
         /\ \/ \E v \in Vaults :
                 \/ BeginRefresh(v) \/ FinishRefresh(v) \/ BeginSignOut(v) \/ StoreWrites(v)
                 \/ NothingToSpend(v) \/ SignOutAnswered(v) \/ Close(v)
            \/ UNCHANGED ghosts
<1> USE DEF memory, ghosts, ops, around, AtBook
<1>1. DOMAIN Bound = {"signIn", "refresh", "signOut", "restore", "loss", "close"}
  BY DEF Bound
<1>2. ASSUME NEW v \in Vaults,
             \/ BeginSignIn(v) \/ Restore(v) \/ BeginRefresh(v) \/ BeginSignOut(v) \/ Close(v)
      PROVE  \E what \in DOMAIN Bound : Begins(what)
  BY <1>1, <1>2 DEF BeginSignIn, Restore, BeginRefresh, BeginSignOut, Close
<1>3. ASSUME NEW v \in Vaults, BeginSignIn(v)
      PROVE  UNCHANGED <<store, hasKey, memory, tail, refreshing, signOut, rows, lock, ghosts>>
  BY <1>3 DEF BeginSignIn
<1>4. ASSUME NEW v \in Vaults, Restore(v)
      PROVE  UNCHANGED <<store, hasKey, memory, ops, calls, rows, lock, ghosts>>
  BY <1>4 DEF Restore
<1>5. ASSUME NEW v \in Vaults, BeginRefresh(v)
      PROVE  UNCHANGED <<store, hasKey, memory, signIn, signOut, calls, rows>>
  BY <1>5 DEF BeginRefresh
<1>6. ASSUME NEW v \in Vaults, BeginSignOut(v)
      PROVE  UNCHANGED <<store, hasKey, signIn, refreshing, calls, rows>>
  BY <1>6 DEF BeginSignOut
<1>7. ASSUME NEW v \in Vaults, Close(v)
      PROVE  UNCHANGED <<store, hasKey, rows>>
  BY <1>7 DEF Close
<1>8. ASSUME NEW v \in Vaults, SignInKept(v) \/ SignInOvertaken(v) \/ SignInOver(v)
      PROVE  UNCHANGED <<store, hasKey, refreshing, signOut, rows, lock, begun, ghosts>>
  BY <1>8 DEF SignInKept, SignInOvertaken, SignInOver
<1>9. ASSUME NEW v \in Vaults, SignInOvertaken(v) \/ SignInOver(v) PROVE UNCHANGED <<memory, tail>>
  BY <1>9 DEF SignInOvertaken, SignInOver
<1>10. ASSUME NEW v \in Vaults,
              \/ RefreshGetsLock(v) \/ NothingKept(v) \/ CannotRotate(v) \/ AskRotation(v)
              \/ Rotated(v) \/ RotationLost(v)
       PROVE  UNCHANGED <<store, hasKey, signIn, signOut, rows, lock, begun, ghosts>>
  BY <1>10 DEF RefreshGetsLock, NothingKept, CannotRotate, Forget, AskRotation, Rotated, RotationLost
<1>11. ASSUME NEW v \in Vaults, RefreshGetsLock(v) \/ AskRotation(v) \/ RotationLost(v)
       PROVE  UNCHANGED memory
  BY <1>11 DEF RefreshGetsLock, AskRotation, RotationLost
<1>12. ASSUME NEW v \in Vaults, NothingKept(v) \/ AskRotation(v) \/ RotationLost(v)
       PROVE  UNCHANGED tail
  BY <1>12 DEF NothingKept, AskRotation, RotationLost
<1>13. ASSUME NEW v \in Vaults, RefreshGetsLock(v) \/ NothingKept(v)
       PROVE  UNCHANGED calls
  BY <1>13 DEF RefreshGetsLock, NothingKept
<1>14. ASSUME NEW v \in Vaults, FinishRefresh(v)
       PROVE  UNCHANGED <<store, hasKey, memory, tail, signIn, calls, rows, begun>>
  BY <1>14 DEF FinishRefresh
<1>15. ASSUME NEW v \in Vaults, SignOutGetsLock(v)
       PROVE  UNCHANGED <<store, hasKey, memory, signIn, refreshing, calls, rows, lock, begun, ghosts>>
  BY <1>15 DEF SignOutGetsLock
<1>16. ASSUME NEW v \in Vaults, Cleared(v)
       PROVE  UNCHANGED <<store, hasKey, memory, tail, signIn, refreshing, calls, rows, begun, ghosts>>
  BY <1>16 DEF Cleared
<1>17. ASSUME NEW v \in Vaults, SpendKept(v) \/ AskEnd(v)
       PROVE  UNCHANGED <<store, hasKey, memory, tail, signIn, refreshing, rows, lock, begun, ghosts>>
  BY <1>17 DEF SpendKept, AskEnd
<1>18. ASSUME NEW v \in Vaults, NothingToSpend(v) \/ SignOutAnswered(v)
       PROVE  UNCHANGED <<store, hasKey, memory, tail, signIn, refreshing, rows, lock, begun>>
  BY <1>18 DEF NothingToSpend, SignOutAnswered, SignOutOver
<1>19. ASSUME NEW v \in Vaults, StoreReads(v) \/ StoreRestores(v)
       PROVE  UNCHANGED <<store, hasKey, memory, signIn, calls, rows, lock, begun, ghosts>>
  BY <1>19 DEF StoreReads, StoreRestores
<1>20. ASSUME NEW v \in Vaults, StoreRestores(v)
       PROVE  UNCHANGED <<refreshing, signOut>>
  BY <1>20 DEF StoreRestores
<1>21. ASSUME NEW v \in Vaults, StoreWrites(v)
       PROVE  UNCHANGED <<memory, calls, rows, lock, begun>>
  BY <1>21 DEF StoreWrites
<1>22. ASSUME NEW o \in Slots, BookStep(o)
       PROVE  UNCHANGED <<store, hasKey, memory, tail, ops, lock, begun, ghosts>>
  BY <1>22 DEF BookStep, OpenSession, ReadRow, WriteRow, EndRow
<1>23. ASSUME NEW o \in Slots, CallLost(o)
       PROVE  /\ UNCHANGED <<store, hasKey, memory, tail, ops, lock, rows, ghosts>>
              /\ \E what \in DOMAIN Bound : Begins(what)
  BY <1>1, <1>23 DEF CallLost
<1>24. ASSUME NEW t \in Sessions, ClockMoves(t)
       PROVE  UNCHANGED <<store, hasKey, memory, tail, ops, lock, begun, ghosts, calls>>
  BY <1>24 DEF ClockMoves
<1>25. ASSUME KeyLost PROVE UNCHANGED <<memory, tail, ops, calls, rows, lock, begun, ghosts>>
  BY <1>25 DEF KeyLost
<1>26. CASE UNCHANGED vars
  BY <1>26 DEF vars
<1> QED
  BY <1>2, <1>3, <1>4, <1>5, <1>6, <1>7, <1>8, <1>9, <1>10, <1>11, <1>12, <1>13, <1>14, <1>15,
     <1>16, <1>17, <1>18, <1>19, <1>20, <1>21, <1>22, <1>23, <1>24, <1>25, <1>26
  DEF Next, VaultStep, StoreStep

\* The answer a vault waits for, and the task its queue is at.
LEMMA Answered ==
  ASSUME TypeInv, NEW v \in Vaults, NEW kind \in Kinds
  PROVE  /\ <<v, kind>> \in Slots /\ Answer(v, kind) \in Calls /\ CallInv(Answer(v, kind))
         /\ Answer(v, kind).at = "answered" =>
              Answer(v, kind).token \in Tokens /\ Answer(v, kind).token \in Maybe
<1>1. <<v, kind>> \in Slots
  BY NoneTyped
<1> QED
  BY <1>1 DEF TypeInv, CallsTyped, Answer, CallInv, Maybe

LEMMA AtTask ==
  ASSUME TypeInv, NEW v \in Vaults, tail[v] # <<>>
  PROVE  /\ Tail(tail[v]) \in Seq(Tasks) /\ Shifted(tail[v], Tail(tail[v]))
         /\ Task(v) \in Tasks /\ Task(v) = tail[v][1] /\ 1 \in DOMAIN tail[v]
         /\ TaskInv(v, Task(v))
<1>1. tail[v] \in Seq(Tasks) /\ TailInv(v)
  BY DEF TypeInv, TailTyped
<1>2. /\ Tail(tail[v]) \in Seq(Tasks) /\ Shifted(tail[v], Tail(tail[v]))
      /\ Task(v) \in Tasks /\ Task(v) = tail[v][1]
  BY <1>1, TakenOff DEF Task
<1> QED
  BY <1>1, <1>2 DEF Shifted, TailInv

LEMMA KeptTypedStep == TypeInv /\ [Next]_vars => KeptTyped'
<1> SUFFICES ASSUME TypeInv, [Next]_vars PROVE KeptTyped'
  OBVIOUS
<1>1. ASSUME NEW v \in Vaults, StoreWrites(v) PROVE KeptTyped'
  <2>1. Task(v) \in Tasks
    BY <1>1, AtTask DEF StoreWrites
  <2> QED
    BY <1>1, <2>1 DEF StoreWrites, Tasks, TypeInv, KeptTyped, around
<1>2. CASE KeyLost
  BY <1>2 DEF KeyLost, TypeInv, KeptTyped
<1>3. CASE UNCHANGED <<store, hasKey>>
  BY <1>3 DEF TypeInv, KeptTyped
<1> QED
  BY <1>1, <1>2, <1>3, WhoTouches

LEMMA KnownTypedStep == TypeInv /\ [Next]_vars => KnownTyped'
<1> SUFFICES ASSUME TypeInv, [Next]_vars PROVE KnownTyped'
  OBVIOUS
<1>0. KnownTyped
  BY DEF TypeInv
<1>1. ASSUME NEW v \in Vaults, SignInKept(v) PROVE KnownTyped'
  <2>1. Answer(v, "signIn").token \in Maybe
    BY <1>1, Answered DEF SignInKept, Kinds
  <2> QED
    BY <1>0, <1>1, <2>1 DEF SignInKept, KnownTyped
<1>2. ASSUME NEW v \in Vaults, NothingKept(v) \/ CannotRotate(v) PROVE KnownTyped'
  BY <1>0, <1>2, NoneTyped DEF NothingKept, CannotRotate, Forget, KnownTyped
<1>3. ASSUME NEW v \in Vaults, Rotated(v) PROVE KnownTyped'
  <2>1. Answer(v, "refresh").token \in Maybe
    BY <1>3, Answered DEF Rotated, Kinds
  <2> QED
    BY <1>0, <1>3, <2>1 DEF Rotated, KnownTyped
<1>4. ASSUME NEW v \in Vaults, BeginSignOut(v) \/ Close(v) PROVE KnownTyped'
  <2>1. /\ current' = [current EXCEPT ![v] = NoToken]
        /\ \/ epoch' = [epoch EXCEPT ![v] = @ + 1] /\ signOuts' = [signOuts EXCEPT ![v] = @ + 1]
           \/ epoch' = [epoch EXCEPT ![v] = 0] /\ signOuts' = [signOuts EXCEPT ![v] = 0]
    BY <1>4 DEF BeginSignOut, Close
  <2> QED
    BY <1>0, <2>1, NoneTyped DEF KnownTyped
<1>5. CASE UNCHANGED memory
  BY <1>0, <1>5 DEF memory, KnownTyped
<1> QED
  BY <1>1, <1>2, <1>3, <1>4, <1>5, WhoTouches

LEMMA TasksTyped ==
  /\ Read("refresh") \in Tasks /\ Read("signOut") \in Tasks /\ RestoreTask \in Tasks
  /\ \A token \in Maybe : \A who \in Waiters : Write(who, token) \in Tasks
  /\ Waiters = {"signIn", "refresh", "signOut", "nobody"}
BY NoneTyped DEF Tasks, Read, Write, RestoreTask, Waiters, Kinds

\* What a sign-out puts on the queue.
LEMMA SignOutQueues ==
  ASSUME NEW q \in Seq(Tasks), NEW r,
         \/ r = q \o ReadThenClear
         \/ r = Append(q \o ReadThenClear, Write("signOut", NoToken))
  PROVE  /\ r \in Seq(Tasks)
         /\ \A i \in DOMAIN r :
              \/ i \in DOMAIN q /\ r[i] = q[i]
              \/ i = Len(q) + 1 /\ r[i] = Read("signOut")
              \/ i = Len(q) + 2 /\ r[i] = Write("nobody", NoToken)
              \/ i = Len(q) + 3 /\ r[i] = Write("signOut", NoToken)
         /\ \A i \in DOMAIN q : i \in DOMAIN r /\ r[i] = q[i]
         /\ Len(q) + 2 \in DOMAIN r
         /\ r = Append(q \o ReadThenClear, Write("signOut", NoToken)) =>
              Len(q) + 3 \in DOMAIN r /\ r[Len(q) + 3] = Write("signOut", NoToken)
         /\ r = q \o ReadThenClear => Len(q) + 3 \notin DOMAIN r
         /\ DOMAIN q = 1 .. Len(q) /\ Len(q) \in Nat
<1> DEFINE a == Read("signOut")  b == Write("nobody", NoToken)  c == Write("signOut", NoToken)
<1>1. a \in Tasks /\ b \in Tasks /\ c \in Tasks /\ ReadThenClear = <<a, b>>
  BY TasksTyped, NoneTyped DEF ReadThenClear
<1> HIDE DEF a, b, c
<1>2. q \o <<a, b>> = Append(Append(q, a), b)
  BY <1>1
<1>3. /\ Append(q, a) \in Seq(Tasks) /\ Grown(q, Append(q, a), a)
      /\ Len(Append(q, a)) = Len(q) + 1
  BY <1>1, Appended, AppendProperties
<1> DEFINE q1 == Append(q, a)
<1> HIDE DEF q1
<1>4. /\ Append(q1, b) \in Seq(Tasks) /\ Grown(q1, Append(q1, b), b)
      /\ Len(Append(q1, b)) = Len(q1) + 1
  BY <1>1, <1>3, Appended, AppendProperties DEF q1
<1> DEFINE q2 == Append(q1, b)
<1> HIDE DEF q2
<1>5. Append(q2, c) \in Seq(Tasks) /\ Grown(q2, Append(q2, c), c)
  BY <1>1, <1>4, Appended DEF q2
<1>6. r = q2 \/ r = Append(q2, c)
  BY <1>1, <1>2 DEF q1, q2, c
<1>7. Grown(q, q1, a) /\ Len(q1) = Len(q) + 1 /\ Grown(q1, q2, b) /\ Len(q2) = Len(q) + 2
  BY <1>3, <1>4 DEF q1, q2, Grown
<1>8. r = Append(q \o ReadThenClear, c) => r = Append(q2, c)
  BY <1>1, <1>2 DEF q1, q2
<1>9. /\ q2 \in Seq(Tasks) /\ DOMAIN q = 1 .. Len(q) /\ Len(q) \in Nat
      /\ \A i \in DOMAIN q2 :
           \/ i \in DOMAIN q /\ q2[i] = q[i]
           \/ i = Len(q) + 1 /\ q2[i] = a
           \/ i = Len(q) + 2 /\ q2[i] = b
      /\ \A i \in DOMAIN q : i \in DOMAIN q2 /\ q2[i] = q[i]
      /\ Len(q) + 2 \in DOMAIN q2
  <2>1. q2 \in Seq(Tasks)
    BY <1>4 DEF q2
  <2> QED
    BY <1>7, <2>1 DEF Grown
<1>12. Append(q2, c) # q2
  <2> SUFFICES ASSUME Append(q2, c) = q2 PROVE FALSE
    OBVIOUS
  <2>1. Len(q2) + 1 \in DOMAIN q2 /\ DOMAIN q2 = 1 .. Len(q2) /\ Len(q2) \in Nat
    BY <1>5 DEF Grown
  <2> QED
    BY <2>1
<1>13. q \o ReadThenClear = q2
  BY <1>1, <1>2 DEF q1, q2
<1>10. CASE r = q2
  BY <1>8, <1>9, <1>10, <1>12 DEF a, b, c
<1>11. CASE r = Append(q2, c)
  <2>1. /\ \A i \in DOMAIN r : (i \in DOMAIN q2 /\ r[i] = q2[i]) \/ (i = Len(q) + 3 /\ r[i] = c)
        /\ \A i \in DOMAIN q2 : i \in DOMAIN r /\ r[i] = q2[i]
        /\ Len(q) + 3 \in DOMAIN r /\ r[Len(q) + 3] = c /\ r \in Seq(Tasks)
    BY <1>5, <1>7, <1>9, <1>11 DEF Grown
  <2> QED
    BY <1>9, <1>11, <1>12, <1>13, <2>1 DEF a, b, c
<1> QED
  BY <1>6, <1>10, <1>11

LEMMA SignInTypedStep == TypeInv /\ [Next]_vars => (signIn \in [Vaults -> SignIns])'
<1> SUFFICES ASSUME TypeInv, [Next]_vars PROVE signIn' \in [Vaults -> SignIns]
  OBVIOUS
<1>0. signIn \in [Vaults -> SignIns] /\ signOuts \in [Vaults -> Nat]
  BY DEF TypeInv, OpsTyped, KnownTyped
<1>1. ASSUME NEW v \in Vaults, BeginSignIn(v) PROVE signIn' \in [Vaults -> SignIns]
  BY <1>0, <1>1 DEF BeginSignIn, SignIns
<1>2. ASSUME NEW v \in Vaults, SignInKept(v) \/ SignInOvertaken(v)
      PROVE  signIn' \in [Vaults -> SignIns]
  BY <1>0, <1>2 DEF SignInKept, SignInOvertaken, SignIns
<1>3. ASSUME NEW v \in Vaults, SignInOver(v) \/ StoreWrites(v) \/ Close(v)
      PROVE  signIn' \in [Vaults -> SignIns]
  BY <1>0, <1>3, NoneTyped DEF SignInOver, StoreWrites, Close
<1>4. CASE UNCHANGED signIn
  BY <1>0, <1>4
<1> QED
  BY <1>1, <1>2, <1>3, <1>4, WhoTouches

LEMMA RefreshTypedStep == TypeInv /\ [Next]_vars => (refreshing \in [Vaults -> Refreshes])'
<1> SUFFICES ASSUME TypeInv, [Next]_vars PROVE refreshing' \in [Vaults -> Refreshes]
  OBVIOUS
<1>0. /\ refreshing \in [Vaults -> Refreshes] /\ epoch \in [Vaults -> Nat] /\ store \in Maybe
  BY DEF TypeInv, OpsTyped, KnownTyped, KeptTyped
<1>1. ASSUME NEW v \in Vaults, BeginRefresh(v) \/ RefreshGetsLock(v) \/ AskRotation(v)
      PROVE  refreshing' \in [Vaults -> Refreshes]
  <2>1. \/ refreshing' = [refreshing EXCEPT ![v].at = "waiting"]
        \/ refreshing' = [refreshing EXCEPT ![v] = Rotation(v)]
        \/ refreshing' = [refreshing EXCEPT ![v].at = "asked"]
    BY <1>1 DEF BeginRefresh, RefreshGetsLock, AskRotation, RefreshAt
  <2>2. Rotation(v) \in Refreshes
    BY <1>0, NoneTyped DEF Rotation, Refreshes
  <2> QED
    BY <1>0, <2>1, <2>2 DEF Refreshes
<1>2. ASSUME NEW v \in Vaults, NothingKept(v) \/ CannotRotate(v) \/ RotationLost(v)
      PROVE  refreshing' \in [Vaults -> Refreshes]
  <2>1. PICK at \in {"writing", "done", "threw"} : RefreshEnds(v, at)
    BY <1>2 DEF NothingKept, CannotRotate, Forget, RotationLost
  <2>2. PICK r : r = [refreshing EXCEPT ![v].at = at]
    OBVIOUS
  <2>3. r \in [Vaults -> Refreshes] /\ NoToken \in Maybe
    BY <1>0, <2>2, NoneTyped DEF Refreshes
  <2>4. refreshing' = [r EXCEPT ![v].token = NoToken]
    BY <1>0, <2>1, <2>2 DEF RefreshEnds
  <2> QED
    BY <2>3, <2>4 DEF Refreshes
<1>3. ASSUME NEW v \in Vaults, Rotated(v) PROVE refreshing' \in [Vaults -> Refreshes]
  <2>1. PICK token \in Maybe : token = Answer(v, "refresh").token
    BY <1>3, Answered DEF Rotated, Kinds
  <2>2. PICK at \in {"writing", "done"} :
          refreshing' = [refreshing EXCEPT ![v].at = at, ![v].token = token]
    BY <1>3, <2>1 DEF Rotated
  <2>3. PICK r : r = [refreshing EXCEPT ![v].at = at]
    OBVIOUS
  <2>4. r \in [Vaults -> Refreshes]
    BY <1>0, <2>3 DEF Refreshes
  <2>5. refreshing' = [r EXCEPT ![v].token = token]
    BY <1>0, <2>2, <2>3
  <2> QED
    BY <2>4, <2>5 DEF Refreshes
<1>4. ASSUME NEW v \in Vaults, FinishRefresh(v) \/ Close(v)
      PROVE  refreshing' \in [Vaults -> Refreshes]
  BY <1>0, <1>4, NoneTyped DEF FinishRefresh, Close
<1>5. ASSUME NEW v \in Vaults, StoreReads(v) \/ StoreWrites(v)
      PROVE  refreshing' \in [Vaults -> Refreshes]
  <2>1. \/ refreshing' = [refreshing EXCEPT ![v].at = "read", ![v].token = store]
        \/ refreshing' = [refreshing EXCEPT ![v].at = "done"]
        \/ refreshing' = refreshing
    BY <1>5 DEF StoreReads, StoreWrites
  <2> QED
    BY <1>0, <2>1 DEF Refreshes
<1>6. CASE UNCHANGED refreshing
  BY <1>0, <1>6
<1> QED
  BY <1>1, <1>2, <1>3, <1>4, <1>5, <1>6, WhoTouches

LEMMA SignOutTypedStep == TypeInv /\ [Next]_vars => (signOut \in [Vaults -> SignOuts])'
<1> SUFFICES ASSUME TypeInv, [Next]_vars PROVE signOut' \in [Vaults -> SignOuts]
  OBVIOUS
<1>0. /\ signOut \in [Vaults -> SignOuts] /\ refreshing \in [Vaults -> Refreshes]
      /\ store \in Maybe /\ current \in [Vaults -> Maybe]
  BY DEF TypeInv, OpsTyped, KeptTyped, KnownTyped
<1>1. ASSUME NEW v \in Vaults, BeginSignOut(v) PROVE signOut' \in [Vaults -> SignOuts]
  <2>1. {store.of, current[v].of} \ {0} \in SUBSET Sessions
    BY <1>0 DEF Maybe, Tokens, NoToken
  <2>2. PICK o : /\ o = [NoSignOut EXCEPT !.at = IF HasLock THEN "waiting" ELSE "clearing",
                                          !.known = current[v],
                                          !.joins = refreshing[v].at # "none",
                                          !.meant = {store.of, current[v].of} \ {0}]
                 /\ signOut' = [signOut EXCEPT ![v] = o]
    BY <1>1 DEF BeginSignOut
  <2>3. o \in SignOuts
    BY <1>0, <2>1, <2>2, NoneTyped DEF NoSignOut, SignOuts
  <2> QED
    BY <1>0, <2>2, <2>3
<1>2. ASSUME NEW v \in Vaults,
             \/ SignOutGetsLock(v) \/ Cleared(v) \/ SpendKept(v) \/ AskEnd(v) \/ StoreWrites(v)
      PROVE  signOut' \in [Vaults -> SignOuts]
  <2>1. \/ \E at \in {"clearing", "cleared", "joining", "spending", "ending"} :
             signOut' = [signOut EXCEPT ![v].at = at]
        \/ signOut' = signOut
    BY <1>2 DEF SignOutGetsLock, Cleared, SpendKept, AskEnd, StoreWrites
  <2> QED
    BY <1>0, <2>1 DEF SignOuts
<1>3. ASSUME NEW v \in Vaults, NothingToSpend(v) \/ SignOutAnswered(v) \/ Close(v)
      PROVE  signOut' \in [Vaults -> SignOuts]
  BY <1>0, <1>3, NoneTyped DEF NothingToSpend, SignOutAnswered, SignOutOver, Close
<1>4. ASSUME NEW v \in Vaults, FinishRefresh(v) PROVE signOut' \in [Vaults -> SignOuts]
  <2>1. \/ signOut' = signOut
        \/ signOut' = [signOut EXCEPT ![v].joins = FALSE, ![v].view = refreshing[v].token]
    BY <1>4 DEF FinishRefresh
  <2>2. PICK token \in Maybe : token = refreshing[v].token
    BY <1>0 DEF Refreshes
  <2>3. PICK o : o = [signOut EXCEPT ![v].joins = FALSE]
    OBVIOUS
  <2>4. o \in [Vaults -> SignOuts]
    BY <1>0, <2>3 DEF SignOuts
  <2>5. signOut' = signOut \/ signOut' = [o EXCEPT ![v].view = token]
    BY <1>0, <2>1, <2>2, <2>3
  <2>6. [o EXCEPT ![v].view = token] \in [Vaults -> SignOuts]
    BY <2>4 DEF SignOuts
  <2> QED
    BY <1>0, <2>5, <2>6
<1>5. ASSUME NEW v \in Vaults, StoreReads(v) PROVE signOut' \in [Vaults -> SignOuts]
  BY <1>0, <1>5 DEF StoreReads, SignOuts
<1>6. CASE UNCHANGED signOut
  BY <1>0, <1>6
<1> QED
  BY <1>1, <1>2, <1>3, <1>4, <1>5, <1>6, WhoTouches

\* One call put or answered.
LEMMA CallPut ==
  ASSUME TypeInv, NEW o \in Slots, NEW c \in Calls, CallInv(c), calls' = [calls EXCEPT ![o] = c]
  PROVE  CallsTyped' /\ \A p \in Slots : CallInv(calls'[p])
<1>1. calls \in [Slots -> Calls] /\ \A p \in Slots : CallInv(calls[p])
  BY DEF TypeInv, CallsTyped
<1>2. calls' \in [Slots -> Calls]
  BY <1>1
<1>3. ASSUME NEW p \in Slots PROVE calls'[p] = c \/ calls'[p] = calls[p]
  BY <1>1
<1> QED
  BY <1>1, <1>2, <1>3 DEF CallsTyped

LEMMA CallMade ==
  /\ Call("exchange", NoToken) \in Calls /\ CallInv(Call("exchange", NoToken))
  /\ \A what \in {"refresh", "end"}, token \in Tokens :
       Call(what, token) \in Calls /\ CallInv(Call(what, token))
BY NoneTyped DEF Call, Calls, CallInv, Maybe

LEMMA CallsStep == TypeInv /\ [Next]_vars => CallsTyped' /\ \A o \in Slots : CallInv(calls'[o])
<1> SUFFICES ASSUME TypeInv, [Next]_vars
             PROVE  CallsTyped' /\ \A p \in Slots : CallInv(calls'[p])
  OBVIOUS
<1> DEFINE Goal == CallsTyped' /\ \A p \in Slots : CallInv(calls'[p])
<1>0. /\ calls \in [Slots -> Calls] /\ \A p \in Slots : CallInv(calls[p])
      /\ rows \in [Sessions -> Rows] /\ refreshing \in [Vaults -> Refreshes]
      /\ signOut \in [Vaults -> SignOuts]
  BY DEF TypeInv, CallsTyped, RowsTyped, OpsTyped
<1>1. ASSUME NEW v \in Vaults,
             \/ BeginSignIn(v) \/ SignInKept(v) \/ SignInOver(v) \/ CannotRotate(v) \/ Rotated(v)
             \/ RotationLost(v) \/ NothingToSpend(v) \/ SignOutAnswered(v)
      PROVE  Goal
  <2>1. \E kind \in Kinds, c \in {NoCall, Call("exchange", NoToken)} : Asks(v, kind, c)
    BY <1>1 DEF BeginSignIn, SignInKept, SignInOver, CannotRotate, Rotated, RotationLost,
       NothingToSpend, SignOutAnswered, SignOutOver, HangsUp, Kinds
  <2>2. PICK kind \in Kinds, c \in Calls :
          CallInv(c) /\ calls' = [calls EXCEPT ![<<v, kind>>] = c]
    BY <2>1, CallMade, NoneTyped DEF Asks
  <2>3. PICK o \in Slots : o = <<v, kind>>
    BY NoneTyped
  <2> QED
    BY <2>2, <2>3, CallPut
<1>2. ASSUME NEW v \in Vaults,
             SignInOvertaken(v) \/ AskRotation(v) \/ SpendKept(v) \/ AskEnd(v)
      PROVE  Goal
  <2>1. \E kind \in Kinds, what \in {"refresh", "end"}, token \in Tokens :
          Asks(v, kind, Call(what, token))
    <3>1. CASE SignInOvertaken(v)
      BY <3>1, Answered DEF SignInOvertaken, Kinds
    <3>2. CASE AskRotation(v)
      BY <1>0, <3>2 DEF AskRotation, Refreshes, Maybe, Kinds
    <3>3. CASE SpendKept(v)
      BY <1>0, <3>3 DEF SpendKept, CanSpend, SignOuts, Maybe, Kinds
    <3>4. CASE AskEnd(v)
      <4>1. TokenInHand(v) \in Maybe
        BY <1>0 DEF TokenInHand, SignOuts
      <4>2. TokenInHand(v) # NoToken => TokenInHand(v) \in Tokens
        BY <4>1 DEF Maybe
      <4>3. /\ "signOut" \in Kinds
            /\ Answer(v, "signOut").at = "answered" => Answer(v, "signOut").token \in Tokens
        BY Answered DEF Kinds
      <4> QED
        BY <3>4, <4>2, <4>3 DEF AskEnd
    <3> QED
      BY <1>2, <3>1, <3>2, <3>3, <3>4
  <2>2. PICK kind \in Kinds, c \in Calls :
          CallInv(c) /\ calls' = [calls EXCEPT ![<<v, kind>>] = c]
    BY <2>1, CallMade DEF Asks
  <2>3. PICK o \in Slots : o = <<v, kind>>
    BY NoneTyped
  <2> QED
    BY <2>2, <2>3, CallPut
<1>3. ASSUME NEW v \in Vaults, Close(v) PROVE Goal
  <2>1. PICK kind \in Kinds :
          calls' = [o \in Slots |-> IF o = <<v, "stray">> THEN calls[<<v, kind>>]
                                    ELSE IF o[1] = v THEN NoCall ELSE calls[o]]
    BY <1>3 DEF Close
  <2>2. <<v, kind>> \in Slots
    BY NoneTyped
  <2>3. ASSUME NEW p \in Slots PROVE calls'[p] \in Calls /\ CallInv(calls'[p])
    BY <1>0, <2>1, <2>2, NoneTyped
  <2>4. calls' \in [Slots -> Calls]
    BY <2>1, <2>3
  <2> QED
    BY <2>3, <2>4 DEF CallsTyped
<1>4. ASSUME NEW o \in Slots, BookStep(o) \/ CallLost(o) PROVE Goal
  <2>0. calls[o] \in Calls /\ CallInv(calls[o])
    BY <1>0
  <2>1. \/ Sent(o, "exchange") /\ \E s \in Sessions : Answers(o, [of |-> s, at |-> 1])
        \/ /\ calls[o].at \in {"sent", "read"} /\ calls[o].what \in {"refresh", "end"}
           /\ \/ calls' = calls \/ Refuses(o) \/ Answers(o, calls[o].token)
              \/ calls[o].what = "refresh" /\ calls' = [calls EXCEPT ![o].at = "read"]
              \/ Answers(o, [of |-> calls[o].token.of, at |-> calls[o].token.at + 1])
        \/ calls' = [calls EXCEPT ![o].at = "lost"]
    <3>1. CASE OpenSession(o)
      BY <3>1 DEF OpenSession
    <3>2. ASSUME NEW s \in Sessions, s = calls[o].token.of, Replay(o), calls[o].token \in Tokens
          PROVE  Refuses(o) \/ Answers(o, [of |-> s, at |-> calls[o].token.at + 1])
      <4>1. /\ rows[s] \in Rows /\ calls[o].token.at \in Nat
        BY <1>0, <3>2 DEF Tokens
      <4>2. Finds(calls[o].token) /\ calls[o].token.at # rows[s].at =>
              rows[s].at = calls[o].token.at + 1
        BY <3>2, <4>1 DEF Finds, Rows
      <4> QED
        BY <3>2, <4>2 DEF Replay
    <3>3. CASE ReadRow(o)
      <4>1. /\ calls[o].at = "sent" /\ calls[o].what = "refresh" /\ calls[o].token \in Tokens
        BY <2>0, <3>3 DEF ReadRow, Sent, CallInv
      <4>2. calls[o].token.of \in Sessions
        BY <4>1 DEF Tokens
      <4>3. Refuses(o) \/ calls' = [calls EXCEPT ![o].at = "read"] \/ Replay(o)
        BY <3>3 DEF ReadRow
      <4> QED
        BY <3>2, <4>1, <4>2, <4>3
    <3>4. CASE WriteRow(o)
      <4>1. /\ calls[o].at = "read" /\ calls[o].what = "refresh" /\ calls[o].token \in Tokens
        BY <2>0, <3>4 DEF WriteRow, CallInv
      <4>2. calls[o].token.of \in Sessions
        BY <4>1 DEF Tokens
      <4>3. \/ Answers(o, [of |-> calls[o].token.of, at |-> calls[o].token.at + 1])
            \/ Replay(o)
        BY <3>4 DEF WriteRow
      <4> QED
        BY <3>2, <4>1, <4>2, <4>3
    <3>5. CASE EndRow(o)
      BY <3>5 DEF EndRow, Sent
    <3>6. CASE CallLost(o)
      BY <3>6 DEF CallLost
    <3> QED
      BY <1>4, <3>1, <3>3, <3>4, <3>5, <3>6 DEF BookStep
  <2>2. \E c \in Calls : CallInv(c) /\ calls' = [calls EXCEPT ![o] = c]
    <3>0. calls = [calls EXCEPT ![o] = calls[o]]
      BY <1>0
    <3>1. ASSUME NEW at \in {"read", "answered", "refused", "lost"}, NEW token \in Maybe,
                 CallInv([at |-> at, what |-> calls[o].what, token |-> token]),
                 \/ calls' = [calls EXCEPT ![o].at = at, ![o].token = token]
                 \/ token = calls[o].token /\ calls' = [calls EXCEPT ![o].at = at]
          PROVE  \E c \in Calls : CallInv(c) /\ calls' = [calls EXCEPT ![o] = c]
      <4>1. PICK c \in Calls : c = [at |-> at, what |-> calls[o].what, token |-> token]
        BY <2>0, <3>1 DEF Calls
      <4>2. calls' = [calls EXCEPT ![o] = c]
        BY <1>0, <2>0, <3>1, <4>1 DEF Calls
      <4> QED
        BY <3>1, <4>1, <4>2
    <3>2. CASE Sent(o, "exchange") /\ \E s \in Sessions : Answers(o, [of |-> s, at |-> 1])
      <4>1. PICK s \in Sessions : Answers(o, [of |-> s, at |-> 1])
        BY <3>2
      <4>0. [of |-> s, at |-> 1] \in Tokens /\ [of |-> s, at |-> 1] \in Maybe
        BY DEF Maybe, Tokens
      <4>2. PICK token \in Maybe : token \in Tokens /\ token = [of |-> s, at |-> 1]
        BY <4>0
      <4>3. CallInv([at |-> "answered", what |-> calls[o].what, token |-> token])
        BY <3>2, <4>2 DEF CallInv, Sent
      <4> QED
        BY <3>1, <4>1, <4>2, <4>3 DEF Answers
    <3>3. ASSUME calls[o].at \in {"sent", "read"}, calls[o].what \in {"refresh", "end"}
          PROVE  /\ calls[o].token \in Tokens /\ calls[o].token \in Maybe
                 /\ \A token \in Tokens :
                      CallInv([at |-> "answered", what |-> calls[o].what, token |-> token])
                 /\ CallInv([at |-> "refused", what |-> calls[o].what, token |-> calls[o].token])
                 /\ calls[o].what = "refresh" =>
                      CallInv([at |-> "read", what |-> calls[o].what, token |-> calls[o].token])
      BY <2>0, <3>3 DEF CallInv, Maybe
    <3>4. CASE /\ calls[o].at \in {"sent", "read"} /\ calls[o].what \in {"refresh", "end"}
               /\ \/ calls' = calls \/ Refuses(o)
                  \/ calls[o].what = "refresh" /\ calls' = [calls EXCEPT ![o].at = "read"]
      BY <2>0, <3>0, <3>1, <3>3, <3>4 DEF Refuses
    <3>5. CASE /\ calls[o].at \in {"sent", "read"} /\ calls[o].what \in {"refresh", "end"}
               /\ \/ Answers(o, calls[o].token)
                  \/ Answers(o, [of |-> calls[o].token.of, at |-> calls[o].token.at + 1])
      <4>1. PICK token \in Tokens : Answers(o, token)
        BY <3>3, <3>5 DEF Tokens
      <4>2. token \in Maybe
        BY DEF Maybe
      <4> QED
        BY <3>1, <3>3, <3>5, <4>1, <4>2 DEF Answers
    <3>6. CASE calls' = [calls EXCEPT ![o].at = "lost"]
      <4>1. CallInv([at |-> "lost", what |-> calls[o].what, token |-> calls[o].token])
        BY <2>0 DEF CallInv
      <4> QED
        BY <2>0, <3>1, <3>6, <4>1 DEF Calls
    <3> QED
      BY <2>1, <3>2, <3>4, <3>5, <3>6
  <2> QED
    BY <2>2, CallPut
<1>5. CASE UNCHANGED calls
  BY <1>0, <1>5 DEF CallsTyped
<1> QED
  BY <1>1, <1>2, <1>3, <1>4, <1>5, WhoTouches

LEMMA RowsStep == TypeInv /\ [Next]_vars => RowsTyped'
<1> SUFFICES ASSUME TypeInv, [Next]_vars PROVE RowsTyped'
  OBVIOUS
<1>0. /\ calls \in [Slots -> Calls] /\ \A p \in Slots : CallInv(calls[p])
      /\ rows \in [Sessions -> Rows]
  BY DEF TypeInv, CallsTyped, RowsTyped
<1>1. ASSUME NEW o \in Slots, BookStep(o) PROVE RowsTyped'
  <2>1. \/ \E s \in Sessions : rows' = [rows EXCEPT ![s] =
                                 [NoRow EXCEPT !.at = 1, !.is = "open", !.live = TRUE]]
        \/ \E s \in {calls[o].token.of} :
             \/ rows' = [rows EXCEPT ![s].is = IF @ = "open" THEN "reused" ELSE @]
             \/ rows' = [rows EXCEPT ![s].at = @ + 1, ![s].fresh = TRUE, ![s].live = TRUE]
             \/ rows' = [rows EXCEPT ![s].is = "ended"]
        \/ rows' = rows
    BY <1>1 DEF BookStep, OpenSession, ReadRow, WriteRow, EndRow, Replay
  <2>2. CASE \E s \in Sessions : rows' = [rows EXCEPT ![s] =
                                   [NoRow EXCEPT !.at = 1, !.is = "open", !.live = TRUE]]
    <3>1. [NoRow EXCEPT !.at = 1, !.is = "open", !.live = TRUE] \in Rows
      BY DEF NoRow, Rows
    <3> QED
      BY <1>0, <2>2, <3>1 DEF RowsTyped
  <2>3. ASSUME NEW s, \/ rows' = [rows EXCEPT ![s].is = IF @ = "open" THEN "reused" ELSE @]
                      \/ rows' = [rows EXCEPT ![s].is = "ended"]
        PROVE  RowsTyped'
    <3>1. CASE s \in Sessions
      BY <1>0, <2>3, <3>1 DEF RowsTyped, Rows
    <3>2. CASE s \notin Sessions
      BY <1>0, <2>3, <3>2 DEF RowsTyped
    <3> QED
      BY <3>1, <3>2
  <2>4. ASSUME NEW s,
               rows' = [rows EXCEPT ![s].at = @ + 1, ![s].fresh = TRUE, ![s].live = TRUE]
        PROVE  RowsTyped'
    <3>1. CASE s \in Sessions
      <4>1. PICK r : r = [rows EXCEPT ![s].at = @ + 1]
        OBVIOUS
      <4>2. r \in [Sessions -> Rows]
        BY <1>0, <3>1, <4>1 DEF Rows
      <4>3. PICK q : q = [r EXCEPT ![s].fresh = TRUE]
        OBVIOUS
      <4>4. q \in [Sessions -> Rows]
        BY <4>2, <4>3 DEF Rows
      <4>5. rows' = [q EXCEPT ![s].live = TRUE]
        BY <1>0, <2>4, <4>1, <4>3
      <4> QED
        BY <4>4, <4>5 DEF RowsTyped, Rows
    <3>2. CASE s \notin Sessions
      BY <1>0, <2>4, <3>2 DEF RowsTyped
    <3> QED
      BY <3>1, <3>2
  <2> QED
    BY <1>0, <2>1, <2>2, <2>3, <2>4 DEF RowsTyped
<1>2. ASSUME NEW s \in Sessions, ClockMoves(s) PROVE RowsTyped'
  <2>1. \/ rows' = [rows EXCEPT ![s].live = FALSE]
        \/ rows' = [rows EXCEPT ![s].fresh = FALSE]
        \/ rows' = [rows EXCEPT ![s].past = @ + 1]
    BY <1>2 DEF ClockMoves
  <2>2. CASE rows' = [rows EXCEPT ![s].live = FALSE]
    BY <1>0, <2>2 DEF RowsTyped, Rows
  <2>3. CASE rows' = [rows EXCEPT ![s].fresh = FALSE]
    BY <1>0, <2>3 DEF RowsTyped, Rows
  <2>4. CASE rows' = [rows EXCEPT ![s].past = @ + 1]
    BY <1>0, <2>4 DEF RowsTyped, Rows
  <2> QED
    BY <2>1, <2>2, <2>3, <2>4
<1>3. CASE UNCHANGED rows
  BY <1>0, <1>3 DEF RowsTyped
<1> QED
  BY <1>1, <1>2, <1>3, WhoTouches

\* What was begun only grows, and what asked for the lock was begun.
LEMMA BegunStep ==
  ASSUME TypeInv, [Next]_vars
  PROVE  /\ begun' \in [DOMAIN Bound -> Nat]
         /\ \A what \in DOMAIN Bound : begun[what] <= begun'[what] /\ begun'[what] <= Bound[what]
<1>0. /\ begun \in [DOMAIN Bound -> Nat] /\ \A what \in DOMAIN Bound : begun[what] <= Bound[what]
      /\ \A what \in DOMAIN Bound : Bound[what] \in Nat
  BY BoundsAssumption DEF TypeInv, CountTyped, Bound
<1>1. ASSUME NEW what \in DOMAIN Bound, Begins(what)
      PROVE  /\ begun' \in [DOMAIN Bound -> Nat]
             /\ \A w \in DOMAIN Bound : begun[w] <= begun'[w] /\ begun'[w] <= Bound[w]
  BY <1>0, <1>1 DEF Begins
<1>2. CASE UNCHANGED begun
  BY <1>0, <1>2
<1> QED
  BY <1>1, <1>2, WhoTouches

LEMMA CountStep == TypeInv /\ [Next]_vars => CountTyped'
<1> SUFFICES ASSUME TypeInv, [Next]_vars PROVE CountTyped'
  OBVIOUS
<1>0. /\ lock \in [Turns -> Nat] /\ begun.refresh \in Nat /\ begun.signOut \in Nat
  BY DEF TypeInv, CountTyped, Bound
<1>1. ASSUME NEW v \in Vaults, BeginRefresh(v) \/ FinishRefresh(v) \/ BeginSignOut(v) \/ Cleared(v)
      PROVE  lock' \in [Turns -> Nat]
  <2>1. \/ \E kind \in {"refresh", "signOut"} : LinesUp(v, kind) \/ Release(v, kind)
        \/ lock' = lock
    BY <1>1 DEF BeginRefresh, FinishRefresh, BeginSignOut, Cleared, LetsGo
  <2> QED
    BY <1>0, <2>1, NoneTyped DEF LinesUp, Release
<1>2. ASSUME NEW v \in Vaults, Close(v) PROVE lock' \in [Turns -> Nat]
  BY <1>0, <1>2 DEF Close
<1>3. ASSUME UNCHANGED lock PROVE lock' \in [Turns -> Nat]
  BY <1>0, <1>3
<1>4. lock' \in [Turns -> Nat]
  BY <1>1, <1>2, <1>3, WhoTouches
<1> QED
  BY <1>4, BegunStep DEF CountTyped

LEMMA GhostsStep == TypeInv /\ [Next]_vars => GhostsTyped'
<1> SUFFICES ASSUME TypeInv, [Next]_vars PROVE GhostsTyped'
  OBVIOUS
<1>0. /\ given \in [Vaults -> {0} \cup Sessions] /\ leaving \subseteq Sessions
      /\ signedOut \subseteq Sessions /\ current \in [Vaults -> Maybe] /\ store \in Maybe
      /\ refreshing \in [Vaults -> Refreshes] /\ signOut \in [Vaults -> SignOuts]
  BY DEF TypeInv, GhostsTyped, KnownTyped, OpsTyped, KeptTyped
<1>1. \A token \in Maybe : token.of \in {0} \cup Sessions
  BY DEF Maybe, Tokens, NoToken
<1>2. ASSUME NEW v \in Vaults, BeginRefresh(v) PROVE GhostsTyped'
  BY <1>0, <1>2 DEF BeginRefresh, GhostsTyped
<1>3. ASSUME NEW v \in Vaults, FinishRefresh(v) PROVE GhostsTyped'
  <2>1. Heard(v) \in Maybe
    BY <1>0, NoneTyped DEF Heard, Refreshes
  <2> QED
    BY <1>0, <1>1, <1>3, <2>1 DEF FinishRefresh, GhostsTyped
<1>4. ASSUME NEW v \in Vaults, BeginSignOut(v) PROVE GhostsTyped'
  BY <1>0, <1>1, <1>4 DEF BeginSignOut, GhostsTyped
<1>5. ASSUME NEW v \in Vaults, StoreWrites(v) PROVE GhostsTyped'
  <2>1. Task(v) \in Tasks /\ TaskInv(v, Task(v))
    BY <1>5, AtTask DEF StoreWrites
  <2>2. Task(v).who = "signIn" => Task(v).what.of \in Sessions
    BY <2>1 DEF TaskInv, TaskAt, Tokens
  <2>3. UNCHANGED <<given, signedOut>> /\ leaving' \subseteq Sessions
    BY <1>0, <1>5, <2>2 DEF StoreWrites
  <2> QED
    BY <1>0, <2>3 DEF GhostsTyped
<1>6. ASSUME NEW v \in Vaults, NothingToSpend(v) \/ SignOutAnswered(v) PROVE GhostsTyped'
  BY <1>0, <1>6 DEF NothingToSpend, SignOutAnswered, SignOutOver, GhostsTyped, SignOuts
<1>7. ASSUME NEW v \in Vaults, Close(v) PROVE GhostsTyped'
  BY <1>0, <1>7 DEF Close, GhostsTyped
<1>8. CASE UNCHANGED ghosts
  BY <1>0, <1>8 DEF ghosts, GhostsTyped
<1> QED
  BY <1>2, <1>3, <1>4, <1>5, <1>6, <1>7, <1>8, WhoTouches

-----------------------------------------------------------------------------
(* What a step does to the refresh, the sign-out and the queue of a vault. *)

\* What happens in one vault leaves the refresh of another alone.
LEMMA RefreshMoves ==
  ASSUME TypeInv, [Next]_vars, NEW v \in Vaults
  PROVE  \/ refreshing'[v] = refreshing[v]
         \/ /\ FinishRefresh(v) \/ Close(v)
            /\ refreshing'[v] = NoRefresh
         \/ /\ BeginRefresh(v) /\ HasLock /\ refreshing[v].at = "none"
            /\ refreshing'[v].at = "waiting" /\ refreshing'[v].epoch = refreshing[v].epoch
            /\ refreshing'[v].token = NoToken
         \/ /\ (BeginRefresh(v) /\ ~ HasLock) \/ RefreshGetsLock(v)
            /\ tail' = [tail EXCEPT ![v] = Append(@, Read("refresh"))]
            /\ refreshing'[v] = Rotation(v)
         \/ /\ NothingKept(v) \/ CannotRotate(v) \/ RotationLost(v)
            /\ refreshing[v].at \in {"read", "asked"}
            /\ refreshing'[v].at \in {"writing", "done", "threw"}
            /\ refreshing'[v].epoch = refreshing[v].epoch /\ refreshing'[v].token = NoToken
         \/ /\ Rotated(v) /\ refreshing[v].at = "asked"
            /\ refreshing'[v].at \in {"writing", "done"}
            /\ refreshing'[v].epoch = refreshing[v].epoch
            /\ refreshing'[v].token = Answer(v, "refresh").token
         \/ /\ AskRotation(v) /\ refreshing[v].at = "read" /\ refreshing'[v].at = "asked"
            /\ refreshing'[v].epoch = refreshing[v].epoch
            /\ refreshing'[v].token = refreshing[v].token
         \/ /\ StoreReads(v) /\ Task(v).who = "refresh" /\ refreshing'[v].at = "read"
            /\ refreshing'[v].epoch = refreshing[v].epoch /\ refreshing'[v].token = store
         \/ /\ StoreWrites(v) /\ Task(v).who = "refresh" /\ refreshing'[v].at = "done"
            /\ refreshing'[v].epoch = refreshing[v].epoch
            /\ refreshing'[v].token = refreshing[v].token
<1> DEFINE Goal ==
       \/ refreshing'[v] = refreshing[v]
       \/ /\ FinishRefresh(v) \/ Close(v)
          /\ refreshing'[v] = NoRefresh
       \/ /\ BeginRefresh(v) /\ HasLock /\ refreshing[v].at = "none"
          /\ refreshing'[v].at = "waiting" /\ refreshing'[v].epoch = refreshing[v].epoch
          /\ refreshing'[v].token = NoToken
       \/ /\ (BeginRefresh(v) /\ ~ HasLock) \/ RefreshGetsLock(v)
          /\ tail' = [tail EXCEPT ![v] = Append(@, Read("refresh"))]
          /\ refreshing'[v] = Rotation(v)
       \/ /\ NothingKept(v) \/ CannotRotate(v) \/ RotationLost(v)
          /\ refreshing[v].at \in {"read", "asked"}
          /\ refreshing'[v].at \in {"writing", "done", "threw"}
          /\ refreshing'[v].epoch = refreshing[v].epoch /\ refreshing'[v].token = NoToken
       \/ /\ Rotated(v) /\ refreshing[v].at = "asked"
          /\ refreshing'[v].at \in {"writing", "done"}
          /\ refreshing'[v].epoch = refreshing[v].epoch
          /\ refreshing'[v].token = Answer(v, "refresh").token
       \/ /\ AskRotation(v) /\ refreshing[v].at = "read" /\ refreshing'[v].at = "asked"
          /\ refreshing'[v].epoch = refreshing[v].epoch
          /\ refreshing'[v].token = refreshing[v].token
       \/ /\ StoreReads(v) /\ Task(v).who = "refresh" /\ refreshing'[v].at = "read"
          /\ refreshing'[v].epoch = refreshing[v].epoch /\ refreshing'[v].token = store
       \/ /\ StoreWrites(v) /\ Task(v).who = "refresh" /\ refreshing'[v].at = "done"
          /\ refreshing'[v].epoch = refreshing[v].epoch
          /\ refreshing'[v].token = refreshing[v].token
<1>0. /\ refreshing \in [Vaults -> Refreshes] /\ \A w \in Vaults : RefreshInv(w)
  BY DEF TypeInv, OpsTyped
<1>2. ASSUME NEW w \in Vaults, FinishRefresh(w) \/ Close(w) PROVE Goal
  <2>1. refreshing' = [refreshing EXCEPT ![w] = NoRefresh]
    BY <1>2 DEF FinishRefresh, Close
  <2> QED
    BY <1>0, <1>2, <2>1
<1>3. ASSUME NEW w \in Vaults, BeginRefresh(w) \/ RefreshGetsLock(w) PROVE Goal
  <2>1. \/ /\ BeginRefresh(w) /\ HasLock /\ refreshing[w].at = "none"
           /\ refreshing' = [refreshing EXCEPT ![w].at = "waiting"]
        \/ /\ (BeginRefresh(w) /\ ~ HasLock) \/ RefreshGetsLock(w)
           /\ tail' = [tail EXCEPT ![w] = Append(@, Read("refresh"))]
           /\ refreshing' = [refreshing EXCEPT ![w] = Rotation(w)]
    BY <1>3 DEF BeginRefresh, RefreshGetsLock, RefreshAt, Queue
  <2>2. refreshing[w].at = "none" => refreshing[w].token = NoToken
    BY <1>0 DEF RefreshInv
  <2> QED
    BY <1>0, <2>1, <2>2 DEF Refreshes
<1>4. ASSUME NEW w \in Vaults, NothingKept(w) \/ CannotRotate(w) \/ RotationLost(w) PROVE Goal
  <2>1. PICK at \in {"writing", "done", "threw"} :
          refreshing' = [refreshing EXCEPT ![w].at = at, ![w].token = NoToken]
    BY <1>4 DEF NothingKept, CannotRotate, Forget, RotationLost, RefreshEnds
  <2>2. refreshing[w].at \in {"read", "asked"}
    BY <1>4 DEF NothingKept, CannotRotate, RotationLost
  <2> QED
    BY <1>0, <1>4, <2>1, <2>2 DEF Refreshes
<1>5. ASSUME NEW w \in Vaults, Rotated(w) PROVE Goal
  <2>1. PICK token : token = Answer(w, "refresh").token
    OBVIOUS
  <2>2. \E at \in {"writing", "done"} :
          refreshing' = [refreshing EXCEPT ![w].at = at, ![w].token = token]
    BY <1>5, <2>1 DEF Rotated
  <2>3. refreshing[w].at = "asked"
    BY <1>5 DEF Rotated
  <2> QED
    BY <1>0, <1>5, <2>1, <2>2, <2>3 DEF Refreshes
<1>6. ASSUME NEW w \in Vaults, AskRotation(w) PROVE Goal
  BY <1>0, <1>6 DEF AskRotation, RefreshAt, Refreshes
<1>7. ASSUME NEW w \in Vaults, StoreReads(w) PROVE Goal
  <2>1. \/ /\ Task(w).who = "refresh"
           /\ refreshing' = [refreshing EXCEPT ![w].at = "read", ![w].token = store]
        \/ refreshing' = refreshing
    BY <1>7 DEF StoreReads
  <2> QED
    BY <1>0, <1>7, <2>1 DEF Refreshes
<1>8. ASSUME NEW w \in Vaults, StoreWrites(w) PROVE Goal
  <2>1. \/ Task(w).who = "refresh" /\ refreshing' = [refreshing EXCEPT ![w].at = "done"]
        \/ refreshing' = refreshing
    BY <1>8 DEF StoreWrites
  <2> QED
    BY <1>0, <1>8, <2>1 DEF Refreshes
<1>9. ASSUME UNCHANGED refreshing PROVE Goal
  BY <1>9
<1> HIDE DEF Goal
<1>10. Goal
  BY <1>2, <1>3, <1>4, <1>5, <1>6, <1>7, <1>8, <1>9, WhoTouches
<1> QED
  BY <1>10 DEF Goal

LEMMA RefreshAfter ==
  ASSUME TypeInv, [Next]_vars, NEW v \in Vaults
  PROVE  \/ refreshing'[v] = refreshing[v]
         \/ refreshing'[v] = NoRefresh
         \/ refreshing'[v].at = "waiting" /\ HasLock
              /\ refreshing'[v].epoch = refreshing[v].epoch /\ refreshing'[v].token = NoToken
         \/ refreshing'[v] = Rotation(v)
         \/ refreshing'[v].at \in {"read", "writing", "done", "threw"}
              /\ refreshing'[v].epoch = refreshing[v].epoch
         \/ AskRotation(v) /\ refreshing'[v].epoch = refreshing[v].epoch
              /\ refreshing'[v].at = "asked" /\ refreshing'[v].token = refreshing[v].token
BY RefreshMoves

LEMMA SignOutMoves ==
  ASSUME TypeInv, [Next]_vars, NEW v \in Vaults
  PROVE  \/ signOut'[v].at = signOut[v].at /\ signOut'[v].meant = signOut[v].meant
         \/ /\ NothingToSpend(v) \/ SignOutAnswered(v) \/ Close(v)
            /\ signOut'[v] = NoSignOut
         \/ /\ BeginSignOut(v) /\ signOut[v].at = "none"
            /\ signOut'[v].at = (IF HasLock THEN "waiting" ELSE "clearing")
            /\ signOut'[v].meant = {store.of, current[v].of} \ {0}
         \/ /\ SignOutGetsLock(v) /\ signOut[v].at = "waiting" /\ signOut'[v].at = "clearing"
            /\ signOut'[v].meant = signOut[v].meant
         \/ /\ StoreWrites(v) /\ Task(v).who = "signOut" /\ signOut'[v].at = "cleared"
            /\ signOut'[v].meant = signOut[v].meant
         \/ /\ Cleared(v) /\ signOut[v].at = "cleared" /\ signOut'[v].at = "joining"
            /\ signOut'[v].meant = signOut[v].meant
         \/ /\ SpendKept(v) \/ AskEnd(v)
            /\ signOut[v].at \in {"joining", "spending"}
            /\ signOut'[v].at \in {"spending", "ending"}
            /\ signOut'[v].meant = signOut[v].meant
<1> DEFINE Goal ==
       \/ signOut'[v].at = signOut[v].at /\ signOut'[v].meant = signOut[v].meant
       \/ /\ NothingToSpend(v) \/ SignOutAnswered(v) \/ Close(v)
          /\ signOut'[v] = NoSignOut
       \/ /\ BeginSignOut(v) /\ signOut[v].at = "none"
          /\ signOut'[v].at = (IF HasLock THEN "waiting" ELSE "clearing")
          /\ signOut'[v].meant = {store.of, current[v].of} \ {0}
       \/ /\ SignOutGetsLock(v) /\ signOut[v].at = "waiting" /\ signOut'[v].at = "clearing"
          /\ signOut'[v].meant = signOut[v].meant
       \/ /\ StoreWrites(v) /\ Task(v).who = "signOut" /\ signOut'[v].at = "cleared"
          /\ signOut'[v].meant = signOut[v].meant
       \/ /\ Cleared(v) /\ signOut[v].at = "cleared" /\ signOut'[v].at = "joining"
          /\ signOut'[v].meant = signOut[v].meant
       \/ /\ SpendKept(v) \/ AskEnd(v)
          /\ signOut[v].at \in {"joining", "spending"}
          /\ signOut'[v].at \in {"spending", "ending"}
          /\ signOut'[v].meant = signOut[v].meant
<1>0. signOut \in [Vaults -> SignOuts]
  BY DEF TypeInv, OpsTyped
<1>1. ASSUME NEW w \in Vaults, BeginSignOut(w) PROVE Goal
  <2>0. PICK o : /\ o = [NoSignOut EXCEPT !.at = IF HasLock THEN "waiting" ELSE "clearing",
                                          !.known = current[w],
                                          !.joins = refreshing[w].at # "none",
                                          !.meant = {store.of, current[w].of} \ {0}]
                 /\ signOut' = [signOut EXCEPT ![w] = o]
    BY <1>1 DEF BeginSignOut
  <2>1. /\ o.at = (IF HasLock THEN "waiting" ELSE "clearing")
        /\ o.meant = {store.of, current[w].of} \ {0}
    BY <2>0 DEF NoSignOut
  <2>2. signOut[w].at = "none"
    BY <1>1 DEF BeginSignOut
  <2> QED
    BY <1>0, <1>1, <2>0, <2>1, <2>2
<1>2. ASSUME NEW w \in Vaults, SignOutGetsLock(w) \/ Cleared(w) PROVE Goal
  BY <1>0, <1>2 DEF SignOutGetsLock, Cleared, SignOuts
<1>3. ASSUME NEW w \in Vaults, SpendKept(w) \/ AskEnd(w) PROVE Goal
  <2>1. /\ signOut[w].at \in {"joining", "spending"}
        /\ \E at \in {"spending", "ending"} : signOut' = [signOut EXCEPT ![w].at = at]
    BY <1>3 DEF SpendKept, AskEnd
  <2> QED
    BY <1>0, <1>3, <2>1 DEF SignOuts
<1>4. ASSUME NEW w \in Vaults, NothingToSpend(w) \/ SignOutAnswered(w) \/ Close(w) PROVE Goal
  <2>1. signOut' = [signOut EXCEPT ![w] = NoSignOut]
    BY <1>4 DEF NothingToSpend, SignOutAnswered, SignOutOver, Close
  <2> QED
    BY <1>0, <1>4, <2>1
<1>5. ASSUME NEW w \in Vaults, StoreWrites(w) PROVE Goal
  <2>1. \/ Task(w).who = "signOut" /\ signOut' = [signOut EXCEPT ![w].at = "cleared"]
        \/ signOut' = signOut
    BY <1>5 DEF StoreWrites
  <2> QED
    BY <1>0, <1>5, <2>1 DEF SignOuts
<1>6. ASSUME NEW w \in Vaults, FinishRefresh(w) PROVE Goal
  <2>1. PICK token : token = refreshing[w].token
    OBVIOUS
  <2>2. \/ signOut' = signOut
        \/ signOut' = [signOut EXCEPT ![w].joins = FALSE, ![w].view = token]
    BY <1>6, <2>1 DEF FinishRefresh
  <2> QED
    BY <1>0, <2>2 DEF SignOuts
<1>7. ASSUME NEW w \in Vaults, StoreReads(w) PROVE Goal
  BY <1>0, <1>7 DEF StoreReads, SignOuts
<1>8. ASSUME UNCHANGED signOut PROVE Goal
  BY <1>8
<1> HIDE DEF Goal
<1>9. Goal
  BY <1>1, <1>2, <1>3, <1>4, <1>5, <1>6, <1>7, <1>8, WhoTouches
<1> QED
  BY <1>9 DEF Goal

LEMMA SignOutAfter ==
  ASSUME TypeInv, [Next]_vars, NEW v \in Vaults
  PROVE  \/ signOut'[v].at = signOut[v].at /\ signOut'[v].meant = signOut[v].meant
         \/ signOut'[v] = NoSignOut
         \/ BeginSignOut(v) /\ signOut'[v].at = (IF HasLock THEN "waiting" ELSE "clearing")
         \/ signOut'[v].at \in {"clearing", "cleared", "joining", "spending", "ending"}
              /\ signOut'[v].meant = signOut[v].meant
BY SignOutMoves

\* The queue gets a task, loses its first, or goes with its vault.
LEMMA TailMoves ==
  ASSUME TypeInv, [Next]_vars, NEW v \in Vaults
  PROVE  \/ tail'[v] = tail[v]
         \/ \E e \in Tasks :
              /\ tail'[v] \in Seq(Tasks) /\ Grown(tail[v], tail'[v], e)
              /\ \/ SignInKept(v) /\ e = Write("signIn", Answer(v, "signIn").token)
                 \/ Restore(v) /\ e = RestoreTask
                 \/ /\ BeginRefresh(v) \/ RefreshGetsLock(v)
                    /\ e = Read("refresh") /\ refreshing'[v].at = "reading"
                    /\ refreshing[v].at \in {"none", "waiting"}
                 \/ /\ CannotRotate(v) /\ e = Write("refresh", NoToken)
                    /\ refreshing[v].at \in {"read", "asked"} /\ refreshing'[v].at = "writing"
                 \/ /\ Rotated(v) /\ RefreshStands(v)
                    /\ refreshing[v].at = "asked" /\ refreshing'[v].at = "writing"
                    /\ e = Write("refresh", Answer(v, "refresh").token)
                 \/ SignOutGetsLock(v) /\ e = Write("signOut", NoToken)
         \/ /\ BeginSignOut(v)
            /\ tail'[v] = IF HasLock THEN tail[v] \o ReadThenClear
                          ELSE Append(tail[v] \o ReadThenClear, Write("signOut", NoToken))
         \/ /\ StoreStep(v) /\ tail[v] # <<>> /\ tail'[v] = Tail(tail[v])
            /\ \/ Task(v).do = "read" /\ StoreReads(v)
               \/ Task(v).do = "write" /\ StoreWrites(v)
               \/ Task(v).do = "restore" /\ StoreRestores(v)
         \/ /\ StoreRestores(v) /\ tail[v] # <<>> /\ Task(v).do = "restore"
            /\ tail'[v] = [tail[v] EXCEPT ![1] = Write("nobody", NoToken)]
         \/ Close(v) /\ tail'[v] = <<>>
<1> DEFINE Goal ==
       \/ tail'[v] = tail[v]
       \/ \E e \in Tasks :
            /\ tail'[v] \in Seq(Tasks) /\ Grown(tail[v], tail'[v], e)
            /\ \/ SignInKept(v) /\ e = Write("signIn", Answer(v, "signIn").token)
               \/ Restore(v) /\ e = RestoreTask
               \/ /\ BeginRefresh(v) \/ RefreshGetsLock(v)
                  /\ e = Read("refresh") /\ refreshing'[v].at = "reading"
                  /\ refreshing[v].at \in {"none", "waiting"}
               \/ /\ CannotRotate(v) /\ e = Write("refresh", NoToken)
                  /\ refreshing[v].at \in {"read", "asked"} /\ refreshing'[v].at = "writing"
               \/ /\ Rotated(v) /\ RefreshStands(v)
                  /\ refreshing[v].at = "asked" /\ refreshing'[v].at = "writing"
                  /\ e = Write("refresh", Answer(v, "refresh").token)
               \/ SignOutGetsLock(v) /\ e = Write("signOut", NoToken)
       \/ /\ BeginSignOut(v)
          /\ tail'[v] = IF HasLock THEN tail[v] \o ReadThenClear
                        ELSE Append(tail[v] \o ReadThenClear, Write("signOut", NoToken))
       \/ /\ StoreStep(v) /\ tail[v] # <<>> /\ tail'[v] = Tail(tail[v])
          /\ \/ Task(v).do = "read" /\ StoreReads(v)
             \/ Task(v).do = "write" /\ StoreWrites(v)
             \/ Task(v).do = "restore" /\ StoreRestores(v)
       \/ /\ StoreRestores(v) /\ tail[v] # <<>> /\ Task(v).do = "restore"
          /\ tail'[v] = [tail[v] EXCEPT ![1] = Write("nobody", NoToken)]
       \/ Close(v) /\ tail'[v] = <<>>
<1>0. tail \in [Vaults -> Seq(Tasks)] /\ refreshing \in [Vaults -> Refreshes]
  BY DEF TypeInv, TailTyped, OpsTyped
<1>1. ASSUME NEW e \in Tasks, tail'[v] = Append(tail[v], e)
      PROVE  tail'[v] \in Seq(Tasks) /\ Grown(tail[v], tail'[v], e)
  <2>1. tail[v] \in Seq(Tasks)
    BY <1>0
  <2> QED
    BY <1>1, <2>1, Appended
<1>2. ASSUME NEW w \in Vaults, NEW e, Queue(w, e) PROVE tail'[v] = IF w = v THEN Append(tail[v], e) ELSE tail[v]
  BY <1>0, <1>2 DEF Queue
<1>3. ASSUME NEW w \in Vaults, SignInKept(w) PROVE Goal
  <2>1. Queue(w, Write("signIn", Answer(w, "signIn").token))
    BY <1>3 DEF SignInKept
  <2>2. Write("signIn", Answer(w, "signIn").token) \in Tasks
    BY <1>3, Answered, TasksTyped DEF SignInKept, Kinds
  <2> QED
    BY <1>1, <1>2, <1>3, <2>1, <2>2
<1>4. ASSUME NEW w \in Vaults,
             Restore(w) \/ BeginRefresh(w) \/ RefreshGetsLock(w) \/ SignOutGetsLock(w)
      PROVE  Goal
  <2>1. \/ tail' = tail
        \/ Restore(w) /\ Queue(w, RestoreTask)
        \/ /\ (BeginRefresh(w) \/ RefreshGetsLock(w)) /\ Queue(w, Read("refresh"))
           /\ refreshing[w].at \in {"none", "waiting"}
           /\ refreshing' = [refreshing EXCEPT ![w] = Rotation(w)]
        \/ SignOutGetsLock(w) /\ Queue(w, Write("signOut", NoToken))
    BY <1>4 DEF Restore, BeginRefresh, RefreshGetsLock, SignOutGetsLock
  <2>2. \A x \in Vaults : Rotation(x).at = "reading"
    BY DEF Rotation
  <2>3. \/ tail' = tail
        \/ Restore(w) /\ Queue(w, RestoreTask)
        \/ /\ (BeginRefresh(w) \/ RefreshGetsLock(w)) /\ Queue(w, Read("refresh"))
           /\ refreshing[w].at \in {"none", "waiting"} /\ refreshing'[w].at = "reading"
        \/ SignOutGetsLock(w) /\ Queue(w, Write("signOut", NoToken))
    BY <1>0, <2>1, <2>2
  <2> QED
    BY <1>1, <1>2, <2>3, TasksTyped, NoneTyped
<1>5. ASSUME NEW w \in Vaults, CannotRotate(w) PROVE Goal
  <2>1. \/ tail' = tail
        \/ /\ Queue(w, Write("refresh", NoToken))
           /\ refreshing' = [refreshing EXCEPT ![w].at = "writing", ![w].token = NoToken]
    BY <1>5 DEF CannotRotate, Forget, RefreshEnds
  <2>2. \/ tail' = tail
        \/ Queue(w, Write("refresh", NoToken)) /\ refreshing'[w].at = "writing"
    BY <1>0, <2>1 DEF Refreshes
  <2>3. refreshing[w].at \in {"read", "asked"}
    BY <1>5 DEF CannotRotate
  <2> QED
    BY <1>1, <1>2, <1>5, <2>2, <2>3, TasksTyped, NoneTyped
<1>6. ASSUME NEW w \in Vaults, Rotated(w) PROVE Goal
  <2>1. PICK token : token = Answer(w, "refresh").token /\ Write("refresh", token) \in Tasks
    BY <1>6, Answered, TasksTyped DEF Rotated, Kinds
  <2>2. \/ tail' = tail
        \/ /\ Queue(w, Write("refresh", token)) /\ RefreshStands(w)
           /\ refreshing' = [refreshing EXCEPT ![w].at = "writing", ![w].token = token]
    BY <1>6, <2>1 DEF Rotated
  <2>3. \/ tail' = tail
        \/ /\ Queue(w, Write("refresh", token)) /\ RefreshStands(w) /\ refreshing'[w].at = "writing"
    BY <1>0, <2>2 DEF Refreshes
  <2>4. refreshing[w].at = "asked"
    BY <1>6 DEF Rotated
  <2> QED
    BY <1>1, <1>2, <1>6, <2>1, <2>3, <2>4
<1>7. ASSUME NEW w \in Vaults, BeginSignOut(w) PROVE Goal
  <2>1. tail' = [tail EXCEPT ![w] =
                   IF HasLock THEN tail[w] \o ReadThenClear
                   ELSE Append(tail[w] \o ReadThenClear, Write("signOut", NoToken))]
    BY <1>7 DEF BeginSignOut
  <2> QED
    BY <1>0, <1>7, <2>1
<1>8. ASSUME NEW w \in Vaults, StoreStep(w) PROVE Goal
  <2>1. /\ tail[w] # <<>>
        /\ \/ Task(w).do = "read" /\ StoreReads(w) /\ tail' = [tail EXCEPT ![w] = Tail(@)]
           \/ Task(w).do = "write" /\ StoreWrites(w) /\ tail' = [tail EXCEPT ![w] = Tail(@)]
           \/ Task(w).do = "restore" /\ StoreRestores(w) /\ tail' = [tail EXCEPT ![w] = Tail(@)]
           \/ /\ Task(w).do = "restore" /\ StoreRestores(w)
              /\ tail' = [tail EXCEPT ![w][1] = Write("nobody", NoToken)]
    BY <1>8 DEF StoreStep, StoreReads, StoreWrites, StoreRestores, Taken
  <2> QED
    BY <1>0, <1>8, <2>1
<1>9. ASSUME NEW w \in Vaults, Close(w) PROVE Goal
  <2>1. tail' = [tail EXCEPT ![w] = <<>>]
    BY <1>9 DEF Close
  <2>2. tail'[v] = IF w = v THEN <<>> ELSE tail[v]
    BY <1>0, <2>1
  <2> QED
    BY <1>9, <2>2
<1>10. ASSUME UNCHANGED tail PROVE Goal
  BY <1>10
<1> HIDE DEF Goal
<1>11. Goal
  BY <1>3, <1>4, <1>5, <1>6, <1>7, <1>8, <1>9, <1>10, WhoTouches
<1> QED
  BY <1>11 DEF Goal

LEMMA TailTypedStep == TypeInv /\ [Next]_vars => TailTyped'
<1> SUFFICES ASSUME TypeInv, [Next]_vars PROVE TailTyped'
  OBVIOUS
<1>0. tail \in [Vaults -> Seq(Tasks)]
  BY DEF TypeInv, TailTyped
<1>1. ASSUME NEW v \in Vaults PROVE tail'[v] \in Seq(Tasks)
  <2>0. tail[v] \in Seq(Tasks) /\ Write("nobody", NoToken) \in Tasks /\ <<>> \in Seq(Tasks)
    BY <1>0, TasksTyped, NoneTyped
  <2>1. CASE tail'[v] = (IF HasLock THEN tail[v] \o ReadThenClear
                        ELSE Append(tail[v] \o ReadThenClear, Write("signOut", NoToken)))
    BY <2>0, <2>1, SignOutQueues
  <2>2. CASE tail[v] # <<>> /\ tail'[v] = Tail(tail[v])
    BY <2>0, <2>2, TakenOff
  <2>3. CASE tail[v] # <<>> /\ tail'[v] = [tail[v] EXCEPT ![1] = Write("nobody", NoToken)]
    BY <2>0, <2>3, Replaced
  <2> QED
    BY <2>0, <2>1, <2>2, <2>3, TailMoves
<1>2. \E X : tail' \in [Vaults -> X]
  <2>1. ASSUME NEW v \in Vaults, NEW x, tail' = [tail EXCEPT ![v] = x]
        PROVE  \E X : tail' \in [Vaults -> X]
    <3>1. tail' \in [Vaults -> Seq(Tasks) \cup {x}]
      BY <1>0, <2>1
    <3> QED
      BY <3>1
  <2>2. ASSUME NEW v \in Vaults, 
               \/ SignInKept(v) \/ Restore(v) \/ BeginRefresh(v) \/ RefreshGetsLock(v)
               \/ CannotRotate(v) \/ Rotated(v) \/ SignOutGetsLock(v)
        PROVE  \E X : tail' \in [Vaults -> X]
    <3>1. tail' = tail \/ \E e : tail' = [tail EXCEPT ![v] = Append(tail[v], e)]
      BY <2>2 DEF SignInKept, Restore, BeginRefresh, RefreshGetsLock, CannotRotate, Forget, Rotated,
         SignOutGetsLock, Queue
    <3> QED
      BY <1>0, <2>1, <3>1
  <2>3. ASSUME NEW v \in Vaults, BeginSignOut(v) \/ Close(v) PROVE \E X : tail' \in [Vaults -> X]
    <3>1. \E x : tail' = [tail EXCEPT ![v] = x]
      BY <2>3 DEF BeginSignOut, Close
    <3> QED
      BY <2>1, <3>1
  <2>4. ASSUME NEW v \in Vaults, StoreStep(v) PROVE \E X : tail' \in [Vaults -> X]
    <3>1. \E x : tail' = [tail EXCEPT ![v] = x]
      BY <2>4 DEF StoreStep, StoreReads, StoreWrites, StoreRestores, Taken
    <3> QED
      BY <2>1, <3>1
  <2>5. ASSUME UNCHANGED tail PROVE \E X : tail' \in [Vaults -> X]
    BY <1>0, <2>5
  <2> QED
    BY <2>2, <2>3, <2>4, <2>5, WhoTouches
<1> QED
  BY <1>1, <1>2 DEF TailTyped

\* The calls of a vault: nobody else asks or hangs up.
LEMMA AnswerMoves ==
  ASSUME TypeInv, [Next]_vars, NEW v \in Vaults, NEW kind \in Kinds
  PROVE  \/ /\ calls'[<<v, kind>>].what = Answer(v, kind).what
            /\ \/ calls'[<<v, kind>>].token = Answer(v, kind).token
               \/ Answer(v, kind).what = "exchange" /\ OpenSession(<<v, kind>>)
               \/ /\ Answer(v, kind).what = "refresh"
                  /\ calls'[<<v, kind>>].token.of = Answer(v, kind).token.of
         \/ /\ calls'[<<v, kind>>] = NoCall
            /\ \/ kind = "signIn" /\ (SignInKept(v) \/ SignInOver(v) \/ Close(v))
               \/ /\ kind = "refresh"
                  /\ CannotRotate(v) \/ Rotated(v) \/ RotationLost(v) \/ Close(v)
               \/ kind = "signOut"
         \/ /\ kind = "signIn" /\ BeginSignIn(v)
            /\ calls'[<<v, kind>>] = Call("exchange", NoToken)
         \/ /\ kind = "signIn" /\ SignInOvertaken(v)
            /\ calls'[<<v, kind>>] = Call("end", Answer(v, kind).token)
         \/ /\ kind = "refresh" /\ AskRotation(v)
            /\ calls'[<<v, kind>>] = Call("refresh", refreshing[v].token)
         \/ kind = "signOut" /\ (SpendKept(v) \/ AskEnd(v))
<1> DEFINE Goal ==
       \/ /\ calls'[<<v, kind>>].what = Answer(v, kind).what
          /\ \/ calls'[<<v, kind>>].token = Answer(v, kind).token
             \/ Answer(v, kind).what = "exchange" /\ OpenSession(<<v, kind>>)
             \/ /\ Answer(v, kind).what = "refresh"
                /\ calls'[<<v, kind>>].token.of = Answer(v, kind).token.of
       \/ /\ calls'[<<v, kind>>] = NoCall
          /\ \/ kind = "signIn" /\ (SignInKept(v) \/ SignInOver(v) \/ Close(v))
             \/ /\ kind = "refresh"
                /\ CannotRotate(v) \/ Rotated(v) \/ RotationLost(v) \/ Close(v)
             \/ kind = "signOut"
       \/ /\ kind = "signIn" /\ BeginSignIn(v)
          /\ calls'[<<v, kind>>] = Call("exchange", NoToken)
       \/ /\ kind = "signIn" /\ SignInOvertaken(v)
          /\ calls'[<<v, kind>>] = Call("end", Answer(v, kind).token)
       \/ /\ kind = "refresh" /\ AskRotation(v)
          /\ calls'[<<v, kind>>] = Call("refresh", refreshing[v].token)
       \/ kind = "signOut" /\ (SpendKept(v) \/ AskEnd(v))
<1>0. /\ calls \in [Slots -> Calls] /\ \A p \in Slots : CallInv(calls[p])
      /\ rows \in [Sessions -> Rows]
  BY DEF TypeInv, CallsTyped, RowsTyped
<1>1. ASSUME NEW w \in Vaults, NEW k \in Kinds, NEW c, Asks(w, k, c)
      PROVE  calls'[<<v, kind>>] = IF w = v /\ k = kind THEN c ELSE Answer(v, kind)
  <2>1. <<v, kind>> \in Slots /\ <<w, k>> \in Slots
    BY NoneTyped
  <2>2. <<v, kind>> = <<w, k>> <=> (w = v /\ k = kind)
    OBVIOUS
  <2>3. PICK p, q : p = <<v, kind>> /\ q = <<w, k>>
    OBVIOUS
  <2>4. calls'[p] = IF p = q THEN c ELSE calls[p]
    BY <1>0, <1>1, <2>1, <2>3 DEF Asks
  <2> QED
    BY <2>2, <2>3, <2>4 DEF Answer
<1>2. ASSUME NEW w \in Vaults,
             \/ SignInKept(w) \/ SignInOver(w) \/ CannotRotate(w) \/ Rotated(w)
             \/ RotationLost(w) \/ NothingToSpend(w) \/ SignOutAnswered(w)
      PROVE  Goal
  <2>1. \/ (SignInKept(w) \/ SignInOver(w)) /\ Asks(w, "signIn", NoCall)
        \/ (CannotRotate(w) \/ Rotated(w) \/ RotationLost(w)) /\ Asks(w, "refresh", NoCall)
        \/ Asks(w, "signOut", NoCall)
    BY <1>2 DEF SignInKept, SignInOver, CannotRotate, Rotated, RotationLost,
       NothingToSpend, SignOutAnswered, SignOutOver, HangsUp
  <2>2. Kinds = {"signIn", "refresh", "signOut"}
    BY DEF Kinds
  <2> QED
    BY <1>1, <2>1, <2>2
<1>3. ASSUME NEW w \in Vaults, BeginSignIn(w) \/ SignInOvertaken(w) \/ AskRotation(w)
      PROVE  Goal
  <2>1. \/ BeginSignIn(w) /\ Asks(w, "signIn", Call("exchange", NoToken))
        \/ SignInOvertaken(w) /\ Asks(w, "signIn", Call("end", Answer(w, "signIn").token))
        \/ AskRotation(w) /\ Asks(w, "refresh", Call("refresh", refreshing[w].token))
    BY <1>3 DEF BeginSignIn, SignInOvertaken, AskRotation
  <2>2. "signIn" \in Kinds /\ "refresh" \in Kinds
    BY DEF Kinds
  <2> QED
    BY <1>1, <2>1, <2>2
<1>4. ASSUME NEW w \in Vaults, SpendKept(w) \/ AskEnd(w) PROVE Goal
  <2>1. \E c : Asks(w, "signOut", c)
    BY <1>4 DEF SpendKept, AskEnd
  <2>2. "signOut" \in Kinds
    BY DEF Kinds
  <2> QED
    BY <1>1, <1>4, <2>1, <2>2
<1>5. ASSUME NEW w \in Vaults, Close(w) PROVE Goal
  <2>1. PICK k \in Kinds :
          calls' = [o \in Slots |-> IF o = <<w, "stray">> THEN calls[<<w, k>>]
                                    ELSE IF o[1] = w THEN NoCall ELSE calls[o]]
    BY <1>5 DEF Close
  <2>2. <<v, kind>> \in Slots /\ <<v, kind>> # <<w, "stray">> /\ <<v, kind>>[1] = v
    BY NoneTyped DEF Kinds
  <2>3. calls'[<<v, kind>>] = IF v = w THEN NoCall ELSE calls[<<v, kind>>]
    BY <2>1, <2>2
  <2> QED
    BY <1>5, <2>3 DEF Answer, Kinds
<1>6. ASSUME NEW o \in Slots, BookStep(o) \/ CallLost(o) PROVE Goal
  <2>0. calls[o] \in Calls /\ CallInv(calls[o]) /\ <<v, kind>> \in Slots
    BY <1>0, NoneTyped
  <2>1. CASE o # <<v, kind>>
    <3>1. \/ calls' = calls \/ \E x : calls' = [calls EXCEPT ![o].at = x]
          \/ \E x, y : calls' = [calls EXCEPT ![o].at = x, ![o].token = y]
      <4>1. Replay(o) => Refuses(o) \/ \E y : Answers(o, y)
        BY DEF Replay
      <4>2. OpenSession(o) => \E y : Answers(o, y)
        BY DEF OpenSession
      <4>3. EndRow(o) => Refuses(o) \/ \E y : Answers(o, y)
        BY DEF EndRow
      <4>4. ReadRow(o) \/ WriteRow(o) =>
              Replay(o) \/ Refuses(o) \/ (\E y : Answers(o, y)) \/ calls' = [calls EXCEPT ![o].at = "read"]
        BY DEF ReadRow, WriteRow
      <4>5. CallLost(o) => calls' = [calls EXCEPT ![o].at = "lost"]
        BY DEF CallLost
      <4> QED
        BY <1>6, <4>1, <4>2, <4>3, <4>4, <4>5 DEF BookStep, Answers, Refuses
    <3>2. PICK p \in Slots : p = <<v, kind>> /\ p # o
      BY <2>0, <2>1
    <3>3. calls'[p] = calls[p]
      BY <1>0, <3>1, <3>2
    <3> QED
      BY <3>2, <3>3 DEF Answer
  <2>2. CASE o = <<v, kind>>
    <3>1. ASSUME NEW x, NEW y, \/ calls' = [calls EXCEPT ![o].at = x, ![o].token = y]
                               \/ y = calls[o].token /\ calls' = [calls EXCEPT ![o].at = x]
          PROVE  calls'[o].what = calls[o].what /\ calls'[o].token = y
      BY <1>0, <2>0, <3>1 DEF Calls
    <3>2. CASE OpenSession(o)
      <4>1. calls[o].what = "exchange" /\ \E y : calls' = [calls EXCEPT ![o].at = "answered", ![o].token = y]
        BY <3>2 DEF OpenSession, Sent, Answers
      <4> QED
        BY <2>2, <3>1, <3>2, <4>1 DEF Answer
    <3>3. CASE EndRow(o) \/ CallLost(o)
      <4>1. \/ \E x : calls' = [calls EXCEPT ![o].at = x]
            \/ calls' = [calls EXCEPT ![o].at = "answered", ![o].token = calls[o].token]
        BY <3>3 DEF EndRow, CallLost, Answers, Refuses
      <4>2. PICK token : token = calls[o].token
        OBVIOUS
      <4>3. calls'[o].what = calls[o].what /\ calls'[o].token = token
        BY <3>1, <4>1, <4>2
      <4> QED
        BY <2>2, <4>2, <4>3 DEF Answer
    <3>4. CASE ReadRow(o) \/ WriteRow(o)
      <4>1. calls[o].what = "refresh"
        BY <2>0, <3>4 DEF ReadRow, Sent, WriteRow, CallInv
      <4>2. \/ \E x : calls' = [calls EXCEPT ![o].at = x]
            \/ \E at : calls' = [calls EXCEPT ![o].at = "answered",
                                              ![o].token = [of |-> calls[o].token.of, at |-> at]]
        BY <3>4 DEF ReadRow, WriteRow, Replay, Answers, Refuses
      <4>3. calls'[o].what = calls[o].what /\ calls'[o].token.of = calls[o].token.of
        BY <3>1, <4>2
      <4> QED
        BY <2>2, <4>1, <4>3 DEF Answer
    <3> QED
      BY <1>6, <3>2, <3>3, <3>4 DEF BookStep
  <2> QED
    BY <2>1, <2>2
<1>7. ASSUME UNCHANGED calls PROVE Goal
  BY <1>7 DEF Answer
<1> HIDE DEF Goal
<1>8. Goal
  BY <1>2, <1>3, <1>4, <1>5, <1>6, <1>7, WhoTouches
<1> QED
  BY <1>8 DEF Goal

LEMMA RefreshAnswer ==
  ASSUME TypeInv, [Next]_vars, NEW v \in Vaults
  PROVE  \/ /\ calls'[<<v, "refresh">>].what = Answer(v, "refresh").what
            /\ \/ calls'[<<v, "refresh">>].token.of = Answer(v, "refresh").token.of
               \/ Answer(v, "refresh").what = "exchange"
         \/ CannotRotate(v) \/ Rotated(v) \/ RotationLost(v) \/ Close(v) \/ AskRotation(v)
<1>1. "refresh" \in Kinds
  BY DEF Kinds
<1> QED
  BY <1>1, AnswerMoves

LEMMA RefreshInvStep == TypeInv /\ [Next]_vars => \A v \in Vaults : RefreshInv(v)'
<1> SUFFICES ASSUME TypeInv, [Next]_vars, NEW v \in Vaults PROVE RefreshInv(v)'
  OBVIOUS
<1>0. /\ refreshing \in [Vaults -> Refreshes] /\ RefreshInv(v) /\ epoch \in [Vaults -> Nat]
      /\ signOut \in [Vaults -> SignOuts]
  BY DEF TypeInv, OpsTyped, KnownTyped
<1>5. /\ NoRefresh.at = "none" /\ NoRefresh.token = NoToken /\ NoRefresh.epoch = 0
      /\ Rotation(v).at = "reading" /\ Rotation(v).token = NoToken
      /\ Rotation(v).epoch = epoch[v] /\ NoSignOut.at = "none"
  BY DEF NoRefresh, Rotation, NoSignOut
<1>1. refreshing'[v].at = "asked" =>
        /\ calls'[<<v, "refresh">>].what = "refresh"
        /\ calls'[<<v, "refresh">>].token.of = refreshing'[v].token.of
  <2> SUFFICES ASSUME refreshing'[v].at = "asked"
               PROVE  /\ calls'[<<v, "refresh">>].what = "refresh"
                      /\ calls'[<<v, "refresh">>].token.of = refreshing'[v].token.of
    OBVIOUS
  <2>1. CASE AskRotation(v)
    <3>1. /\ refreshing' = [refreshing EXCEPT ![v].at = "asked"]
          /\ calls' = [calls EXCEPT ![<<v, "refresh">>] = Call("refresh", refreshing[v].token)]
      BY <2>1 DEF AskRotation, RefreshAt, Asks
    <3>2. PICK o \in Slots : o = <<v, "refresh">> /\ calls \in [Slots -> Calls]
      BY NoneTyped DEF Kinds, TypeInv, CallsTyped
    <3>3. calls'[o] = Call("refresh", refreshing[v].token)
      BY <3>1, <3>2
    <3>4. refreshing'[v].token = refreshing[v].token
      BY <1>0, <3>1 DEF Refreshes
    <3> QED
      BY <3>2, <3>3, <3>4 DEF Call
  <2>2. CASE refreshing'[v] = refreshing[v]
    <3>1. /\ Answer(v, "refresh").what = "refresh"
          /\ Answer(v, "refresh").token.of = refreshing[v].token.of
      BY <1>0, <2>2 DEF RefreshInv
    <3>2. ASSUME CannotRotate(v) \/ Rotated(v) \/ RotationLost(v) \/ Close(v) PROVE FALSE
      <4>1. \/ \E at \in {"writing", "done", "threw"} : \E token :
                 refreshing' = [refreshing EXCEPT ![v].at = at, ![v].token = token]
            \/ refreshing' = [refreshing EXCEPT ![v] = NoRefresh]
        BY <3>2 DEF CannotRotate, Forget, Rotated, RotationLost, RefreshEnds, Close
      <4>2. NoRefresh.at # "asked"
        BY DEF NoRefresh
      <4>3. refreshing'[v].at # "asked"
        BY <1>0, <4>1, <4>2 DEF Refreshes
      <4> QED
        BY <2>2, <4>3
    <3>3. ~ AskRotation(v) =>
            /\ calls'[<<v, "refresh">>].what = Answer(v, "refresh").what
            /\ calls'[<<v, "refresh">>].token.of = Answer(v, "refresh").token.of
      BY <3>1, <3>2, RefreshAnswer
    <3> QED
      BY <2>1, <2>2, <3>1, <3>3
  <2> QED
    BY <1>5, <2>1, <2>2, RefreshAfter
<1>2. refreshing'[v].at \in {"none", "waiting", "reading"} => refreshing'[v].token = NoToken
  BY <1>0, <1>5, RefreshAfter DEF RefreshInv
<1>3. refreshing'[v].epoch <= epoch'[v]
  <2>1. refreshing[v].epoch <= epoch[v] /\ refreshing[v].epoch \in Nat /\ epoch[v] \in Nat
    BY <1>0 DEF RefreshInv, Refreshes
  <2>2. CASE Close(v)
    BY <1>0, <2>2 DEF Close, NoRefresh
  <2>3. \/ refreshing'[v].epoch = refreshing[v].epoch
        \/ refreshing'[v].epoch = epoch[v]
        \/ refreshing'[v].epoch = 0
    BY <1>5, RefreshAfter
  <2>4. ~ Close(v) => epoch'[v] = epoch[v] \/ epoch'[v] = epoch[v] + 1
    <3>1. ASSUME NEW w \in Vaults, 
                 \/ SignInKept(w) \/ NothingKept(w) \/ CannotRotate(w) \/ Rotated(w)
                 \/ BeginSignOut(w)
          PROVE  epoch'[v] = epoch[v] \/ epoch'[v] = epoch[v] + 1
      <4>1. epoch' = epoch \/ epoch' = [epoch EXCEPT ![w] = @ + 1]
        BY <3>1 DEF SignInKept, NothingKept, CannotRotate, Forget, Rotated, BeginSignOut
      <4> QED
        BY <1>0, <4>1
    <3>2. ASSUME NEW w \in Vaults, Close(w), w # v PROVE epoch'[v] = epoch[v]
      BY <1>0, <3>2 DEF Close
    <3>3. UNCHANGED memory => epoch' = epoch
      BY DEF memory
    <3> QED
      BY <3>1, <3>2, <3>3, WhoTouches
  <2> QED
    BY <2>1, <2>2, <2>3, <2>4
<1>4. ~ HasLock => refreshing'[v].at # "waiting" /\ signOut'[v].at # "waiting"
  <2>1. ~ HasLock => refreshing'[v].at # "waiting"
    BY <1>0, <1>5, RefreshAfter DEF RefreshInv
  <2>2. ~ HasLock => signOut'[v].at # "waiting"
    BY <1>0, <1>5, SignOutAfter DEF RefreshInv
  <2> QED
    BY <2>1, <2>2
<1> QED
  BY <1>1, <1>2, <1>3, <1>4 DEF RefreshInv, Answer

LEMMA Fields ==
  /\ NoRefresh.at = "none" /\ NoRefresh.token = NoToken /\ NoRefresh.epoch = 0
  /\ NoSignOut.at = "none" /\ NoSignOut.meant = {}
  /\ \A v \in Vaults : /\ Rotation(v).at = "reading" /\ Rotation(v).token = NoToken
                       /\ Rotation(v).epoch = epoch[v]
  /\ \A who : Read(who).do = "read" /\ Read(who).who = who /\ Read(who).what = NoToken
  /\ \A who, what : /\ Write(who, what).do = "write" /\ Write(who, what).who = who
                    /\ Write(who, what).what = what
  /\ RestoreTask.do = "restore" /\ RestoreTask.who = "nobody" /\ RestoreTask.what = NoToken
  /\ \A t \in Tasks : t.do = "write" /\ t.who = "signOut" /\ t.what = NoToken =>
       t = Write("signOut", NoToken)
  /\ NoToken.of = 0 /\ NoToken \notin Tokens
  /\ \A s \in Sessions : s # 0
BY DEF NoRefresh, NoSignOut, Rotation, Read, Write, RestoreTask, Tasks, NoToken, Tokens, Sessions

\* A task that stays in the queue keeps its waiter where it was.
LEMMA TaskStays ==
  ASSUME TypeInv, [Next]_vars, NEW v \in Vaults, NEW t \in Tasks, TaskInv(v, t), ~ Close(v),
         t.who = "refresh" => ~ (StoreStep(v) /\ Task(v).who = "refresh"),
         t.do = "write" /\ t.who = "signOut" =>
           ~ (StoreWrites(v) /\ Task(v).who = "signOut")
  PROVE  TaskAt(t, refreshing'[v].at, signOut'[v].at)
<1>1. /\ RefreshGetsLock(v) => refreshing[v].at = "waiting"
      /\ BeginRefresh(v) => refreshing[v].at = "none"
      /\ FinishRefresh(v) => refreshing[v].at \in {"done", "threw"}
      /\ StoreReads(v) \/ StoreWrites(v) => StoreStep(v)
  BY DEF RefreshGetsLock, BeginRefresh, FinishRefresh, StoreStep
<1>2. t.who = "refresh" => refreshing'[v].at = (IF t.do = "read" THEN "reading" ELSE "writing")
  <2> SUFFICES ASSUME t.who = "refresh" PROVE refreshing'[v].at = refreshing[v].at
    BY DEF TaskInv, TaskAt
  <2>1. refreshing[v].at \in {"reading", "writing"}
    BY DEF TaskInv, TaskAt
  <2> QED
    BY <1>1, <2>1, RefreshMoves
<1>3. NothingToSpend(v) \/ SignOutAnswered(v) => signOut[v].at \in {"joining", "spending", "ending"}
  BY DEF NothingToSpend, SignOutAnswered
<1>4. t.do = "write" /\ t.who = "signOut" => signOut'[v].at = "clearing"
  <2> SUFFICES ASSUME t.do = "write", t.who = "signOut" PROVE signOut'[v].at = signOut[v].at
    BY DEF TaskInv, TaskAt
  <2>1. signOut[v].at = "clearing"
    BY DEF TaskInv, TaskAt
  <2> QED
    BY <1>3, <2>1, SignOutMoves
<1> QED
  BY <1>2, <1>4 DEF TaskInv, TaskAt

LEMMA TailInvStep == TypeInv /\ [Next]_vars => \A v \in Vaults : TailInv(v)'
<1> SUFFICES ASSUME TypeInv, [Next]_vars, NEW v \in Vaults PROVE TailInv(v)'
  OBVIOUS
<1> DEFINE w == Write("signOut", NoToken)
           Stays(t) == TaskAt(t, refreshing'[v].at, signOut'[v].at)
<1>0. /\ tail[v] \in Seq(Tasks) /\ TailInv(v)
      /\ \A i \in DOMAIN tail[v] : tail[v][i] \in Tasks /\ TaskInv(v, tail[v][i])
  BY DEF TypeInv, TailTyped, TailInv
<1>9. ASSUME \A i \in DOMAIN tail'[v] : Stays(tail'[v][i]),
             \A i, j \in DOMAIN tail'[v] :
               tail'[v][i].who = "refresh" /\ tail'[v][j].who = "refresh" => i = j,
             \A i, j \in DOMAIN tail'[v] : tail'[v][i] = w /\ tail'[v][j] = w => i = j
      PROVE  TailInv(v)'
  BY <1>9 DEF TailInv, TaskInv
<1> HIDE DEF w, Stays
<1>1. CASE Close(v)
  <2>1. tail'[v] = <<>>
    BY <1>1 DEF Close, TypeInv, TailTyped
  <2> QED
    BY <1>9, <2>1
<1>2. CASE ~ Close(v) /\ StoreStep(v)
  <2>0. tail[v] # <<>>
    BY <1>2 DEF StoreStep, StoreReads, StoreWrites, StoreRestores
  <2>1. /\ Shifted(tail[v], Tail(tail[v])) /\ Task(v) = tail[v][1] /\ 1 \in DOMAIN tail[v]
        /\ Task(v) \in Tasks /\ TaskInv(v, Task(v))
    BY <2>0, AtTask
  <2>2. \/ tail'[v] = Tail(tail[v])
        \/ Task(v).do = "restore" /\ tail'[v] = [tail[v] EXCEPT ![1] = Write("nobody", NoToken)]
    <3>1. tail \in [Vaults -> Seq(Tasks)]
      BY DEF TypeInv, TailTyped
    <3> QED
      BY <1>2, <3>1 DEF StoreStep, StoreReads, StoreWrites, StoreRestores, Taken
  <2>3. ASSUME NEW i \in DOMAIN tail[v], i # 1 PROVE Stays(tail[v][i])
    <3>1. tail[v][i].who = "refresh" => Task(v).who # "refresh"
      BY <1>0, <2>1, <2>3 DEF TailInv
    <3>2. tail[v][i].do = "write" /\ tail[v][i].who = "signOut" =>
            ~ (StoreWrites(v) /\ Task(v).who = "signOut")
      <4>1. StoreWrites(v) => Task(v).do = "write"
        BY DEF StoreWrites
      <4>2. \A t \in Tasks : TaskInv(v, t) /\ t.do = "write" /\ t.who = "signOut" => t = w
        BY Fields DEF TaskInv, TaskAt, w
      <4> QED
        BY <1>0, <2>1, <2>3, <4>1, <4>2 DEF TailInv, w
    <3>3. PICK t \in Tasks : t = tail[v][i] /\ TaskInv(v, t)
      BY <1>0
    <3>4. Stays(t)
      BY <1>2, <3>1, <3>2, <3>3, TaskStays DEF Stays
    <3> QED
      BY <3>3, <3>4
  <2>4. CASE tail'[v] = Tail(tail[v])
    <3>1. \A i \in DOMAIN tail'[v] : /\ i \in Nat /\ i + 1 \in DOMAIN tail[v] /\ i + 1 # 1
                                     /\ tail'[v][i] = tail[v][i + 1]
      BY <2>1, <2>4 DEF Shifted
    <3>2. \A i, j \in DOMAIN tail'[v] : i + 1 = j + 1 => i = j
      BY <3>1
    <3>3. \A i \in DOMAIN tail'[v] : Stays(tail'[v][i])
      BY <2>3, <3>1
    <3>4. \A i, j \in DOMAIN tail'[v] :
            tail'[v][i].who = "refresh" /\ tail'[v][j].who = "refresh" => i = j
      BY <1>0, <3>1, <3>2 DEF TailInv
    <3>5. \A i, j \in DOMAIN tail'[v] : tail'[v][i] = w /\ tail'[v][j] = w => i = j
      BY <1>0, <3>1, <3>2 DEF TailInv, w
    <3> QED
      BY <1>9, <3>3, <3>4, <3>5
  <2>5. CASE tail'[v] = [tail[v] EXCEPT ![1] = Write("nobody", NoToken)]
    <3>0. PICK e \in Tasks : e = Write("nobody", NoToken)
      BY TasksTyped, NoneTyped
    <3>1. /\ DOMAIN tail'[v] = DOMAIN tail[v] /\ tail'[v][1] = e
          /\ \A i \in DOMAIN tail[v] : i # 1 => tail'[v][i] = tail[v][i]
      BY <1>0, <2>0, <2>5, <3>0, Replaced
    <3>2. e.who = "nobody" /\ e # w /\ Stays(e)
      BY <3>0, Fields DEF w, Stays, TaskAt
    <3>3. \A i \in DOMAIN tail'[v] : Stays(tail'[v][i])
      BY <2>3, <3>1, <3>2
    <3>4. \A i, j \in DOMAIN tail'[v] :
            tail'[v][i].who = "refresh" /\ tail'[v][j].who = "refresh" => i = j
      BY <1>0, <3>1, <3>2 DEF TailInv
    <3>5. \A i, j \in DOMAIN tail'[v] : tail'[v][i] = w /\ tail'[v][j] = w => i = j
      BY <1>0, <3>1, <3>2 DEF TailInv, w
    <3> QED
      BY <1>9, <3>3, <3>4, <3>5
  <2> QED
    BY <2>2, <2>4, <2>5
<1>3. CASE ~ Close(v) /\ ~ StoreStep(v)
  <2>1. ASSUME NEW i \in DOMAIN tail[v] PROVE Stays(tail[v][i])
    <3>1. PICK t \in Tasks : t = tail[v][i] /\ TaskInv(v, t)
      BY <1>0
    <3>2. Stays(t)
      BY <1>3, <3>1, TaskStays DEF Stays, StoreStep
    <3> QED
      BY <3>1, <3>2
  <2>2. CASE tail'[v] = tail[v]
    BY <1>0, <1>9, <2>1, <2>2 DEF TailInv, w
  <2>3. ASSUME NEW e \in Tasks, Grown(tail[v], tail'[v], e), Stays(e),
               e.who = "refresh" => refreshing[v].at \in {"none", "waiting", "read", "asked"},
               e = w => signOut[v].at = "waiting"
        PROVE  TailInv(v)'
    <3>1. \A i \in DOMAIN tail'[v] : \/ i \in DOMAIN tail[v] /\ tail'[v][i] = tail[v][i]
                                     \/ i = Len(tail[v]) + 1 /\ tail'[v][i] = e
      BY <2>3 DEF Grown
    <3>2. \A i \in DOMAIN tail[v] : /\ e.who = "refresh" => tail[v][i].who # "refresh"
                                    /\ e = w => tail[v][i] # w
      BY <1>0, <2>3, Fields DEF TaskInv, TaskAt, w
    <3>3. \A i \in DOMAIN tail'[v] : Stays(tail'[v][i])
      BY <2>1, <2>3, <3>1
    <3>4. \A i, j \in DOMAIN tail'[v] :
            tail'[v][i].who = "refresh" /\ tail'[v][j].who = "refresh" => i = j
      BY <1>0, <3>1, <3>2 DEF TailInv
    <3>5. \A i, j \in DOMAIN tail'[v] : tail'[v][i] = w /\ tail'[v][j] = w => i = j
      BY <1>0, <3>1, <3>2 DEF TailInv, w
    <3> QED
      BY <1>9, <3>3, <3>4, <3>5
  <2>4. ASSUME NEW e \in Tasks, Grown(tail[v], tail'[v], e),
               \/ SignInKept(v) /\ e = Write("signIn", Answer(v, "signIn").token)
               \/ Restore(v) /\ e = RestoreTask
               \/ /\ BeginRefresh(v) \/ RefreshGetsLock(v)
                  /\ e = Read("refresh") /\ refreshing'[v].at = "reading"
                  /\ refreshing[v].at \in {"none", "waiting"}
               \/ /\ CannotRotate(v) /\ e = Write("refresh", NoToken)
                  /\ refreshing[v].at \in {"read", "asked"} /\ refreshing'[v].at = "writing"
               \/ /\ Rotated(v) /\ RefreshStands(v)
                  /\ refreshing[v].at = "asked" /\ refreshing'[v].at = "writing"
                  /\ e = Write("refresh", Answer(v, "refresh").token)
               \/ SignOutGetsLock(v) /\ e = Write("signOut", NoToken)
        PROVE  TailInv(v)'
    <3>1. CASE SignInKept(v) /\ e = Write("signIn", Answer(v, "signIn").token)
      <4>1. Answer(v, "signIn").token \in Tokens
        BY <3>1, Answered DEF SignInKept, Kinds
      <4>2. e.do = "write" /\ e.who = "signIn" /\ e.what \in Tokens /\ w.who = "signOut"
        BY <3>1, <4>1, Fields DEF w
      <4> QED
        BY <2>3, <2>4, <4>2 DEF Stays, TaskAt
    <3>2. CASE e = RestoreTask
      <4>1. e.do = "restore" /\ e.who = "nobody" /\ e.what = NoToken /\ w.who = "signOut"
        BY <3>2, Fields DEF w
      <4> QED
        BY <2>3, <2>4, <4>1 DEF Stays, TaskAt
    <3>3. ASSUME e.who = "refresh", refreshing[v].at \in {"none", "waiting", "read", "asked"},
                 refreshing'[v].at = (IF e.do = "read" THEN "reading" ELSE "writing"),
                 e.do = "read" => e.what = NoToken, e.do \in {"read", "write"}
          PROVE  TailInv(v)'
      <4>1. w.who = "signOut"
        BY Fields DEF w
      <4> QED
        BY <2>3, <2>4, <3>3, <4>1 DEF Stays, TaskAt
    <3>4. CASE e = Read("refresh") /\ refreshing'[v].at = "reading"
                 /\ refreshing[v].at \in {"none", "waiting"}
      BY <3>3, <3>4, Fields
    <3>5. CASE /\ \E token : e = Write("refresh", token)
               /\ refreshing[v].at \in {"read", "asked"} /\ refreshing'[v].at = "writing"
      BY <3>3, <3>5, Fields
    <3>6. CASE SignOutGetsLock(v) /\ e = Write("signOut", NoToken)
      <4>1. e.do = "write" /\ e.who = "signOut" /\ e.what = NoToken
        BY <3>6, Fields
      <4>2. signOut[v].at = "waiting" /\ signOut' = [signOut EXCEPT ![v].at = "clearing"]
        BY <3>6 DEF SignOutGetsLock
      <4>3. signOut'[v].at = "clearing"
        BY <4>2 DEF TypeInv, OpsTyped, SignOuts
      <4> QED
        BY <2>3, <2>4, <4>1, <4>2, <4>3 DEF Stays, TaskAt
    <3> QED
      BY <2>4, <3>1, <3>2, <3>4, <3>5, <3>6
  <2>5. CASE /\ BeginSignOut(v)
             /\ tail'[v] = IF HasLock THEN tail[v] \o ReadThenClear
                           ELSE Append(tail[v] \o ReadThenClear, Write("signOut", NoToken))
    <3>0. PICK q : /\ q = tail'[v]
                   /\ \/ q = tail[v] \o ReadThenClear
                      \/ q = Append(tail[v] \o ReadThenClear, Write("signOut", NoToken))
      BY <2>5
    <3>10. PICK p \in Seq(Tasks) : p = tail[v]
      BY <1>0
    <3>11. \/ q = p \o ReadThenClear
           \/ q = Append(p \o ReadThenClear, Write("signOut", NoToken))
      BY <3>0, <3>10
    <3>12. /\ \A i \in DOMAIN q :
                \/ i \in DOMAIN p /\ q[i] = p[i]
                \/ i = Len(p) + 1 /\ q[i] = Read("signOut")
                \/ i = Len(p) + 2 /\ q[i] = Write("nobody", NoToken)
                \/ i = Len(p) + 3 /\ q[i] = Write("signOut", NoToken)
           /\ q = p \o ReadThenClear => Len(p) + 3 \notin DOMAIN q
      BY <3>11, SignOutQueues
    <3>1. \A i \in DOMAIN q :
            \/ i \in DOMAIN tail[v] /\ q[i] = tail[v][i]
            \/ i = Len(tail[v]) + 1 /\ q[i] = Read("signOut")
            \/ i = Len(tail[v]) + 2 /\ q[i] = Write("nobody", NoToken)
            \/ i = Len(tail[v]) + 3 /\ q[i] = Write("signOut", NoToken)
      BY <3>10, <3>12
    <3>2. /\ Read("signOut").who = "signOut" /\ Write("nobody", NoToken).who = "nobody"
          /\ w.who = "signOut" /\ w.do = "write" /\ Read("signOut").do = "read"
          /\ w.what = NoToken /\ Read("signOut").what = NoToken
          /\ Write("nobody", NoToken).what = NoToken
      BY Fields DEF w
    <3>3. HasLock => q = tail[v] \o ReadThenClear
      BY <2>5, <3>0
    <3>4. signOut[v].at = "none" /\ (~ HasLock => signOut'[v].at = "clearing")
      <4>1. signOut[v].at = "none"
        BY <2>5 DEF BeginSignOut
      <4>2. PICK o : /\ o = [NoSignOut EXCEPT !.at = IF HasLock THEN "waiting" ELSE "clearing",
                                              !.known = current[v],
                                              !.joins = refreshing[v].at # "none",
                                              !.meant = {store.of, current[v].of} \ {0}]
                     /\ signOut' = [signOut EXCEPT ![v] = o]
        BY <2>5 DEF BeginSignOut
      <4>3. ~ HasLock => o.at = "clearing"
        BY <4>2 DEF NoSignOut
      <4>4. signOut'[v] = o
        BY <4>2 DEF TypeInv, OpsTyped
      <4> QED
        BY <4>1, <4>3, <4>4
    <3>5. HasLock => \A i \in DOMAIN q : i # Len(tail[v]) + 3
      BY <3>3, <3>10, <3>12
    <3>6. \A i \in DOMAIN q : Stays(q[i])
      BY <2>1, <3>1, <3>2, <3>4, <3>5 DEF Stays, TaskAt, w
    <3>7. \A i, j \in DOMAIN q : q[i].who = "refresh" /\ q[j].who = "refresh" => i = j
      BY <1>0, <3>1, <3>2 DEF TailInv, w
    <3>8. \A i \in DOMAIN tail[v] : tail[v][i] # w
      BY <1>0, <3>2, <3>4 DEF TaskInv, TaskAt
    <3>9. \A i, j \in DOMAIN q : q[i] = w /\ q[j] = w => i = j
      BY <3>1, <3>2, <3>8 DEF w
    <3> QED
      BY <1>9, <3>0, <3>6, <3>7, <3>9
  <2> QED
    BY <1>3, <2>2, <2>4, <2>5, TailMoves DEF StoreStep
<1> QED
  BY <1>1, <1>2, <1>3

LEMMA TypeInvStep == TypeInv /\ [Next]_vars => TypeInv'
<1> SUFFICES ASSUME TypeInv, [Next]_vars PROVE TypeInv'
  OBVIOUS
<1>1. KeptTyped' /\ KnownTyped' /\ TailTyped'
  BY KeptTypedStep, KnownTypedStep, TailTypedStep
<1>2. OpsTyped'
  BY SignInTypedStep, RefreshTypedStep, SignOutTypedStep DEF OpsTyped
<1>3. CallsTyped' /\ \A o \in Slots : CallInv(calls'[o])
  BY CallsStep
<1>4. RowsTyped' /\ CountTyped' /\ GhostsTyped'
  BY RowsStep, CountStep, GhostsStep
<1>5. \A v \in Vaults : RefreshInv(v)' /\ TailInv(v)'
  BY RefreshInvStep, TailInvStep
<1> QED
  BY <1>1, <1>2, <1>3, <1>4, <1>5 DEF TypeInv

LEMMA TypeInvHolds == Spec => []TypeInv
<1> QED
  BY TypeInvInit, TypeInvStep, PTL DEF Spec

\* Every variable keeps its type, whatever the vaults, the book, the network
\* and the clock do (session-vault.ts:43).
THEOREM TypeCorrect == Spec => []TypeOK
<1> QED
  BY TypeInvHolds, TypeInvTypes, PTL

-----------------------------------------------------------------------------
(* Where a token goes: from a request to what a vault knows, through the queue
   to the store, and from there into a refresh or a sign-out. *)

\* How often a session rotated, which the book counts with its answers.
LEMMA RowsGrow ==
  ASSUME TypeInv, [Next]_vars, NEW s \in Sessions
  PROVE  \/ rows'[s].at = rows[s].at
         \/ rows[s].at = 0 /\ rows'[s].at = 1
         \/ \E o \in Slots :
              /\ WriteRow(o) /\ calls[o].at = "read" /\ calls[o].what = "refresh"
              /\ calls[o].token \in Tokens /\ calls[o].token.of = s
              /\ calls[o].token.at = rows[s].at /\ rows'[s].at = rows[s].at + 1
              /\ calls'[o].token.at = rows'[s].at
<1> DEFINE Goal ==
       \/ rows'[s].at = rows[s].at
       \/ rows[s].at = 0 /\ rows'[s].at = 1
       \/ \E o \in Slots :
            /\ WriteRow(o) /\ calls[o].at = "read" /\ calls[o].what = "refresh"
            /\ calls[o].token \in Tokens /\ calls[o].token.of = s
            /\ calls[o].token.at = rows[s].at /\ rows'[s].at = rows[s].at + 1
            /\ calls'[o].token.at = rows'[s].at
<1>0. calls \in [Slots -> Calls] /\ rows \in [Sessions -> Rows] /\ \A o \in Slots : CallInv(calls[o])
  BY DEF TypeInv, RowsTyped, CallsTyped
<1>1. ASSUME NEW o \in Slots, BookStep(o) PROVE Goal
  <2>1. \/ \E t \in Sessions, r \in {[NoRow EXCEPT !.at = 1, !.is = "open", !.live = TRUE]} :
             rows[t].at = 0 /\ rows' = [rows EXCEPT ![t] = r]
        \/ \E t \in {calls[o].token.of} :
             \/ \E x : rows' = [rows EXCEPT ![t].is = x]
             \/ /\ WriteRow(o) /\ calls[o].at = "read" /\ calls[o].token.at = rows[t].at
                /\ rows' = [rows EXCEPT ![t].at = @ + 1, ![t].fresh = TRUE, ![t].live = TRUE]
                /\ Answers(o, [of |-> t, at |-> calls[o].token.at + 1])
        \/ rows' = rows
    BY <1>1 DEF BookStep, OpenSession, ReadRow, WriteRow, EndRow, Replay
  <2>2. \A r \in {[NoRow EXCEPT !.at = 1, !.is = "open", !.live = TRUE]} : r.at = 1
    BY DEF NoRow
  <2>3. ASSUME NEW t, t = calls[o].token.of,
               WriteRow(o), calls[o].at = "read", calls[o].token.at = rows[t].at,
               rows' = [rows EXCEPT ![t].at = @ + 1, ![t].fresh = TRUE, ![t].live = TRUE],
               Answers(o, [of |-> t, at |-> calls[o].token.at + 1])
        PROVE  Goal
    <3>1. CASE t = s
      <4>1. PICK r : r = [rows EXCEPT ![s].at = @ + 1]
        OBVIOUS
      <4>2. r \in [Sessions -> Rows] /\ r[s].at = rows[s].at + 1
        BY <1>0, <4>1 DEF Rows
      <4>3. rows' = [r EXCEPT ![s].fresh = TRUE, ![s].live = TRUE]
        BY <1>0, <2>3, <3>1, <4>1
      <4>4. rows'[s].at = r[s].at
        BY <4>2, <4>3 DEF Rows
      <4>5. calls[o].what = "refresh" /\ calls[o].token \in Tokens
        BY <1>0, <2>3 DEF CallInv
      <4>6. PICK token : token = [of |-> t, at |-> calls[o].token.at + 1]
        OBVIOUS
      <4>7. token.at = rows[s].at + 1
        BY <2>3, <3>1, <4>6
      <4>8. calls'[o].token = token
        BY <1>0, <2>3, <4>6 DEF Answers, Calls
      <4> QED
        BY <2>3, <3>1, <4>2, <4>4, <4>5, <4>7, <4>8
    <3>2. CASE t # s
      BY <1>0, <2>3, <3>2
    <3> QED
      BY <3>1, <3>2
  <2>4. ASSUME NEW t, NEW x, rows' = [rows EXCEPT ![t].is = x] PROVE Goal
    BY <1>0, <2>4 DEF Rows
  <2>5. ASSUME NEW t \in Sessions, NEW r, r.at = 1, rows[t].at = 0, rows' = [rows EXCEPT ![t] = r]
        PROVE  Goal
    BY <1>0, <2>5
  <2> QED
    BY <2>1, <2>2, <2>3, <2>4, <2>5
<1>2. ASSUME NEW t \in Sessions, ClockMoves(t) PROVE Goal
  <2>1. \/ \E x : rows' = [rows EXCEPT ![t].live = x]
        \/ \E x : rows' = [rows EXCEPT ![t].fresh = x]
        \/ \E x : rows' = [rows EXCEPT ![t].past = x]
    BY <1>2 DEF ClockMoves
  <2> QED
    BY <1>0, <2>1 DEF Rows
<1>3. CASE UNCHANGED rows
  BY <1>3
<1> QED
  BY <1>1, <1>2, <1>3, WhoTouches

LEMMA RowsFlow ==
  ASSUME TypeInv, [Next]_vars, NEW s \in Sessions, rows'[s].at = 0
  PROVE  rows[s].at = 0
<1>1. rows[s].at \in Nat
  BY DEF TypeInv, RowsTyped, Rows
<1> QED
  BY <1>1, RowsGrow

LEMMA StoreFlow ==
  ASSUME [Next]_vars
  PROVE  store' = store \/ \E v \in Vaults : StoreWrites(v) /\ store' = Task(v).what
BY WhoTouches DEF KeyLost, StoreWrites

\* The store takes on the first task of a queue.
LEMMA StoreHead ==
  ASSUME TypeInv, NEW v \in Vaults, StoreWrites(v)
  PROVE  /\ 1 \in DOMAIN tail[v] /\ Task(v) = tail[v][1] /\ store' = Task(v).what
         /\ Task(v).do = "write"
<1>1. tail[v] # <<>> /\ store' = Task(v).what /\ Task(v).do = "write"
  BY DEF StoreWrites
<1> QED
  BY <1>1, AtTask

\* A refresh answers with the session it asked for.
LEMMA RotatedSame ==
  ASSUME TypeInv, NEW v \in Vaults, Rotated(v)
  PROVE  /\ Answer(v, "refresh").token.of = refreshing[v].token.of
         /\ Answer(v, "refresh").token \in Tokens
<1>1. refreshing[v].at = "asked" /\ Answer(v, "refresh").at = "answered"
  BY DEF Rotated
<1>2. RefreshInv(v) /\ "refresh" \in Kinds
  BY DEF TypeInv, Kinds
<1> QED
  BY <1>1, <1>2, Answered DEF RefreshInv

LEMMA CurrentFlow ==
  ASSUME TypeInv, [Next]_vars, NEW v \in Vaults, NEW s \in Sessions, current'[v].of = s
  PROVE  \/ current[v].of = s
         \/ SignInKept(v) /\ Answer(v, "signIn").token.of = s
         \/ Rotated(v) /\ RefreshStands(v) /\ refreshing[v].token.of = s
<1>0. current \in [Vaults -> Maybe]
  BY DEF TypeInv, KnownTyped
<1>1. /\ \A w \in Vaults : SignInKept(w) =>
           current' = [current EXCEPT ![w] = Answer(w, "signIn").token]
      /\ \A w \in Vaults : NothingKept(w) \/ CannotRotate(w) \/ BeginSignOut(w) \/ Close(w) =>
           current' = current \/ current' = [current EXCEPT ![w] = NoToken]
      /\ \A w \in Vaults : Rotated(w) =>
           \/ current' = current
           \/ RefreshStands(w) /\ current' = [current EXCEPT ![w] = Answer(w, "refresh").token]
  BY DEF SignInKept, NothingKept, CannotRotate, Forget, BeginSignOut, Close, Rotated
<1>2. \/ current' = current
      \/ \E w \in Vaults : SignInKept(w) /\ current' = [current EXCEPT ![w] = Answer(w, "signIn").token]
      \/ \E w \in Vaults : current' = [current EXCEPT ![w] = NoToken]
      \/ \E w \in Vaults : /\ Rotated(w) /\ RefreshStands(w)
                            /\ current' = [current EXCEPT ![w] = Answer(w, "refresh").token]
  BY <1>1, WhoTouches DEF memory
<1>3. \/ current'[v] = current[v] \/ current'[v] = NoToken
      \/ SignInKept(v) /\ current'[v] = Answer(v, "signIn").token
      \/ Rotated(v) /\ RefreshStands(v) /\ current'[v] = Answer(v, "refresh").token
  BY <1>0, <1>2
<1> QED
  BY <1>3, RotatedSame, Fields

LEMMA RefreshFlow ==
  ASSUME TypeInv, [Next]_vars, NEW v \in Vaults, NEW s \in Sessions,
         refreshing'[v].token.of = s
  PROVE  \/ refreshing[v].token.of = s
         \/ StoreReads(v) /\ Task(v).who = "refresh" /\ store.of = s
<1>1. /\ NoRefresh.token = NoToken /\ Rotation(v).token = NoToken /\ NoToken.of # s
  BY Fields
<1>2. Rotated(v) => Answer(v, "refresh").token.of = refreshing[v].token.of
  BY RotatedSame
<1> QED
  BY <1>1, <1>2, RefreshMoves

LEMMA MeantFlow ==
  ASSUME TypeInv, [Next]_vars, NEW v \in Vaults, NEW s \in Sessions, s \in signOut'[v].meant
  PROVE  \/ s \in signOut[v].meant
         \/ BeginSignOut(v) /\ (store.of = s \/ current[v].of = s)
<1>1. NoSignOut.meant = {}
  BY Fields
<1> QED
  BY <1>1, SignOutMoves

Past == {"cleared", "joining", "spending", "ending"}

LEMMA SignedOutFlow ==
  ASSUME [Next]_vars, NEW s \in signedOut'
  PROVE  s \in signedOut \/ \E v \in Vaults : signOut[v].at \in Past /\ s \in signOut[v].meant
<1>1. \A v \in Vaults : NothingToSpend(v) \/ SignOutAnswered(v) =>
        /\ signOut[v].at \in Past /\ signedOut' = signedOut \cup signOut[v].meant
  BY DEF NothingToSpend, SignOutAnswered, SignOutOver, Past
<1>2. \A v \in Vaults : BeginRefresh(v) \/ FinishRefresh(v) \/ BeginSignOut(v) \/ StoreWrites(v)
                          \/ Close(v) => signedOut' = signedOut
  BY DEF BeginRefresh, FinishRefresh, BeginSignOut, StoreWrites, Close
<1> QED
  BY <1>1, <1>2, WhoTouches DEF ghosts

\* The session a sign-in of this vault was answered with.
Exchanged(v, s) ==
  Answer(v, "signIn").what = "exchange" /\ Answer(v, "signIn").token.of = s

LEMMA ExchangeFlow ==
  ASSUME TypeInv, [Next]_vars, NEW v \in Vaults, NEW s \in Sessions, Exchanged(v, s)'
  PROVE  \/ Exchanged(v, s) /\ ~ SignInKept(v)
         \/ /\ OpenSession(<<v, "signIn">>) /\ rows[s].at = 0 /\ rows'[s].at # 0
            /\ Answer(v, "signIn").at = "sent" /\ calls'[<<v, "signIn">>].at = "answered"
            /\ \A w \in Vaults : w # v => calls'[<<w, "signIn">>] = Answer(w, "signIn")
<1>0. /\ calls \in [Slots -> Calls] /\ rows \in [Sessions -> Rows]
      /\ \A w \in Vaults : <<w, "signIn">> \in Slots
      /\ "signIn" \in Kinds
  BY NoneTyped DEF TypeInv, CallsTyped, RowsTyped, Kinds
<1>1. calls'[<<v, "signIn">>].what = "exchange" /\ calls'[<<v, "signIn">>].token.of = s
  BY DEF Exchanged, Answer
<1>2. /\ NoCall.what = "none" /\ Call("exchange", NoToken).token.of # s
      /\ \A token : Call("end", token).what = "end"
  BY Fields DEF NoCall, Call
<1>3. CASE OpenSession(<<v, "signIn">>)
  <2>1. PICK o \in Slots : o = <<v, "signIn">>
    BY <1>0
  <2>1a. PICK t \in Sessions :
          /\ calls[o].at = "sent" /\ rows[t].at = 0
          /\ Answers(o, [of |-> t, at |-> 1])
          /\ rows' = [rows EXCEPT ![t] = [NoRow EXCEPT !.at = 1, !.is = "open", !.live = TRUE]]
    BY <1>3, <2>1 DEF OpenSession, Sent
  <2>2. PICK token :
          /\ token = [of |-> t, at |-> 1] /\ calls[o].at = "sent" /\ rows[t].at = 0
          /\ calls' = [calls EXCEPT ![o].at = "answered", ![o].token = token]
          /\ rows' = [rows EXCEPT ![t] = [NoRow EXCEPT !.at = 1, !.is = "open", !.live = TRUE]]
    BY <2>1a DEF Answers
  <2>3. token.of = t
    BY <2>2
  <2>4. calls'[o].token = token /\ calls'[o].at = "answered"
    BY <1>0, <2>2 DEF Calls
  <2>5. PICK r : r = [NoRow EXCEPT !.at = 1, !.is = "open", !.live = TRUE]
    OBVIOUS
  <2>6. r.at = 1
    BY <2>5 DEF NoRow
  <2>7. rows'[t].at = 1
    BY <1>0, <2>2, <2>5, <2>6
  <2>8. ASSUME NEW w \in Vaults, w # v PROVE calls'[<<w, "signIn">>] = calls[<<w, "signIn">>]
    <3>1. PICK p \in Slots : p = <<w, "signIn">> /\ p # o
      BY <1>0, <2>1, <2>8
    <3> QED
      BY <1>0, <2>2, <3>1
  <2>9. t = s
    BY <1>1, <2>1, <2>3, <2>4
  <2>10. /\ Answer(v, "signIn").at = "sent" /\ calls'[<<v, "signIn">>].at = "answered"
         /\ \A w \in Vaults : w # v => calls'[<<w, "signIn">>] = Answer(w, "signIn")
    BY <2>1, <2>2, <2>4, <2>8 DEF Answer
  <2>11. rows[s].at = 0 /\ rows'[s].at # 0
    BY <2>2, <2>7, <2>9
  <2> QED
    BY <1>3, <2>10, <2>11
<1>4. CASE SignInKept(v)
  <2>1. calls' = [calls EXCEPT ![<<v, "signIn">>] = NoCall]
    BY <1>4 DEF SignInKept, HangsUp, Asks
  <2>2. PICK o \in Slots : o = <<v, "signIn">>
    BY <1>0
  <2>3. calls'[o] = NoCall
    BY <1>0, <2>1, <2>2
  <2> QED
    BY <1>1, <1>2, <2>2, <2>3
<1>5. CASE ~ OpenSession(<<v, "signIn">>) /\ ~ SignInKept(v)
  <2>1. \/ /\ calls'[<<v, "signIn">>].what = Answer(v, "signIn").what
           /\ \/ calls'[<<v, "signIn">>].token = Answer(v, "signIn").token
              \/ Answer(v, "signIn").what = "refresh"
        \/ calls'[<<v, "signIn">>] = NoCall
        \/ calls'[<<v, "signIn">>] = Call("exchange", NoToken)
        \/ calls'[<<v, "signIn">>] = Call("end", Answer(v, "signIn").token)
    BY <1>0, <1>5, AnswerMoves
  <2> QED
    BY <1>1, <1>2, <1>5, <2>1 DEF Exchanged
<1> QED
  BY <1>3, <1>4, <1>5

\* Where the tasks of a queue come from: they stay, moved up by one when the
\* first is taken, and only a sign-in and a refresh put a token last.
LEMMA TailFlow ==
  ASSUME TypeInv, [Next]_vars, NEW v \in Vaults
  PROVE  \E k \in {0, 1} : \A i \in DOMAIN tail'[v] :
           /\ i \in Nat /\ i > 0
           /\ \/ tail'[v][i].what = NoToken /\ tail'[v][i].who # "signIn"
              \/ i + k \in DOMAIN tail[v] /\ tail'[v][i] = tail[v][i + k]
              \/ /\ i = Len(tail[v]) + 1 /\ k = 0
                 /\ \/ /\ SignInKept(v)
                       /\ tail'[v][i] = Write("signIn", Answer(v, "signIn").token)
                    \/ /\ Rotated(v) /\ RefreshStands(v) /\ tail'[v][i].who = "refresh"
                       /\ tail'[v][i].what = Answer(v, "refresh").token
<1>0. tail[v] \in Seq(Tasks) /\ DOMAIN tail[v] = 1 .. Len(tail[v]) /\ Len(tail[v]) \in Nat
  BY LenProperties DEF TypeInv, TailTyped
<1>1. CASE tail'[v] = tail[v]
  BY <1>0, <1>1
<1>2. CASE tail'[v] = <<>>
  BY <1>2
<1>3. ASSUME NEW e \in Tasks, Grown(tail[v], tail'[v], e),
             \/ SignInKept(v) /\ e = Write("signIn", Answer(v, "signIn").token)
             \/ e.what = NoToken /\ e.who # "signIn"
             \/ /\ Rotated(v) /\ RefreshStands(v) /\ e.who = "refresh"
                /\ e.what = Answer(v, "refresh").token
      PROVE  \A i \in DOMAIN tail'[v] :
               /\ i \in Nat /\ i > 0
               /\ \/ tail'[v][i].what = NoToken /\ tail'[v][i].who # "signIn"
                  \/ i + 0 \in DOMAIN tail[v] /\ tail'[v][i] = tail[v][i + 0]
                  \/ /\ i = Len(tail[v]) + 1
                     /\ \/ /\ SignInKept(v)
                           /\ tail'[v][i] = Write("signIn", Answer(v, "signIn").token)
                        \/ /\ Rotated(v) /\ RefreshStands(v) /\ tail'[v][i].who = "refresh"
                           /\ tail'[v][i].what = Answer(v, "refresh").token
  BY <1>0, <1>3 DEF Grown
<1>4. CASE tail[v] # <<>> /\ tail'[v] = Tail(tail[v])
  <2>1. Shifted(tail[v], tail'[v])
    BY <1>0, <1>4, TakenOff
  <2> QED
    BY <2>1 DEF Shifted
<1>5. CASE tail[v] # <<>> /\ tail'[v] = [tail[v] EXCEPT ![1] = Write("nobody", NoToken)]
  <2>1. PICK e \in Tasks : e = Write("nobody", NoToken) /\ e.what = NoToken /\ e.who = "nobody"
    BY TasksTyped, NoneTyped, Fields
  <2>2. /\ DOMAIN tail'[v] = DOMAIN tail[v] /\ tail'[v][1] = e
        /\ \A i \in DOMAIN tail[v] : i # 1 => tail'[v][i] = tail[v][i]
    BY <1>0, <1>5, <2>1, Replaced
  <2>3. \A i \in DOMAIN tail'[v] :
          /\ i \in Nat /\ i > 0
          /\ \/ tail'[v][i].what = NoToken /\ tail'[v][i].who # "signIn"
             \/ i + 0 \in DOMAIN tail[v] /\ tail'[v][i] = tail[v][i + 0]
    BY <1>0, <2>1, <2>2
  <2> QED
    BY <2>3
<1>6. CASE tail'[v] = (IF HasLock THEN tail[v] \o ReadThenClear
                      ELSE Append(tail[v] \o ReadThenClear, Write("signOut", NoToken)))
  <2>1. PICK p \in Seq(Tasks) : p = tail[v]
    BY <1>0
  <2>2. PICK q : q = tail'[v]
    OBVIOUS
  <2>3. \/ q = p \o ReadThenClear
        \/ q = Append(p \o ReadThenClear, Write("signOut", NoToken))
    BY <1>6, <2>1, <2>2
  <2>4. \A i \in DOMAIN q :
          \/ i \in DOMAIN p /\ q[i] = p[i]
          \/ i = Len(p) + 1 /\ q[i] = Read("signOut")
          \/ i = Len(p) + 2 /\ q[i] = Write("nobody", NoToken)
          \/ i = Len(p) + 3 /\ q[i] = Write("signOut", NoToken)
    BY <2>3, SignOutQueues
  <2>5. /\ Read("signOut").what = NoToken /\ Read("signOut").who # "signIn"
        /\ Write("nobody", NoToken).what = NoToken /\ Write("nobody", NoToken).who # "signIn"
        /\ Write("signOut", NoToken).what = NoToken /\ Write("signOut", NoToken).who # "signIn"
    BY Fields
  <2>6. DOMAIN p = 1 .. Len(p) /\ Len(p) \in Nat
    BY <1>0, <2>1
  <2>7. ASSUME NEW i \in DOMAIN q
        PROVE  /\ i \in Nat /\ i > 0
               /\ \/ q[i].what = NoToken /\ q[i].who # "signIn"
                  \/ i + 0 \in DOMAIN p /\ q[i] = p[i + 0]
    BY <2>4, <2>5, <2>6
  <2> QED
    BY <2>1, <2>2, <2>7
<1>7. \A e \in {RestoreTask, Read("refresh"), Write("refresh", NoToken), Write("signOut", NoToken)} :
        e.what = NoToken /\ e.who # "signIn"
  BY Fields
<1>8. /\ Write("refresh", Answer(v, "refresh").token).who = "refresh"
      /\ Write("refresh", Answer(v, "refresh").token).what = Answer(v, "refresh").token
  BY Fields
<1>9. \/ tail'[v] = tail[v] \/ tail'[v] = <<>>
      \/ \E e \in Tasks :
           /\ Grown(tail[v], tail'[v], e)
           /\ \/ SignInKept(v) /\ e = Write("signIn", Answer(v, "signIn").token)
              \/ e \in {RestoreTask, Read("refresh"), Write("refresh", NoToken), Write("signOut", NoToken)}
              \/ /\ Rotated(v) /\ RefreshStands(v)
                 /\ e = Write("refresh", Answer(v, "refresh").token)
      \/ tail[v] # <<>> /\ tail'[v] = Tail(tail[v])
      \/ tail[v] # <<>> /\ tail'[v] = [tail[v] EXCEPT ![1] = Write("nobody", NoToken)]
      \/ tail'[v] = (IF HasLock THEN tail[v] \o ReadThenClear
                     ELSE Append(tail[v] \o ReadThenClear, Write("signOut", NoToken)))
  BY TailMoves
<1>10. CASE \E e \in Tasks :
              /\ Grown(tail[v], tail'[v], e)
              /\ \/ SignInKept(v) /\ e = Write("signIn", Answer(v, "signIn").token)
                 \/ e \in {RestoreTask, Read("refresh"), Write("refresh", NoToken), Write("signOut", NoToken)}
                 \/ /\ Rotated(v) /\ RefreshStands(v)
                    /\ e = Write("refresh", Answer(v, "refresh").token)
  <2>1. \A i \in DOMAIN tail'[v] :
          /\ i \in Nat /\ i > 0
          /\ \/ tail'[v][i].what = NoToken /\ tail'[v][i].who # "signIn"
             \/ i + 0 \in DOMAIN tail[v] /\ tail'[v][i] = tail[v][i + 0]
             \/ /\ i = Len(tail[v]) + 1
                /\ \/ /\ SignInKept(v)
                      /\ tail'[v][i] = Write("signIn", Answer(v, "signIn").token)
                   \/ /\ Rotated(v) /\ RefreshStands(v) /\ tail'[v][i].who = "refresh"
                      /\ tail'[v][i].what = Answer(v, "refresh").token
    BY <1>3, <1>7, <1>8, <1>10
  <2> QED
    BY <2>1
<1> QED
  BY <1>1, <1>2, <1>4, <1>5, <1>6, <1>9, <1>10

-----------------------------------------------------------------------------
(* A session is secret until its sign-in is kept, and known to one vault until
   that wrote it. *)

SignInInv(v) == signIn[v].at = "asked" => Answer(v, "signIn").what = "exchange"

\* No vault knows s, nothing is to be written of it, and nobody signed out.
NoTask(v, s) == \A i \in DOMAIN tail[v] : tail[v][i].what.of # s
Nowhere(s) ==
  /\ store.of # s /\ s \notin signedOut
  /\ \A v \in Vaults : /\ current[v].of # s /\ refreshing[v].token.of # s
                       /\ s \notin signOut[v].meant /\ NoTask(v, s)

FreshInv(s) ==
  /\ rows[s].at = 0 => Nowhere(s) /\ \A v \in Vaults : ~ Exchanged(v, s)
  /\ \A v \in Vaults : Exchanged(v, s) =>
       Nowhere(s) /\ \A w \in Vaults : Exchanged(w, s) => w = v

\* s is to be written by the sign-in of v that is task i of its queue: only v
\* knows of it, and no other task writes it.
Secret(v, i, s) ==
  /\ store.of # s
  /\ \A w \in Vaults : refreshing[w].token.of # s /\ ~ Exchanged(w, s)
  /\ \A w \in Vaults : w # v => /\ current[w].of # s /\ s \notin signOut[w].meant
                                /\ NoTask(w, s)
  /\ \A j \in DOMAIN tail[v] : j # i => tail[v][j].what.of # s
SecretInv(v) ==
  \A i \in DOMAIN tail[v] : tail[v][i].who = "signIn" => Secret(v, i, tail[v][i].what.of)

LEMMA SignInInvStep ==
  ASSUME TypeInv, [Next]_vars, NEW v \in Vaults, SignInInv(v)
  PROVE  SignInInv(v)'
<1>0. /\ signIn \in [Vaults -> SignIns] /\ "signIn" \in Kinds
      /\ calls \in [Slots -> Calls] /\ <<v, "signIn">> \in Slots
  BY NoneTyped DEF TypeInv, OpsTyped, CallsTyped, Kinds
<1>1. SUFFICES ASSUME signIn'[v].at = "asked" PROVE calls'[<<v, "signIn">>].what = "exchange"
  BY DEF SignInInv, Answer
<1>2. CASE BeginSignIn(v)
  <2>1. calls' = [calls EXCEPT ![<<v, "signIn">>] = Call("exchange", NoToken)]
    BY <1>2 DEF BeginSignIn, Asks
  <2>2. PICK o \in Slots : o = <<v, "signIn">>
    BY <1>0
  <2>3. calls'[o] = Call("exchange", NoToken)
    BY <1>0, <2>1, <2>2
  <2> QED
    BY <2>2, <2>3 DEF Call
<1>3. CASE SignInKept(v) \/ SignInOvertaken(v) \/ SignInOver(v) \/ Close(v)
  <2>1. \/ \E at \in {"keeping", "ending"} : signIn' = [signIn EXCEPT ![v].at = at]
        \/ signIn' = [signIn EXCEPT ![v] = NoSignIn]
    BY <1>3 DEF SignInKept, SignInOvertaken, SignInOver, Close
  <2>2. NoSignIn.at = "none"
    BY DEF NoSignIn
  <2> QED
    BY <1>0, <1>1, <2>1, <2>2 DEF SignIns
<1>4. CASE ~ (BeginSignIn(v) \/ SignInKept(v) \/ SignInOvertaken(v) \/ SignInOver(v) \/ Close(v))
  <2>1. calls'[<<v, "signIn">>].what = Answer(v, "signIn").what
    BY <1>0, <1>4, AnswerMoves
  <2>2. \A w \in Vaults :
          /\ BeginSignIn(w) => \E x : signIn' = [signIn EXCEPT ![w] = x]
          /\ SignInKept(w) \/ SignInOvertaken(w) => \E x : signIn' = [signIn EXCEPT ![w].at = x]
          /\ SignInOver(w) \/ Close(w) => signIn' = [signIn EXCEPT ![w] = NoSignIn]
          /\ StoreWrites(w) => signIn' = signIn \/ signIn' = [signIn EXCEPT ![w] = NoSignIn]
    BY DEF BeginSignIn, SignInKept, SignInOvertaken, SignInOver, Close, StoreWrites
  <2>3. NoSignIn.at = "none"
    BY DEF NoSignIn
  <2>4. ASSUME NEW w \in Vaults, w # v,
               BeginSignIn(w) \/ SignInKept(w) \/ SignInOvertaken(w) \/ SignInOver(w) \/ Close(w)
        PROVE  signIn'[v] = signIn[v]
    BY <1>0, <2>2, <2>4
  <2>5. ASSUME NEW w \in Vaults, StoreWrites(w)
        PROVE  signIn'[v] = signIn[v] \/ signIn'[v] = NoSignIn
    BY <1>0, <2>2, <2>5
  <2>6. signIn'[v] = signIn[v] \/ signIn'[v] = NoSignIn
    BY <1>4, <2>4, <2>5, WhoTouches
  <2>7. signIn[v].at = "asked"
    BY <1>1, <2>3, <2>6
  <2> QED
    BY <2>1, <2>7 DEF SignInInv
<1> QED
  BY <1>2, <1>3, <1>4

\* Who keeps a sign-in was answered by the exchange.
LEMMA KeepsExchanged ==
  ASSUME NEW v \in Vaults, SignInInv(v), SignInKept(v)
  PROVE  Exchanged(v, Answer(v, "signIn").token.of)
BY DEF SignInInv, SignInKept, Exchanged

\* A queue that is free of a session stays so but for a sign-in of its vault.
LEMMA NoTaskStep ==
  ASSUME TypeInv, [Next]_vars, NEW v \in Vaults, NEW s \in Sessions, NoTask(v, s),
         ~ (SignInKept(v) /\ Answer(v, "signIn").token.of = s),
         ~ (Rotated(v) /\ RefreshStands(v) /\ refreshing[v].token.of = s)
  PROVE  NoTask(v, s)'
<1> SUFFICES ASSUME NEW i \in DOMAIN tail'[v] PROVE tail'[v][i].what.of # s
  BY DEF NoTask
<1>1. PICK k \in {0, 1} :
        \/ tail'[v][i].what = NoToken
        \/ i + k \in DOMAIN tail[v] /\ tail'[v][i] = tail[v][i + k]
        \/ SignInKept(v) /\ tail'[v][i] = Write("signIn", Answer(v, "signIn").token)
        \/ /\ Rotated(v) /\ RefreshStands(v) /\ tail'[v][i].what = Answer(v, "refresh").token
  BY TailFlow
<1>2. NoToken.of # s /\ \A x : Write("signIn", x).what = x
  BY Fields
<1> QED
  BY <1>1, <1>2, RotatedSame DEF NoTask

LEMMA NowhereKept ==
  ASSUME TypeInv, [Next]_vars, NEW s \in Sessions, Nowhere(s),
         \A v \in Vaults : SignInKept(v) => Answer(v, "signIn").token.of # s
  PROVE  Nowhere(s)'
<1>1. store'.of # s
  BY StoreFlow, StoreHead DEF Nowhere, NoTask
<1>2. s \notin signedOut'
  BY SignedOutFlow DEF Nowhere
<1>3. ASSUME NEW v \in Vaults
      PROVE  /\ current'[v].of # s /\ refreshing'[v].token.of # s
             /\ s \notin signOut'[v].meant /\ NoTask(v, s)'
  <2>1. current'[v].of # s
    BY CurrentFlow DEF Nowhere
  <2>2. refreshing'[v].token.of # s
    BY RefreshFlow DEF Nowhere
  <2>3. s \notin signOut'[v].meant
    BY MeantFlow DEF Nowhere
  <2>4. NoTask(v, s)'
    BY NoTaskStep DEF Nowhere
  <2> QED
    BY <2>1, <2>2, <2>3, <2>4
<1> QED
  BY <1>1, <1>2, <1>3 DEF Nowhere

LEMMA FreshStep ==
  ASSUME TypeInv, [Next]_vars, \A v \in Vaults : SignInInv(v), NEW s \in Sessions, FreshInv(s)
  PROVE  FreshInv(s)'
<1>1. ASSUME rows'[s].at = 0
      PROVE  Nowhere(s)' /\ \A v \in Vaults : ~ Exchanged(v, s)'
  <2>1. rows[s].at = 0
    BY <1>1, RowsFlow
  <2>2. Nowhere(s) /\ \A v \in Vaults : ~ Exchanged(v, s)
    BY <2>1 DEF FreshInv
  <2>3. Nowhere(s)'
    BY <2>2, NowhereKept, KeepsExchanged
  <2>4. \A v \in Vaults : ~ Exchanged(v, s)'
    BY <1>1, <2>2, ExchangeFlow
  <2> QED
    BY <2>3, <2>4
<1>2. ASSUME NEW v \in Vaults, Exchanged(v, s)'
      PROVE  Nowhere(s)' /\ \A w \in Vaults : Exchanged(w, s)' => w = v
  <2>1. CASE Exchanged(v, s) /\ ~ SignInKept(v)
    <3>1. Nowhere(s) /\ \A w \in Vaults : Exchanged(w, s) => w = v
      BY <2>1 DEF FreshInv
    <3>2. rows[s].at # 0
      BY <2>1 DEF FreshInv
    <3>3. Nowhere(s)'
      BY <2>1, <3>1, NowhereKept, KeepsExchanged
    <3>4. \A w \in Vaults : Exchanged(w, s)' => w = v
      BY <3>1, <3>2, ExchangeFlow
    <3> QED
      BY <3>3, <3>4
  <2>2. CASE ~ (Exchanged(v, s) /\ ~ SignInKept(v))
    <3>1. /\ rows[s].at = 0
          /\ \A w \in Vaults : w # v => calls'[<<w, "signIn">>] = Answer(w, "signIn")
      BY <1>2, <2>2, ExchangeFlow
    <3>2. Nowhere(s) /\ \A w \in Vaults : ~ Exchanged(w, s)
      BY <3>1 DEF FreshInv
    <3>3. Nowhere(s)'
      BY <3>2, NowhereKept, KeepsExchanged
    <3>4. \A w \in Vaults : w # v => ~ Exchanged(w, s)'
      BY <3>1, <3>2 DEF Exchanged, Answer
    <3> QED
      BY <3>3, <3>4
  <2> QED
    BY <2>1, <2>2
<1> QED
  BY <1>1, <1>2 DEF FreshInv

\* What is secret stays so, for the other places of a step.
LEMMA SecretPlaces ==
  ASSUME TypeInv, [Next]_vars, \A u \in Vaults : SignInInv(u),
         NEW s \in Sessions, FreshInv(s), rows[s].at # 0, NEW v \in Vaults,
         store.of # s, \A u \in Vaults : refreshing[u].token.of # s,
         \A u \in Vaults : u # v => /\ current[u].of # s /\ s \notin signOut[u].meant
                                    /\ NoTask(u, s),
         \A u \in Vaults : u # v => ~ Exchanged(u, s)
  PROVE  /\ \A u \in Vaults : refreshing'[u].token.of # s
         /\ \A u \in Vaults : u # v => /\ current'[u].of # s /\ s \notin signOut'[u].meant
                                       /\ NoTask(u, s)'
         /\ \A u \in Vaults : Exchanged(u, s)' => u = v /\ Exchanged(v, s) /\ ~ SignInKept(v)
<1>1. \A u \in Vaults : refreshing'[u].token.of # s
  BY RefreshFlow
<1>2. ASSUME NEW u \in Vaults, u # v
      PROVE  current'[u].of # s /\ s \notin signOut'[u].meant /\ NoTask(u, s)'
  <2>1. ~ (SignInKept(u) /\ Answer(u, "signIn").token.of = s)
    BY <1>2, KeepsExchanged
  <2>2. current'[u].of # s
    BY <1>2, <2>1, CurrentFlow
  <2>3. s \notin signOut'[u].meant
    BY <1>2, MeantFlow
  <2>4. NoTask(u, s)'
    BY <1>2, <2>1, NoTaskStep
  <2> QED
    BY <2>2, <2>3, <2>4
<1>3. \A u \in Vaults : Exchanged(u, s)' => Exchanged(u, s) /\ ~ SignInKept(u)
  BY ExchangeFlow
<1> QED
  BY <1>1, <1>2, <1>3

LEMMA SecretStep ==
  ASSUME TypeInv, [Next]_vars, \A u \in Vaults : SignInInv(u) /\ SecretInv(u),
         \A s \in Sessions : FreshInv(s), NEW v \in Vaults
  PROVE  SecretInv(v)'
<1> SUFFICES ASSUME NEW i \in DOMAIN tail'[v], tail'[v][i].who = "signIn",
                    NEW s, s = tail'[v][i].what.of
             PROVE  /\ store'.of # s
                    /\ \A w \in Vaults : refreshing'[w].token.of # s /\ ~ Exchanged(w, s)'
                    /\ \A w \in Vaults : w # v => /\ current'[w].of # s
                                                  /\ s \notin signOut'[w].meant /\ NoTask(w, s)'
                    /\ \A j \in DOMAIN tail'[v] : j # i => tail'[v][j].what.of # s
  BY DEF SecretInv, Secret, NoTask, Exchanged, Answer
<1>0. /\ NoToken.of = 0 /\ \A x : Write("signIn", x).what = x
      /\ (\A t \in Sessions : t # 0) /\ (\A token \in Tokens : token.of \in Sessions)
      /\ Len(tail[v]) \in Nat /\ DOMAIN tail[v] = 1 .. Len(tail[v])
      /\ tail[v] \in Seq(Tasks) /\ TailInv(v)
  BY Fields, LenProperties DEF TypeInv, TailTyped, Tokens
<1>1. PICK k \in {0, 1} : \A j \in DOMAIN tail'[v] :
        /\ j \in Nat /\ j > 0
        /\ \/ tail'[v][j].what = NoToken /\ tail'[v][j].who # "signIn"
           \/ j + k \in DOMAIN tail[v] /\ tail'[v][j] = tail[v][j + k]
           \/ /\ j = Len(tail[v]) + 1 /\ k = 0
              /\ \/ /\ SignInKept(v)
                    /\ tail'[v][j] = Write("signIn", Answer(v, "signIn").token)
                 \/ /\ Rotated(v) /\ RefreshStands(v) /\ tail'[v][j].who = "refresh"
                    /\ tail'[v][j].what = Answer(v, "refresh").token
  BY TailFlow
<1>2. CASE i + k \in DOMAIN tail[v] /\ tail'[v][i] = tail[v][i + k]
  <2>1. Secret(v, i + k, s) /\ s \in Sessions
    BY <1>0, <1>2 DEF SecretInv, TailInv, TaskInv, TaskAt
  <2>2. rows[s].at # 0 /\ FreshInv(s)
    BY <1>2, <2>1 DEF FreshInv, Nowhere, NoTask
  <2>3. /\ \A w \in Vaults : refreshing'[w].token.of # s /\ ~ Exchanged(w, s)'
        /\ \A w \in Vaults : w # v => /\ current'[w].of # s /\ s \notin signOut'[w].meant
                                      /\ NoTask(w, s)'
    BY <2>1, <2>2, SecretPlaces DEF Secret
  <2>4. store'.of # s
    <3> SUFFICES ASSUME store'.of = s PROVE FALSE
      OBVIOUS
    <3>1. PICK w \in Vaults : StoreWrites(w) /\ store' = Task(w).what
      BY <2>1, StoreFlow DEF Secret
    <3>2. 1 \in DOMAIN tail[w] /\ Task(w) = tail[w][1]
      BY <3>1, StoreHead
    <3>3. w = v
      BY <2>1, <3>1, <3>2 DEF Secret, NoTask
    <3>4. i + k = 1
      BY <2>1, <3>1, <3>2, <3>3 DEF Secret
    <3>5. i = 1 /\ k = 0
      BY <1>1, <3>4
    <3>6. Shifted(tail[v], tail'[v]) /\ tail[v] # <<>>
      <4>1. tail[v] # <<>> /\ tail'[v] = Tail(tail[v])
        BY <3>1, <3>3 DEF StoreWrites, Taken, TypeInv, TailTyped
      <4> QED
        BY <1>0, <4>1, TakenOff
    <3>7. 2 \in DOMAIN tail[v] /\ tail[v][2] = tail'[v][1]
      BY <3>5, <3>6 DEF Shifted
    <3> QED
      BY <2>1, <3>4, <3>5, <3>7 DEF Secret
  <2>5. ASSUME NEW j \in DOMAIN tail'[v], j # i PROVE tail'[v][j].what.of # s
    <3>1. CASE j + k \in DOMAIN tail[v] /\ tail'[v][j] = tail[v][j + k]
      <4>1. j + k # i + k
        BY <1>1, <2>5
      <4> QED
        BY <2>1, <3>1, <4>1 DEF Secret
    <3>2. CASE tail'[v][j].what = NoToken
      BY <1>0, <2>1, <3>2
    <3>3. CASE SignInKept(v) /\ tail'[v][j] = Write("signIn", Answer(v, "signIn").token)
      <4>1. Exchanged(v, Answer(v, "signIn").token.of)
        BY <3>3, KeepsExchanged
      <4>2. tail'[v][j].what = Answer(v, "signIn").token
        BY <1>0, <3>3
      <4> QED
        BY <2>1, <4>1, <4>2 DEF Secret
    <3>4. CASE Rotated(v) /\ tail'[v][j].what = Answer(v, "refresh").token
      BY <2>1, <3>4, RotatedSame DEF Secret
    <3> QED
      BY <1>1, <3>1, <3>2, <3>3, <3>4
  <2> QED
    BY <2>3, <2>4, <2>5
<1>3. CASE /\ i = Len(tail[v]) + 1 /\ k = 0 /\ SignInKept(v)
           /\ tail'[v][i] = Write("signIn", Answer(v, "signIn").token)
  <2>1. s = Answer(v, "signIn").token.of /\ Answer(v, "signIn").token \in Tokens
    BY <1>0, <1>3, Answered DEF SignInKept, Kinds
  <2>2. Exchanged(v, s) /\ s \in Sessions
    BY <1>0, <1>3, <2>1, KeepsExchanged
  <2>3. FreshInv(s) /\ rows[s].at # 0 /\ Nowhere(s) /\ \A w \in Vaults : Exchanged(w, s) => w = v
    BY <2>2 DEF FreshInv
  <2>4. /\ \A w \in Vaults : refreshing'[w].token.of # s
        /\ \A w \in Vaults : w # v => /\ current'[w].of # s /\ s \notin signOut'[w].meant
                                      /\ NoTask(w, s)'
        /\ \A w \in Vaults : Exchanged(w, s)' => w = v /\ Exchanged(v, s) /\ ~ SignInKept(v)
    BY <2>2, <2>3, SecretPlaces DEF Nowhere
  <2>5. store'.of # s
    BY <2>2, <2>3, StoreFlow, StoreHead DEF Nowhere, NoTask
  <2>6. ASSUME NEW j \in DOMAIN tail'[v], j # i PROVE tail'[v][j].what.of # s
    <3>1. \/ tail'[v][j].what = NoToken
          \/ j + k \in DOMAIN tail[v] /\ tail'[v][j] = tail[v][j + k]
      BY <1>1, <1>3, <2>6
    <3> QED
      BY <1>0, <2>2, <2>3, <3>1 DEF Nowhere, NoTask
  <2> QED
    BY <1>3, <2>4, <2>5, <2>6
<1> QED
  BY <1>1, <1>2, <1>3

-----------------------------------------------------------------------------
(* The lock: whoever is past waiting for it holds it, and one call holds it. *)

TicketsInv ==
  /\ \A t \in Turns : lock[t] <= begun.refresh + begun.signOut
  /\ \A t, u \in Turns : lock[t] = lock[u] /\ lock[t] # 0 => t = u
First(tickets, t) ==
  tickets[t] # 0 /\ \A u \in Turns : tickets[u] # 0 => tickets[t] <= tickets[u]
TurnInv(v) ==
  HasLock =>
    /\ refreshing[v].at \notin {"none", "waiting"} => First(lock, <<v, "refresh">>)
    /\ signOut[v].at \in {"clearing", "cleared"} => First(lock, <<v, "signOut">>)

\* What a step does to the tickets.
LEMMA LockFlow ==
  ASSUME TypeInv, [Next]_vars
  PROVE  /\ begun.refresh + begun.signOut <= begun'.refresh + begun'.signOut
         /\ \/ lock' = lock
            \/ \E t \in Turns :
                 /\ lock' = [lock EXCEPT ![t] = begun.refresh + begun.signOut + 1]
                 /\ begun'.refresh + begun'.signOut = begun.refresh + begun.signOut + 1
                 /\ \E v \in Vaults : \/ BeginRefresh(v) /\ t = <<v, "refresh">>
                                      \/ BeginSignOut(v) /\ t = <<v, "signOut">>
            \/ \E t \in Turns :
                 /\ lock' = [lock EXCEPT ![t] = 0]
                 /\ \E v \in Vaults : \/ FinishRefresh(v) /\ t = <<v, "refresh">>
                                      \/ Cleared(v) /\ t = <<v, "signOut">>
            \/ \E v \in Vaults :
                 Close(v) /\ lock' = [t \in Turns |-> IF t[1] = v THEN 0 ELSE lock[t]]
<1>0. /\ begun \in [DOMAIN Bound -> Nat] /\ lock \in [Turns -> Nat]
      /\ "refresh" \in DOMAIN Bound /\ "signOut" \in DOMAIN Bound
      /\ \A v \in Vaults : <<v, "refresh">> \in Turns /\ <<v, "signOut">> \in Turns
  BY NoneTyped DEF TypeInv, CountTyped, Bound
<1>1. begun.refresh + begun.signOut <= begun'.refresh + begun'.signOut
  <2>1. /\ begun["refresh"] <= begun'["refresh"] /\ begun["signOut"] <= begun'["signOut"]
        /\ begun' \in [DOMAIN Bound -> Nat]
    BY <1>0, BegunStep
  <2> QED
    BY <1>0, <2>1
<1>2. ASSUME NEW v \in Vaults, BeginRefresh(v)
      PROVE  \/ lock' = lock
             \/ /\ lock' = [lock EXCEPT ![<<v, "refresh">>] = begun.refresh + begun.signOut + 1]
                /\ begun' = [begun EXCEPT !["refresh"] = @ + 1]
  BY <1>2 DEF BeginRefresh, LinesUp, Begins
<1>3. ASSUME NEW v \in Vaults, BeginSignOut(v)
      PROVE  \/ lock' = lock
             \/ /\ lock' = [lock EXCEPT ![<<v, "signOut">>] = begun.refresh + begun.signOut + 1]
                /\ begun' = [begun EXCEPT !["signOut"] = @ + 1]
  BY <1>3 DEF BeginSignOut, LinesUp, Begins
<1>4. /\ begun' = [begun EXCEPT !["refresh"] = @ + 1] =>
           begun'.refresh + begun'.signOut = begun.refresh + begun.signOut + 1
      /\ begun' = [begun EXCEPT !["signOut"] = @ + 1] =>
           begun'.refresh + begun'.signOut = begun.refresh + begun.signOut + 1
  BY <1>0
<1>5. ASSUME NEW v \in Vaults, FinishRefresh(v)
      PROVE  lock' = [lock EXCEPT ![<<v, "refresh">>] = 0]
  BY <1>5 DEF FinishRefresh, LetsGo, Release
<1>6. ASSUME NEW v \in Vaults, Cleared(v)
      PROVE  lock' = [lock EXCEPT ![<<v, "signOut">>] = 0]
  BY <1>6 DEF Cleared, Release
<1>7. ASSUME NEW v \in Vaults, Close(v)
      PROVE  lock' = [t \in Turns |-> IF t[1] = v THEN 0 ELSE lock[t]]
  BY <1>7 DEF Close
<1> QED
  BY <1>0, <1>1, <1>2, <1>3, <1>4, <1>5, <1>6, <1>7, WhoTouches

\* One ticket at most is new, and it is behind all others.
LEMMA TicketsFlow ==
  ASSUME TypeInv, [Next]_vars, NEW t \in Turns
  PROVE  \/ lock'[t] = lock[t] \/ lock'[t] = 0
         \/ /\ lock'[t] = begun.refresh + begun.signOut + 1
            /\ begun'.refresh + begun'.signOut = begun.refresh + begun.signOut + 1
            /\ \A u \in Turns : u # t => lock'[u] = lock[u]
<1>0. lock \in [Turns -> Nat]
  BY DEF TypeInv, CountTyped
<1> QED
  BY <1>0, LockFlow

LEMMA TicketsStep ==
  ASSUME TypeInv, [Next]_vars, TicketsInv
  PROVE  TicketsInv'
<1>0. /\ lock \in [Turns -> Nat] /\ begun.refresh \in Nat /\ begun.signOut \in Nat
      /\ begun'.refresh \in Nat /\ begun'.signOut \in Nat
  <2>1. begun' \in [DOMAIN Bound -> Nat] /\ {"refresh", "signOut"} \subseteq DOMAIN Bound
    BY BegunStep DEF Bound
  <2> QED
    BY <2>1 DEF TypeInv, CountTyped
<1>1. begun.refresh + begun.signOut <= begun'.refresh + begun'.signOut
  BY LockFlow
<1>2. ASSUME NEW t \in Turns PROVE lock'[t] <= begun'.refresh + begun'.signOut
  BY <1>0, <1>1, TicketsFlow DEF TicketsInv
<1>3. ASSUME NEW t \in Turns, NEW u \in Turns, lock'[t] = lock'[u], lock'[t] # 0 PROVE t = u
  <2>1. CASE lock'[t] = lock[t] /\ lock'[u] = lock[u]
    BY <1>3, <2>1 DEF TicketsInv
  <2>2. /\ lock[t] < begun.refresh + begun.signOut + 1
        /\ lock[u] < begun.refresh + begun.signOut + 1
    BY <1>0 DEF TicketsInv
  <2> QED
    BY <1>0, <1>3, <2>1, <2>2, TicketsFlow
<1> QED
  BY <1>2, <1>3 DEF TicketsInv

LEMMA FirstStays ==
  ASSUME TypeInv, [Next]_vars, TicketsInv, NEW t \in Turns, First(lock, t), lock'[t] = lock[t]
  PROVE  First(lock', t)
<1>0. lock \in [Turns -> Nat] /\ begun.refresh \in Nat /\ begun.signOut \in Nat
  BY DEF TypeInv, CountTyped, Bound
<1>1. ASSUME NEW u \in Turns, lock'[u] # 0 PROVE lock'[t] <= lock'[u]
  BY <1>0, <1>1, TicketsFlow DEF TicketsInv, First
<1> QED
  BY <1>1 DEF First

LEMMA TurnStep ==
  ASSUME TypeInv, [Next]_vars, TicketsInv, NEW v \in Vaults, TurnInv(v)
  PROVE  TurnInv(v)'
<1> SUFFICES ASSUME HasLock
             PROVE  /\ refreshing'[v].at \notin {"none", "waiting"} => First(lock', <<v, "refresh">>)
                    /\ signOut'[v].at \in {"clearing", "cleared"} => First(lock', <<v, "signOut">>)
  BY DEF TurnInv, First
<1>0. /\ <<v, "refresh">> \in Turns /\ <<v, "signOut">> \in Turns /\ lock \in [Turns -> Nat]
      /\ refreshing \in [Vaults -> Refreshes] /\ signOut \in [Vaults -> SignOuts]
      /\ NoRefresh.at = "none" /\ NoSignOut.at = "none" /\ Rotation(v).at = "reading"
  BY NoneTyped, Fields DEF TypeInv, CountTyped, OpsTyped
<1>1. ASSUME refreshing'[v].at \notin {"none", "waiting"} PROVE First(lock', <<v, "refresh">>)
  <2>1. ~ BeginRefresh(v)
    <3>1. BeginRefresh(v) => refreshing' = [refreshing EXCEPT ![v].at = "waiting"]
      BY DEF BeginRefresh, RefreshAt
    <3> QED
      BY <1>0, <1>1, <3>1 DEF Refreshes
  <2>2. ~ FinishRefresh(v) /\ ~ Close(v)
    BY <1>0, <1>1 DEF FinishRefresh, Close
  <2>3. PICK t \in Turns : t = <<v, "refresh">>
    BY <1>0
  <2>4. lock'[t] = lock[t]
    BY <1>0, <2>1, <2>2, <2>3, LockFlow
  <2>5. First(lock, t)
    <3>1. RefreshGetsLock(v) => First(lock, <<v, "refresh">>)
      BY DEF RefreshGetsLock, Holds, First
    <3>2. refreshing[v].at \notin {"none", "waiting"} => First(lock, <<v, "refresh">>)
      BY DEF TurnInv
    <3>3. /\ StoreReads(v) /\ Task(v).who = "refresh" => refreshing[v].at \in {"reading", "writing"}
          /\ StoreWrites(v) /\ Task(v).who = "refresh" => refreshing[v].at \in {"reading", "writing"}
      BY AtTask DEF StoreReads, StoreWrites, TaskInv, TaskAt
    <3>4. RefreshGetsLock(v) \/ refreshing[v].at \notin {"none", "waiting"}
      BY <1>0, <1>1, <2>1, <2>2, <3>3, RefreshMoves
    <3> QED
      BY <2>3, <3>1, <3>2, <3>4
  <2> QED
    BY <2>3, <2>4, <2>5, FirstStays
<1>2. ASSUME signOut'[v].at \in {"clearing", "cleared"} PROVE First(lock', <<v, "signOut">>)
  <2>1. ~ BeginSignOut(v)
    <3> SUFFICES ASSUME BeginSignOut(v) PROVE FALSE
      OBVIOUS
    <3>1. PICK o : /\ o = [NoSignOut EXCEPT !.at = IF HasLock THEN "waiting" ELSE "clearing",
                                            !.known = current[v],
                                            !.joins = refreshing[v].at # "none",
                                            !.meant = {store.of, current[v].of} \ {0}]
                   /\ signOut' = [signOut EXCEPT ![v] = o]
      BY DEF BeginSignOut
    <3>2. o.at = "waiting"
      BY <3>1 DEF NoSignOut
    <3>3. signOut'[v] = o
      BY <1>0, <3>1
    <3> QED
      BY <1>2, <3>2, <3>3
  <2>2. ~ Cleared(v) /\ ~ Close(v)
    <3>1. Cleared(v) => signOut'[v].at = "joining"
      BY <1>0 DEF Cleared, SignOuts
    <3>2. Close(v) => signOut'[v].at = "none"
      BY <1>0 DEF Close
    <3> QED
      BY <1>2, <3>1, <3>2
  <2>3. PICK t \in Turns : t = <<v, "signOut">>
    BY <1>0
  <2>4. lock'[t] = lock[t]
    BY <1>0, <2>1, <2>2, <2>3, LockFlow
  <2>5. First(lock, t)
    <3>1. SignOutGetsLock(v) => First(lock, <<v, "signOut">>)
      BY DEF SignOutGetsLock, Holds, First
    <3>2. signOut[v].at \in {"clearing", "cleared"} => First(lock, <<v, "signOut">>)
      BY DEF TurnInv
    <3>3. StoreWrites(v) /\ Task(v).who = "signOut" => signOut[v].at = "clearing"
      BY AtTask DEF StoreWrites, TaskInv, TaskAt
    <3>4. SignOutGetsLock(v) \/ signOut[v].at \in {"clearing", "cleared"}
      BY <1>0, <1>2, <2>1, <2>2, <3>3, SignOutMoves
    <3> QED
      BY <2>3, <3>1, <3>2, <3>4
  <2> QED
    BY <2>3, <2>4, <2>5, FirstStays
<1> QED
  BY <1>1, <1>2

\* While a sign-out clears, no refresh of any vault is past waiting.
LEMMA Alone ==
  ASSUME TypeInv, TicketsInv, \A u \in Vaults : TurnInv(u), HasLock,
         NEW v \in Vaults, First(lock, <<v, "signOut">>), NEW w \in Vaults
  PROVE  /\ refreshing[w].at \in {"none", "waiting"} /\ refreshing[w].token = NoToken
         /\ \A i \in DOMAIN tail[w] : tail[w][i].who # "refresh"
<1>1. refreshing[w].at \in {"none", "waiting"}
  <2> SUFFICES ASSUME refreshing[w].at \notin {"none", "waiting"} PROVE FALSE
    OBVIOUS
  <2>1. First(lock, <<w, "refresh">>)
    BY DEF TurnInv
  <2>2. PICK t \in Turns, u \in Turns : t = <<v, "signOut">> /\ u = <<w, "refresh">>
    BY NoneTyped
  <2>3. lock \in [Turns -> Nat] /\ t # u
    BY <2>2 DEF TypeInv, CountTyped
  <2>4. lock[t] = lock[u] /\ lock[t] # 0
    BY <2>1, <2>2, <2>3 DEF First
  <2> QED
    BY <2>3, <2>4 DEF TicketsInv
<1> QED
  BY <1>1 DEF TypeInv, RefreshInv, TailInv, TaskInv, TaskAt

-----------------------------------------------------------------------------
(* Signed out: of a session that was cleared nothing is left. *)

Dead(s) ==
  s \in signedOut \/ \E v \in Vaults : signOut[v].at \in Past /\ s \in signOut[v].meant
Out(s) ==
  /\ store.of # s
  /\ \A v \in Vaults : NoTask(v, s) /\ (RefreshStands(v) => refreshing[v].token.of # s)
OutInv(s) == Dead(s) => Out(s)

\* The queue of a sign-out that clears: the write is still to come, nothing
\* behind it writes a session that is meant, and no refresh that stands reads
\* the store before it.
ClearAt(q, meant, stands) ==
  /\ \E p \in DOMAIN q : q[p] = Write("signOut", NoToken)
  /\ \A p, r \in DOMAIN q :
       q[p] = Write("signOut", NoToken) /\ p < r => q[r].what.of \notin meant
  /\ \A p, r \in DOMAIN q :
       q[p] = Write("signOut", NoToken) /\ r < p /\ stands => q[r] # Read("refresh")
ClearInv(v) ==
  signOut[v].at = "clearing" =>
    /\ ClearAt(tail[v], signOut[v].meant, RefreshStands(v))
    /\ \A s \in signOut[v].meant, u \in Vaults :
         /\ u # v => NoTask(u, s)
         /\ RefreshStands(u) => refreshing[u].token.of # s

LEMMA ClearGrown ==
  ASSUME NEW q \in Seq(Tasks), NEW r, NEW e, Grown(q, r, e), NEW meant, NEW b, NEW c,
         ClearAt(q, meant, b), e.what.of \notin meant, e # Write("signOut", NoToken),
         c => b \/ \A i \in DOMAIN q : q[i] # Read("refresh")
  PROVE  ClearAt(r, meant, c)
<1> DEFINE w == Write("signOut", NoToken)
<1>1. /\ \A i \in DOMAIN r : \/ i \in DOMAIN q /\ r[i] = q[i]
                             \/ i = Len(q) + 1 /\ r[i] = e
      /\ \A i \in DOMAIN q : i \in DOMAIN r /\ r[i] = q[i]
      /\ DOMAIN q = 1 .. Len(q) /\ Len(q) \in Nat
  BY DEF Grown
<1>2. \E p \in DOMAIN r : r[p] = w
  BY <1>1 DEF ClearAt
<1>3. \A p \in DOMAIN r : r[p] = w => p \in DOMAIN q /\ q[p] = w
  BY <1>1
<1> HIDE DEF w
<1>4. ASSUME NEW p \in DOMAIN r, NEW i \in DOMAIN r, r[p] = w, p < i PROVE r[i].what.of \notin meant
  BY <1>1, <1>3, <1>4 DEF ClearAt, w
<1>5. ASSUME NEW p \in DOMAIN r, NEW i \in DOMAIN r, r[p] = w, i < p, c
      PROVE  r[i] # Read("refresh")
  <2>1. p \in DOMAIN q /\ q[p] = w /\ i \in DOMAIN q /\ r[i] = q[i]
    BY <1>1, <1>3, <1>5
  <2> QED
    BY <1>5, <2>1 DEF ClearAt, w
<1> QED
  BY <1>2, <1>4, <1>5 DEF ClearAt, w

LEMMA ClearShifted ==
  ASSUME NEW q \in Seq(Tasks), NEW r, Shifted(q, r), NEW meant, NEW b, NEW c,
         ClearAt(q, meant, b), q[1] # Write("signOut", NoToken),
         c => b \/ \A i \in DOMAIN q : q[i] # Read("refresh")
  PROVE  ClearAt(r, meant, c)
<1> DEFINE w == Write("signOut", NoToken)
<1>1. /\ \A i \in DOMAIN r : i \in Nat /\ i > 0 /\ i + 1 \in DOMAIN q /\ r[i] = q[i + 1]
      /\ \A i \in DOMAIN q : i # 1 => i \in Nat /\ i > 1 /\ i - 1 \in DOMAIN r /\ r[i - 1] = q[i]
  BY DEF Shifted
<1>2. \E p \in DOMAIN r : r[p] = w
  BY <1>1 DEF ClearAt
<1> HIDE DEF w
<1>3. ASSUME NEW p \in DOMAIN r, NEW i \in DOMAIN r, r[p] = w, p < i PROVE r[i].what.of \notin meant
  <2>1. p + 1 < i + 1
    BY <1>1, <1>3
  <2> QED
    BY <1>1, <1>3, <2>1 DEF ClearAt, w
<1>4. ASSUME NEW p \in DOMAIN r, NEW i \in DOMAIN r, r[p] = w, i < p, c
      PROVE  r[i] # Read("refresh")
  <2>1. i + 1 < p + 1
    BY <1>1, <1>4
  <2> QED
    BY <1>1, <1>4, <2>1 DEF ClearAt, w
<1> QED
  BY <1>2, <1>3, <1>4 DEF ClearAt, w

LEMMA ClearReplaced ==
  ASSUME NEW q \in Seq(Tasks), NEW r, NEW meant \in SUBSET Sessions, NEW b, NEW c,
         q # <<>>, r = [q EXCEPT ![1] = Write("nobody", NoToken)],
         ClearAt(q, meant, b), q[1] # Write("signOut", NoToken),
         c => b \/ \A i \in DOMAIN q : q[i] # Read("refresh")
  PROVE  ClearAt(r, meant, c)
<1> DEFINE w == Write("signOut", NoToken)
<1>0. PICK e \in Tasks : e = Write("nobody", NoToken)
  BY TasksTyped, NoneTyped
<1>1. /\ e.what.of = 0 /\ 0 \notin meant /\ e # Write("signOut", NoToken) /\ e # Read("refresh")
  <2>1. e.what = NoToken /\ e.who = "nobody" /\ w.who = "signOut" /\ Read("refresh").who = "refresh"
    BY <1>0, Fields
  <2> QED
    BY <2>1, Fields
<1>2. /\ DOMAIN r = DOMAIN q /\ r[1] = e /\ \A i \in DOMAIN q : i # 1 => r[i] = q[i]
  BY <1>0, Replaced
<1> HIDE DEF w
<1> QED
  BY <1>1, <1>2 DEF ClearAt

LEMMA EpochFlow ==
  ASSUME TypeInv, [Next]_vars, NEW v \in Vaults, ~ Close(v)
  PROVE  epoch'[v] = epoch[v] \/ epoch'[v] = epoch[v] + 1
<1>0. epoch \in [Vaults -> Nat]
  BY DEF TypeInv, KnownTyped
<1>1. ASSUME NEW w \in Vaults,
             \/ SignInKept(w) \/ NothingKept(w) \/ CannotRotate(w) \/ Rotated(w) \/ BeginSignOut(w)
      PROVE  epoch'[v] = epoch[v] \/ epoch'[v] = epoch[v] + 1
  <2>1. epoch' = epoch \/ epoch' = [epoch EXCEPT ![w] = @ + 1]
    BY <1>1 DEF SignInKept, NothingKept, CannotRotate, Forget, Rotated, BeginSignOut
  <2> QED
    BY <1>0, <2>1
<1>2. ASSUME NEW w \in Vaults, Close(w), w # v PROVE epoch'[v] = epoch[v]
  BY <1>0, <1>2 DEF Close
<1>3. UNCHANGED memory => epoch' = epoch
  BY DEF memory
<1> QED
  BY <1>1, <1>2, <1>3, WhoTouches

\* A refresh that stands stood before, unless it starts.
LEMMA StandsBack ==
  ASSUME TypeInv, [Next]_vars, NEW v \in Vaults, ~ Close(v), RefreshStands(v)',
         refreshing'[v].epoch = refreshing[v].epoch
  PROVE  RefreshStands(v)
<1>1. refreshing[v].epoch <= epoch[v] /\ refreshing[v].epoch \in Nat /\ epoch[v] \in Nat
  BY DEF TypeInv, OpsTyped, Refreshes, KnownTyped, RefreshInv
<1>2. refreshing'[v].epoch = epoch'[v]
  BY DEF RefreshStands
<1> QED
  BY <1>1, <1>2, EpochFlow DEF RefreshStands

LEMMA StandsFlow ==
  ASSUME TypeInv, [Next]_vars, NEW v \in Vaults, NEW s \in Sessions,
         RefreshStands(v)', refreshing'[v].token.of = s
  PROVE  /\ RefreshStands(v)
         /\ \/ refreshing[v].token.of = s
            \/ StoreReads(v) /\ Task(v).who = "refresh" /\ store.of = s
<1>1. /\ NoRefresh.token = NoToken /\ Rotation(v).token = NoToken /\ NoToken.of # s
  BY Fields
<1>2. refreshing \in [Vaults -> Refreshes]
  BY DEF TypeInv, OpsTyped
<1>3. ~ Close(v)
  BY <1>1, <1>2 DEF Close
<1>4. refreshing'[v].epoch = refreshing[v].epoch
  BY <1>1, RefreshMoves
<1> QED
  BY <1>3, <1>4, StandsBack, RefreshFlow

LEMMA ReadStands ==
  ASSUME TypeInv, [Next]_vars, NEW v \in Vaults, ~ Close(v), RefreshStands(v)',
         NEW i \in DOMAIN tail[v], tail[v][i] = Read("refresh")
  PROVE  RefreshStands(v)
<1>1. refreshing[v].at = "reading"
  BY Fields DEF TypeInv, TailInv, TaskInv, TaskAt
<1>2. /\ RefreshGetsLock(v) => refreshing[v].at = "waiting"
      /\ BeginRefresh(v) => refreshing[v].at = "none"
      /\ FinishRefresh(v) => refreshing[v].at \in {"done", "threw"}
  BY DEF RefreshGetsLock, BeginRefresh, FinishRefresh
<1>3. refreshing'[v].epoch = refreshing[v].epoch
  BY <1>1, <1>2, RefreshMoves
<1> QED
  BY <1>3, StandsBack

LEMMA DeadFlow ==
  ASSUME TypeInv, [Next]_vars, NEW s \in Sessions, Dead(s)'
  PROVE  \/ Dead(s)
         \/ \E v \in Vaults : /\ StoreWrites(v) /\ Task(v).who = "signOut"
                              /\ s \in signOut[v].meant
<1>1. CASE s \in signedOut'
  BY <1>1, SignedOutFlow DEF Dead
<1>2. ASSUME NEW v \in Vaults, signOut'[v].at \in Past, s \in signOut'[v].meant
      PROVE  \/ Dead(s)
             \/ /\ StoreWrites(v) /\ Task(v).who = "signOut" /\ s \in signOut[v].meant
  <2>1. NoSignOut.at = "none"
    BY Fields
  <2>2. \/ signOut[v].at \in Past /\ s \in signOut[v].meant
        \/ StoreWrites(v) /\ Task(v).who = "signOut" /\ s \in signOut[v].meant
    BY <1>2, <2>1, SignOutMoves DEF Past
  <2> QED
    BY <2>2 DEF Dead
<1> QED
  BY <1>1, <1>2 DEF Dead

LEMMA OutKept ==
  ASSUME TypeInv, [Next]_vars, \A u \in Vaults : SignInInv(u),
         NEW s \in Sessions, FreshInv(s), Dead(s), Out(s)
  PROVE  Out(s)'
<1>1. \A u \in Vaults : ~ (SignInKept(u) /\ Answer(u, "signIn").token.of = s)
  BY KeepsExchanged DEF FreshInv, Nowhere, Dead
<1>2. store'.of # s
  BY StoreFlow, StoreHead DEF Out, NoTask
<1>3. ASSUME NEW v \in Vaults PROVE NoTask(v, s)'
  BY <1>1, NoTaskStep DEF Out
<1>4. ASSUME NEW v \in Vaults, RefreshStands(v)' PROVE refreshing'[v].token.of # s
  BY <1>4, StandsFlow DEF Out
<1> QED
  BY <1>2, <1>3, <1>4 DEF Out

\* The write of a sign-out leaves nothing of what it meant.
LEMMA OutNew ==
  ASSUME TypeInv, NEW v \in Vaults, ClearInv(v), StoreWrites(v), Task(v).who = "signOut",
         NEW s \in Sessions, s \in signOut[v].meant
  PROVE  Out(s)'
<1>0. tail \in [Vaults -> Seq(Tasks)]
  BY DEF TypeInv, TailTyped
<1>1. /\ tail[v] # <<>> /\ Task(v).do = "write" /\ tail' = [tail EXCEPT ![v] = Tail(tail[v])]
      /\ store' = Task(v).what /\ refreshing' = refreshing /\ epoch' = epoch
  BY DEF StoreWrites, Taken, memory
<1>2. /\ Shifted(tail[v], Tail(tail[v])) /\ Task(v) = tail[v][1] /\ 1 \in DOMAIN tail[v]
      /\ Task(v) \in Tasks /\ TaskInv(v, Task(v))
  BY <1>1, AtTask
<1>3. /\ signOut[v].at = "clearing" /\ Task(v) = Write("signOut", NoToken)
      /\ Task(v).what = NoToken
  BY <1>1, <1>2, Fields DEF TaskInv, TaskAt
<1>4. store'.of # s
  BY <1>1, <1>3, Fields
<1>5. /\ \A p, r \in DOMAIN tail[v] :
           tail[v][p] = Write("signOut", NoToken) /\ p < r =>
             tail[v][r].what.of \notin signOut[v].meant
      /\ \A u \in Vaults : /\ u # v => NoTask(u, s)
                           /\ RefreshStands(u) => refreshing[u].token.of # s
  BY <1>3 DEF ClearInv, ClearAt
<1>6. ASSUME NEW i \in DOMAIN tail'[v] PROVE tail'[v][i].what.of # s
  <2>1. i \in Nat /\ i > 0 /\ i + 1 \in DOMAIN tail[v] /\ tail'[v][i] = tail[v][i + 1]
    BY <1>0, <1>1, <1>2, <1>6 DEF Shifted
  <2>2. 1 < i + 1
    BY <2>1
  <2> QED
    BY <1>2, <1>3, <1>5, <2>1, <2>2
<1>7. ASSUME NEW u \in Vaults PROVE NoTask(u, s)'
  <2>1. u # v => tail'[u] = tail[u]
    BY <1>0, <1>1
  <2> QED
    BY <1>5, <1>6, <2>1 DEF NoTask
<1>8. \A u \in Vaults : RefreshStands(u)' => refreshing'[u].token.of # s
  BY <1>1, <1>5 DEF RefreshStands
<1> QED
  BY <1>4, <1>7, <1>8 DEF Out

LEMMA OutStep ==
  ASSUME TypeInv, [Next]_vars, \A u \in Vaults : SignInInv(u) /\ ClearInv(u),
         NEW s \in Sessions, FreshInv(s), OutInv(s)
  PROVE  OutInv(s)'
BY DeadFlow, OutKept, OutNew DEF OutInv

\* While a sign-out clears, nobody gets at what it meant.
LEMMA ClearOthers ==
  ASSUME TypeInv, [Next]_vars, TicketsInv, \A u \in Vaults : SignInInv(u) /\ TurnInv(u),
         \A t \in Sessions : FreshInv(t), NEW v \in Vaults, ClearInv(v),
         signOut[v].at = "clearing", NEW s \in signOut[v].meant, NEW u \in Vaults
  PROVE  /\ u # v => NoTask(u, s)'
         /\ RefreshStands(u)' => refreshing'[u].token.of # s
<1>0. s \in Sessions
  BY DEF TypeInv, OpsTyped, SignOuts
<1>1. /\ ClearAt(tail[v], signOut[v].meant, RefreshStands(v))
      /\ u # v => NoTask(u, s)
      /\ RefreshStands(u) => refreshing[u].token.of # s
  BY DEF ClearInv
<1>2. ~ (SignInKept(u) /\ Answer(u, "signIn").token.of = s)
  BY <1>0, KeepsExchanged DEF FreshInv, Nowhere
<1>3. u # v => NoTask(u, s)'
  BY <1>0, <1>1, <1>2, NoTaskStep
<1>4. ASSUME StoreReads(u), Task(u).who = "refresh" PROVE ~ RefreshStands(u)
  <2>1. /\ tail[u] # <<>> /\ Task(u).do = "read"
        /\ Task(u) \in Tasks /\ Task(u) = tail[u][1] /\ 1 \in DOMAIN tail[u]
        /\ TaskInv(u, Task(u))
    <3>1. tail[u] # <<>> /\ Task(u).do = "read"
      BY <1>4 DEF StoreReads
    <3> QED
      BY <3>1, AtTask
  <2>2. ~ HasLock
    <3>1. HasLock => First(lock, <<v, "signOut">>)
      BY DEF TurnInv
    <3> QED
      BY <1>4, <2>1, <3>1, Alone
  <2>3. u = v
    BY <2>2, LockAssumption
  <2>4. Task(u) = Read("refresh")
    BY <1>4, <2>1 DEF TaskInv, TaskAt, Read, Tasks
  <2>5. PICK p \in DOMAIN tail[v] : tail[v][p] = Write("signOut", NoToken)
    BY <1>1 DEF ClearAt
  <2>6. 1 < p
    <3>1. DOMAIN tail[v] = 1 .. Len(tail[v]) /\ Len(tail[v]) \in Nat
      BY LenProperties DEF TypeInv, TailTyped
    <3>2. p # 1
      BY <2>1, <2>3, <2>5, Fields
    <3> QED
      BY <3>1, <3>2
  <2>7. RefreshStands(v) => tail[v][1] # Read("refresh")
    BY <1>1, <2>1, <2>3, <2>5, <2>6 DEF ClearAt
  <2> QED
    BY <2>1, <2>3, <2>4, <2>7
<1>5. RefreshStands(u)' => refreshing'[u].token.of # s
  BY <1>0, <1>1, <1>4, StandsFlow
<1> QED
  BY <1>3, <1>5

\* While a sign-out clears, its queue stays what it was for it.
LEMMA ClearQueue ==
  ASSUME TypeInv, [Next]_vars, \A u \in Vaults : SignInInv(u),
         \A t \in Sessions : FreshInv(t), NEW v \in Vaults, ClearInv(v),
         signOut[v].at = "clearing", signOut'[v].at = "clearing"
  PROVE  ClearAt(tail'[v], signOut[v].meant, RefreshStands(v)')
<1> DEFINE q == tail[v]
           m == signOut[v].meant
<1>0. /\ q \in Seq(Tasks) /\ m \in SUBSET Sessions
      /\ signOut \in [Vaults -> SignOuts]
  BY DEF TypeInv, TailTyped, OpsTyped, SignOuts
<1>1. PICK b \in BOOLEAN, c \in BOOLEAN : b = RefreshStands(v) /\ c = RefreshStands(v)'
  BY DEF RefreshStands
<1>2. ClearAt(q, m, b)
  BY <1>1 DEF ClearInv
<1>3. ~ Close(v) /\ ~ BeginSignOut(v) /\ ~ SignOutGetsLock(v)
  BY <1>0, Fields DEF Close, BeginSignOut, SignOutGetsLock
<1>4. c => b \/ \A i \in DOMAIN q : q[i] # Read("refresh")
  BY <1>1, <1>3, ReadStands
<1>5. ~ (StoreWrites(v) /\ Task(v).who = "signOut")
  <2>1. StoreWrites(v) /\ Task(v).who = "signOut" => signOut' = [signOut EXCEPT ![v].at = "cleared"]
    BY DEF StoreWrites
  <2> QED
    BY <1>0, <2>1 DEF SignOuts
<1> HIDE DEF q, m
<1> SUFFICES ClearAt(tail'[v], m, c)
  BY <1>1 DEF q, m
<1>6. CASE tail'[v] = tail[v]
  BY <1>2, <1>4, <1>6 DEF ClearAt, q
<1>7. ASSUME NEW e \in Tasks, Grown(q, tail'[v], e), e.what.of \notin m,
             e # Write("signOut", NoToken)
      PROVE  ClearAt(tail'[v], m, c)
  BY <1>0, <1>2, <1>4, <1>7, ClearGrown
<1>8. ASSUME NEW e \in Tasks, Grown(q, tail'[v], e),
             \/ SignInKept(v) /\ e = Write("signIn", Answer(v, "signIn").token)
             \/ e = RestoreTask \/ e = Read("refresh") \/ e = Write("refresh", NoToken)
             \/ /\ Rotated(v) /\ RefreshStands(v)
                /\ e = Write("refresh", Answer(v, "refresh").token)
      PROVE  ClearAt(tail'[v], m, c)
  <2>1. NoToken.of \notin m
    BY <1>0, Fields
  <2>2. SignInKept(v) => Answer(v, "signIn").token.of \notin m
    <3>1. SignInKept(v) => Exchanged(v, Answer(v, "signIn").token.of)
      BY KeepsExchanged
    <3> QED
      BY <1>0, <3>1 DEF FreshInv, Nowhere, m
  <2>3. Rotated(v) /\ RefreshStands(v) => Answer(v, "refresh").token.of \notin m
    BY RotatedSame DEF ClearInv, m
  <2>4. e.what.of \notin m /\ e.who # "signOut"
    BY <1>8, <2>1, <2>2, <2>3, Fields
  <2>5. e # Write("signOut", NoToken)
    BY <2>4, Fields
  <2> QED
    BY <1>7, <1>8, <2>4, <2>5
<1>9. ASSUME tail[v] # <<>>, StoreStep(v),
             ~ (StoreWrites(v) /\ Task(v).who = "signOut"),
             \/ Task(v).do = "read" \/ Task(v).do = "restore"
             \/ Task(v).do = "write" /\ StoreWrites(v)
      PROVE  /\ q[1] # Write("signOut", NoToken) /\ q # <<>>
             /\ Shifted(q, Tail(q))
  BY <1>9, AtTask, Fields DEF q
<1>10. ASSUME tail[v] # <<>>, StoreStep(v), tail'[v] = Tail(tail[v]),
             \/ Task(v).do = "read" \/ Task(v).do = "restore"
             \/ Task(v).do = "write" /\ StoreWrites(v)
      PROVE  ClearAt(tail'[v], m, c)
  <2>1. q[1] # Write("signOut", NoToken) /\ Shifted(q, tail'[v])
    BY <1>5, <1>9, <1>10 DEF q
  <2> QED
    BY <1>0, <1>2, <1>4, <2>1, ClearShifted
<1>11. ASSUME tail[v] # <<>>, StoreRestores(v), Task(v).do = "restore",
             tail'[v] = [tail[v] EXCEPT ![1] = Write("nobody", NoToken)]
      PROVE  ClearAt(tail'[v], m, c)
  <2>1. q[1] # Write("signOut", NoToken) /\ q # <<>>
    BY <1>5, <1>9, <1>11 DEF StoreStep
  <2>2. tail'[v] = [q EXCEPT ![1] = Write("nobody", NoToken)]
    BY <1>11 DEF q
  <2> QED
    BY <1>0, <1>2, <1>4, <2>1, <2>2, ClearReplaced
<1> QED
  BY <1>3, <1>6, <1>8, <1>10, <1>11, TailMoves DEF q

\* Without a lock a sign-out clears at once, and overtakes its refresh.
LEMMA ClearBegun ==
  ASSUME TypeInv, TypeInv', NEW v \in Vaults, BeginSignOut(v), ~ HasLock
  PROVE  ClearInv(v)'
<1> DEFINE w == Write("signOut", NoToken)
<1>0. /\ tail[v] \in Seq(Tasks) /\ tail \in [Vaults -> Seq(Tasks)]
      /\ epoch \in [Vaults -> Nat] /\ \A u \in Vaults : u = v
  BY LockAssumption DEF TypeInv, TailTyped, KnownTyped
<1>1. /\ tail' = [tail EXCEPT ![v] = Append(tail[v] \o ReadThenClear, w)]
      /\ epoch' = [epoch EXCEPT ![v] = @ + 1] /\ refreshing' = refreshing
      /\ signOut[v].at = "none"
  BY DEF BeginSignOut
<1>2. ~ RefreshStands(v)'
  <2>1. refreshing[v].epoch <= epoch[v] /\ refreshing[v].epoch \in Nat
    BY DEF TypeInv, OpsTyped, Refreshes, RefreshInv
  <2> QED
    BY <1>0, <1>1, <2>1 DEF RefreshStands
<1>3. /\ \A i \in DOMAIN tail'[v] :
           \/ i \in DOMAIN tail[v] /\ tail'[v][i] = tail[v][i]
           \/ i = Len(tail[v]) + 1 /\ tail'[v][i] = Read("signOut")
           \/ i = Len(tail[v]) + 2 /\ tail'[v][i] = Write("nobody", NoToken)
           \/ i = Len(tail[v]) + 3 /\ tail'[v][i] = w
      /\ Len(tail[v]) + 3 \in DOMAIN tail'[v] /\ tail'[v][Len(tail[v]) + 3] = w
      /\ DOMAIN tail[v] = 1 .. Len(tail[v]) /\ Len(tail[v]) \in Nat
  <2>1. tail'[v] = Append(tail[v] \o ReadThenClear, w)
    BY <1>0, <1>1
  <2> QED
    BY <1>0, <2>1, SignOutQueues
<1>4. \A i \in DOMAIN tail[v] : tail[v][i] # w
  <2>1. w.do = "write" /\ w.who = "signOut"
    BY Fields
  <2>2. \A i \in DOMAIN tail[v] : TaskAt(tail[v][i], refreshing[v].at, signOut[v].at)
    BY DEF TypeInv, TailInv, TaskInv
  <2> HIDE DEF w
  <2> QED
    BY <1>1, <2>1, <2>2 DEF TaskAt
<1>5. w # Read("signOut") /\ w # Write("nobody", NoToken)
  BY Fields
<1> HIDE DEF w
<1>6. \A p, r \in DOMAIN tail'[v] : ~ (tail'[v][p] = w /\ p < r)
  BY <1>3, <1>4, <1>5
<1>7. ClearAt(tail'[v], signOut'[v].meant, RefreshStands(v)')
  BY <1>2, <1>3, <1>6 DEF ClearAt, w
<1> QED
  BY <1>0, <1>2, <1>7 DEF ClearInv

\* With one it clears in its turn, when no refresh of any vault has gone far.
LEMMA ClearGetsLock ==
  ASSUME TypeInv, TypeInv', TicketsInv, \A u \in Vaults : TurnInv(u) /\ SecretInv(u),
         NEW v \in Vaults, SignOutGetsLock(v)
  PROVE  ClearInv(v)'
<1> DEFINE w == Write("signOut", NoToken)
<1>0. /\ tail[v] \in Seq(Tasks) /\ tail \in [Vaults -> Seq(Tasks)]
      /\ signOut \in [Vaults -> SignOuts] /\ w \in Tasks
  BY TasksTyped, NoneTyped DEF TypeInv, TailTyped, OpsTyped
<1>1. /\ tail' = [tail EXCEPT ![v] = Append(tail[v], w)]
      /\ signOut' = [signOut EXCEPT ![v].at = "clearing"]
      /\ refreshing' = refreshing /\ signOut[v].at = "waiting"
      /\ First(lock, <<v, "signOut">>)
  BY DEF SignOutGetsLock, Queue, Holds, First
<1>2. HasLock
  BY <1>1 DEF TypeInv, RefreshInv
<1>3. signOut'[v].meant = signOut[v].meant /\ signOut[v].meant \in SUBSET Sessions
  BY <1>0, <1>1 DEF SignOuts
<1>4. \A u \in Vaults : /\ refreshing[u].token = NoToken
                        /\ \A i \in DOMAIN tail[u] : tail[u][i].who # "refresh"
  BY <1>1, <1>2, Alone
<1>5. Grown(tail[v], tail'[v], w)
  BY <1>0, <1>1, Appended
<1>6. \A i \in DOMAIN tail[v] : tail[v][i] # w
  BY <1>1, Fields DEF TypeInv, TailInv, TaskInv, TaskAt
<1>7. w # Read("refresh") /\ \A i \in DOMAIN tail[v] : tail[v][i] # Read("refresh")
  BY <1>4, Fields
<1> HIDE DEF w
<1>8. /\ \A p, r \in DOMAIN tail'[v] : ~ (tail'[v][p] = w /\ p < r)
      /\ \A r \in DOMAIN tail'[v] : tail'[v][r] # Read("refresh")
      /\ \E p \in DOMAIN tail'[v] : tail'[v][p] = w
  BY <1>5, <1>6, <1>7 DEF Grown
<1>9. ClearAt(tail'[v], signOut'[v].meant, RefreshStands(v)')
  BY <1>8 DEF ClearAt, w
<1>10. ASSUME NEW s \in signOut[v].meant, NEW u \in Vaults
       PROVE  (u # v => NoTask(u, s)') /\ refreshing'[u].token.of # s
  <2>1. s \in Sessions /\ NoToken.of # s
    BY <1>3, Fields
  <2>2. ASSUME u # v, NEW i \in DOMAIN tail[u] PROVE tail[u][i].what.of # s
    <3>1. tail[u][i].who = "signIn" => tail[u][i].what.of # s
      BY <2>2 DEF SecretInv, Secret
    <3>2. tail[u][i].who # "signIn" => tail[u][i].what = NoToken
      <4>1. TaskInv(u, tail[u][i]) /\ tail[u][i] \in Tasks /\ tail[u][i].who # "refresh"
        BY <1>0, <1>4, <2>2 DEF TypeInv, TailInv
      <4>2. tail[u][i].who \in {"signIn", "refresh", "signOut", "nobody"}
        BY <4>1, TasksTyped DEF Tasks
      <4> QED
        BY <4>1, <4>2 DEF TaskInv, TaskAt
    <3> QED
      BY <2>1, <3>1, <3>2
  <2>3. u # v => tail'[u] = tail[u]
    BY <1>0, <1>1
  <2> QED
    BY <1>1, <1>4, <2>1, <2>2, <2>3 DEF NoTask
<1> QED
  BY <1>3, <1>9, <1>10 DEF ClearInv

LEMMA ClearStep ==
  ASSUME TypeInv, [Next]_vars, TicketsInv,
         \A u \in Vaults : SignInInv(u) /\ SecretInv(u) /\ TurnInv(u) /\ ClearInv(u),
         \A s \in Sessions : FreshInv(s), NEW v \in Vaults
  PROVE  ClearInv(v)'
<1>0. TypeInv'
  BY TypeInvStep
<1>1. CASE /\ signOut[v].at = "clearing" /\ signOut'[v].at = "clearing"
           /\ signOut'[v].meant = signOut[v].meant
  <2>1. ClearAt(tail'[v], signOut[v].meant, RefreshStands(v)')
    BY <1>1, ClearQueue
  <2>2. \A s \in signOut[v].meant, u \in Vaults :
          /\ u # v => NoTask(u, s)'
          /\ RefreshStands(u)' => refreshing'[u].token.of # s
    BY <1>1, ClearOthers
  <2> QED
    BY <1>1, <2>1, <2>2 DEF ClearInv
<1>2. CASE BeginSignOut(v) /\ ~ HasLock
  BY <1>0, <1>2, ClearBegun
<1>3. CASE SignOutGetsLock(v)
  BY <1>0, <1>3, ClearGetsLock
<1>4. CASE signOut'[v].at # "clearing"
  BY <1>4 DEF ClearInv
<1>5. NoSignOut.at = "none"
  BY Fields
<1> QED
  BY <1>1, <1>2, <1>3, <1>4, <1>5, SignOutMoves

-----------------------------------------------------------------------------
(* The invariant. *)

VaultInv ==
  /\ TypeInv /\ TicketsInv
  /\ \A v \in Vaults : SignInInv(v) /\ SecretInv(v) /\ TurnInv(v) /\ ClearInv(v)
  /\ \A s \in Sessions : FreshInv(s) /\ OutInv(s)

LEMMA VaultInvInit == Init => VaultInv
<1> SUFFICES ASSUME Init PROVE VaultInv
  OBVIOUS
<1>1. TypeInv
  BY TypeInvInit
<1>2. TicketsInv
  BY DEF Init, TicketsInv, Bound
<1>3. /\ store.of = 0 /\ signedOut = {} /\ NoCall.what = "none"
      /\ \A v \in Vaults : /\ tail[v] = <<>> /\ signIn[v].at = "none"
                           /\ refreshing[v].token.of = 0 /\ refreshing[v].at = "none"
                           /\ signOut[v].at = "none" /\ signOut[v].meant = {}
                           /\ current[v].of = 0
                           /\ Answer(v, "signIn").what = "none"
  BY NoneTyped DEF Init, NoToken, NoSignIn, NoRefresh, NoSignOut, NoCall, Answer, Kinds
<1>4. \A s \in Sessions : s # 0
  BY DEF Sessions
<1>5. ASSUME NEW v \in Vaults PROVE SignInInv(v) /\ SecretInv(v) /\ TurnInv(v) /\ ClearInv(v)
  BY <1>3 DEF SignInInv, SecretInv, TurnInv, ClearInv
<1>6. ASSUME NEW s \in Sessions PROVE FreshInv(s) /\ OutInv(s)
  BY <1>3, <1>4 DEF FreshInv, OutInv, Nowhere, NoTask, Dead, Out, Past, Exchanged
<1> QED
  BY <1>1, <1>2, <1>5, <1>6 DEF VaultInv

LEMMA VaultInvStep == VaultInv /\ [Next]_vars => VaultInv'
<1> SUFFICES ASSUME VaultInv, [Next]_vars PROVE VaultInv'
  OBVIOUS
<1>1. TypeInv' /\ TicketsInv'
  BY TypeInvStep, TicketsStep DEF VaultInv
<1>2. ASSUME NEW v \in Vaults
      PROVE  SignInInv(v)' /\ SecretInv(v)' /\ TurnInv(v)' /\ ClearInv(v)'
  BY SignInInvStep, SecretStep, TurnStep, ClearStep DEF VaultInv
<1>3. ASSUME NEW s \in Sessions PROVE FreshInv(s)' /\ OutInv(s)'
  BY FreshStep, OutStep DEF VaultInv
<1> QED
  BY <1>1, <1>2, <1>3 DEF VaultInv

LEMMA VaultInvHolds == Spec => []VaultInv
BY VaultInvInit, VaultInvStep, PTL DEF Spec

\* A session that a sign-out ended for never comes back in the store, whatever
\* sign-in, refresh or restart was under way in whatever vault
\* (session-vault.ts:97).
THEOREM StaysOut == Spec => []SignedOutStaysOut
<1>1. VaultInv => SignedOutStaysOut
  BY DEF VaultInv, TypeInv, GhostsTyped, OutInv, Dead, Out, SignedOutStaysOut
<1> QED
  BY <1>1, VaultInvHolds, PTL

-----------------------------------------------------------------------------
(* A vault that is alone: what it knows, and what its refreshes answer. *)

KnownInv(v, s) == s \in signOut[v].meant \/ Dead(s) => current[v].of # s
MeantInv(v) == signOut[v].at = "none" => signOut[v].meant = {}
AloneInv ==
  ~ HasLock => \A v \in Vaults : MeantInv(v) /\ \A s \in Sessions : KnownInv(v, s)

\* No refresh that stands has a token of what was signed out of.
LEMMA StandsClear ==
  ASSUME VaultInv, ~ HasLock, NEW v \in Vaults, MeantInv(v), NEW s \in Sessions,
         s \in signOut[v].meant \/ Dead(s), RefreshStands(v)
  PROVE  refreshing[v].token.of # s
<1>1. CASE Dead(s)
  BY <1>1 DEF VaultInv, OutInv, Out
<1>2. CASE s \in signOut[v].meant /\ signOut[v].at = "clearing"
  BY <1>2 DEF VaultInv, ClearInv
<1>3. CASE s \in signOut[v].meant /\ ~ Dead(s)
  <2>1. signOut[v].at \notin {"none", "waiting"} \cup Past
    BY <1>3 DEF MeantInv, Dead, VaultInv, TypeInv, RefreshInv
  <2>2. signOut[v].at = "clearing"
    BY <2>1 DEF VaultInv, TypeInv, OpsTyped, SignOuts, Past
  <2> QED
    BY <1>2, <1>3, <2>2
<1> QED
  BY <1>1, <1>3

LEMMA AloneInvStep == VaultInv /\ AloneInv /\ [Next]_vars => AloneInv'
<1> SUFFICES ASSUME VaultInv, AloneInv, [Next]_vars, ~ HasLock, NEW v \in Vaults
             PROVE  MeantInv(v)' /\ \A s \in Sessions : KnownInv(v, s)'
  BY DEF AloneInv
<1>0. /\ TypeInv /\ MeantInv(v) /\ (\A s \in Sessions : KnownInv(v, s))
      /\ \A u \in Vaults : u = v
  BY LockAssumption DEF VaultInv, AloneInv
<1>1. MeantInv(v)'
  <2>1. NoSignOut.meant = {}
    BY Fields
  <2> QED
    BY <1>0, <2>1, SignOutMoves DEF MeantInv
<1>2. ASSUME NEW s \in Sessions, s \in signOut'[v].meant \/ Dead(s)' PROVE current'[v].of # s
  <2> SUFFICES ASSUME current'[v].of = s PROVE FALSE
    OBVIOUS
  <2>1. ~ BeginSignOut(v)
    <3>1. current \in [Vaults -> Maybe]
      BY <1>0 DEF TypeInv, KnownTyped
    <3>2. BeginSignOut(v) => current'[v] = NoToken
      BY <3>1 DEF BeginSignOut
    <3> QED
      BY <1>2, <3>2, Fields
  <2>2. s \in signOut[v].meant \/ Dead(s)
    BY <1>0, <1>2, <2>1, MeantFlow, DeadFlow
  <2>3. current[v].of # s
    BY <1>0, <2>2 DEF KnownInv
  <2>4. ~ (SignInKept(v) /\ Answer(v, "signIn").token.of = s)
    BY <2>2, KeepsExchanged DEF VaultInv, FreshInv, Nowhere, Dead
  <2>5. ~ (RefreshStands(v) /\ refreshing[v].token.of = s)
    BY <1>0, <2>2, StandsClear
  <2> QED
    BY <1>0, <2>3, <2>4, <2>5, CurrentFlow
<1> QED
  BY <1>1, <1>2 DEF KnownInv

LEMMA AloneInvHolds == Spec => [](VaultInv /\ AloneInv)
<1>1. Init => AloneInv
  <2>1. NoSignOut.meant = {} /\ NoSignOut.at = "none" /\ NoToken.of = 0
    BY Fields
  <2> QED
    BY <2>1 DEF Init, AloneInv, MeantInv, KnownInv, Dead, Past, Sessions
<1> QED
  BY <1>1, VaultInvInit, VaultInvStep, AloneInvStep, PTL DEF Spec

\* A vault that is alone, as on the desktop: no refresh answers with a token of
\* a session it is signing out of or has signed out of, whether the refresh was
\* overtaken or read the store behind the sign-out (session-vault.ts:177).
THEOREM AloneAnswers == ASSUME ~ HasLock PROVE Spec => AnswersStand
<1>1. ASSUME VaultInv, AloneInv, [Next]_vars, NEW v \in Vaults,
             given'[v] # given[v], given'[v] # 0
      PROVE  given'[v] \notin signedOut \cup signOut[v].meant
  <2>0. /\ TypeInv /\ MeantInv(v) /\ (\A s \in Sessions : KnownInv(v, s))
        /\ given \in [Vaults -> {0} \cup Sessions] /\ given' \in [Vaults -> {0} \cup Sessions]
    BY <1>1, GhostsStep DEF VaultInv, AloneInv, TypeInv, GhostsTyped
  <2>1. PICK s \in Sessions : s = given'[v]
    BY <1>1, <2>0
  <2>2. FinishRefresh(v)
    <3>1. \A u \in Vaults :
            /\ BeginRefresh(u) \/ Close(u) => given' = [given EXCEPT ![u] = 0]
            /\ FinishRefresh(u) => given' = [given EXCEPT ![u] = Heard(u).of]
            /\ BeginSignOut(u) \/ StoreWrites(u) \/ NothingToSpend(u) \/ SignOutAnswered(u) =>
                 given' = given
      BY DEF BeginRefresh, Close, FinishRefresh, BeginSignOut, StoreWrites, NothingToSpend,
         SignOutAnswered, SignOutOver
    <3>2. UNCHANGED ghosts => given' = given
      BY DEF ghosts
    <3> QED
      BY <1>1, <2>0, <3>1, <3>2, WhoTouches
  <2>3. s = Heard(v).of
    BY <2>0, <2>1, <2>2 DEF FinishRefresh
  <2>4. ASSUME s \in signedOut \cup signOut[v].meant PROVE FALSE
    <3>1. s \in signOut[v].meant \/ Dead(s)
      BY <2>4 DEF Dead
    <3>2. current[v].of # s
      BY <2>0, <3>1 DEF KnownInv
    <3>3. RefreshStands(v) => refreshing[v].token.of # s
      BY <1>1, <2>0, <3>1, StandsClear
    <3>4. NoToken.of # s
      BY Fields
    <3> QED
      BY <2>3, <3>2, <3>3, <3>4 DEF Heard
  <2> QED
    BY <2>1, <2>4
<1>2. VaultInv /\ AloneInv /\ [Next]_vars =>
        [\A v \in Vaults :
           given'[v] # given[v] /\ given'[v] # 0 =>
             given'[v] \notin signedOut \cup signOut[v].meant]_vars
  BY <1>1
<1> QED
  BY <1>2, AloneInvHolds, PTL DEF Spec, AnswersStand

-----------------------------------------------------------------------------
(* The call of a refresh. *)

\* The call of a refresh: it is answered with a token that is no older, and
\* that the row had.
LEMMA CallsFlow ==
  ASSUME TypeInv, [Next]_vars, NEW o \in Slots, calls'[o].what = "refresh"
  PROVE  \/ /\ calls[o].what = "refresh" /\ calls'[o].token = calls[o].token
            /\ \/ calls'[o].at = calls[o].at \/ (calls'[o].at = "lost" /\ CallLost(o))
               \/ calls'[o].at = "refused" /\ calls[o].at \in {"sent", "read"}
               \/ calls'[o].at = "read" /\ calls[o].at = "sent"
         \/ /\ calls[o].what = "refresh" /\ calls[o].at \in {"sent", "read"}
            /\ calls'[o].at = "answered" /\ calls'[o].token.of = calls[o].token.of
            /\ calls[o].token.at <= calls'[o].token.at
            /\ calls'[o].token.at = calls[o].token.at + 1
            /\ calls'[o].token.at <= rows'[calls[o].token.of].at
         \/ \E v \in Vaults : /\ AskRotation(v) /\ o = <<v, "refresh">>
                              /\ calls'[o].at = "sent" /\ calls'[o].token = refreshing[v].token
         \/ \E v \in Vaults : /\ SpendKept(v) /\ o = <<v, "signOut">>
                              /\ calls'[o].at = "sent" /\ calls'[o].token = signOut[v].stored
         \/ \E v \in Vaults, p \in Slots : Close(v) /\ o = <<v, "stray">> /\ calls'[o] = calls[p]
<1> DEFINE Same == /\ calls[o].what = "refresh" /\ calls'[o].token = calls[o].token
                   /\ \/ calls'[o].at = calls[o].at \/ (calls'[o].at = "lost" /\ CallLost(o))
                      \/ calls'[o].at = "refused" /\ calls[o].at \in {"sent", "read"}
                      \/ calls'[o].at = "read" /\ calls[o].at = "sent"
           Ends == /\ calls[o].what = "refresh" /\ calls[o].at \in {"sent", "read"}
                   /\ calls'[o].at = "answered" /\ calls'[o].token.of = calls[o].token.of
                   /\ calls[o].token.at <= calls'[o].token.at
                   /\ calls'[o].token.at = calls[o].token.at + 1
                   /\ calls'[o].token.at <= rows'[calls[o].token.of].at
           Goal == \/ Same \/ Ends
                   \/ \E v \in Vaults :
                        /\ AskRotation(v) /\ o = <<v, "refresh">>
                        /\ calls'[o].at = "sent" /\ calls'[o].token = refreshing[v].token
                   \/ \E v \in Vaults :
                        /\ SpendKept(v) /\ o = <<v, "signOut">>
                        /\ calls'[o].at = "sent" /\ calls'[o].token = signOut[v].stored
                   \/ \E v \in Vaults, p \in Slots :
                        Close(v) /\ o = <<v, "stray">> /\ calls'[o] = calls[p]
<1>0. /\ calls \in [Slots -> Calls] /\ \A p \in Slots : CallInv(calls[p])
      /\ rows \in [Sessions -> Rows]
      /\ \A v \in Vaults, kind \in Kinds : <<v, kind>> \in Slots
  BY NoneTyped DEF TypeInv, CallsTyped, RowsTyped
<1>1. calls'[o] = calls[o] => Same
  OBVIOUS
<1>1a. (Same => Goal) /\ (Ends => Goal)
  OBVIOUS
<1> HIDE DEF Ends, Goal
<1>2. ASSUME NEW v \in Vaults, NEW kind \in Kinds, NEW c, Asks(v, kind, c)
      PROVE  calls'[o] = calls[o] \/ (o = <<v, kind>> /\ calls'[o] = c)
  <2>1. PICK p \in Slots : p = <<v, kind>>
    BY <1>0
  <2>2. calls' = [calls EXCEPT ![p] = c]
    BY <1>2, <2>1 DEF Asks
  <2> QED
    BY <1>0, <2>1, <2>2 DEF Slots
<1>3. ASSUME NEW v \in Vaults,
             \/ SignInKept(v) \/ SignInOver(v) \/ CannotRotate(v) \/ Rotated(v) \/ BeginSignIn(v)
             \/ RotationLost(v) \/ NothingToSpend(v) \/ SignOutAnswered(v) \/ SignInOvertaken(v)
             \/ AskEnd(v)
      PROVE  Same
  <2>1. \E kind \in Kinds : \E c : Asks(v, kind, c) /\ c.what # "refresh"
    <3>1. /\ NoCall.what = "none" /\ Call("exchange", NoToken).what = "exchange"
          /\ \A token : Call("end", token).what = "end"
      BY DEF NoCall, Call
    <3> QED
      BY <1>3, <3>1 DEF SignInKept, SignInOver, CannotRotate, Rotated, RotationLost, BeginSignIn,
         NothingToSpend, SignOutAnswered, SignOutOver, HangsUp, SignInOvertaken, AskEnd, Kinds
  <2> QED
    BY <1>1, <1>2, <2>1
<1>4. ASSUME NEW v \in Vaults, AskRotation(v) PROVE Goal
  <2>1. Asks(v, "refresh", Call("refresh", refreshing[v].token)) /\ "refresh" \in Kinds
    BY <1>4 DEF AskRotation, Kinds
  <2>2. \A token : Call("refresh", token).at = "sent" /\ Call("refresh", token).token = token
    BY DEF Call
  <2> QED
    BY <1>1, <1>2, <1>4, <2>1, <2>2 DEF Goal
<1>5. ASSUME NEW v \in Vaults, SpendKept(v) PROVE Goal
  <2>1. Asks(v, "signOut", Call("refresh", signOut[v].stored)) /\ "signOut" \in Kinds
    BY <1>5 DEF SpendKept, Kinds
  <2>2. \A token : Call("refresh", token).at = "sent" /\ Call("refresh", token).token = token
    BY DEF Call
  <2> QED
    BY <1>1, <1>2, <1>5, <2>1, <2>2 DEF Goal
<1>6. ASSUME NEW v \in Vaults, Close(v) PROVE Goal
  <2>1. PICK kind \in Kinds :
          calls' = [p \in Slots |-> IF p = <<v, "stray">> THEN calls[<<v, kind>>]
                                    ELSE IF p[1] = v THEN NoCall ELSE calls[p]]
    BY <1>6 DEF Close
  <2>2. PICK q \in Slots : q = <<v, kind>>
    BY <1>0
  <2>3. \/ o = <<v, "stray">> /\ calls'[o] = calls[q]
        \/ calls'[o] = NoCall \/ calls'[o] = calls[o]
    BY <2>1, <2>2
  <2>4. NoCall.what # "refresh"
    BY DEF NoCall
  <2> QED
    BY <1>1, <1>6, <2>3, <2>4 DEF Goal
<1>7. ASSUME NEW p \in Slots, p # o, BookStep(p) \/ CallLost(p) PROVE Same
  <2>1. \/ calls' = calls \/ \E x : calls' = [calls EXCEPT ![p].at = x]
        \/ \E x, y : calls' = [calls EXCEPT ![p].at = x, ![p].token = y]
    <3>1. Replay(p) => Refuses(p) \/ \E y : Answers(p, y)
      BY DEF Replay
    <3>2. OpenSession(p) => \E y : Answers(p, y)
      BY DEF OpenSession
    <3>3. EndRow(p) => Refuses(p) \/ \E y : Answers(p, y)
      BY DEF EndRow
    <3>4. ReadRow(p) \/ WriteRow(p) =>
            Replay(p) \/ Refuses(p) \/ (\E y : Answers(p, y)) \/ calls' = [calls EXCEPT ![p].at = "read"]
      BY DEF ReadRow, WriteRow
    <3>5. CallLost(p) => calls' = [calls EXCEPT ![p].at = "lost"]
      BY DEF CallLost
    <3> QED
      BY <1>7, <3>1, <3>2, <3>3, <3>4, <3>5 DEF BookStep, Answers, Refuses
  <2>2. calls'[o] = calls[o]
    BY <1>0, <1>7, <2>1
  <2> QED
    BY <1>1, <2>2
<1>8. ASSUME BookStep(o) \/ CallLost(o) PROVE Goal
  <2>0. calls[o] \in Calls /\ CallInv(calls[o])
    BY <1>0
  <2>1. ASSUME NEW x, NEW y, \/ calls' = [calls EXCEPT ![o].at = x, ![o].token = y]
                             \/ y = calls[o].token /\ calls' = [calls EXCEPT ![o].at = x]
        PROVE  /\ calls'[o].what = calls[o].what /\ calls'[o].at = x /\ calls'[o].token = y
    BY <1>0, <2>0, <2>1 DEF Calls
  <2>2. CASE OpenSession(o)
    <3>1. calls[o].what = "exchange" /\ \E y : calls' = [calls EXCEPT ![o].at = "answered", ![o].token = y]
      BY <2>2 DEF OpenSession, Sent, Answers
    <3>2. calls'[o].what = "exchange"
      BY <2>1, <3>1
    <3> QED
      BY <3>2
  <2>3. CASE EndRow(o)
    <3>1. /\ calls[o].what = "end"
          /\ \/ \E x : calls' = [calls EXCEPT ![o].at = x]
             \/ calls' = [calls EXCEPT ![o].at = "answered", ![o].token = calls[o].token]
      BY <2>3 DEF EndRow, Sent, Answers, Refuses
    <3>2. PICK token : token = calls[o].token
      OBVIOUS
    <3> QED
      BY <1>1a, <2>1, <3>1, <3>2
  <2>4. CASE CallLost(o)
    <3>1. calls' = [calls EXCEPT ![o].at = "lost"]
      BY <2>4 DEF CallLost
    <3>2. PICK token : token = calls[o].token
      OBVIOUS
    <3> QED
      BY <1>1a, <2>1, <2>4, <3>1, <3>2
  <2>5. CASE ReadRow(o) \/ WriteRow(o)
    <3>0. /\ calls[o].what = "refresh" /\ calls[o].at \in {"sent", "read"}
          /\ calls[o].token \in Tokens
      BY <2>0, <2>5 DEF ReadRow, Sent, WriteRow, CallInv
    <3>1. PICK s \in Sessions, n \in Nat : s = calls[o].token.of /\ n = calls[o].token.at
      BY <3>0 DEF Tokens
    <3>2. PICK m \in Nat : m = rows[s].at
      BY <1>0, <3>1 DEF Rows
    <3>3. ASSUME Replay(o), n # m PROVE Goal
      <4>1. CASE /\ n = m - 1 /\ rows' = rows
                 /\ calls' = [calls EXCEPT ![o].at = "answered", ![o].token = [of |-> s, at |-> m]]
        <5>1. PICK y : y = [of |-> s, at |-> m]
          OBVIOUS
        <5>2. y.of = s /\ y.at = m
          BY <5>1
        <5>3. calls'[o].at = "answered" /\ calls'[o].token = y
          BY <2>1, <4>1, <5>1
        <5>4. rows'[s].at = m /\ n <= m /\ m = n + 1
          BY <3>2, <4>1
        <5>5. Ends
          BY <3>0, <3>1, <3>2, <5>2, <5>3, <5>4 DEF Ends
        <5> QED
          BY <1>1a, <5>5
      <4>2. CASE Refuses(o)
        <5>1. PICK token : token = calls[o].token
          OBVIOUS
        <5> QED
          BY <1>1a, <2>1, <3>0, <4>2, <5>1 DEF Refuses
      <4>3. Finds(calls[o].token) => n \in {m, m - 1}
        BY <3>1, <3>2 DEF Finds
      <4> QED
        BY <3>1, <3>2, <3>3, <4>1, <4>2, <4>3 DEF Replay, Answers
    <3>4. CASE ReadRow(o)
      <4>1. \/ Refuses(o) \/ calls' = [calls EXCEPT ![o].at = "read"]
            \/ Replay(o) /\ n # m
        BY <3>1, <3>2, <3>4 DEF ReadRow
      <4>2. ASSUME NEW x \in {"refused", "read"}, calls' = [calls EXCEPT ![o].at = x] PROVE Goal
        <5>1. PICK token : token = calls[o].token
          OBVIOUS
        <5>2. calls'[o].at = x /\ calls'[o].token = calls[o].token
          BY <2>1, <4>2, <5>1
        <5> QED
          BY <1>1a, <3>0, <4>2, <5>2
      <4> QED
        BY <3>3, <4>1, <4>2 DEF Refuses
    <3>5. CASE WriteRow(o)
      <4>1. CASE /\ n = m
                 /\ rows' = [rows EXCEPT ![s].at = @ + 1, ![s].fresh = TRUE, ![s].live = TRUE]
                 /\ Answers(o, [of |-> s, at |-> n + 1])
        <5>1. PICK y : y = [of |-> s, at |-> n + 1]
          OBVIOUS
        <5>2. y.of = s /\ y.at = n + 1
          BY <5>1
        <5>3. calls'[o].at = "answered" /\ calls'[o].token = y
          BY <2>1, <4>1, <5>1 DEF Answers
        <5>4. rows'[s].at = m + 1
          <6>1. PICK r : r = [rows EXCEPT ![s].at = @ + 1]
            OBVIOUS
          <6>2. r \in [Sessions -> Rows] /\ r[s].at = rows[s].at + 1
            BY <1>0, <3>1, <6>1 DEF Rows
          <6>3. rows' = [r EXCEPT ![s].fresh = TRUE, ![s].live = TRUE]
            BY <1>0, <3>1, <4>1, <6>1
          <6> QED
            BY <3>1, <3>2, <6>2, <6>3 DEF Rows
        <5>5. n = m
          BY <4>1
        <5>6. calls'[o].token.of = calls[o].token.of /\ calls'[o].token.at = rows'[s].at
          BY <3>1, <5>2, <5>3, <5>4, <5>5
        <5>7. calls[o].token.at <= calls'[o].token.at
          BY <3>1, <5>2, <5>3
        <5>8. calls'[o].token.at <= rows'[calls[o].token.of].at
          BY <3>1, <3>2, <5>4, <5>6
        <5>9. Ends
          BY <3>0, <3>1, <5>2, <5>3, <5>6, <5>7, <5>8 DEF Ends
        <5> QED
          BY <1>1a, <5>9
      <4>2. CASE Replay(o) /\ n # m
        BY <3>3, <4>2
      <4>3. CASE Replay(o) /\ n = m
        <5>1. Refuses(o)
          BY <3>1, <3>2, <4>3 DEF Replay
        <5>2. PICK token : token = calls[o].token
          OBVIOUS
        <5> QED
          BY <1>1a, <2>1, <3>0, <5>1, <5>2 DEF Refuses
      <4> QED
        BY <3>1, <3>2, <3>5, <4>1, <4>2, <4>3 DEF WriteRow
    <3> QED
      BY <2>5, <3>4, <3>5
  <2> QED
    BY <1>8, <2>2, <2>3, <2>4, <2>5 DEF BookStep
<1>9. ASSUME UNCHANGED calls PROVE Goal
  BY <1>1, <1>1a, <1>9
<1> HIDE DEF Same
<1>11. ASSUME NEW v \in Vaults,
              \/ BeginSignIn(v) \/ SignInKept(v) \/ SignInOvertaken(v) \/ SignInOver(v)
              \/ CannotRotate(v) \/ AskRotation(v) \/ Rotated(v) \/ RotationLost(v)
              \/ SpendKept(v) \/ NothingToSpend(v) \/ AskEnd(v) \/ SignOutAnswered(v)
              \/ Close(v)
       PROVE  Goal
  BY <1>3, <1>4, <1>5, <1>6, <1>1a, <1>11
<1>12. ASSUME NEW p \in Slots, BookStep(p) \/ CallLost(p) PROVE Goal
  BY <1>7, <1>8, <1>1a, <1>12
<1>13. Goal
  BY <1>9, <1>1a, <1>11, <1>12, WhoTouches
<1> QED
  BY <1>13 DEF Goal, Same, Ends

-----------------------------------------------------------------------------
(* The order of the tokens of a session: none that may still be spent is newer
   than one that is kept or may come to be. *)

Rotating(v) == refreshing[v].at \in {"read", "asked"}
Spends(o, t) ==
  calls[o].what = "refresh" /\ calls[o].at \in {"sent", "read"} /\ calls[o].token = t

\* The tokens a request may still be made with, or was.
Used(t) ==
  \/ t = store
  \/ \E v \in Vaults : signOut[v].stored = t \/ (Rotating(v) /\ refreshing[v].token = t)
  \/ \E o \in Slots : Spends(o, t)

\* The tokens the store has, or may get from what is under way.
Kept(t) ==
  \/ t = store
  \/ \E v \in Vaults : \/ Rotating(v) /\ refreshing[v].token = t
                       \/ \E i \in DOMAIN tail[v] : tail[v][i].what = t

UnusedInv(s) ==
  rows[s].at = 0 \/ (\E v \in Vaults : Exchanged(v, s)) =>
    \A t \in Tokens : t.of = s => ~ Used(t)
NewInv(v) ==
  \A s \in Sessions : Exchanged(v, s) => Answer(v, "signIn").token.at = 1 /\ rows[s].at = 1
AskInv(v) ==
  refreshing[v].at = "asked" => refreshing[v].token.at <= Answer(v, "refresh").token.at
AnswerInv(o) ==
  calls[o].what = "refresh" /\ calls[o].at = "answered" =>
    calls[o].token.at <= rows[calls[o].token.of].at
OrderInv == \A t, k \in Tokens : Used(t) /\ Kept(k) /\ t.of = k.of => t.at <= k.at
RangeInv ==
  \A t \in Tokens : /\ Used(t) \/ Kept(t) => t.at <= rows[t.of].at
                    /\ Kept(t) => rows[t.of].at <= t.at + 1

LEMMA StoredFlow ==
  ASSUME TypeInv, [Next]_vars, NEW v \in Vaults
  PROVE  \/ signOut'[v].stored \in {signOut[v].stored, NoToken}
         \/ StoreReads(v) /\ Task(v).who # "refresh" /\ signOut'[v].stored = store
<1> DEFINE Goal == \/ signOut'[v].stored \in {signOut[v].stored, NoToken}
                   \/ StoreReads(v) /\ Task(v).who # "refresh" /\ signOut'[v].stored = store
<1>0. signOut \in [Vaults -> SignOuts]
  BY DEF TypeInv, OpsTyped
<1>1. ASSUME NEW w \in Vaults, BeginSignOut(w) PROVE Goal
  <2>0. PICK o : /\ o = [NoSignOut EXCEPT !.at = IF HasLock THEN "waiting" ELSE "clearing",
                                          !.known = current[w],
                                          !.joins = refreshing[w].at # "none",
                                          !.meant = {store.of, current[w].of} \ {0}]
                 /\ signOut' = [signOut EXCEPT ![w] = o]
    BY <1>1 DEF BeginSignOut
  <2>1. o.stored = NoToken
    BY <2>0 DEF NoSignOut
  <2> QED
    BY <1>0, <2>0, <2>1
<1>2. ASSUME NEW w \in Vaults,
             SignOutGetsLock(w) \/ Cleared(w) \/ SpendKept(w) \/ AskEnd(w) \/ StoreWrites(w)
      PROVE  Goal
  <2>1. signOut' = signOut \/ \E at : signOut' = [signOut EXCEPT ![w].at = at]
    BY <1>2 DEF SignOutGetsLock, Cleared, SpendKept, AskEnd, StoreWrites
  <2> QED
    BY <1>0, <2>1 DEF SignOuts
<1>3. ASSUME NEW w \in Vaults, NothingToSpend(w) \/ SignOutAnswered(w) \/ Close(w) PROVE Goal
  <2>1. signOut' = [signOut EXCEPT ![w] = NoSignOut]
    BY <1>3 DEF NothingToSpend, SignOutAnswered, SignOutOver, Close
  <2>2. NoSignOut.stored = NoToken
    BY DEF NoSignOut
  <2> QED
    BY <1>0, <2>1, <2>2
<1>4. ASSUME NEW w \in Vaults, FinishRefresh(w) PROVE Goal
  <2>1. PICK token : token = refreshing[w].token
    OBVIOUS
  <2>2. \/ signOut' = signOut
        \/ signOut' = [signOut EXCEPT ![w].joins = FALSE, ![w].view = token]
    BY <1>4, <2>1 DEF FinishRefresh
  <2> QED
    BY <1>0, <2>2 DEF SignOuts
<1>5. ASSUME NEW w \in Vaults, StoreReads(w) PROVE Goal
  BY <1>0, <1>5 DEF StoreReads, SignOuts
<1>6. ASSUME UNCHANGED signOut PROVE Goal
  BY <1>6
<1> HIDE DEF Goal
<1>7. Goal
  BY <1>1, <1>2, <1>3, <1>4, <1>5, <1>6, WhoTouches
<1> QED
  BY <1>7 DEF Goal

\* Where a token that may be spent, or kept, was before.
LEMMA RotatingFlow ==
  ASSUME TypeInv, [Next]_vars, NEW v \in Vaults, NEW t \in Tokens,
         Rotating(v)', refreshing'[v].token = t
  PROVE  (Rotating(v) /\ refreshing[v].token = t) \/ t = store
BY RefreshMoves, Fields DEF Rotating

LEMMA UsedFlow ==
  ASSUME TypeInv, [Next]_vars, NEW t \in Tokens, Used(t)'
  PROVE  Used(t) \/ \E v \in Vaults : StoreWrites(v) /\ t = Task(v).what
<1>1. CASE t = store'
  BY <1>1, StoreFlow DEF Used
<1>2. ASSUME NEW v \in Vaults, signOut'[v].stored = t PROVE Used(t)
  BY <1>2, StoredFlow, Fields DEF Used
<1>3. ASSUME NEW v \in Vaults, Rotating(v)', refreshing'[v].token = t PROVE Used(t)
  BY <1>3, RotatingFlow DEF Used
<1>4. ASSUME NEW o \in Slots, Spends(o, t)' PROVE Used(t)
  <2>0. calls'[o].what = "refresh" /\ calls'[o].at \in {"sent", "read"} /\ calls'[o].token = t
    BY <1>4 DEF Spends
  <2>1. CASE /\ calls[o].what = "refresh" /\ calls'[o].token = calls[o].token
             /\ \/ calls'[o].at = calls[o].at
                \/ calls'[o].at = "read" /\ calls[o].at = "sent"
    BY <2>0, <2>1 DEF Used, Spends
  <2>2. ASSUME NEW v \in Vaults, AskRotation(v), calls'[o].token = refreshing[v].token
        PROVE  Used(t)
    <3>1. Rotating(v) /\ refreshing[v].token = t
      BY <2>0, <2>2 DEF AskRotation, Rotating
    <3> QED
      BY <3>1 DEF Used
  <2>3. ASSUME NEW v \in Vaults, calls'[o].token = signOut[v].stored PROVE Used(t)
    BY <2>0, <2>3 DEF Used
  <2>4. ASSUME NEW p \in Slots, calls'[o] = calls[p] PROVE Used(t)
    <3>1. Spends(p, t)
      BY <2>0, <2>4 DEF Spends
    <3> QED
      BY <3>1 DEF Used
  <2> QED
    BY <2>0, <2>1, <2>2, <2>3, <2>4, CallsFlow
<1> QED
  BY <1>1, <1>2, <1>3, <1>4 DEF Used

LEMMA KeptFlow ==
  ASSUME TypeInv, [Next]_vars, NEW k \in Tokens, Kept(k)'
  PROVE  \/ Kept(k)
         \/ \E v \in Vaults : SignInKept(v) /\ k = Answer(v, "signIn").token
         \/ \E v \in Vaults : /\ Rotated(v) /\ RefreshStands(v)
                              /\ k = Answer(v, "refresh").token
<1>1. CASE k = store'
  BY <1>1, StoreFlow, StoreHead DEF Kept
<1>2. ASSUME NEW v \in Vaults, Rotating(v)', refreshing'[v].token = k PROVE Kept(k)
  BY <1>2, RotatingFlow DEF Kept
<1>3. ASSUME NEW v \in Vaults, NEW i \in DOMAIN tail'[v], tail'[v][i].what = k
      PROVE  \/ Kept(k)
             \/ SignInKept(v) /\ k = Answer(v, "signIn").token
             \/ Rotated(v) /\ RefreshStands(v) /\ k = Answer(v, "refresh").token
  <2>1. PICK n \in {0, 1} :
          \/ tail'[v][i].what = NoToken
          \/ i + n \in DOMAIN tail[v] /\ tail'[v][i] = tail[v][i + n]
          \/ SignInKept(v) /\ tail'[v][i] = Write("signIn", Answer(v, "signIn").token)
          \/ /\ Rotated(v) /\ RefreshStands(v) /\ tail'[v][i].what = Answer(v, "refresh").token
    BY TailFlow
  <2>2. k # NoToken /\ \A x : Write("signIn", x).what = x
    BY Fields
  <2> QED
    BY <1>3, <2>1, <2>2 DEF Kept
<1> QED
  BY <1>1, <1>2, <1>3 DEF Kept

\* One refresh at a time is past waiting, of all vaults.
LEMMA OneRefresher ==
  ASSUME VaultInv, NEW v \in Vaults, NEW w \in Vaults,
         refreshing[v].at \notin {"none", "waiting"}, refreshing[w].at \notin {"none", "waiting"}
  PROVE  v = w
<1>1. CASE HasLock
  <2>1. PICK t \in Turns, u \in Turns : t = <<v, "refresh">> /\ u = <<w, "refresh">>
    BY NoneTyped
  <2>2. First(lock, t) /\ First(lock, u)
    BY <1>1, <2>1 DEF VaultInv, TurnInv
  <2>3. lock \in [Turns -> Nat]
    BY DEF VaultInv, TypeInv, CountTyped
  <2>4. lock[t] = lock[u] /\ lock[t] # 0
    BY <2>2, <2>3 DEF First
  <2>5. t = u
    BY <2>4 DEF VaultInv, TicketsInv
  <2> QED
    BY <2>1, <2>5
<1> QED
  BY <1>1, LockAssumption

\* Who writes a token of a session is the only one with one to keep.
LEMMA OneTask ==
  ASSUME VaultInv, NEW v \in Vaults, StoreWrites(v),
         NEW t \in Tokens, t = Task(v).what, NEW k \in Tokens, k.of = t.of, Kept(k)'
  PROVE  k = t
<1>0. /\ 1 \in DOMAIN tail[v] /\ Task(v) = tail[v][1] /\ store' = t
      /\ tail[v] # <<>> /\ TypeInv
  BY StoreHead DEF VaultInv, StoreWrites
<1>1. PICK s \in Sessions : s = t.of
  BY DEF Tokens
<1>2. /\ tail \in [Vaults -> Seq(Tasks)] /\ refreshing \in [Vaults -> Refreshes]
      /\ tail' = [tail EXCEPT ![v] = Tail(@)]
      /\ refreshing' = refreshing \/ refreshing' = [refreshing EXCEPT ![v].at = "done"]
  BY <1>0 DEF TypeInv, TailTyped, OpsTyped, StoreWrites, Taken
<1>3. ASSUME NEW w \in Vaults, NEW j \in DOMAIN tail[w], tail[w][j].what \in Tokens
      PROVE  \/ tail[w][j].who = "signIn"
             \/ tail[w][j].who = "refresh" /\ refreshing[w].at = "writing"
  <2>1. TaskInv(w, tail[w][j]) /\ tail[w][j] \in Tasks
    BY <1>0, <1>2, <1>3 DEF TypeInv, TailInv
  <2>2. tail[w][j].who \in {"signIn", "refresh", "signOut", "nobody"}
    BY <2>1, TasksTyped DEF Tasks
  <2> QED
    BY <1>3, <2>1, <2>2, Fields DEF TaskInv, TaskAt
<1>4. ASSUME Task(v).who = "signIn" PROVE Secret(v, 1, s)
  BY <1>0, <1>1, <1>4 DEF VaultInv, SecretInv
<1>5. Task(v).who = "signIn" \/ refreshing[v].at = "writing"
  BY <1>0, <1>3
<1>6. ASSUME NEW w \in Vaults, Rotating(w)', refreshing'[w].token = k PROVE FALSE
  <2>1. Rotating(w) /\ refreshing[w].token = k
    BY <1>2, <1>6 DEF Rotating, Refreshes
  <2>2. CASE refreshing[v].at = "writing"
    <3>1. v = w
      BY <2>1, <2>2, OneRefresher DEF Rotating
    <3> QED
      BY <2>1, <2>2, <3>1 DEF Rotating
  <2> QED
    BY <1>1, <1>4, <1>5, <2>1, <2>2 DEF Secret
<1>7. ASSUME NEW w \in Vaults, NEW i \in DOMAIN tail'[w], tail'[w][i].what = k PROVE FALSE
  <2>1. PICK j \in DOMAIN tail[w] : tail[w][j] = tail'[w][i] /\ (w = v => j # 1)
    <3>1. CASE w # v
      BY <1>2, <1>7, <3>1
    <3>2. CASE w = v
      <4>1. tail'[v] = Tail(tail[v]) /\ Shifted(tail[v], Tail(tail[v]))
        BY <1>0, <1>2, AtTask
      <4> QED
        BY <1>7, <3>2, <4>1 DEF Shifted
    <3> QED
      BY <3>1, <3>2
  <2>2. tail[w][j].what = k
    BY <1>7, <2>1
  <2>3. Task(v).who # "signIn"
    BY <1>1, <1>4, <2>1, <2>2 DEF Secret, NoTask
  <2>4. tail[w][j].who # "signIn"
    <3> SUFFICES ASSUME tail[w][j].who = "signIn" PROVE FALSE
      OBVIOUS
    <3>1. Secret(w, j, s)
      BY <1>1, <2>2 DEF VaultInv, SecretInv
    <3> QED
      BY <1>0, <1>1, <2>1, <3>1 DEF Secret, NoTask
  <2>5. /\ tail[w][j].who = "refresh" /\ refreshing[w].at = "writing"
        /\ tail[v][1].who = "refresh" /\ refreshing[v].at = "writing"
    BY <1>0, <1>3, <2>2, <2>3, <2>4
  <2>6. w = v
    BY <2>5, OneRefresher
  <2> QED
    BY <1>0, <2>1, <2>5, <2>6 DEF TypeInv, TailInv
<1> QED
  BY <1>0, <1>6, <1>7 DEF Kept

\* A sign-in is answered with the first token of a session no one has.
LEMMA Opened ==
  ASSUME TypeInv, NEW v \in Vaults, OpenSession(<<v, "signIn">>)
  PROVE  /\ calls'[<<v, "signIn">>].token.at = 1
         /\ rows[calls'[<<v, "signIn">>].token.of].at = 0
<1>0. calls \in [Slots -> Calls] /\ "signIn" \in Kinds
  BY DEF TypeInv, CallsTyped, Kinds
<1>1. PICK o \in Slots : o = <<v, "signIn">>
  BY <1>0, NoneTyped
<1>2. PICK t \in Sessions : rows[t].at = 0 /\ Answers(o, [of |-> t, at |-> 1])
  BY <1>1 DEF OpenSession
<1>3. PICK token : token = [of |-> t, at |-> 1]
  OBVIOUS
<1>4. token.of = t /\ token.at = 1
  BY <1>3
<1>5. calls'[o].token = token
  BY <1>0, <1>2, <1>3 DEF Answers, Calls
<1> QED
  BY <1>1, <1>2, <1>4, <1>5

\* The answer of a sign-in stays as it is.
LEMMA ExchangedToken ==
  ASSUME TypeInv, [Next]_vars, NEW v \in Vaults, NEW s \in Sessions,
         Exchanged(v, s)', ~ OpenSession(<<v, "signIn">>)
  PROVE  Exchanged(v, s) /\ calls'[<<v, "signIn">>].token = Answer(v, "signIn").token
<1>1. calls'[<<v, "signIn">>].what = "exchange" /\ calls'[<<v, "signIn">>].token.of = s
  BY DEF Exchanged, Answer
<1>2. /\ NoCall.what = "none" /\ Call("exchange", NoToken).token.of # s
      /\ \A token : Call("end", token).what = "end"
  BY Fields DEF NoCall, Call
<1>3. "signIn" \in Kinds
  BY DEF Kinds
<1>4. \/ /\ calls'[<<v, "signIn">>].what = Answer(v, "signIn").what
         /\ \/ calls'[<<v, "signIn">>].token = Answer(v, "signIn").token
            \/ Answer(v, "signIn").what = "refresh"
      \/ calls'[<<v, "signIn">>] = NoCall
      \/ calls'[<<v, "signIn">>] = Call("exchange", NoToken)
      \/ calls'[<<v, "signIn">>] = Call("end", Answer(v, "signIn").token)
  BY <1>3, AnswerMoves
<1> QED
  BY <1>1, <1>2, <1>4 DEF Exchanged

LEMMA UnusedStep ==
  ASSUME VaultInv, [Next]_vars, NEW s \in Sessions, UnusedInv(s)
  PROVE  UnusedInv(s)'
<1> SUFFICES ASSUME rows'[s].at = 0 \/ \E v \in Vaults : Exchanged(v, s)',
                    NEW t \in Tokens, t.of = s, Used(t)'
             PROVE  FALSE
  BY DEF UnusedInv
<1>1. TypeInv /\ VaultInv'
  BY VaultInvStep DEF VaultInv
<1>2. FreshInv(s)'
  BY <1>1 DEF VaultInv
<1>3. store'.of # s
  BY <1>2 DEF FreshInv, Nowhere
<1>4. Used(t)
  BY <1>1, <1>3, UsedFlow, StoreHead
<1>5. rows[s].at = 0 \/ \E v \in Vaults : Exchanged(v, s)
  BY <1>1, RowsFlow, ExchangeFlow
<1> QED
  BY <1>4, <1>5 DEF UnusedInv

LEMMA NewStep ==
  ASSUME VaultInv, [Next]_vars, \A s \in Sessions : UnusedInv(s), NEW v \in Vaults, NewInv(v)
  PROVE  NewInv(v)'
<1> SUFFICES ASSUME NEW s \in Sessions, Exchanged(v, s)'
             PROVE  calls'[<<v, "signIn">>].token.at = 1 /\ rows'[s].at = 1
  BY DEF NewInv, Answer
<1>0. TypeInv /\ FreshInv(s) /\ rows \in [Sessions -> Rows]
  BY DEF VaultInv, TypeInv, RowsTyped
<1>1. calls'[<<v, "signIn">>].token.of = s
  BY DEF Exchanged, Answer
<1>2. CASE OpenSession(<<v, "signIn">>)
  <2>1. calls'[<<v, "signIn">>].token.at = 1 /\ rows[s].at = 0
    BY <1>0, <1>1, <1>2, Opened
  <2>2. rows'[s].at # 0
    BY <1>0, <2>1, ExchangeFlow DEF FreshInv
  <2>3. \A token \in Tokens : token.at # 0
    BY DEF Tokens
  <2> QED
    BY <1>0, <2>1, <2>2, <2>3, RowsGrow
<1>3. CASE ~ OpenSession(<<v, "signIn">>)
  <2>1. Exchanged(v, s) /\ calls'[<<v, "signIn">>].token = Answer(v, "signIn").token
    BY <1>0, <1>3, ExchangedToken
  <2>2. Answer(v, "signIn").token.at = 1 /\ rows[s].at = 1
    BY <2>1 DEF NewInv
  <2>3. ASSUME NEW o \in Slots, calls[o].at = "read", calls[o].what = "refresh",
               calls[o].token \in Tokens, calls[o].token.of = s
        PROVE  FALSE
    <3>1. Used(calls[o].token)
      BY <2>3 DEF Used, Spends
    <3> QED
      BY <2>1, <2>3, <3>1 DEF UnusedInv
  <2> QED
    BY <1>0, <2>1, <2>2, <2>3, RowsGrow
<1> QED
  BY <1>2, <1>3

LEMMA AskStep ==
  ASSUME VaultInv, [Next]_vars, NEW v \in Vaults, AskInv(v)
  PROVE  AskInv(v)'
<1> SUFFICES ASSUME refreshing'[v].at = "asked"
             PROVE  refreshing'[v].token.at <= calls'[<<v, "refresh">>].token.at
  BY DEF AskInv, Answer
<1>0. /\ TypeInv /\ TypeInv' /\ calls \in [Slots -> Calls] /\ "refresh" \in Kinds
      /\ CallInv(calls[<<v, "refresh">>])
  BY TypeInvStep, NoneTyped DEF VaultInv, TypeInv, CallsTyped, Kinds
<1>1. PICK o \in Slots : o = <<v, "refresh">>
  BY <1>0, NoneTyped
<1>2. calls'[o].what = "refresh" /\ CallInv(calls'[o])
  BY <1>0, <1>1 DEF TypeInv, RefreshInv, Answer
<1>3. CASE AskRotation(v)
  <2>1. calls' = [calls EXCEPT ![o] = Call("refresh", refreshing[v].token)]
    BY <1>1, <1>3 DEF AskRotation, Asks
  <2>2. Call("refresh", refreshing[v].token).token = refreshing[v].token
    BY DEF Call
  <2>3. calls'[o].token = refreshing[v].token
    BY <1>0, <2>1, <2>2
  <2>4. refreshing'[v].token = refreshing[v].token
    BY <1>0, <1>3 DEF AskRotation, RefreshAt, TypeInv, OpsTyped, Refreshes
  <2>5. \A t \in Tokens : t.at \in Nat
    BY DEF Tokens
  <2> QED
    BY <1>1, <1>2, <2>3, <2>4, <2>5 DEF CallInv
<1>4. CASE ~ AskRotation(v)
  <2>1. refreshing'[v] = refreshing[v]
    BY <1>0, <1>4, RefreshMoves, Fields
  <2>2. refreshing[v].token.at <= calls[o].token.at /\ calls[o].what = "refresh"
    BY <1>0, <1>1, <2>1 DEF AskInv, Answer, TypeInv, RefreshInv
  <2>3. calls[o].token.at <= calls'[o].token.at
    <3>1. \A t \in Tokens : t.at \in Nat
      BY DEF Tokens
    <3>2. calls[o].token \in Tokens
      BY <1>0, <1>1, <2>2 DEF CallInv
    <3>3. \A u \in Vaults : o # <<u, "signOut">> /\ o # <<u, "stray">>
      BY <1>1
    <3>4. \A u \in Vaults : o = <<u, "refresh">> => u = v
      BY <1>1
    <3> QED
      BY <1>0, <1>2, <1>4, <3>1, <3>2, <3>3, <3>4, CallsFlow
  <2>4. refreshing[v].token.at \in Nat /\ calls[o].token.at \in Nat /\ calls'[o].token.at \in Nat
    <3>1. \A t \in Maybe : t.at \in Nat
      BY DEF Maybe, Tokens, NoToken
    <3> QED
      BY <1>0, <1>2, <2>2, <3>1 DEF TypeInv, OpsTyped, Refreshes, CallsTyped, Calls
  <2> QED
    BY <1>1, <2>1, <2>2, <2>3, <2>4
<1> QED
  BY <1>3, <1>4

LEMMA RowsMonotone ==
  ASSUME TypeInv, [Next]_vars, NEW s \in Sessions
  PROVE  rows[s].at \in Nat /\ rows'[s].at \in Nat /\ rows[s].at <= rows'[s].at
<1>1. rows[s].at \in Nat
  BY DEF TypeInv, RowsTyped, Rows
<1> QED
  BY <1>1, RowsGrow

LEMMA AnswerStep ==
  ASSUME VaultInv, [Next]_vars, \A p \in Slots : AnswerInv(p), NEW o \in Slots
  PROVE  AnswerInv(o)'
<1> SUFFICES ASSUME calls'[o].what = "refresh", calls'[o].at = "answered"
             PROVE  calls'[o].token.at <= rows'[calls'[o].token.of].at
  BY DEF AnswerInv
<1>0. TypeInv /\ TypeInv' /\ \A p \in Slots : CallInv(calls[p])
  BY TypeInvStep DEF VaultInv, TypeInv
<1>1. ASSUME NEW p \in Slots, calls[p].what = "refresh", calls[p].at = "answered",
             calls'[o].token = calls[p].token
      PROVE  calls'[o].token.at <= rows'[calls'[o].token.of].at
  <2>1. /\ calls[p].token \in Tokens
        /\ calls[p].token.at <= rows[calls[p].token.of].at
    BY <1>0, <1>1 DEF CallInv, AnswerInv
  <2>2. PICK s \in Sessions, n \in Nat : s = calls[p].token.of /\ n = calls[p].token.at
    BY <2>1 DEF Tokens
  <2> QED
    BY <1>0, <1>1, <2>1, <2>2, RowsMonotone
<1> QED
  BY <1>0, <1>1, CallsFlow

LEMMA OrderStep ==
  ASSUME VaultInv, [Next]_vars, \A s \in Sessions : UnusedInv(s),
         \A v \in Vaults : AskInv(v), OrderInv
  PROVE  OrderInv'
<1> SUFFICES ASSUME NEW t \in Tokens, NEW k \in Tokens, Used(t)', Kept(k)', t.of = k.of
             PROVE  t.at <= k.at
  BY DEF OrderInv
<1>0. TypeInv /\ (\A v \in Vaults : SignInInv(v)) /\ t.of \in Sessions
  BY DEF VaultInv, Tokens
<1>1. CASE Used(t)
  <2>1. CASE Kept(k)
    BY <1>1, <2>1 DEF OrderInv
  <2>2. ASSUME NEW v \in Vaults, SignInKept(v), k = Answer(v, "signIn").token PROVE FALSE
    <3>1. Exchanged(v, t.of)
      BY <1>0, <2>2, KeepsExchanged
    <3> QED
      BY <1>0, <1>1, <3>1 DEF UnusedInv
  <2>3. ASSUME NEW v \in Vaults, Rotated(v), k = Answer(v, "refresh").token PROVE t.at <= k.at
    <3>1. refreshing[v].at = "asked" /\ k.of = refreshing[v].token.of
      BY <1>0, <2>3, RotatedSame DEF Rotated
    <3>2. refreshing[v].token \in Tokens
      BY <1>0, <3>1, Fields DEF TypeInv, OpsTyped, Refreshes, Maybe
    <3>3. Kept(refreshing[v].token)
      BY <3>1 DEF Kept, Rotating
    <3>4. t.at <= refreshing[v].token.at /\ refreshing[v].token.at <= k.at
      BY <1>1, <2>3, <3>1, <3>2, <3>3 DEF OrderInv, AskInv
    <3>5. t.at \in Nat /\ k.at \in Nat /\ refreshing[v].token.at \in Nat
      BY <3>2 DEF Tokens
    <3> QED
      BY <3>4, <3>5
  <2> QED
    BY <1>0, <2>1, <2>2, <2>3, KeptFlow
<1>2. ASSUME NEW v \in Vaults, StoreWrites(v), t = Task(v).what PROVE t.at <= k.at
  <2>1. k = t
    BY <1>2, OneTask
  <2> QED
    BY <2>1 DEF Tokens
<1> QED
  BY <1>0, <1>1, <1>2, UsedFlow

LEMMA RangeStep ==
  ASSUME VaultInv, [Next]_vars,
         \A v \in Vaults : NewInv(v) /\ AskInv(v), \A o \in Slots : AnswerInv(o),
         OrderInv, RangeInv
  PROVE  RangeInv'
<1>0. /\ TypeInv /\ (\A v \in Vaults : SignInInv(v))
      /\ \A t \in Tokens : t.of \in Sessions /\ t.at \in Nat /\ t.at > 0
  BY DEF VaultInv, Tokens
<1>1. ASSUME NEW k \in Tokens, Kept(k) PROVE rows'[k.of].at <= k.at + 1
  <2>1. rows[k.of].at <= k.at + 1
    BY <1>1 DEF RangeInv
  <2>2. ASSUME NEW o \in Slots, calls[o].at = "read", calls[o].what = "refresh",
               calls[o].token \in Tokens, calls[o].token.of = k.of,
               calls[o].token.at = rows[k.of].at, rows'[k.of].at = rows[k.of].at + 1
        PROVE  rows'[k.of].at <= k.at + 1
    <3>1. Used(calls[o].token)
      BY <2>2 DEF Used, Spends
    <3>2. rows[k.of].at <= k.at
      BY <1>1, <2>2, <3>1 DEF OrderInv
    <3> QED
      BY <1>0, <2>2, <3>2, RowsMonotone
  <2> QED
    BY <1>0, <2>1, <2>2, RowsGrow
<1>2. ASSUME NEW t \in Tokens, Used(t) \/ Kept(t) PROVE t.at <= rows'[t.of].at
  <2>1. t.at <= rows[t.of].at
    BY <1>2 DEF RangeInv
  <2> QED
    BY <1>0, <2>1, RowsMonotone
<1>3. ASSUME NEW k \in Tokens, NEW v \in Vaults, SignInKept(v), k = Answer(v, "signIn").token
      PROVE  k.at <= rows'[k.of].at /\ rows'[k.of].at <= k.at + 1
  <2>1. Exchanged(v, k.of)
    BY <1>0, <1>3, KeepsExchanged
  <2>2. k.at = 1 /\ rows[k.of].at = 1
    BY <1>0, <1>3, <2>1 DEF NewInv
  <2>3. rows' = rows
    BY <1>3 DEF SignInKept, around
  <2> QED
    BY <2>2, <2>3
<1>4. ASSUME NEW k \in Tokens, NEW v \in Vaults, Rotated(v), k = Answer(v, "refresh").token
      PROVE  k.at <= rows'[k.of].at /\ rows'[k.of].at <= k.at + 1
  <2>1. /\ refreshing[v].at = "asked" /\ k.of = refreshing[v].token.of
        /\ Answer(v, "refresh").at = "answered"
    BY <1>0, <1>4, RotatedSame DEF Rotated
  <2>2. Answer(v, "refresh").what = "refresh" /\ <<v, "refresh">> \in Slots
    BY <1>0, <2>1, NoneTyped DEF TypeInv, RefreshInv, Kinds
  <2>3. k.at <= rows[k.of].at
    BY <1>4, <2>1, <2>2 DEF AnswerInv, Answer
  <2>4. refreshing[v].token \in Tokens
    BY <1>0, <2>1, Fields DEF TypeInv, OpsTyped, Refreshes, Maybe
  <2>5. Kept(refreshing[v].token)
    BY <2>1 DEF Kept, Rotating
  <2>6. rows[k.of].at <= refreshing[v].token.at + 1 /\ refreshing[v].token.at <= k.at
    BY <1>4, <2>1, <2>4, <2>5 DEF RangeInv, AskInv
  <2>7. rows' = rows
    BY <1>4 DEF Rotated, around
  <2> QED
    BY <1>0, <2>3, <2>4, <2>6, <2>7, RowsMonotone
<1>5. ASSUME NEW k \in Tokens, Kept(k)'
      PROVE  k.at <= rows'[k.of].at /\ rows'[k.of].at <= k.at + 1
  BY <1>0, <1>1, <1>2, <1>3, <1>4, <1>5, KeptFlow
<1>6. ASSUME NEW t \in Tokens, Used(t)' PROVE t.at <= rows'[t.of].at
  <2>1. ASSUME NEW v \in Vaults, StoreWrites(v), t = Task(v).what PROVE Kept(t)
    BY <1>0, <2>1, StoreHead DEF Kept
  <2> QED
    BY <1>0, <1>2, <1>6, <2>1, UsedFlow
<1> QED
  BY <1>5, <1>6 DEF RangeInv

UseInv ==
  /\ \A s \in Sessions : UnusedInv(s)
  /\ \A v \in Vaults : NewInv(v) /\ AskInv(v)
  /\ \A o \in Slots : AnswerInv(o)
  /\ OrderInv /\ RangeInv

LEMMA UseInvInit == Init => UseInv
<1> SUFFICES ASSUME Init PROVE UseInv
  OBVIOUS
<1>1. /\ store = NoToken /\ NoToken \notin Tokens
      /\ \A v \in Vaults : /\ tail[v] = <<>> /\ refreshing[v].at = "none"
                           /\ signOut[v].stored = NoToken
                           /\ Answer(v, "signIn").what = "none"
      /\ \A o \in Slots : calls[o].what = "none"
  BY Fields, NoneTyped DEF Init, NoRefresh, NoSignOut, NoCall, Answer, Kinds
<1>2. \A t \in Tokens : ~ Used(t) /\ ~ Kept(t)
  BY <1>1 DEF Used, Kept, Rotating, Spends
<1>3. \A s \in Sessions : UnusedInv(s)
  BY <1>2 DEF UnusedInv
<1>4. OrderInv /\ RangeInv
  BY <1>2 DEF OrderInv, RangeInv
<1> QED
  BY <1>1, <1>3, <1>4 DEF UseInv, NewInv, AskInv, AnswerInv, Exchanged

LEMMA UseInvHolds == Spec => [](VaultInv /\ UseInv)
<1>1. VaultInv /\ UseInv /\ [Next]_vars => UseInv'
  <2> SUFFICES ASSUME VaultInv, UseInv, [Next]_vars PROVE UseInv'
    OBVIOUS
  <2>1. \A s \in Sessions : UnusedInv(s)'
    BY UnusedStep DEF UseInv
  <2>2. \A v \in Vaults : NewInv(v)' /\ AskInv(v)'
    BY NewStep, AskStep DEF UseInv
  <2>3. \A o \in Slots : AnswerInv(o)'
    BY AnswerStep DEF UseInv
  <2>4. OrderInv' /\ RangeInv'
    BY OrderStep, RangeStep DEF UseInv
  <2> QED
    BY <2>1, <2>2, <2>3, <2>4 DEF UseInv
<1> QED
  BY <1>1, VaultInvInit, VaultInvStep, UseInvInit, PTL DEF Spec

\* The kept token is the one its session is at or the one before, so that a
\* refresh can go on from it as long as the session is open, whatever was lost
\* on the way and whatever vault went down with a request sent
\* (sessions.ts:132, session-vault.ts:111).
THEOREM StaysUsable == Spec => []KeptIsUsable
<1>1. VaultInv /\ UseInv => KeptIsUsable
  <2> SUFFICES ASSUME VaultInv, UseInv, store # NoToken, ~ Gone(store.of)
               PROVE  Finds(store)
    BY DEF KeptIsUsable
  <2>1. store \in Tokens /\ Kept(store) /\ TypeInv
    BY DEF VaultInv, TypeInv, KeptTyped, Maybe, Kept
  <2>2. store.at <= rows[store.of].at /\ rows[store.of].at <= store.at + 1
    BY <2>1 DEF UseInv, RangeInv
  <2>3. store.at \in Nat /\ rows[store.of].at \in Nat
    BY <2>1 DEF Tokens, TypeInv, RowsTyped, Rows
  <2> QED
    BY <2>2, <2>3 DEF Finds
<1> QED
  BY <1>1, UseInvHolds, PTL

-----------------------------------------------------------------------------
(* No token is spent twice: a session that is the only one, with nothing lost,
   that nobody signs out of and that never ran out. *)

Leaves == {"waiting", "clearing"}
Calm(s) ==
  /\ s \notin leaving /\ begun.loss = 0 /\ begun.close = 0 /\ rows[s].past = 0
  /\ \A t \in Sessions \ {s} : rows[t].at = 0
PastInv(s) == rows[s].past <= rows[s].at

LEMMA PastFlow ==
  ASSUME TypeInv, [Next]_vars, NEW s \in Sessions
  PROVE  \/ rows'[s].past = rows[s].past
         \/ /\ rows[s].past < rows[s].at /\ rows'[s].past = rows[s].past + 1
            /\ rows'[s].at = rows[s].at
         \/ rows[s].at = 0 /\ rows'[s].past = 0
<1> DEFINE Goal ==
       \/ rows'[s].past = rows[s].past
       \/ /\ rows[s].past < rows[s].at /\ rows'[s].past = rows[s].past + 1
          /\ rows'[s].at = rows[s].at
       \/ rows[s].at = 0 /\ rows'[s].past = 0
<1>0. rows \in [Sessions -> Rows]
  BY DEF TypeInv, RowsTyped
<1>1. ASSUME NEW o \in Slots, BookStep(o) PROVE Goal
  <2>1. \/ \E t \in Sessions, r \in {[NoRow EXCEPT !.at = 1, !.is = "open", !.live = TRUE]} :
             rows[t].at = 0 /\ rows' = [rows EXCEPT ![t] = r]
        \/ \E t \in {calls[o].token.of} :
             \/ \E x : rows' = [rows EXCEPT ![t].is = x]
             \/ rows' = [rows EXCEPT ![t].at = @ + 1, ![t].fresh = TRUE, ![t].live = TRUE]
        \/ rows' = rows
    BY <1>1 DEF BookStep, OpenSession, ReadRow, WriteRow, EndRow, Replay
  <2>2. \A r \in {[NoRow EXCEPT !.at = 1, !.is = "open", !.live = TRUE]} : r.past = 0
    BY DEF NoRow
  <2>3. ASSUME NEW t, rows' = [rows EXCEPT ![t].at = @ + 1, ![t].fresh = TRUE, ![t].live = TRUE]
        PROVE  rows'[s].past = rows[s].past
    <3>1. CASE t # s
      BY <1>0, <2>3, <3>1
    <3>2. CASE t = s
      <4>1. PICK r : r = [rows EXCEPT ![s].at = @ + 1]
        OBVIOUS
      <4>2. r \in [Sessions -> Rows] /\ r[s].past = rows[s].past
        BY <1>0, <4>1 DEF Rows
      <4>3. rows' = [r EXCEPT ![s].fresh = TRUE, ![s].live = TRUE]
        BY <1>0, <2>3, <3>2, <4>1
      <4> QED
        BY <4>2, <4>3 DEF Rows
    <3> QED
      BY <3>1, <3>2
  <2>4. ASSUME NEW t, NEW x, rows' = [rows EXCEPT ![t].is = x] PROVE rows'[s].past = rows[s].past
    BY <1>0, <2>4 DEF Rows
  <2>5. ASSUME NEW t \in Sessions, NEW r, r.past = 0, rows[t].at = 0, rows' = [rows EXCEPT ![t] = r]
        PROVE  Goal
    BY <1>0, <2>5
  <2> QED
    BY <2>1, <2>2, <2>3, <2>4, <2>5
<1>2. ASSUME NEW t \in Sessions, ClockMoves(t) PROVE Goal
  <2>1. \/ \E x : rows' = [rows EXCEPT ![t].live = x]
        \/ \E x : rows' = [rows EXCEPT ![t].fresh = x]
        \/ rows[t].past < rows[t].at /\ rows' = [rows EXCEPT ![t].past = @ + 1]
    BY <1>2 DEF ClockMoves
  <2> QED
    BY <1>0, <2>1 DEF Rows
<1>3. ASSUME UNCHANGED rows PROVE Goal
  BY <1>3
<1> HIDE DEF Goal
<1>4. Goal
  BY <1>1, <1>2, <1>3, WhoTouches
<1> QED
  BY <1>4 DEF Goal

\* A session is ended for reuse by a request with a token it is not at.
LEMMA ReusedFlow ==
  ASSUME TypeInv, [Next]_vars, NEW s \in Sessions, rows'[s].is = "reused"
  PROVE  \/ rows[s].is = "reused"
         \/ \E o \in Slots :
              /\ calls[o].what = "refresh" /\ calls[o].at \in {"sent", "read"}
              /\ calls[o].token.of = s /\ calls[o].token.at # rows[s].at
<1> DEFINE Goal ==
       \/ rows[s].is = "reused"
       \/ \E o \in Slots :
            /\ calls[o].what = "refresh" /\ calls[o].at \in {"sent", "read"}
            /\ calls[o].token.of = s /\ calls[o].token.at # rows[s].at
<1>0. rows \in [Sessions -> Rows] /\ \A o \in Slots : CallInv(calls[o])
  BY DEF TypeInv, RowsTyped
<1>1. ASSUME NEW o \in Slots, ReadRow(o) \/ WriteRow(o) PROVE Goal
  <2>0. calls[o].what = "refresh" /\ calls[o].at \in {"sent", "read"}
    BY <1>0, <1>1 DEF ReadRow, Sent, WriteRow, CallInv
  <2>1. PICK t : t = calls[o].token.of
    OBVIOUS
  <2>2. \/ rows' = rows
        \/ calls[o].token.at # rows[t].at /\ Replay(o)
        \/ calls[o].token.at = rows[t].at /\ rows[t].is # "open" /\ Replay(o)
        \/ rows' = [rows EXCEPT ![t].at = @ + 1, ![t].fresh = TRUE, ![t].live = TRUE]
    BY <1>1, <2>1 DEF ReadRow, WriteRow
  <2>3. CASE rows' = [rows EXCEPT ![t].at = @ + 1, ![t].fresh = TRUE, ![t].live = TRUE]
    <3>1. CASE t # s
      BY <1>0, <2>3, <3>1
    <3>2. CASE t = s
      <4>1. PICK r : r = [rows EXCEPT ![s].at = @ + 1]
        OBVIOUS
      <4>2. r \in [Sessions -> Rows] /\ r[s].is = rows[s].is
        BY <1>0, <4>1 DEF Rows
      <4>3. rows' = [r EXCEPT ![s].fresh = TRUE, ![s].live = TRUE]
        BY <1>0, <2>3, <3>2, <4>1
      <4> QED
        BY <4>2, <4>3 DEF Rows
    <3> QED
      BY <3>1, <3>2
  <2>4. CASE Replay(o) /\ t # s
    <3>1. rows' = rows \/ rows' = [rows EXCEPT ![t].is = IF @ = "open" THEN "reused" ELSE @]
      BY <2>1, <2>4 DEF Replay
    <3> QED
      BY <1>0, <2>4, <3>1
  <2>5. CASE Replay(o) /\ t = s /\ rows[s].is # "open"
    <3>1. rows' = rows \/ rows' = [rows EXCEPT ![s].is = IF @ = "open" THEN "reused" ELSE @]
      BY <2>1, <2>5 DEF Replay
    <3>2. rows'[s].is = rows[s].is
      BY <1>0, <2>5, <3>1 DEF Rows
    <3> QED
      BY <3>2
  <2> QED
    BY <2>0, <2>1, <2>2, <2>3, <2>4, <2>5
<1>2. ASSUME NEW o \in Slots, OpenSession(o) \/ EndRow(o) PROVE Goal
  <2>1. \/ \E t \in Sessions, r \in {[NoRow EXCEPT !.at = 1, !.is = "open", !.live = TRUE]} :
             rows' = [rows EXCEPT ![t] = r]
        \/ \E t : rows' = [rows EXCEPT ![t].is = "ended"]
        \/ rows' = rows
    BY <1>2 DEF OpenSession, EndRow
  <2>2. \A r \in {[NoRow EXCEPT !.at = 1, !.is = "open", !.live = TRUE]} : r.is = "open"
    BY DEF NoRow
  <2> QED
    BY <1>0, <2>1, <2>2 DEF Rows
<1>3. ASSUME NEW t \in Sessions, ClockMoves(t) PROVE Goal
  <2>1. \/ \E x : rows' = [rows EXCEPT ![t].live = x]
        \/ \E x : rows' = [rows EXCEPT ![t].fresh = x]
        \/ \E x : rows' = [rows EXCEPT ![t].past = x]
    BY <1>3 DEF ClockMoves
  <2> QED
    BY <1>0, <2>1 DEF Rows
<1>4. ASSUME UNCHANGED rows PROVE Goal
  BY <1>4
<1> HIDE DEF Goal
<1>5. Goal
  BY <1>1, <1>2, <1>3, <1>4, WhoTouches DEF BookStep
<1> QED
  BY <1>5 DEF Goal

LEMMA LeavingFlow ==
  ASSUME [Next]_vars
  PROVE  leaving \subseteq leaving'
<1>1. \A v \in Vaults : BeginRefresh(v) \/ FinishRefresh(v) \/ NothingToSpend(v)
                          \/ SignOutAnswered(v) \/ Close(v) => leaving' = leaving
  BY DEF BeginRefresh, FinishRefresh, NothingToSpend, SignOutAnswered, SignOutOver, Close
<1>2. \A v \in Vaults : BeginSignOut(v) \/ StoreWrites(v) => leaving \subseteq leaving'
  BY DEF BeginSignOut, StoreWrites
<1> QED
  BY <1>1, <1>2, WhoTouches DEF ghosts

LEMMA CalmBack ==
  ASSUME TypeInv, [Next]_vars, NEW s \in Sessions, PastInv(s), Calm(s)'
  PROVE  /\ Calm(s)
         /\ \A v \in Vaults : ~ Close(v) /\ ~ (BeginSignOut(v) /\ store.of = s)
         /\ \A o \in Slots : ~ CallLost(o)
<1>0. /\ begun \in [DOMAIN Bound -> Nat] /\ rows \in [Sessions -> Rows]
      /\ "loss" \in DOMAIN Bound /\ "close" \in DOMAIN Bound /\ \A t \in Sessions : t # 0
  BY DEF TypeInv, CountTyped, RowsTyped, Bound, Sessions
<1>1. begun.loss <= begun'.loss /\ begun.close <= begun'.close
  BY <1>0, BegunStep
<1>2. begun.loss = 0 /\ begun.close = 0
  BY <1>0, <1>1 DEF Calm
<1>3. s \notin leaving
  BY LeavingFlow DEF Calm
<1>4. rows[s].past = 0
  BY <1>0, PastFlow DEF Calm, PastInv, Rows
<1>5. \A t \in Sessions \ {s} : rows[t].at = 0
  BY RowsFlow DEF Calm
<1>6. ASSUME NEW v \in Vaults, Close(v) PROVE FALSE
  <2>1. begun'.close = begun.close + 1
    BY <1>0, <1>6 DEF Close, Begins
  <2> QED
    BY <1>2, <2>1 DEF Calm
<1>7. ASSUME NEW o \in Slots, CallLost(o) PROVE FALSE
  <2>1. begun'.loss = begun.loss + 1
    BY <1>0, <1>7 DEF CallLost, Begins
  <2> QED
    BY <1>2, <2>1 DEF Calm
<1>8. ASSUME NEW v \in Vaults, BeginSignOut(v), store.of = s PROVE FALSE
  BY <1>0, <1>8 DEF BeginSignOut, Calm
<1> QED
  BY <1>2, <1>3, <1>4, <1>5, <1>6, <1>7, <1>8 DEF Calm

LEMMA PastStep ==
  ASSUME TypeInv, [Next]_vars, NEW s \in Sessions, PastInv(s)
  PROVE  PastInv(s)'
<1>1. rows[s].past \in Nat /\ rows[s].at \in Nat
  BY DEF TypeInv, RowsTyped, Rows
<1> QED
  BY <1>1, PastFlow, RowsMonotone DEF PastInv

\* Every token there is is of that session.
LEMMA CalmTokens ==
  ASSUME VaultInv, NEW s \in Sessions, Calm(s), NEW t \in Tokens,
         \/ t = store
         \/ \E v \in Vaults : \/ refreshing[v].token = t \/ Exchanged(v, t.of)
                              \/ \E i \in DOMAIN tail[v] : tail[v][i].what = t
  PROVE  t.of = s
<1>1. t.of \in Sessions
  BY DEF Tokens
<1>2. t.of # s => Nowhere(t.of) /\ \A v \in Vaults : ~ Exchanged(v, t.of)
  BY <1>1 DEF Calm, VaultInv, FreshInv
<1> QED
  BY <1>2 DEF Nowhere, NoTask

-----------------------------------------------------------------------------
(* What a queue holds, and in which order. *)

\* The task i of the queue r was in q, and what stood behind it still does.
Comes(q, r, i) ==
  \E j \in DOMAIN q :
    /\ r[i] = q[j]
    /\ \A p \in DOMAIN q : p > j => \E x \in DOMAIN r : x > i /\ r[x] = q[p]

LEMMA GrownComes ==
  ASSUME NEW q, NEW r, NEW e, Grown(q, r, e), NEW i \in DOMAIN r
  PROVE  /\ i \in Nat
         /\ Comes(q, r, i) \/ r[i] = e
         /\ r[i] # e => \E x \in DOMAIN r : x > i /\ r[x] = e
<1>1. (i \in DOMAIN q /\ r[i] = q[i]) \/ (i = Len(q) + 1 /\ r[i] = e)
  BY DEF Grown
<1>2. DOMAIN q = 1 .. Len(q) /\ Len(q) \in Nat /\ Len(q) + 1 \in DOMAIN r /\ r[Len(q) + 1] = e
  BY DEF Grown
<1>3. ASSUME i \in DOMAIN q, r[i] = q[i] PROVE Comes(q, r, i)
  BY <1>3 DEF Comes, Grown
<1> QED
  BY <1>1, <1>2, <1>3

LEMMA ShiftedComes ==
  ASSUME NEW q, NEW r, Shifted(q, r), NEW i \in DOMAIN r
  PROVE  i \in Nat /\ Comes(q, r, i)
<1>1. i \in Nat /\ i > 0 /\ i + 1 \in DOMAIN q /\ r[i] = q[i + 1]
  BY DEF Shifted
<1>2. ASSUME NEW p \in DOMAIN q, p > i + 1
      PROVE  \E x \in DOMAIN r : x > i /\ r[x] = q[p]
  <2>1. p # 1
    BY <1>1, <1>2
  <2>2. p \in Nat /\ p - 1 \in DOMAIN r /\ r[p - 1] = q[p]
    BY <2>1 DEF Shifted
  <2> QED
    BY <1>1, <1>2, <2>2
<1> QED
  BY <1>1, <1>2 DEF Comes

LEMMA ReplacedComes ==
  ASSUME NEW q \in Seq(Tasks), q # <<>>, NEW r, r = [q EXCEPT ![1] = Write("nobody", NoToken)],
         NEW i \in DOMAIN r
  PROVE  /\ i \in Nat
         /\ Comes(q, r, i) \/ r[i] = Write("nobody", NoToken)
<1>1. /\ DOMAIN r = DOMAIN q /\ r[1] = Write("nobody", NoToken)
      /\ \A j \in DOMAIN q : j # 1 => r[j] = q[j]
  BY TasksTyped, NoneTyped, Replaced
<1>2. DOMAIN q = 1 .. Len(q) /\ Len(q) \in Nat
  BY LenProperties
<1>3. ASSUME i # 1 PROVE Comes(q, r, i)
  BY <1>1, <1>2, <1>3 DEF Comes
<1> QED
  BY <1>1, <1>2, <1>3

LEMMA Queued ==
  ASSUME TypeInv, NEW v \in Vaults, NEW e \in Tasks, Queue(v, e)
  PROVE  Grown(tail[v], tail'[v], e)
<1>1. tail'[v] = Append(tail[v], e) /\ tail[v] \in Seq(Tasks)
  BY DEF Queue, TypeInv, TailTyped
<1> QED
  BY <1>1, Appended

\* A task of a queue was there, or the step put it there.
LEMMA TaskBack ==
  ASSUME TypeInv, [Next]_vars, NEW v \in Vaults, NEW i \in DOMAIN tail'[v]
  PROVE  /\ i \in Nat
         /\ \/ Comes(tail[v], tail'[v], i)
            \/ tail'[v][i] = Write("signIn", Answer(v, "signIn").token) /\ SignInKept(v)
            \/ tail'[v][i] = RestoreTask
            \/ /\ tail'[v][i] = Read("refresh") /\ refreshing'[v].at = "reading"
               /\ refreshing[v].at \in {"none", "waiting"}
            \/ tail'[v][i] = Write("refresh", NoToken) /\ CannotRotate(v)
            \/ /\ tail'[v][i] = Write("refresh", Answer(v, "refresh").token)
               /\ Rotated(v) /\ RefreshStands(v)
            \/ tail'[v][i] = Write("signOut", NoToken) /\ SignOutGetsLock(v)
            \/ BeginSignOut(v)
                 /\ tail'[v][i] \in {Read("signOut"), Write("nobody", NoToken),
                                     Write("signOut", NoToken)}
            \/ /\ tail'[v][i] = Write("nobody", NoToken)
               /\ store # NoToken /\ Expired(store)
<1> DEFINE New(t) ==
       \/ t = Write("signIn", Answer(v, "signIn").token) /\ SignInKept(v)
       \/ t = RestoreTask
       \/ /\ t = Read("refresh") /\ refreshing'[v].at = "reading"
          /\ refreshing[v].at \in {"none", "waiting"}
       \/ t = Write("refresh", NoToken) /\ CannotRotate(v)
       \/ /\ t = Write("refresh", Answer(v, "refresh").token)
          /\ Rotated(v) /\ RefreshStands(v)
       \/ t = Write("signOut", NoToken) /\ SignOutGetsLock(v)
       \/ BeginSignOut(v)
            /\ t \in {Read("signOut"), Write("nobody", NoToken), Write("signOut", NoToken)}
       \/ /\ t = Write("nobody", NoToken)
          /\ store # NoToken /\ Expired(store)
       Goal == i \in Nat /\ (Comes(tail[v], tail'[v], i) \/ New(tail'[v][i]))
<1>0. tail[v] \in Seq(Tasks) /\ DOMAIN tail[v] = 1 .. Len(tail[v]) /\ Len(tail[v]) \in Nat
  BY LenProperties DEF TypeInv, TailTyped
<1>1. ASSUME tail'[v] = tail[v] PROVE Goal
  BY <1>0, <1>1 DEF Comes
<1>2. ASSUME NEW e \in Tasks, Grown(tail[v], tail'[v], e), New(e) PROVE Goal
  <2> HIDE DEF New
  <2> QED
    BY <1>2, GrownComes
<1>3. ASSUME BeginSignOut(v),
             tail'[v] = IF HasLock THEN tail[v] \o ReadThenClear
                        ELSE Append(tail[v] \o ReadThenClear, Write("signOut", NoToken))
      PROVE  Goal
  <2>0. PICK p \in Seq(Tasks) : p = tail[v]
    BY <1>0
  <2>1. PICK q : q = tail'[v]
    OBVIOUS
  <2>2. q = p \o ReadThenClear \/ q = Append(p \o ReadThenClear, Write("signOut", NoToken))
    BY <1>3, <2>0, <2>1
  <2>3. /\ \A j \in DOMAIN q :
             \/ j \in DOMAIN p /\ q[j] = p[j]
             \/ j = Len(p) + 1 /\ q[j] = Read("signOut")
             \/ j = Len(p) + 2 /\ q[j] = Write("nobody", NoToken)
             \/ j = Len(p) + 3 /\ q[j] = Write("signOut", NoToken)
        /\ \A j \in DOMAIN p : j \in DOMAIN q /\ q[j] = p[j]
        /\ DOMAIN p = 1 .. Len(p) /\ Len(p) \in Nat
    BY <2>2, SignOutQueues
  <2>4. i \in Nat /\ (Comes(p, q, i) \/ q[i] \in {Read("signOut"), Write("nobody", NoToken),
                                                  Write("signOut", NoToken)})
    BY <2>0, <2>1, <2>3 DEF Comes
  <2> QED
    BY <1>3, <2>0, <2>1, <2>4
<1>4. ASSUME tail[v] # <<>>, tail'[v] = Tail(tail[v]) PROVE Goal
  <2>1. Shifted(tail[v], tail'[v])
    BY <1>0, <1>4, TakenOff
  <2> QED
    BY <2>1, ShiftedComes
<1>5. ASSUME StoreRestores(v) PROVE Goal
  <2>1. tail[v] # <<>>
    BY <1>5 DEF StoreRestores
  <2>2. CASE store # NoToken /\ Expired(store)
    <3>1. tail'[v] = [tail[v] EXCEPT ![1] = Write("nobody", NoToken)]
      BY <1>5, <2>2 DEF StoreRestores, TypeInv, TailTyped
    <3>2. i \in Nat /\ (Comes(tail[v], tail'[v], i) \/ tail'[v][i] = Write("nobody", NoToken))
      BY <1>0, <2>1, <3>1, ReplacedComes
    <3> QED
      BY <2>2, <3>2
  <2>3. CASE ~ (store # NoToken /\ Expired(store))
    <3>1. tail'[v] = Tail(tail[v])
      BY <1>5, <2>3 DEF StoreRestores, Taken, TypeInv, TailTyped
    <3> QED
      BY <2>1, <3>1, <1>4
  <2> QED
    BY <2>2, <2>3
<1>6. tail'[v] # <<>>
  BY <1>0
<1>7. \/ tail'[v] = tail[v]
      \/ \E e \in Tasks : Grown(tail[v], tail'[v], e) /\ New(e)
      \/ /\ BeginSignOut(v)
         /\ tail'[v] = IF HasLock THEN tail[v] \o ReadThenClear
                       ELSE Append(tail[v] \o ReadThenClear, Write("signOut", NoToken))
      \/ tail[v] # <<>> /\ tail'[v] = Tail(tail[v])
      \/ StoreRestores(v)
  BY <1>6, TailMoves
<1> HIDE DEF Goal, New
<1>8. Goal
  BY <1>1, <1>2, <1>3, <1>4, <1>5, <1>7
<1> QED
  BY <1>8 DEF Goal, New

\* A task of the refresh writes what that brought, and nobody but a refresh and
\* a sign-out reads.
QueueInv(v) ==
  \A i \in DOMAIN tail[v] :
    /\ tail[v][i].do = "write" /\ tail[v][i].who = "refresh" =>
         tail[v][i].what = refreshing[v].token
    /\ tail[v][i].do = "read" => tail[v][i] \in {Read("refresh"), Read("signOut")}

\* The sign-out still has to clear the store after the task i.
Covered(v, i) ==
  \/ signOut[v].at = "waiting"
  \/ \E p \in DOMAIN tail[v] : p > i /\ tail[v][p] = Write("signOut", NoToken)

\* A refresh that was overtaken before it read comes before what overtook it.
ReadInv(v) ==
  \A i \in DOMAIN tail[v] :
    tail[v][i] = Read("refresh") /\ ~ RefreshStands(v) =>
      Covered(v, i) \/ \E p \in DOMAIN tail[v] : p > i /\ tail[v][p].who = "signIn"

LEMMA QueueStep ==
  ASSUME TypeInv, [Next]_vars, NEW v \in Vaults, QueueInv(v)
  PROVE  QueueInv(v)'
<1> SUFFICES ASSUME NEW i \in DOMAIN tail'[v]
             PROVE  /\ tail'[v][i].do = "write" /\ tail'[v][i].who = "refresh" =>
                         tail'[v][i].what = refreshing'[v].token
                    /\ tail'[v][i].do = "read" => tail'[v][i] \in {Read("refresh"), Read("signOut")}
  BY DEF QueueInv
<1>0. refreshing \in [Vaults -> Refreshes] /\ TypeInv'
  BY TypeInvStep DEF TypeInv, OpsTyped
<1>1. CASE Comes(tail[v], tail'[v], i)
  <2>1. PICK j \in DOMAIN tail[v] : tail'[v][i] = tail[v][j]
    BY <1>1 DEF Comes
  <2>2. ASSUME tail[v][j].do = "write", tail[v][j].who = "refresh"
        PROVE  refreshing'[v].token = refreshing[v].token
    <3>1. refreshing[v].at = "writing"
      BY <2>2 DEF TypeInv, TailInv, TaskInv, TaskAt
    <3>2. refreshing'[v].at = "writing"
      BY <1>0, <2>1, <2>2 DEF TypeInv, TailInv, TaskInv, TaskAt
    <3> QED
      BY <3>1, <3>2, RefreshMoves, Fields
  <2> QED
    BY <2>1, <2>2 DEF QueueInv
<1>2. CASE tail'[v][i] = Write("refresh", NoToken) /\ CannotRotate(v)
  <2>1. refreshing'[v].token = NoToken
    BY <1>0, <1>2 DEF CannotRotate, Forget, RefreshEnds, Refreshes
  <2> QED
    BY <1>2, <2>1, Fields
<1>3. CASE /\ tail'[v][i] = Write("refresh", Answer(v, "refresh").token)
           /\ Rotated(v) /\ RefreshStands(v)
  <2>1. refreshing' = [refreshing EXCEPT ![v].at = "writing",
                                         ![v].token = Answer(v, "refresh").token]
    BY <1>3 DEF Rotated
  <2>2. refreshing'[v].token = Answer(v, "refresh").token
    BY <1>0, <2>1 DEF Refreshes
  <2> QED
    BY <1>3, <2>2, Fields
<1> QED
  BY <1>1, <1>2, <1>3, TaskBack, Fields

\* Only a sign-in that is kept, a sign-out and the end of the vault begin
\* another epoch.
LEMMA EpochBy ==
  ASSUME [Next]_vars, NEW v \in Vaults, TypeInv, ~ SignInKept(v), ~ BeginSignOut(v), ~ Close(v)
  PROVE  epoch'[v] = epoch[v]
<1>1. ASSUME NEW w \in Vaults, w # v, SignInKept(w) \/ BeginSignOut(w) \/ Close(w)
      PROVE  epoch'[v] = epoch[v]
  BY <1>1 DEF SignInKept, BeginSignOut, Close, TypeInv, KnownTyped
<1>2. ASSUME NEW w \in Vaults, NothingKept(w) \/ CannotRotate(w) \/ Rotated(w)
      PROVE  epoch' = epoch
  BY <1>2 DEF NothingKept, CannotRotate, Forget, Rotated
<1> QED
  BY <1>1, <1>2, WhoTouches DEF memory

LEMMA GetsLockQueues ==
  ASSUME TypeInv, NEW v \in Vaults, SignOutGetsLock(v)
  PROVE  Grown(tail[v], tail'[v], Write("signOut", NoToken))
BY Queued, TasksTyped, NoneTyped DEF SignOutGetsLock

\* A sign-out that begins still has to clear the store after all there is.
LEMMA BeginCovers ==
  ASSUME TypeInv, NEW v \in Vaults, BeginSignOut(v), NEW i \in DOMAIN tail'[v],
         tail'[v][i] # Write("signOut", NoToken)
  PROVE  Covered(v, i)'
<1>0. tail[v] \in Seq(Tasks) /\ signOut \in [Vaults -> SignOuts] /\ tail \in [Vaults -> Seq(Tasks)]
  BY DEF TypeInv, TailTyped, OpsTyped
<1>1. CASE HasLock
  <2>1. PICK r : /\ r = [NoSignOut EXCEPT !.at = IF HasLock THEN "waiting" ELSE "clearing",
                                          !.known = current[v],
                                          !.joins = refreshing[v].at # "none",
                                          !.meant = {store.of, current[v].of} \ {0}]
                 /\ signOut' = [signOut EXCEPT ![v] = r]
    BY DEF BeginSignOut
  <2>2. r.at = "waiting"
    BY <1>1, <2>1 DEF NoSignOut
  <2> QED
    BY <1>0, <2>1, <2>2 DEF Covered
<1>2. CASE ~ HasLock
  <2>0. PICK p \in Seq(Tasks) : p = tail[v]
    BY <1>0
  <2>1. PICK q : q = tail'[v]
    OBVIOUS
  <2>2. q = Append(p \o ReadThenClear, Write("signOut", NoToken))
    BY <1>0, <1>2, <2>0, <2>1 DEF BeginSignOut
  <2>3. /\ \A j \in DOMAIN q :
             \/ j \in DOMAIN p /\ q[j] = p[j]
             \/ j = Len(p) + 1 /\ q[j] = Read("signOut")
             \/ j = Len(p) + 2 /\ q[j] = Write("nobody", NoToken)
             \/ j = Len(p) + 3 /\ q[j] = Write("signOut", NoToken)
        /\ Len(p) + 3 \in DOMAIN q /\ q[Len(p) + 3] = Write("signOut", NoToken)
        /\ DOMAIN p = 1 .. Len(p) /\ Len(p) \in Nat
    BY <2>2, SignOutQueues
  <2>4. \E x \in DOMAIN q : x > i /\ q[x] = Write("signOut", NoToken)
    BY <2>0, <2>1, <2>3
  <2> QED
    BY <2>0, <2>1, <2>4 DEF Covered
<1> QED
  BY <1>1, <1>2

LEMMA CoveredStep ==
  ASSUME TypeInv, [Next]_vars, NEW v \in Vaults, NEW i \in DOMAIN tail'[v],
         tail'[v][i] # Write("signOut", NoToken), NEW j \in DOMAIN tail[v],
         \A p \in DOMAIN tail[v] : p > j =>
           \E x \in DOMAIN tail'[v] : x > i /\ tail'[v][x] = tail[v][p],
         Covered(v, j)
  PROVE  Covered(v, i)'
<1>1. CASE signOut[v].at = "waiting"
  <2>1. ASSUME SignOutGetsLock(v) PROVE Covered(v, i)'
    BY <2>1, GetsLockQueues, GrownComes DEF Covered
  <2>2. ASSUME Close(v) PROVE FALSE
    <3>1. tail'[v] = <<>>
      BY <2>2 DEF Close, TypeInv, TailTyped
    <3> QED
      BY <3>1
  <2>3. ~ NothingToSpend(v) /\ ~ SignOutAnswered(v)
    BY <1>1 DEF NothingToSpend, SignOutAnswered
  <2>4. ASSUME StoreWrites(v), Task(v).who = "signOut" PROVE FALSE
    BY <1>1, <2>4, StoreHead DEF TypeInv, TailInv, TaskInv, TaskAt
  <2>5. signOut'[v].at = "waiting" \/ SignOutGetsLock(v)
    BY <1>1, <2>2, <2>3, <2>4, SignOutMoves
  <2> QED
    BY <2>1, <2>5 DEF Covered
<1>2. CASE \E p \in DOMAIN tail[v] : p > j /\ tail[v][p] = Write("signOut", NoToken)
  BY <1>2 DEF Covered
<1> QED
  BY <1>1, <1>2 DEF Covered

LEMMA ReadStep ==
  ASSUME TypeInv, [Next]_vars, NEW v \in Vaults, ReadInv(v)
  PROVE  ReadInv(v)'
<1> SUFFICES ASSUME NEW i \in DOMAIN tail'[v], tail'[v][i] = Read("refresh"),
                    refreshing'[v].epoch # epoch'[v]
             PROVE  \/ Covered(v, i)'
                    \/ \E p \in DOMAIN tail'[v] : p > i /\ tail'[v][p].who = "signIn"
  BY DEF ReadInv, RefreshStands
<1>0. TypeInv' /\ Read("refresh") # Write("signOut", NoToken)
  BY TypeInvStep, Fields
<1>1. CASE Close(v)
  <2>1. tail'[v] = <<>>
    BY <1>1 DEF Close, TypeInv, TailTyped
  <2> QED
    BY <2>1
<1>2. CASE SignInKept(v)
  <2>1. PICK e \in Tasks : e = Write("signIn", Answer(v, "signIn").token) /\ Queue(v, e)
    <3>1. Answer(v, "signIn").token \in Maybe
      BY <1>2, Answered DEF SignInKept, Kinds
    <3> QED
      BY <1>2, <3>1, TasksTyped DEF SignInKept
  <2>2. e.who = "signIn" /\ e # Read("refresh")
    BY <2>1, Fields
  <2>3. \E x \in DOMAIN tail'[v] : x > i /\ tail'[v][x] = e
    BY <2>1, <2>2, Queued, GrownComes
  <2> QED
    BY <2>2, <2>3
<1>3. CASE BeginSignOut(v)
  BY <1>0, <1>3, BeginCovers
<1>4. CASE ~ Close(v) /\ ~ SignInKept(v) /\ ~ BeginSignOut(v)
  <2>1. epoch'[v] = epoch[v]
    BY <1>4, EpochBy
  <2>2. refreshing'[v].at = "reading"
    BY <1>0, Fields DEF TypeInv, TailInv, TaskInv, TaskAt
  <2>3. refreshing'[v] = refreshing[v]
    <3>1. refreshing'[v] # Rotation(v)
      BY <2>1, Fields
    <3> QED
      BY <2>2, <3>1, RefreshAfter, Fields
  <2>4. Comes(tail[v], tail'[v], i)
    BY <1>4, <2>2, <2>3, TaskBack, Fields
  <2>5. PICK j \in DOMAIN tail[v] :
          /\ tail'[v][i] = tail[v][j]
          /\ \A p \in DOMAIN tail[v] : p > j =>
               \E x \in DOMAIN tail'[v] : x > i /\ tail'[v][x] = tail[v][p]
    BY <2>4 DEF Comes
  <2>6. ~ RefreshStands(v)
    BY <2>1, <2>3 DEF RefreshStands
  <2>7. Covered(v, j) \/ \E p \in DOMAIN tail[v] : p > j /\ tail[v][p].who = "signIn"
    BY <2>5, <2>6 DEF ReadInv
  <2> QED
    BY <1>0, <2>5, <2>7, CoveredStep
<1> QED
  BY <1>1, <1>2, <1>3, <1>4

-----------------------------------------------------------------------------
(* What there is of a calm session: one token of it, wherever that is. *)

Carries(v, s) ==
  refreshing[v].at \in {"read", "asked", "writing"} /\ refreshing[v].token.of = s

\* Once it is kept, no vault is signing out of it.
GoneInv(s) == store.of = s => \A v \in Vaults : signOut[v].at \notin Leaves
\* A refresh holds the token that is kept, and was not overtaken.
CarryInv(s) ==
  \A v \in Vaults : Carries(v, s) =>
    /\ store.of = s /\ RefreshStands(v)
    /\ Rotating(v) => refreshing[v].token = store
\* A sign-out that reads the store clears it later.
UnreadInv(v) ==
  \A i \in DOMAIN tail[v] :
    tail[v][i] \in {Read("signOut"), Write("nobody", NoToken)} => Covered(v, i)
StoredInv(s) == \A v \in Vaults : signOut[v].stored.of # s
\* Nobody but the refresh under way spends a token.
SpendInv(s) ==
  \A o \in Slots : \A t \in Tokens : Spends(o, t) /\ t.of = s =>
    \E v \in Vaults : /\ o = <<v, "refresh">>
                      /\ refreshing[v].at = "asked" /\ refreshing[v].token.of = s
\* What a refresh and a sign-in hold is the newest there is.
LatestInv(s) ==
  \A v \in Vaults : refreshing[v].token.of = s =>
    /\ refreshing[v].at \in {"read", "writing"} => refreshing[v].token.at = rows[s].at
    /\ refreshing[v].at = "asked" =>
         /\ Answer(v, "refresh").token.at = rows[s].at
         /\ \/ Answer(v, "refresh").at = "answered"
            \/ Answer(v, "refresh").token = refreshing[v].token
PendInv(s) ==
  \A v \in Vaults : \A i \in DOMAIN tail[v] :
    tail[v][i].who = "signIn" /\ tail[v][i].what.of = s => tail[v][i].what.at = rows[s].at
\* What is kept is the newest, or a refresh has that.
StoreInv(s) ==
  store.of = s =>
    \/ store.at = rows[s].at
    \/ \E v \in Vaults : refreshing[v].at \in {"asked", "writing"} /\ refreshing[v].token.of = s

Still(s) ==
  /\ GoneInv(s) /\ CarryInv(s) /\ StoredInv(s) /\ SpendInv(s) /\ LatestInv(s) /\ PendInv(s)
  /\ StoreInv(s)
  /\ \A v \in Vaults : UnreadInv(v)
Ground(s) ==
  /\ VaultInv /\ UseInv /\ PastInv(s) /\ Calm(s) /\ Still(s)
  /\ \A v \in Vaults : QueueInv(v) /\ ReadInv(v)

\* No vault closes, no call is lost, and who would sign out has nothing kept.
LEMMA CalmSteps ==
  ASSUME NEW s \in Sessions, Ground(s), [Next]_vars, Calm(s)'
  PROVE  /\ TypeInv /\ TypeInv'
         /\ \A v \in Vaults : ~ Close(v) /\ ~ (BeginSignOut(v) /\ store.of = s)
         /\ \A o \in Slots : ~ CallLost(o)
<1>1. TypeInv /\ PastInv(s)
  BY DEF Ground, VaultInv
<1> QED
  BY <1>1, CalmBack, TypeInvStep

\* What a write of the queue does to the store.
LEMMA WritesOf ==
  ASSUME NEW s \in Sessions, Ground(s), NEW v \in Vaults, StoreWrites(v)
  PROVE  \/ /\ Task(v).who = "signIn" /\ store'.of = s /\ store' \in Tokens
            /\ store'.at = rows[s].at
            /\ \A w \in Vaults : refreshing[w].token.of # s
            /\ (\E w \in Vaults : signOut[w].at \in Leaves) => s \in leaving'
         \/ /\ Task(v).who = "refresh" /\ store' = refreshing[v].token
            /\ refreshing[v].at = "writing"
         \/ store' = NoToken /\ store.of # s
<1>0. /\ VaultInv /\ Calm(s) /\ GoneInv(s) /\ PendInv(s) /\ UnreadInv(v) /\ QueueInv(v)
      /\ TypeInv /\ SecretInv(v)
  BY DEF Ground, Still, VaultInv
<1>1. /\ 1 \in DOMAIN tail[v] /\ Task(v) = tail[v][1] /\ store' = Task(v).what
      /\ Task(v).do = "write" /\ TaskInv(v, Task(v)) /\ Task(v) \in Tasks
  BY <1>0, StoreHead, AtTask DEF StoreWrites
<1>2. CASE Task(v).who = "signIn"
  <2>1. store' \in Tokens
    BY <1>1, <1>2 DEF TaskInv, TaskAt
  <2>2. store'.of = s
    BY <1>0, <1>1, <2>1, CalmTokens
  <2>3. store'.at = rows[s].at
    BY <1>0, <1>1, <1>2, <2>2 DEF PendInv
  <2>4. \A w \in Vaults : refreshing[w].token.of # s
    BY <1>0, <1>1, <1>2, <2>2 DEF SecretInv, Secret
  <2>5. (\E w \in Vaults : signOut[w].at \in Leaves) => s \in leaving'
    BY <1>1, <1>2, <2>2 DEF StoreWrites, Leaves
  <2> QED
    BY <1>2, <2>1, <2>2, <2>3, <2>4, <2>5
<1>3. CASE Task(v).who = "refresh"
  BY <1>0, <1>1, <1>3 DEF QueueInv, TaskInv, TaskAt
<1>4. CASE Task(v).who \in {"nobody", "signOut"}
  <2>1. store' = NoToken
    BY <1>1, <1>4 DEF TaskInv, TaskAt
  <2>2. signOut[v].at \in Leaves
    <3>1. CASE Task(v).who = "signOut"
      BY <1>1, <3>1 DEF TaskInv, TaskAt, Leaves
    <3>2. CASE Task(v).who = "nobody"
      <4>1. Task(v) = Write("nobody", NoToken)
        BY <1>1, <2>1, <3>2 DEF Tasks, Write
      <4>2. Covered(v, 1)
        BY <1>0, <1>1, <4>1 DEF UnreadInv
      <4> QED
        BY <1>0, <4>2, Fields DEF Covered, Leaves, TypeInv, TailInv, TaskInv, TaskAt
    <3> QED
      BY <1>4, <3>1, <3>2
  <2> QED
    BY <1>0, <2>1, <2>2 DEF GoneInv
<1>5. Task(v).who \in {"signIn", "refresh", "signOut", "nobody"}
  BY <1>1, TasksTyped DEF Tasks
<1> QED
  BY <1>2, <1>3, <1>4, <1>5

LEMMA GoneStep ==
  ASSUME NEW s \in Sessions, Ground(s), [Next]_vars, Calm(s)'
  PROVE  GoneInv(s)'
<1> SUFFICES ASSUME store'.of = s, NEW v \in Vaults, signOut'[v].at \in Leaves PROVE FALSE
  BY DEF GoneInv
<1>0. TypeInv /\ GoneInv(s) /\ CarryInv(s) /\ s \notin leaving'
  BY CalmSteps DEF Ground, Still, Calm
<1>1. ~ BeginSignOut(v)
  <2> SUFFICES ASSUME BeginSignOut(v) PROVE FALSE
    OBVIOUS
  <2>1. store' = store
    BY DEF BeginSignOut
  <2> QED
    BY <2>1, CalmSteps
<1>2. signOut[v].at \in Leaves
  BY <1>0, <1>1, SignOutMoves, Fields DEF Leaves
<1>3. store.of # s
  BY <1>0, <1>2 DEF GoneInv
<1>4. PICK w \in Vaults : StoreWrites(w)
  BY <1>3, StoreFlow
<1> QED
  BY <1>0, <1>2, <1>3, <1>4, WritesOf, Fields DEF CarryInv, Carries

\* A refresh under way that carries the session goes on with what is kept.
LEMMA CarryStays ==
  ASSUME NEW s \in Sessions, Ground(s), [Next]_vars, Calm(s)', NEW v \in Vaults, Carries(v, s),
         ~ StoreWrites(v)
  PROVE  store'.of = s /\ epoch'[v] = epoch[v]
<1>0. /\ TypeInv /\ CarryInv(s) /\ VaultInv /\ (\A t \in Sessions : FreshInv(t)) /\ SignInInv(v)
      /\ Calm(s)
  BY CalmSteps DEF Ground, Still, VaultInv
<1>1. store.of = s
  BY <1>0 DEF CarryInv
<1>2. store'.of = s
  <2>1. ASSUME NEW w \in Vaults, StoreWrites(w) PROVE store'.of = s
    <3>1. refreshing[w].at # "writing"
      BY <1>0, <2>1, OneRefresher DEF Carries
    <3> QED
      BY <1>1, <2>1, <3>1, WritesOf
  <2> QED
    BY <1>1, <2>1, StoreFlow
<1>3. ~ SignInKept(v)
  <2> SUFFICES ASSUME SignInKept(v) PROVE FALSE
    OBVIOUS
  <2>1. PICK t \in Tokens : t = Answer(v, "signIn").token
    BY <1>0, Answered DEF SignInKept, Kinds
  <2>2. Exchanged(v, t.of)
    BY <1>0, <2>1, KeepsExchanged
  <2>3. t.of = s
    BY <1>0, <2>2, CalmTokens
  <2> QED
    BY <1>0, <1>1, <2>2, <2>3 DEF FreshInv, Nowhere
<1> QED
  BY <1>0, <1>1, <1>2, <1>3, CalmSteps, EpochBy

\* A refresh that reads the store was not overtaken.
LEMMA ReadsStands ==
  ASSUME NEW s \in Sessions, Ground(s), NEW v \in Vaults, StoreReads(v),
         Task(v).who = "refresh", store.of = s
  PROVE  RefreshStands(v)
<1> SUFFICES ASSUME ~ RefreshStands(v) PROVE FALSE
  OBVIOUS
<1>0. /\ TypeInv /\ GoneInv(s) /\ VaultInv /\ SecretInv(v) /\ QueueInv(v) /\ ReadInv(v) /\ Calm(s)
  BY DEF Ground, Still, VaultInv
<1>1. 1 \in DOMAIN tail[v] /\ Task(v) = tail[v][1] /\ tail[v][1].do = "read"
  BY <1>0, AtTask DEF StoreReads
<1>2. tail[v][1] = Read("refresh")
  BY <1>0, <1>1, Fields DEF QueueInv
<1>3. ASSUME NEW p \in DOMAIN tail[v], tail[v][p].who = "signIn" PROVE FALSE
  <2>1. tail[v][p].what \in Tokens
    BY <1>0, <1>3 DEF TypeInv, TailInv, TaskInv, TaskAt
  <2>2. tail[v][p].what.of = s
    BY <1>0, <2>1, CalmTokens
  <2> QED
    BY <1>0, <1>3, <2>2 DEF SecretInv, Secret
<1>4. Covered(v, 1)
  BY <1>0, <1>1, <1>2, <1>3 DEF ReadInv
<1> QED
  BY <1>0, <1>4, Fields DEF Covered, GoneInv, Leaves, TypeInv, TailInv, TaskInv, TaskAt

LEMMA CarryStep ==
  ASSUME NEW s \in Sessions, Ground(s), [Next]_vars, Calm(s)'
  PROVE  CarryInv(s)'
<1> SUFFICES ASSUME NEW v \in Vaults, refreshing'[v].at \in {"read", "asked", "writing"},
                    refreshing'[v].token.of = s
             PROVE  /\ store'.of = s /\ refreshing'[v].epoch = epoch'[v]
                    /\ refreshing'[v].at \in {"read", "asked"} => refreshing'[v].token = store'
  BY DEF CarryInv, Carries, Rotating, RefreshStands
<1>0. /\ TypeInv /\ TypeInv' /\ CarryInv(s) /\ VaultInv /\ \A w \in Vaults : ~ Close(w)
      /\ s # 0
  BY CalmSteps, Fields DEF Ground, Still
<1>1. CASE StoreReads(v) /\ Task(v).who = "refresh" /\ refreshing'[v].epoch = refreshing[v].epoch
           /\ refreshing'[v].token = store
  <2>1. store.of = s /\ store' = store /\ epoch' = epoch
    BY <1>1 DEF StoreReads, memory
  <2>2. RefreshStands(v)
    BY <1>1, <2>1, ReadsStands
  <2> QED
    BY <1>1, <2>1, <2>2 DEF RefreshStands
<1>2. CASE Rotated(v) /\ refreshing[v].at = "asked" /\ refreshing'[v].at \in {"writing", "done"}
           /\ refreshing'[v].epoch = refreshing[v].epoch
           /\ refreshing'[v].token = Answer(v, "refresh").token
  <2>1. Carries(v, s) /\ store' = store /\ epoch' = epoch
    BY <1>0, <1>2, RotatedSame DEF Carries, Rotated
  <2> QED
    BY <1>0, <1>2, <2>1 DEF CarryInv, RefreshStands
<1>3. CASE /\ refreshing'[v].at = refreshing[v].at \/ (AskRotation(v) /\ refreshing[v].at = "read")
           /\ refreshing'[v].epoch = refreshing[v].epoch
           /\ refreshing'[v].token = refreshing[v].token
  <2>1. Carries(v, s)
    BY <1>3 DEF Carries
  <2>2. ~ StoreWrites(v) \/ Task(v).who # "refresh"
    <3> SUFFICES ASSUME StoreWrites(v), Task(v).who = "refresh" PROVE FALSE
      OBVIOUS
    <3>1. refreshing'[v].at = "done"
      BY <1>0 DEF StoreWrites, TypeInv, OpsTyped, Refreshes
    <3> QED
      BY <3>1
  <2>3. store'.of = s /\ epoch'[v] = epoch[v]
    <3>1. CASE StoreWrites(v)
      <4>1. store.of = s
        BY <1>0, <2>1 DEF CarryInv
      <4>2. epoch'[v] = epoch[v]
        BY <3>1 DEF StoreWrites, memory
      <4> QED
        BY <2>2, <3>1, <4>1, <4>2, WritesOf
    <3> QED
      BY <2>1, <3>1, CarryStays
  <2>4. ASSUME refreshing'[v].at \in {"read", "asked"} PROVE refreshing'[v].token = store'
    <3>1. Rotating(v) /\ refreshing[v].token = store
      BY <1>0, <1>3, <2>1, <2>4 DEF CarryInv, Rotating
    <3>2. refreshing'[v].token \in Tokens
      BY <1>0, <2>4, NoneTyped, Fields DEF TypeInv, OpsTyped, Refreshes, Maybe
    <3>3. PICK k \in Tokens : k = refreshing'[v].token
      BY <3>2
    <3>4. Kept(k)' /\ k.of = s
      BY <2>4, <3>3 DEF Kept, Rotating
    <3>5. ASSUME NEW w \in Vaults, StoreWrites(w), store' = Task(w).what
          PROVE  k = store'
      <4>1. PICK t \in Tokens : t = store'
        BY <1>0, <2>3, KeptTypedStep, Fields DEF KeptTyped, Maybe
      <4> QED
        BY <1>0, <2>3, <3>4, <3>5, <4>1, OneTask
    <3> QED
      BY <1>3, <3>1, <3>3, <3>5, StoreFlow
  <2> QED
    BY <1>0, <1>3, <2>1, <2>3, <2>4 DEF CarryInv, RefreshStands
<1> QED
  BY <1>0, <1>1, <1>2, <1>3, RefreshMoves, Fields

LEMMA UnreadStep ==
  ASSUME NEW s \in Sessions, Ground(s), [Next]_vars, Calm(s)', NEW v \in Vaults
  PROVE  UnreadInv(v)'
<1> SUFFICES ASSUME NEW i \in DOMAIN tail'[v],
                    tail'[v][i] \in {Read("signOut"), Write("nobody", NoToken)}
             PROVE  Covered(v, i)'
  BY DEF UnreadInv
<1>0. TypeInv /\ UnreadInv(v) /\ VaultInv /\ Calm(s)
  BY CalmSteps DEF Ground, Still
<1>1. tail'[v][i] # Write("signOut", NoToken)
  BY Fields
<1>2. CASE BeginSignOut(v)
  BY <1>0, <1>1, <1>2, BeginCovers
<1>3. CASE Comes(tail[v], tail'[v], i)
  <2>1. PICK j \in DOMAIN tail[v] :
          /\ tail'[v][i] = tail[v][j]
          /\ \A p \in DOMAIN tail[v] : p > j =>
               \E x \in DOMAIN tail'[v] : x > i /\ tail'[v][x] = tail[v][p]
    BY <1>3 DEF Comes
  <2>2. Covered(v, j)
    BY <1>0, <2>1 DEF UnreadInv
  <2> QED
    BY <1>0, <1>1, <2>1, <2>2, CoveredStep
<1>4. ASSUME store # NoToken, Expired(store) PROVE FALSE
  <2>1. store \in Tokens
    BY <1>0, <1>4 DEF TypeInv, KeptTyped, Maybe
  <2>2. store.of = s
    BY <1>0, <2>1, CalmTokens
  <2> QED
    BY <1>0, <1>4, <2>1, <2>2 DEF Expired, Calm, Tokens
<1> QED
  BY <1>0, <1>1, <1>2, <1>3, <1>4, TaskBack, Fields

LEMMA StoredStep ==
  ASSUME NEW s \in Sessions, Ground(s), [Next]_vars, Calm(s)'
  PROVE  StoredInv(s)'
<1> SUFFICES ASSUME NEW v \in Vaults, signOut'[v].stored.of = s PROVE FALSE
  BY DEF StoredInv
<1>0. TypeInv /\ UnreadInv(v) /\ StoredInv(s) /\ GoneInv(s) /\ QueueInv(v)
  BY CalmSteps DEF Ground, Still
<1>1. StoreReads(v) /\ Task(v).who # "refresh" /\ store.of = s
  BY <1>0, StoredFlow, Fields DEF StoredInv
<1>2. 1 \in DOMAIN tail[v] /\ Task(v) = tail[v][1] /\ tail[v][1].do = "read"
  BY <1>0, <1>1, AtTask DEF StoreReads
<1>3. tail[v][1] = Read("signOut")
  BY <1>0, <1>1, <1>2, Fields DEF QueueInv
<1>4. Covered(v, 1)
  BY <1>0, <1>2, <1>3 DEF UnreadInv
<1> QED
  BY <1>0, <1>1, <1>4, Fields DEF Covered, GoneInv, Leaves, TypeInv, TailInv, TaskInv, TaskAt

\* A refresh whose request is under way has it end there.
LEMMA AskedFlow ==
  ASSUME TypeInv, [Next]_vars, NEW v \in Vaults, refreshing[v].at = "asked", ~ Close(v)
  PROVE  \/ refreshing'[v] = refreshing[v]
         \/ /\ CannotRotate(v) \/ Rotated(v) \/ RotationLost(v)
            /\ calls'[<<v, "refresh">>].what = "none"
<1>0. calls \in [Slots -> Calls] /\ <<v, "refresh">> \in Slots /\ NoCall.what = "none"
  BY NoneTyped DEF TypeInv, CallsTyped, Kinds, NoCall
<1>1. ASSUME CannotRotate(v) \/ Rotated(v) \/ RotationLost(v)
      PROVE  calls'[<<v, "refresh">>].what = "none"
  <2>1. calls' = [calls EXCEPT ![<<v, "refresh">>] = NoCall]
    BY <1>1 DEF CannotRotate, Rotated, RotationLost, HangsUp, Asks
  <2> QED
    BY <1>0, <2>1
<1>2. ~ FinishRefresh(v) /\ ~ BeginRefresh(v) /\ ~ RefreshGetsLock(v) /\ ~ NothingKept(v)
  BY DEF FinishRefresh, BeginRefresh, RefreshGetsLock, NothingKept
<1>3. ASSUME StoreReads(v) \/ StoreWrites(v), Task(v).who = "refresh" PROVE FALSE
  BY <1>3, AtTask DEF TaskInv, TaskAt, StoreReads, StoreWrites
<1> QED
  BY <1>1, <1>2, <1>3, RefreshMoves

LEMMA AskPut ==
  ASSUME TypeInv, NEW v \in Vaults, AskRotation(v)
  PROVE  /\ calls'[<<v, "refresh">>].token = refreshing[v].token
         /\ refreshing'[v].token = refreshing[v].token /\ refreshing'[v].at = "asked"
<1>0. calls \in [Slots -> Calls] /\ <<v, "refresh">> \in Slots
  BY NoneTyped DEF TypeInv, CallsTyped, Kinds
<1>1. calls' = [calls EXCEPT ![<<v, "refresh">>] = Call("refresh", refreshing[v].token)]
  BY DEF AskRotation, Asks
<1>2. Call("refresh", refreshing[v].token).token = refreshing[v].token
  BY DEF Call
<1>3. refreshing'[v].token = refreshing[v].token /\ refreshing'[v].at = "asked"
  BY DEF AskRotation, RefreshAt, TypeInv, OpsTyped, Refreshes
<1> QED
  BY <1>0, <1>1, <1>2, <1>3

LEMMA SpendStep ==
  ASSUME NEW s \in Sessions, Ground(s), [Next]_vars, Calm(s)'
  PROVE  SpendInv(s)'
<1> SUFFICES ASSUME NEW o \in Slots, NEW t \in Tokens, Spends(o, t)', t.of = s
             PROVE  \E v \in Vaults : /\ o = <<v, "refresh">> /\ refreshing'[v].at = "asked"
                                      /\ refreshing'[v].token.of = s
  BY DEF SpendInv
<1>0. TypeInv /\ SpendInv(s) /\ StoredInv(s) /\ (\A w \in Vaults : ~ Close(w))
  BY CalmSteps DEF Ground, Still
<1>1. calls'[o].what = "refresh" /\ calls'[o].at \in {"sent", "read"} /\ calls'[o].token = t
  BY DEF Spends
<1>2. CASE Spends(o, t)
  <2>1. PICK v \in Vaults : /\ o = <<v, "refresh">> /\ refreshing[v].at = "asked"
                            /\ refreshing[v].token.of = s
    BY <1>0, <1>2 DEF SpendInv
  <2>2. refreshing'[v] = refreshing[v]
    BY <1>0, <1>1, <2>1, AskedFlow
  <2> QED
    BY <2>1, <2>2
<1>3. ASSUME NEW v \in Vaults, AskRotation(v), o = <<v, "refresh">>,
             calls'[o].token = refreshing[v].token
      PROVE  refreshing'[v].at = "asked" /\ refreshing'[v].token.of = s
  BY <1>0, <1>1, <1>3, AskPut
<1>4. ASSUME NEW v \in Vaults, calls'[o].token = signOut[v].stored PROVE FALSE
  BY <1>0, <1>1, <1>4 DEF StoredInv
<1>5. \/ Spends(o, t)
      \/ \E v \in Vaults : /\ AskRotation(v) /\ o = <<v, "refresh">>
                           /\ calls'[o].token = refreshing[v].token
      \/ \E v \in Vaults : calls'[o].token = signOut[v].stored
  BY <1>0, <1>1, CallsFlow DEF Spends
<1> QED
  BY <1>2, <1>3, <1>4, <1>5

\* Only the refresh under way moves a session that is kept, and nothing else then.
LEMMA RowMoves ==
  ASSUME NEW s \in Sessions, Ground(s), [Next]_vars, Calm(s)'
  PROVE  \/ rows'[s].at = rows[s].at
         \/ rows[s].at = 0 /\ Nowhere(s)
         \/ \E v \in Vaults :
              /\ WriteRow(<<v, "refresh">>) /\ UNCHANGED <<store, tail, refreshing>>
              /\ refreshing[v].at = "asked" /\ refreshing[v].token.of = s
              /\ rows'[s].at = rows[s].at + 1 /\ calls'[<<v, "refresh">>].token.at = rows'[s].at
              /\ Answer(v, "refresh").token.at = rows[s].at
<1>0. TypeInv /\ SpendInv(s) /\ VaultInv /\ FreshInv(s)
  BY CalmSteps DEF Ground, Still, VaultInv
<1>1. ASSUME NEW o \in Slots, WriteRow(o), calls[o].at = "read", calls[o].what = "refresh",
             calls[o].token \in Tokens, calls[o].token.of = s,
             calls[o].token.at = rows[s].at, rows'[s].at = rows[s].at + 1,
             calls'[o].token.at = rows'[s].at
      PROVE  \E v \in Vaults :
               /\ WriteRow(<<v, "refresh">>) /\ UNCHANGED <<store, tail, refreshing>>
               /\ refreshing[v].at = "asked" /\ refreshing[v].token.of = s
               /\ rows'[s].at = rows[s].at + 1 /\ calls'[<<v, "refresh">>].token.at = rows'[s].at
               /\ Answer(v, "refresh").token.at = rows[s].at
  <2>1. Spends(o, calls[o].token)
    BY <1>1 DEF Spends
  <2>2. PICK v \in Vaults : /\ o = <<v, "refresh">> /\ refreshing[v].at = "asked"
                            /\ refreshing[v].token.of = s
    BY <1>0, <1>1, <2>1 DEF SpendInv
  <2>3. UNCHANGED <<store, tail, refreshing>>
    BY <1>1 DEF WriteRow, AtBook, ops
  <2> QED
    BY <1>1, <2>2, <2>3 DEF Answer
<1> QED
  BY <1>0, <1>1, RowsGrow DEF FreshInv

LEMMA LatestStep ==
  ASSUME NEW s \in Sessions, Ground(s), [Next]_vars, Calm(s)'
  PROVE  LatestInv(s)'
<1> SUFFICES ASSUME NEW v \in Vaults, refreshing'[v].token.of = s
             PROVE  /\ refreshing'[v].at \in {"read", "writing"} =>
                         refreshing'[v].token.at = rows'[s].at
                    /\ refreshing'[v].at = "asked" =>
                         /\ calls'[<<v, "refresh">>].token.at = rows'[s].at
                         /\ \/ calls'[<<v, "refresh">>].at = "answered"
                            \/ calls'[<<v, "refresh">>].token = refreshing'[v].token
  BY DEF LatestInv, Answer
<1>0. /\ TypeInv /\ TypeInv' /\ LatestInv(s) /\ StoreInv(s) /\ VaultInv /\ \A w \in Vaults : ~ Close(w)
      /\ \A o \in Slots : ~ CallLost(o)
      /\ s # 0 /\ <<v, "refresh">> \in Slots /\ CallInv(calls[<<v, "refresh">>])
  BY CalmSteps, Fields, NoneTyped DEF Ground, Still, Kinds, TypeInv
<1>1. PICK o \in Slots : o = <<v, "refresh">>
  BY <1>0
<1>2. /\ \A u \in Vaults : o # <<u, "signOut">> /\ o # <<u, "stray">>
      /\ \A u \in Vaults : o = <<u, "refresh">> => u = v
  BY <1>1
<1>3. refreshing'[v].at = "asked" => calls'[o].what = "refresh" /\ calls'[o].token \in Tokens
  BY <1>0, <1>1 DEF TypeInv, RefreshInv, Answer, CallInv
<1>4. refreshing[v].at = "asked" => calls[o].what = "refresh" /\ calls[o].token \in Tokens
  BY <1>0, <1>1 DEF TypeInv, RefreshInv, Answer, CallInv
<1>5. CASE rows'[s].at = rows[s].at
  <2>1. CASE refreshing'[v] = refreshing[v]
    <3>1. CASE refreshing[v].at # "asked"
      BY <1>0, <1>5, <2>1, <3>1 DEF LatestInv
    <3>2. CASE refreshing[v].at = "asked"
      <4>1. /\ calls[o].token.at = rows[s].at /\ calls[o].what = "refresh"
            /\ calls[o].at = "answered" \/ calls[o].token = refreshing[v].token
            /\ calls[o].token.of = s
        BY <1>0, <1>1, <1>4, <2>1, <3>2 DEF LatestInv, Answer, TypeInv, RefreshInv
      <4>2. ~ AskRotation(v)
        BY <3>2 DEF AskRotation
      <4>3. \/ /\ calls'[o].token = calls[o].token
               /\ calls'[o].at = "answered" \/ calls[o].at # "answered"
            \/ /\ calls'[o].at = "answered"
               /\ calls[o].token.at <= calls'[o].token.at
               /\ calls'[o].token.at <= rows'[s].at
        BY <1>0, <1>2, <1>3, <2>1, <3>2, <4>1, <4>2, CallsFlow
      <4>4. calls'[o].token.at \in Nat /\ rows[s].at \in Nat
        BY <1>0, <1>3, <2>1, <3>2, RowsMonotone DEF Tokens
      <4> QED
        BY <1>1, <1>5, <2>1, <3>2, <4>1, <4>3, <4>4
    <3> QED
      BY <3>1, <3>2
  <2>2. CASE AskRotation(v) /\ refreshing[v].at = "read"
             /\ refreshing'[v].at = "asked" /\ refreshing'[v].token = refreshing[v].token
    BY <1>0, <1>5, <2>2, AskPut DEF LatestInv
  <2>3. CASE Rotated(v) /\ refreshing[v].at = "asked"
             /\ refreshing'[v].at \in {"writing", "done"}
             /\ refreshing'[v].token = Answer(v, "refresh").token
    <3>1. refreshing[v].token.of = s
      BY <1>0, <2>3, RotatedSame
    <3> QED
      BY <1>0, <1>5, <2>3, <3>1 DEF LatestInv
  <2>4. CASE StoreReads(v) /\ Task(v).who = "refresh"
             /\ refreshing'[v].at = "read" /\ refreshing'[v].token = store
    <3>1. refreshing[v].at = "reading"
      BY <1>0, <2>4, AtTask DEF TaskInv, TaskAt, StoreReads
    <3>2. \A w \in Vaults : refreshing[w].at \notin {"asked", "writing"}
      BY <1>0, <3>1, OneRefresher
    <3> QED
      BY <1>0, <1>5, <2>4, <3>2 DEF StoreInv
  <2> QED
    BY <1>0, <2>1, <2>2, <2>3, <2>4, RefreshMoves, Fields
<1>6. CASE Nowhere(s)
  BY <1>0, <1>6, RefreshFlow DEF Nowhere
<1>7. ASSUME NEW w \in Vaults, WriteRow(<<w, "refresh">>), UNCHANGED refreshing,
             refreshing[w].at = "asked", refreshing[w].token.of = s,
             rows'[s].at = rows[s].at + 1, calls'[<<w, "refresh">>].token.at = rows'[s].at,
             Answer(w, "refresh").token.at = rows[s].at
      PROVE  /\ refreshing'[v].at \in {"read", "writing"} =>
                  refreshing'[v].token.at = rows'[s].at
             /\ refreshing'[v].at = "asked" =>
                  /\ calls'[<<v, "refresh">>].token.at = rows'[s].at
                  /\ \/ calls'[<<v, "refresh">>].at = "answered"
                     \/ calls'[<<v, "refresh">>].token = refreshing'[v].token
  <2>1. refreshing'[v].at \in {"read", "writing", "asked"} => v = w
    BY <1>0, <1>7, OneRefresher
  <2>2. ASSUME refreshing'[v].at = "asked" PROVE calls'[o].at = "answered"
    <3>1. v = w
      BY <2>1, <2>2
    <3>2. calls'[o].token # calls[o].token
      <4>1. rows[s].at \in Nat
        BY <1>0, RowsMonotone
      <4> QED
        BY <1>1, <1>7, <3>1, <4>1 DEF Answer
    <3>3. ~ AskRotation(v)
      BY <1>7, <3>1 DEF AskRotation
    <3> QED
      BY <1>0, <1>2, <1>3, <2>2, <3>2, <3>3, CallsFlow
  <2> QED
    BY <1>1, <1>7, <2>1, <2>2
<1> QED
  BY <1>5, <1>6, <1>7, RowMoves

LEMMA PendStep ==
  ASSUME NEW s \in Sessions, Ground(s), [Next]_vars, Calm(s)'
  PROVE  PendInv(s)'
<1> SUFFICES ASSUME NEW v \in Vaults, NEW i \in DOMAIN tail'[v], tail'[v][i].who = "signIn",
                    tail'[v][i].what.of = s
             PROVE  tail'[v][i].what.at = rows'[s].at
  BY DEF PendInv
<1>0. TypeInv /\ PendInv(s) /\ VaultInv /\ SignInInv(v) /\ SecretInv(v) /\ NewInv(v)
  BY CalmSteps DEF Ground, Still, VaultInv, UseInv
<1>1. ASSUME NEW j \in DOMAIN tail[v], tail'[v][i] = tail[v][j]
      PROVE  tail'[v][i].what.at = rows'[s].at
  <2>1. tail[v][j].what.at = rows[s].at
    BY <1>0, <1>1 DEF PendInv
  <2>2. \A w \in Vaults : refreshing[w].token.of # s
    BY <1>0, <1>1 DEF SecretInv, Secret
  <2>3. ~ Nowhere(s)
    BY <1>1 DEF Nowhere, NoTask
  <2> QED
    BY <1>1, <2>1, <2>2, <2>3, RowMoves
<1>2. ASSUME SignInKept(v), tail'[v][i] = Write("signIn", Answer(v, "signIn").token)
      PROVE  tail'[v][i].what.at = rows'[s].at
  <2>1. tail'[v][i].what = Answer(v, "signIn").token
    BY <1>2, Fields
  <2>2. Exchanged(v, s)
    BY <1>0, <1>2, <2>1, KeepsExchanged
  <2>3. rows' = rows
    BY <1>2 DEF SignInKept, around
  <2> QED
    BY <1>0, <2>1, <2>2, <2>3 DEF NewInv
<1> QED
  BY <1>0, <1>1, <1>2, TaskBack, Fields DEF Comes

LEMMA StoreInvStep ==
  ASSUME NEW s \in Sessions, Ground(s), [Next]_vars, Calm(s)'
  PROVE  StoreInv(s)'
<1> SUFFICES ASSUME store'.of = s
             PROVE  \/ store'.at = rows'[s].at
                    \/ \E v \in Vaults : /\ refreshing'[v].at \in {"asked", "writing"}
                                         /\ refreshing'[v].token.of = s
  BY DEF StoreInv
<1>0. /\ TypeInv /\ StoreInv(s) /\ VaultInv /\ CarryInv(s) /\ LatestInv(s)
      /\ (\A w \in Vaults : ~ Close(w)) /\ s # 0
  BY CalmSteps, Fields DEF Ground, Still
<1>1. ASSUME NEW v \in Vaults, StoreWrites(v)
      PROVE  store'.at = rows'[s].at
  <2>1. rows' = rows
    BY <1>1 DEF StoreWrites, around
  <2> QED
    BY <1>0, <1>1, <2>1, WritesOf, Fields DEF LatestInv
<1>2. CASE store' = store /\ store.at = rows[s].at
  <2>1. CASE rows'[s].at = rows[s].at
    BY <1>2, <2>1
  <2>2. CASE Nowhere(s)
    BY <1>2, <2>2 DEF Nowhere
  <2>3. CASE \E v \in Vaults : /\ UNCHANGED refreshing /\ refreshing[v].at = "asked"
                               /\ refreshing[v].token.of = s
    BY <2>3
  <2> QED
    BY <2>1, <2>2, <2>3, RowMoves
<1>3. ASSUME store' = store, NEW v \in Vaults, refreshing[v].at \in {"asked", "writing"},
             refreshing[v].token.of = s, ~ StoreWrites(v)
      PROVE  \/ store'.at = rows'[s].at
             \/ refreshing'[v].at \in {"asked", "writing"} /\ refreshing'[v].token.of = s
  <2>1. Carries(v, s) /\ RefreshStands(v)
    BY <1>0, <1>3 DEF CarryInv, Carries
  <2>2. CASE (CannotRotate(v) \/ RotationLost(v)) /\ refreshing[v].at = "asked"
    <3>1. rows' = rows /\ Answer(v, "refresh").at # "answered"
      BY <2>2 DEF CannotRotate, Forget, RotationLost, around
    <3>2. Answer(v, "refresh").token = refreshing[v].token
      BY <1>0, <1>3, <2>2, <3>1 DEF LatestInv
    <3>3. Answer(v, "refresh").token.at = rows[s].at
      BY <1>0, <1>3, <2>2 DEF LatestInv
    <3>4. refreshing[v].token = store
      BY <1>0, <2>1, <2>2 DEF CarryInv, Rotating
    <3> QED
      BY <1>3, <3>1, <3>2, <3>3, <3>4
  <2>3. CASE Rotated(v) /\ refreshing[v].at = "asked"
    <3>1. refreshing' = [refreshing EXCEPT ![v].at = "writing",
                                           ![v].token = Answer(v, "refresh").token]
      BY <2>1, <2>3 DEF Rotated
    <3>2. refreshing'[v].at = "writing" /\ refreshing'[v].token = Answer(v, "refresh").token
      BY <1>0, <3>1 DEF TypeInv, OpsTyped, Refreshes
    <3> QED
      BY <1>0, <1>3, <2>3, <3>2, RotatedSame
  <2>4. CASE refreshing[v].at = "asked"
    BY <1>0, <1>3, <2>2, <2>3, <2>4, AskedFlow
  <2>5. CASE refreshing[v].at = "writing"
    <3>1. ~ FinishRefresh(v) /\ ~ BeginRefresh(v) /\ ~ RefreshGetsLock(v)
      BY <2>5 DEF FinishRefresh, BeginRefresh, RefreshGetsLock
    <3>2. ASSUME StoreReads(v), Task(v).who = "refresh" PROVE FALSE
      BY <1>0, <2>5, <3>2, AtTask DEF TaskInv, TaskAt, StoreReads
    <3>3. refreshing'[v] = refreshing[v]
      BY <1>0, <1>3, <2>5, <3>1, <3>2, RefreshMoves
    <3> QED
      BY <1>3, <3>3
  <2> QED
    BY <1>3, <2>4, <2>5
<1> QED
  BY <1>0, <1>1, <1>2, <1>3, StoreFlow DEF StoreInv

\* The inductive invariant: what the queues hold, and what is so of a session as
\* long as it is calm.
CalmInv(s) == Calm(s) => Still(s) /\ rows[s].is # "reused"
SpentInv ==
  /\ \A v \in Vaults : QueueInv(v) /\ ReadInv(v)
  /\ \A s \in Sessions : PastInv(s) /\ CalmInv(s)

LEMMA NotReused ==
  ASSUME NEW s \in Sessions, Ground(s), [Next]_vars, Calm(s)', rows[s].is # "reused"
  PROVE  rows'[s].is # "reused"
<1> SUFFICES ASSUME rows'[s].is = "reused" PROVE FALSE
  OBVIOUS
<1>0. TypeInv /\ SpendInv(s) /\ LatestInv(s) /\ \A o \in Slots : CallInv(calls[o])
  BY CalmSteps DEF Ground, Still, TypeInv
<1>1. PICK o \in Slots : /\ calls[o].what = "refresh" /\ calls[o].at \in {"sent", "read"}
                         /\ calls[o].token.of = s /\ calls[o].token.at # rows[s].at
  BY <1>0, ReusedFlow
<1>2. calls[o].token \in Tokens /\ Spends(o, calls[o].token)
  BY <1>0, <1>1 DEF CallInv, Spends
<1>3. PICK v \in Vaults : /\ o = <<v, "refresh">> /\ refreshing[v].at = "asked"
                          /\ refreshing[v].token.of = s
  BY <1>0, <1>1, <1>2 DEF SpendInv
<1> QED
  BY <1>0, <1>1, <1>3 DEF LatestInv, Answer

LEMMA SpentInit == Init => SpentInv
<1> SUFFICES ASSUME Init PROVE SpentInv
  OBVIOUS
<1>1. /\ store = NoToken /\ NoToken.of = 0
      /\ \A s \in Sessions : s # 0 /\ rows[s].is = "none" /\ rows[s].at = 0 /\ rows[s].past = 0
      /\ \A v \in Vaults : /\ tail[v] = <<>> /\ refreshing[v].at = "none"
                           /\ refreshing[v].token = NoToken /\ signOut[v].stored = NoToken
      /\ \A o \in Slots : calls[o].what = "none"
  BY Fields DEF Init, NoRefresh, NoSignOut, NoCall, NoRow
<1>2. ASSUME NEW v \in Vaults PROVE QueueInv(v) /\ ReadInv(v) /\ UnreadInv(v)
  <2>1. DOMAIN tail[v] = {}
    BY <1>1
  <2> QED
    BY <2>1 DEF QueueInv, ReadInv, UnreadInv
<1>3. ASSUME NEW s \in Sessions PROVE Still(s) /\ PastInv(s) /\ rows[s].is # "reused"
  <2>1. GoneInv(s) /\ CarryInv(s) /\ StoredInv(s) /\ SpendInv(s) /\ LatestInv(s) /\ PendInv(s)
        /\ StoreInv(s)
    BY <1>1 DEF GoneInv, CarryInv, Carries, StoredInv, SpendInv, Spends, LatestInv, PendInv,
       StoreInv
  <2> QED
    BY <1>1, <1>2, <2>1 DEF Still, PastInv
<1> QED
  BY <1>2, <1>3 DEF SpentInv, CalmInv

LEMMA SpentStep == VaultInv /\ UseInv /\ SpentInv /\ [Next]_vars => SpentInv'
<1> SUFFICES ASSUME VaultInv, UseInv, SpentInv, [Next]_vars PROVE SpentInv'
  OBVIOUS
<1>0. TypeInv
  BY DEF VaultInv
<1>1. \A v \in Vaults : QueueInv(v)' /\ ReadInv(v)'
  BY <1>0, QueueStep, ReadStep DEF SpentInv
<1>2. ASSUME NEW s \in Sessions PROVE PastInv(s)' /\ CalmInv(s)'
  <2>1. PastInv(s)'
    BY <1>0, PastStep DEF SpentInv
  <2>2. ASSUME Calm(s)' PROVE Still(s)' /\ rows'[s].is # "reused"
    <3>1. Calm(s)
      BY <1>0, <2>2, CalmBack DEF SpentInv
    <3>2. Ground(s) /\ rows[s].is # "reused"
      BY <3>1 DEF Ground, SpentInv, CalmInv
    <3>3. /\ GoneInv(s)' /\ CarryInv(s)' /\ StoredInv(s)' /\ SpendInv(s)' /\ LatestInv(s)'
          /\ PendInv(s)' /\ StoreInv(s)' /\ \A v \in Vaults : UnreadInv(v)'
      BY <2>2, <3>2, GoneStep, CarryStep, StoredStep, SpendStep, LatestStep, PendStep,
         StoreInvStep, UnreadStep
    <3>4. rows'[s].is # "reused"
      BY <2>2, <3>2, NotReused
    <3> QED
      BY <3>3, <3>4 DEF Still
  <2> QED
    BY <2>1, <2>2 DEF CalmInv
<1> QED
  BY <1>1, <1>2 DEF SpentInv

\* A session is ended for reuse only with a cause: something was lost, a vault
\* went down, a sign-out meant the session, it ran out, or there was another
\* sign-in.  Vaults that take turns never spend one of its tokens twice
\* (session-vault.ts:60, 94).
THEOREM SpentOnce == Spec => []ReuseNeedsLoss
<1>1. VaultInv /\ SpentInv => ReuseNeedsLoss
  <2> SUFFICES ASSUME VaultInv, SpentInv, NEW s \in Sessions, rows[s].is = "reused"
               PROVE  \/ s \in leaving \/ begun.loss > 0 \/ begun.close > 0 \/ rows[s].past > 0
                      \/ \E t \in Sessions \ {s} : rows[t].at # 0
    BY DEF ReuseNeedsLoss
  <2>1. ~ Calm(s)
    BY DEF SpentInv, CalmInv
  <2>2. begun.loss \in Nat /\ begun.close \in Nat /\ rows[s].past \in Nat
    BY DEF VaultInv, TypeInv, CountTyped, RowsTyped, Rows, Bound
  <2> QED
    BY <2>1, <2>2 DEF Calm
<1> QED
  BY <1>1, UseInvHolds, SpentInit, SpentStep, PTL DEF Spec

-----------------------------------------------------------------------------
(* A vault that is alone: what it knows is what is kept, or is written last. *)

NoWrite(q) == \A r \in DOMAIN q : q[r].do # "write"
LastWrite(q, what) ==
  \E p \in DOMAIN q : /\ q[p].do = "write" /\ q[p].what = what
                      /\ \A r \in DOMAIN q : r > p => q[r].do # "write"
KeepsInv(v) ==
  \/ current[v] = NoToken \/ Expired(current[v]) \/ LastWrite(tail[v], current[v])
  \/ store = current[v] /\ NoWrite(tail[v])
AgreeInv == ~ HasLock => \A v \in Vaults : KeepsInv(v)

LEMMA WrittenLast ==
  ASSUME NEW q, NEW r, NEW e, Grown(q, r, e), e.do = "write"
  PROVE  LastWrite(r, e.what)
<1>1. /\ DOMAIN q = 1 .. Len(q) /\ Len(q) \in Nat
      /\ Len(q) + 1 \in DOMAIN r /\ r[Len(q) + 1] = e
      /\ \A i \in DOMAIN r : i \in DOMAIN q \/ i = Len(q) + 1
  BY DEF Grown
<1> QED
  BY <1>1 DEF LastWrite

LEMMA GrownWrites ==
  ASSUME NEW q, NEW r, NEW e, Grown(q, r, e), e.do # "write"
  PROVE  /\ NoWrite(q) => NoWrite(r)
         /\ \A what : LastWrite(q, what) => LastWrite(r, what)
BY DEF Grown, NoWrite, LastWrite

LEMMA ShiftedWrites ==
  ASSUME NEW q, NEW r, Shifted(q, r)
  PROVE  /\ NoWrite(q) => NoWrite(r)
         /\ \A what : LastWrite(q, what) =>
              LastWrite(r, what) \/ (q[1].do = "write" /\ q[1].what = what /\ NoWrite(r))
<1>1. NoWrite(q) => NoWrite(r)
  BY DEF Shifted, NoWrite
<1>2. ASSUME NEW what, NEW p \in DOMAIN q, q[p].do = "write", q[p].what = what,
             \A x \in DOMAIN q : x > p => q[x].do # "write"
      PROVE  LastWrite(r, what) \/ (q[1].do = "write" /\ q[1].what = what /\ NoWrite(r))
  <2>1. \A i \in DOMAIN r : i \in Nat /\ i > 0 /\ i + 1 \in DOMAIN q /\ r[i] = q[i + 1]
    BY DEF Shifted
  <2>2. CASE p = 1
    BY <1>2, <2>1, <2>2 DEF NoWrite
  <2>3. CASE p # 1
    <3>1. p \in Nat /\ p > 1 /\ p - 1 \in DOMAIN r /\ r[p - 1] = q[p]
      BY <2>3 DEF Shifted
    <3>2. \A i \in DOMAIN r : i > p - 1 => r[i].do # "write"
      BY <1>2, <2>1, <3>1
    <3> QED
      BY <1>2, <3>1, <3>2 DEF LastWrite
  <2> QED
    BY <2>2, <2>3
<1> QED
  BY <1>1, <1>2 DEF LastWrite

LEMMA ReplacedWrites ==
  ASSUME NEW q \in Seq(Tasks), q # <<>>, q[1].do = "restore", NEW what,
         LastWrite(q, what)
  PROVE  LastWrite([q EXCEPT ![1] = Write("nobody", NoToken)], what)
<1>1. PICK r : r = [q EXCEPT ![1] = Write("nobody", NoToken)]
  OBVIOUS
<1>2. /\ DOMAIN r = DOMAIN q /\ \A j \in DOMAIN q : j # 1 => r[j] = q[j]
  BY <1>1, TasksTyped, NoneTyped, Replaced
<1>3. DOMAIN q = 1 .. Len(q) /\ Len(q) \in Nat
  BY LenProperties
<1>4. PICK p \in DOMAIN q : /\ q[p].do = "write" /\ q[p].what = what
                            /\ \A x \in DOMAIN q : x > p => q[x].do # "write"
  BY DEF LastWrite
<1>5. p # 1
  BY <1>4
<1>6. r[p] = q[p] /\ \A x \in DOMAIN r : x > p => r[x] = q[x]
  BY <1>2, <1>3, <1>5
<1>7. LastWrite(r, what)
  BY <1>2, <1>4, <1>6 DEF LastWrite
<1> QED
  BY <1>1, <1>7

LEMMA KeepsStep ==
  ASSUME VaultInv, [Next]_vars, ~ HasLock, NEW v \in Vaults, KeepsInv(v)
  PROVE  KeepsInv(v)'
<1>0. /\ TypeInv /\ (\A u \in Vaults : u = v) /\ current \in [Vaults -> Maybe]
      /\ tail[v] \in Seq(Tasks) /\ tail \in [Vaults -> Seq(Tasks)] /\ ~ SignOutGetsLock(v)
  BY LockAssumption DEF VaultInv, TypeInv, KnownTyped, TailTyped, RefreshInv, SignOutGetsLock
<1> SUFFICES ASSUME current'[v] # NoToken, ~ Expired(current[v])'
             PROVE  LastWrite(tail'[v], current'[v]) \/ (store' = current'[v] /\ NoWrite(tail'[v]))
  BY DEF KeepsInv
<1>1. ASSUME SignInKept(v) PROVE LastWrite(tail'[v], current'[v])
  <2>1. Answer(v, "signIn").token \in Maybe
    BY <1>0, <1>1, Answered DEF SignInKept, Kinds
  <2>2. PICK e \in Tasks : e = Write("signIn", Answer(v, "signIn").token)
    BY <2>1, TasksTyped
  <2>3. Grown(tail[v], tail'[v], e) /\ current'[v] = Answer(v, "signIn").token
    BY <1>0, <1>1, <2>2, Queued DEF SignInKept
  <2> QED
    BY <2>2, <2>3, WrittenLast, Fields
<1>2. ASSUME Rotated(v), RefreshStands(v) PROVE LastWrite(tail'[v], current'[v])
  <2>1. Answer(v, "refresh").token \in Maybe
    BY <1>0, <1>2, Answered DEF Rotated, Kinds
  <2>2. PICK e \in Tasks : e = Write("refresh", Answer(v, "refresh").token)
    BY <2>1, TasksTyped
  <2>3. Grown(tail[v], tail'[v], e) /\ current'[v] = Answer(v, "refresh").token
    BY <1>0, <1>2, <2>2, Queued DEF Rotated
  <2> QED
    BY <2>2, <2>3, WrittenLast, Fields
<1>3. CASE ~ SignInKept(v) /\ ~ (Rotated(v) /\ RefreshStands(v))
  <2>1. current'[v] = current[v] /\ ~ BeginSignOut(v) /\ ~ Close(v)
        /\ ~ (CannotRotate(v) /\ RefreshStands(v))
    <3>1. BeginSignOut(v) \/ Close(v) \/ (CannotRotate(v) /\ RefreshStands(v)) =>
            current' = [current EXCEPT ![v] = NoToken]
      BY DEF BeginSignOut, Close, CannotRotate, Forget
    <3>2. NothingKept(v) \/ CannotRotate(v) =>
            current' = current \/ current' = [current EXCEPT ![v] = NoToken]
      BY DEF NothingKept, CannotRotate, Forget
    <3>3. Rotated(v) => RefreshStands(v) \/ current' = current
      BY DEF Rotated
    <3> QED
      BY <1>0, <1>3, <3>1, <3>2, <3>3, WhoTouches DEF memory
  <2>2. PICK c \in Tokens : c = current[v]
    BY <1>0, <2>1 DEF Maybe
  <2>3. ~ Expired(c)
    <3>1. c.of \in Sessions /\ FreshInv(c.of)
      BY DEF Tokens, VaultInv
    <3>2. rows[c.of].at # 0
      BY <2>2, <3>1 DEF FreshInv, Nowhere
    <3>3. c.at \in Nat /\ rows[c.of].past \in Nat
      BY <1>0, <3>1 DEF Tokens, TypeInv, RowsTyped, Rows
    <3>4. ~ (c.at <= rows'[c.of].past)
      BY <2>1, <2>2 DEF Expired
    <3> QED
      BY <1>0, <3>1, <3>2, <3>3, <3>4, PastFlow DEF Expired
  <2>4. LastWrite(tail[v], c) \/ (store = c /\ NoWrite(tail[v]))
    BY <2>2, <2>3, Fields DEF KeepsInv
  <2>5. ASSUME StoreWrites(v) PROVE LastWrite(tail'[v], c) \/ (store' = c /\ NoWrite(tail'[v]))
    <3>1. /\ tail[v] # <<>> /\ tail'[v] = Tail(tail[v]) /\ Shifted(tail[v], tail'[v])
          /\ 1 \in DOMAIN tail[v] /\ tail[v][1].do = "write" /\ store' = tail[v][1].what
      BY <1>0, <2>5, StoreHead, AtTask DEF StoreWrites, Taken
    <3>2. LastWrite(tail[v], c)
      BY <2>4, <3>1 DEF NoWrite
    <3> QED
      BY <3>1, <3>2, ShiftedWrites
  <2>6. ASSUME StoreRestores(v) PROVE LastWrite(tail'[v], c) \/ (store' = c /\ NoWrite(tail'[v]))
    <3>1. tail[v] # <<>> /\ store' = store /\ tail[v][1].do = "restore"
      BY <1>0, <2>6, AtTask DEF StoreRestores
    <3>2. CASE store # NoToken /\ Expired(store)
      <4>1. tail'[v] = [tail[v] EXCEPT ![1] = Write("nobody", NoToken)]
        BY <1>0, <2>6, <3>2 DEF StoreRestores
      <4>2. LastWrite(tail[v], c)
        BY <2>3, <2>4, <3>2
      <4> QED
        BY <1>0, <3>1, <4>1, <4>2, ReplacedWrites
    <3>3. CASE ~ (store # NoToken /\ Expired(store))
      <4>1. tail'[v] = Tail(tail[v]) /\ Shifted(tail[v], tail'[v])
        BY <1>0, <2>6, <3>1, <3>3, AtTask DEF StoreRestores, Taken
      <4> QED
        BY <2>4, <3>1, <4>1, ShiftedWrites
    <3> QED
      BY <3>2, <3>3
  <2>7. CASE ~ StoreWrites(v) /\ ~ StoreRestores(v)
    <3>1. store' = store
      BY <1>0, <2>7, StoreFlow
    <3>2. ASSUME NEW e \in Tasks, Grown(tail[v], tail'[v], e), e.do # "write"
          PROVE  LastWrite(tail'[v], c) \/ (store' = c /\ NoWrite(tail'[v]))
      BY <2>4, <3>1, <3>2, GrownWrites
    <3>3. ASSUME CannotRotate(v), refreshing'[v].at = "writing" PROVE FALSE
      <4>1. ~ RefreshStands(v)
        BY <2>1, <3>3
      <4>2. refreshing'[v].at = "done"
        BY <1>0, <3>3, <4>1
        DEF CannotRotate, Forget, RefreshEnds, TypeInv, OpsTyped, Refreshes
      <4> QED
        BY <3>3, <4>2
    <3>4. ASSUME tail[v] # <<>>, tail'[v] = Tail(tail[v]), Task(v).do = "read"
          PROVE  LastWrite(tail'[v], c) \/ (store' = c /\ NoWrite(tail'[v]))
      <4>1. Shifted(tail[v], tail'[v]) /\ tail[v][1].do = "read"
        BY <1>0, <3>4, AtTask
      <4> QED
        BY <2>4, <3>1, <4>1, ShiftedWrites
    <3>5. \/ tail'[v] = tail[v]
          \/ \E e \in Tasks : Grown(tail[v], tail'[v], e) /\ e \in {RestoreTask, Read("refresh")}
          \/ tail[v] # <<>> /\ tail'[v] = Tail(tail[v]) /\ Task(v).do = "read"
      <4>1. /\ ~ BeginSignOut(v) /\ ~ Close(v) /\ ~ SignInKept(v) /\ ~ SignOutGetsLock(v)
            /\ ~ (Rotated(v) /\ RefreshStands(v)) /\ ~ StoreWrites(v) /\ ~ StoreRestores(v)
            /\ ~ (CannotRotate(v) /\ refreshing'[v].at = "writing") /\ TypeInv
        BY <1>0, <1>3, <2>1, <2>7, <3>3
      <4> HIDE <1>0, <1>3, <2>4
      <4>2. \/ tail'[v] = tail[v]
            \/ \E e \in Tasks : /\ Grown(tail[v], tail'[v], e)
                               /\ \/ SignInKept(v) \/ e = RestoreTask \/ e = Read("refresh")
                                  \/ CannotRotate(v) /\ refreshing'[v].at = "writing"
                                  \/ Rotated(v) /\ RefreshStands(v)
                                  \/ SignOutGetsLock(v)
            \/ BeginSignOut(v) \/ Close(v) \/ StoreRestores(v) \/ StoreWrites(v)
            \/ tail[v] # <<>> /\ tail'[v] = Tail(tail[v]) /\ Task(v).do = "read"
        BY <4>1, TailMoves
      <4> QED
        BY <4>1, <4>2
    <3>6. RestoreTask.do # "write" /\ Read("refresh").do # "write"
      BY Fields
    <3>7. ASSUME tail'[v] = tail[v] PROVE LastWrite(tail'[v], c) \/ (store' = c /\ NoWrite(tail'[v]))
      BY <2>4, <3>1, <3>7
    <3>8. ASSUME NEW e \in Tasks, Grown(tail[v], tail'[v], e), e \in {RestoreTask, Read("refresh")}
          PROVE  LastWrite(tail'[v], c) \/ (store' = c /\ NoWrite(tail'[v]))
      BY <3>2, <3>6, <3>8
    <3> QED
      BY <2>1, <2>2, <3>4, <3>5, <3>7, <3>8
  <2> QED
    BY <2>1, <2>2, <2>5, <2>6, <2>7
<1> QED
  BY <1>1, <1>2, <1>3

\* A vault that is alone, as on the desktop: when nothing of it is under way,
\* what it knows is what is kept, unless that is past its end
\* (session-vault.ts:270, 259).
THEOREM AloneAgrees == ASSUME ~ HasLock PROVE Spec => []QuietAgrees
<1>1. Init => AgreeInv
  BY DEF Init, AgreeInv, KeepsInv
<1>2. VaultInv /\ AgreeInv /\ [Next]_vars => AgreeInv'
  BY KeepsStep DEF AgreeInv
<1>3. AgreeInv => QuietAgrees
  <2> SUFFICES ASSUME AgreeInv, NEW v \in Vaults, tail[v] = <<>>, current[v] # NoToken,
                      ~ Expired(current[v])
               PROVE  store = current[v]
    BY DEF QuietAgrees, Quiet
  <2>1. KeepsInv(v) /\ DOMAIN tail[v] = {}
    BY DEF AgreeInv
  <2> QED
    BY <2>1 DEF KeepsInv, LastWrite
<1> QED
  BY <1>1, <1>2, <1>3, VaultInvHolds, PTL DEF Spec

-----------------------------------------------------------------------------
(* A store that goes on: what the queue of a vault that is alone is to write
   is in the order of the sessions, none of them before the one that is kept. *)

\* Sessions are opened in their order.
RowOrder == \A s, t \in Sessions : t < s /\ rows[s].at # 0 => rows[t].at # 0

\* A sign-in that was answered is of a session after all that are known.
AheadInv(v) == \A s, u \in Sessions : Exchanged(v, s) /\ s <= u => Nowhere(u)

LineInv(v) ==
  \A i \in DOMAIN tail[v] : tail[v][i].what # NoToken =>
    /\ store.of <= tail[v][i].what.of
    /\ \A j \in DOMAIN tail[v] : j < i => tail[v][j].what.of <= tail[v][i].what.of

\* A refresh that stands is to read after every token is written, and once it
\* read nothing else is kept nor still to be written.
LastInv(v) ==
  RefreshStands(v) =>
    \A i, j \in DOMAIN tail[v] :
      tail[v][i] = Read("refresh") /\ i < j => tail[v][j].what = NoToken
CleanInv(v) ==
  RefreshStands(v) /\ Rotating(v) =>
    /\ store \in {refreshing[v].token, NoToken}
    /\ \A i \in DOMAIN tail[v] : tail[v][i].what = NoToken

OnwardInv ==
  /\ RowOrder
  /\ \A v \in Vaults : AheadInv(v) /\ LineInv(v) /\ LastInv(v) /\ CleanInv(v)

LEMMA OfTyped ==
  /\ \A t \in Maybe : t.of \in Nat /\ (t # NoToken => t \in Tokens)
  /\ \A t \in Tokens : t.of \in Sessions
  /\ \A s \in Sessions : s \in Nat /\ s > 0
  /\ NoToken.of = 0
BY BoundsAssumption DEF Maybe, Tokens, NoToken, Sessions

LEMMA QueueTyped ==
  ASSUME NEW q \in Seq(Tasks)
  PROVE  \A i \in DOMAIN q : q[i].what \in Maybe /\ q[i].what.of \in Nat
<1>1. \A i \in DOMAIN q : q[i] \in Tasks
  OBVIOUS
<1> QED
  BY <1>1, OfTyped DEF Tasks

LEMMA RowOpens ==
  ASSUME TypeInv, [Next]_vars, NEW s \in Sessions, rows[s].at = 0, rows'[s].at # 0,
         NEW t \in Sessions, t < s
  PROVE  rows[t].at # 0
<1>0. calls \in [Slots -> Calls] /\ rows \in [Sessions -> Rows] /\ \A o \in Slots : CallInv(calls[o])
  BY DEF TypeInv, RowsTyped, CallsTyped
<1>1. ASSUME NEW o \in Slots, OpenSession(o) PROVE rows[t].at # 0
  <2>1. PICK u \in Sessions :
          /\ \A w \in Sessions : w < u => rows[w].at # 0
          /\ \E r : rows' = [rows EXCEPT ![u] = r]
    BY <1>1 DEF OpenSession
  <2>2. u = s
    BY <1>0, <2>1
  <2> QED
    BY <2>1, <2>2
<1>2. ASSUME NEW o \in Slots, ReadRow(o) \/ WriteRow(o) \/ EndRow(o) PROVE FALSE
  <2>0. PICK u : u = calls[o].token.of
    OBVIOUS
  <2>1. Replay(o) \/ EndRow(o) =>
          rows' = rows \/ \E x : rows' = [rows EXCEPT ![u].is = x]
    <3>1. Replay(o) =>
            \/ rows' = rows
            \/ rows' = [rows EXCEPT ![u].is = IF rows[u].is = "open" THEN "reused" ELSE rows[u].is]
      BY <2>0 DEF Replay
    <3>2. EndRow(o) => rows' = rows \/ rows' = [rows EXCEPT ![u].is = "ended"]
      BY <2>0 DEF EndRow
    <3> QED
      BY <3>1, <3>2
  <2>2. \/ \E x : rows' = [rows EXCEPT ![u].is = x]
        \/ /\ calls[o].at = "read" /\ calls[o].token.at = rows[u].at
           /\ rows' = [rows EXCEPT ![u].at = @ + 1, ![u].fresh = TRUE, ![u].live = TRUE]
        \/ rows' = rows
    <3>1. ReadRow(o) => Replay(o) \/ rows' = rows
      BY DEF ReadRow
    <3>2. WriteRow(o) =>
            \/ Replay(o)
            \/ /\ calls[o].at = "read" /\ calls[o].token.at = rows[u].at
               /\ rows' = [rows EXCEPT ![u].at = @ + 1, ![u].fresh = TRUE, ![u].live = TRUE]
      BY <2>0 DEF WriteRow
    <3> QED
      BY <1>2, <2>1, <3>1, <3>2
  <2>3. ASSUME calls[o].at = "read", calls[o].token.at = rows[u].at PROVE u # s
    <3>1. calls[o].token \in Tokens
      BY <1>0, <2>3 DEF CallInv
    <3> QED
      BY <2>0, <2>3, <3>1 DEF Tokens
  <2>4. ASSUME NEW x, rows' = [rows EXCEPT ![u].is = x] PROVE FALSE
    BY <1>0, <2>4 DEF Rows
  <2>5. ASSUME u # s, rows' = [rows EXCEPT ![u].at = @ + 1, ![u].fresh = TRUE, ![u].live = TRUE]
        PROVE  FALSE
    BY <1>0, <2>5
  <2> QED
    BY <2>2, <2>3, <2>4, <2>5
<1>3. ASSUME NEW u \in Sessions, ClockMoves(u) PROVE FALSE
  <2>1. \/ \E x : rows' = [rows EXCEPT ![u].live = x]
        \/ \E x : rows' = [rows EXCEPT ![u].fresh = x]
        \/ \E x : rows' = [rows EXCEPT ![u].past = x]
    BY <1>3 DEF ClockMoves
  <2> QED
    BY <1>0, <2>1 DEF Rows
<1> QED
  BY <1>1, <1>2, <1>3, WhoTouches DEF BookStep

LEMMA RowOrderStep == TypeInv /\ RowOrder /\ [Next]_vars => RowOrder'
<1> SUFFICES ASSUME TypeInv, RowOrder, [Next]_vars, NEW s \in Sessions, NEW t \in Sessions,
                    t < s, rows'[s].at # 0
             PROVE  rows'[t].at # 0
  BY DEF RowOrder
<1>1. rows[t].at # 0
  BY RowOpens DEF RowOrder
<1> QED
  BY <1>1, RowsFlow

LEMMA AheadStep ==
  ASSUME ~ HasLock, VaultInv, RowOrder, [Next]_vars, NEW v \in Vaults, AheadInv(v)
  PROVE  AheadInv(v)'
<1> SUFFICES ASSUME NEW s \in Sessions, NEW u \in Sessions, Exchanged(v, s)', s <= u
             PROVE  Nowhere(u)'
  BY DEF AheadInv
<1>0. /\ TypeInv /\ SignInInv(v) /\ FreshInv(u) /\ s \in Nat /\ u \in Nat
      /\ \A w \in Vaults : w = v
  BY LockAssumption, OfTyped DEF VaultInv
<1>1. CASE Exchanged(v, s) /\ ~ SignInKept(v)
  BY <1>0, <1>1, NowhereKept DEF AheadInv
<1>2. CASE rows[s].at = 0
  <2>1. rows[u].at = 0
    BY <1>0, <1>2 DEF RowOrder
  <2>2. Nowhere(u) /\ ~ Exchanged(v, u)
    BY <1>0, <2>1 DEF FreshInv
  <2> QED
    BY <1>0, <2>2, NowhereKept, KeepsExchanged
<1> QED
  BY <1>0, <1>1, <1>2, ExchangeFlow

\* A sign-in that is kept is of a later session than all that is written.
LEMMA KeptLater ==
  ASSUME VaultInv, NEW v \in Vaults, AheadInv(v), SignInKept(v)
  PROVE  /\ store.of < Answer(v, "signIn").token.of
         /\ \A i \in DOMAIN tail[v] : tail[v][i].what.of < Answer(v, "signIn").token.of
<1>0. /\ TypeInv /\ SignInInv(v) /\ store \in Maybe
      /\ \A i \in DOMAIN tail[v] : tail[v][i].what \in Maybe
  BY QueueTyped DEF VaultInv, TypeInv, KeptTyped, TailTyped
<1>1. PICK s \in Sessions : s = Answer(v, "signIn").token.of /\ Exchanged(v, s)
  BY <1>0, KeepsExchanged, Answered, OfTyped DEF SignInKept, Kinds
<1>2. \A u \in Sessions : s <= u => store.of # u /\ NoTask(v, u)
  BY <1>1 DEF AheadInv, Nowhere
<1>3. \A t \in Maybe : t.of \in Nat /\ (t.of = 0 \/ t.of \in Sessions)
  BY OfTyped
<1>4. s \in Nat /\ s > 0
  BY OfTyped
<1>5. store.of < s
  BY <1>0, <1>2, <1>3, <1>4
<1>6. ASSUME NEW i \in DOMAIN tail[v] PROVE tail[v][i].what.of < s
  BY <1>0, <1>2, <1>3, <1>4, <1>6 DEF NoTask
<1> QED
  BY <1>1, <1>5, <1>6

\* A sign-in that is kept and a sign-out overtake the refresh under way.
LEMMA Overtaken ==
  ASSUME TypeInv, NEW v \in Vaults, SignInKept(v) \/ BeginSignOut(v)
  PROVE  ~ RefreshStands(v)'
<1>1. refreshing' = refreshing /\ epoch' = [epoch EXCEPT ![v] = @ + 1]
  BY DEF SignInKept, BeginSignOut
<1>2. /\ refreshing \in [Vaults -> Refreshes] /\ epoch \in [Vaults -> Nat]
      /\ refreshing[v].epoch <= epoch[v]
  BY DEF TypeInv, OpsTyped, KnownTyped, RefreshInv
<1> QED
  BY <1>1, <1>2 DEF RefreshStands, Refreshes

LEMMA LineStep ==
  ASSUME ~ HasLock, VaultInv, [Next]_vars, NEW v \in Vaults,
         AheadInv(v), CleanInv(v), LineInv(v)
  PROVE  LineInv(v)'
<1>0. /\ TypeInv /\ TypeInv' /\ \A w \in Vaults : w = v
      /\ tail[v] \in Seq(Tasks) /\ DOMAIN tail[v] = 1 .. Len(tail[v]) /\ Len(tail[v]) \in Nat
      /\ store.of \in Nat /\ store'.of \in Nat
      /\ \A i \in DOMAIN tail[v] : tail[v][i].what.of \in Nat
      /\ \A i \in DOMAIN tail'[v] : tail'[v][i].what.of \in Nat
  <2>1. /\ TypeInv /\ TypeInv' /\ \A w \in Vaults : w = v
        /\ tail[v] \in Seq(Tasks) /\ tail'[v] \in Seq(Tasks)
        /\ store \in Maybe /\ store' \in Maybe
    BY LockAssumption, TypeInvStep DEF VaultInv, TypeInv, TailTyped, KeptTyped
  <2> QED
    BY <2>1, OfTyped, QueueTyped, LenProperties
<1> SUFFICES ASSUME NEW i \in DOMAIN tail'[v], tail'[v][i].what # NoToken,
                    NEW j \in DOMAIN tail'[v]
             PROVE  /\ store'.of <= tail'[v][i].what.of
                    /\ j < i => tail'[v][j].what.of <= tail'[v][i].what.of
  BY DEF LineInv
<1>1. CASE StoreWrites(v)
  <2>1. /\ tail[v] # <<>> /\ tail'[v] = Tail(tail[v]) /\ store' = tail[v][1].what
        /\ 1 \in DOMAIN tail[v]
    BY <1>0, <1>1, StoreHead DEF StoreWrites, Taken, TypeInv, TailTyped
  <2>2. Shifted(tail[v], tail'[v])
    BY <1>0, <2>1, AtTask
  <2>3. /\ i \in Nat /\ i > 0 /\ i + 1 \in DOMAIN tail[v] /\ tail'[v][i] = tail[v][i + 1]
        /\ j \in Nat /\ j > 0 /\ j + 1 \in DOMAIN tail[v] /\ tail'[v][j] = tail[v][j + 1]
    BY <2>2 DEF Shifted
  <2>4. i + 1 \in Nat /\ 1 < i + 1 /\ (j < i => j + 1 < i + 1)
    BY <2>3
  <2>5. /\ tail[v][1].what.of <= tail[v][i + 1].what.of
        /\ j < i => tail[v][j + 1].what.of <= tail[v][i + 1].what.of
    BY <2>1, <2>3, <2>4 DEF LineInv
  <2> QED
    BY <2>1, <2>3, <2>5
<1>2. CASE ~ StoreWrites(v)
  <2>0. store' = store
    BY <1>0, <1>2, StoreFlow
  <2>1. PICK k \in {0, 1} : \A h \in DOMAIN tail'[v] :
          /\ h \in Nat /\ h > 0
          /\ \/ tail'[v][h].what = NoToken
             \/ h + k \in DOMAIN tail[v] /\ tail'[v][h] = tail[v][h + k]
             \/ /\ h = Len(tail[v]) + 1 /\ k = 0
                /\ \/ /\ SignInKept(v)
                      /\ tail'[v][h] = Write("signIn", Answer(v, "signIn").token)
                   \/ /\ Rotated(v) /\ RefreshStands(v)
                      /\ tail'[v][h].what = Answer(v, "refresh").token
    BY <1>0, TailFlow
  <2>2. CASE i + k \in DOMAIN tail[v] /\ tail'[v][i] = tail[v][i + k]
    <3>1. store.of <= tail[v][i + k].what.of
      BY <2>2 DEF LineInv
    <3>2. ASSUME j < i PROVE tail'[v][j].what.of <= tail'[v][i].what.of
      <4>1. CASE tail'[v][j].what = NoToken
        BY <1>0, <4>1, OfTyped
      <4>2. CASE j + k \in DOMAIN tail[v] /\ tail'[v][j] = tail[v][j + k]
        <5>1. j + k < i + k
          BY <2>1, <3>2
        <5> QED
          BY <2>2, <4>2, <5>1 DEF LineInv
      <4>3. j # Len(tail[v]) + 1 \/ k # 0
        BY <1>0, <2>1, <2>2, <3>2
      <4> QED
        BY <2>1, <4>1, <4>2, <4>3
    <3> QED
      BY <2>0, <2>2, <3>1, <3>2
  <2>3. CASE i = Len(tail[v]) + 1 /\ k = 0
    <3>0. PICK n \in Nat : n = tail'[v][i].what.of
      BY <1>0
    <3>1. store.of <= n /\ \A h \in DOMAIN tail[v] : tail[v][h].what.of <= n
      <4>1. CASE SignInKept(v) /\ tail'[v][i] = Write("signIn", Answer(v, "signIn").token)
        <5>1. tail'[v][i].what = Answer(v, "signIn").token
          BY <4>1, Fields
        <5>2. /\ store.of < n
              /\ \A h \in DOMAIN tail[v] : tail[v][h].what.of < n
          BY <3>0, <4>1, <5>1, KeptLater
        <5> QED
          BY <1>0, <5>2
      <4>2. CASE /\ Rotated(v) /\ RefreshStands(v)
                 /\ tail'[v][i].what = Answer(v, "refresh").token
        <5>1. n = refreshing[v].token.of /\ refreshing[v].at = "asked"
          BY <1>0, <3>0, <4>2, RotatedSame DEF Rotated
        <5>2. /\ store \in {refreshing[v].token, NoToken}
              /\ \A h \in DOMAIN tail[v] : tail[v][h].what = NoToken
          BY <4>2, <5>1 DEF CleanInv, Rotating
        <5> QED
          BY <5>1, <5>2, OfTyped
      <4>3. ~ (i + k \in DOMAIN tail[v])
        BY <1>0, <2>3
      <4> QED
        BY <2>1, <4>1, <4>2, <4>3
    <3>2. ASSUME j < i PROVE tail'[v][j].what.of <= n
      <4>1. CASE tail'[v][j].what = NoToken
        BY <4>1, OfTyped
      <4>2. j # Len(tail[v]) + 1
        BY <2>1, <2>3, <3>2
      <4> QED
        BY <2>1, <3>1, <4>1, <4>2
    <3> QED
      BY <2>0, <3>0, <3>1, <3>2
  <2> QED
    BY <2>1, <2>2, <2>3
<1> QED
  BY <1>1, <1>2

LEMMA LastStep ==
  ASSUME VaultInv, [Next]_vars, NEW v \in Vaults, LastInv(v)
  PROVE  LastInv(v)'
<1> SUFFICES ASSUME RefreshStands(v)', NEW i \in DOMAIN tail'[v], NEW j \in DOMAIN tail'[v],
                    tail'[v][i] = Read("refresh"), i < j
             PROVE  tail'[v][j].what = NoToken
  BY DEF LastInv
<1>0. /\ TypeInv /\ tail \in [Vaults -> Seq(Tasks)]
      /\ DOMAIN tail[v] = 1 .. Len(tail[v]) /\ Len(tail[v]) \in Nat
  BY LenProperties DEF VaultInv, TypeInv, TailTyped
<1>1. ~ Close(v) /\ ~ SignInKept(v) /\ ~ BeginSignOut(v)
  <2>1. Close(v) => tail'[v] = <<>>
    BY <1>0 DEF Close
  <2> QED
    BY <1>0, <2>1, Overtaken
<1>2. ASSUME NEW h \in DOMAIN tail[v], tail[v][h] = Read("refresh"),
             NEW g \in DOMAIN tail[v], h < g
      PROVE  tail[v][g].what = NoToken
  BY <1>0, <1>1, <1>2, ReadStands DEF LastInv
<1>3. CASE tail'[v] = tail[v]
  BY <1>2, <1>3
<1>4. ASSUME NEW e \in Tasks, Grown(tail[v], tail'[v], e),
             e.what = NoToken \/ refreshing[v].at = "asked"
      PROVE  tail'[v][j].what = NoToken
  <2>1. /\ i \in DOMAIN tail[v] \/ i = Len(tail[v]) + 1
        /\ j \in DOMAIN tail[v] \/ (j = Len(tail[v]) + 1 /\ tail'[v][j] = e)
        /\ \A h \in DOMAIN tail[v] : tail'[v][h] = tail[v][h]
    BY <1>4 DEF Grown
  <2>2. i \in DOMAIN tail[v] /\ tail[v][i] = Read("refresh")
    BY <1>0, <2>1
  <2>3. refreshing[v].at = "reading"
    BY <1>0, <2>2, Fields DEF TypeInv, TailInv, TaskInv, TaskAt
  <2> QED
    BY <1>2, <1>4, <2>1, <2>2, <2>3
<1>5. CASE tail[v] # <<>> /\ tail'[v] = Tail(tail[v])
  <2>1. Shifted(tail[v], tail'[v])
    BY <1>0, <1>5, AtTask
  <2>2. /\ i \in Nat /\ i + 1 \in DOMAIN tail[v] /\ tail'[v][i] = tail[v][i + 1]
        /\ j \in Nat /\ j + 1 \in DOMAIN tail[v] /\ tail'[v][j] = tail[v][j + 1]
    BY <2>1 DEF Shifted
  <2> QED
    BY <1>2, <2>2
<1>6. CASE tail[v] # <<>> /\ tail'[v] = [tail[v] EXCEPT ![1] = Write("nobody", NoToken)]
  <2>1. PICK e \in Tasks : e = Write("nobody", NoToken) /\ e.what = NoToken /\ e # Read("refresh")
    BY TasksTyped, NoneTyped, Fields
  <2>2. /\ DOMAIN tail'[v] = DOMAIN tail[v] /\ tail'[v][1] = e
        /\ \A h \in DOMAIN tail[v] : h # 1 => tail'[v][h] = tail[v][h]
    BY <1>0, <1>6, <2>1, Replaced
  <2> QED
    BY <1>2, <2>1, <2>2
<1>7. \A e \in {RestoreTask, Read("refresh"), Write("refresh", NoToken), Write("signOut", NoToken)} :
        e.what = NoToken
  BY Fields
<1>8. \/ tail'[v] = tail[v]
      \/ \E e \in Tasks :
           /\ Grown(tail[v], tail'[v], e)
           /\ \/ refreshing[v].at = "asked"
              \/ e \in {RestoreTask, Read("refresh"), Write("refresh", NoToken),
                        Write("signOut", NoToken)}
      \/ tail[v] # <<>> /\ tail'[v] = Tail(tail[v])
      \/ tail[v] # <<>> /\ tail'[v] = [tail[v] EXCEPT ![1] = Write("nobody", NoToken)]
  <2> HIDE <1>2
  <2> QED
    BY <1>0, <1>1, TailMoves
<1> QED
  BY <1>3, <1>4, <1>5, <1>6, <1>7, <1>8

LEMMA CleanStep ==
  ASSUME ~ HasLock, VaultInv, [Next]_vars, NEW v \in Vaults, CleanInv(v), LastInv(v)
  PROVE  CleanInv(v)'
<1> SUFFICES ASSUME RefreshStands(v)', Rotating(v)'
             PROVE  /\ store' \in {refreshing'[v].token, NoToken}
                    /\ \A i \in DOMAIN tail'[v] : tail'[v][i].what = NoToken
  BY DEF CleanInv
<1>0. /\ TypeInv /\ TypeInv' /\ \A w \in Vaults : w = v
      /\ refreshing \in [Vaults -> Refreshes] /\ tail \in [Vaults -> Seq(Tasks)]
  BY LockAssumption, TypeInvStep DEF VaultInv, TypeInv, TailTyped, OpsTyped
<1>1. refreshing'[v].at \in {"read", "asked"}
  BY DEF Rotating
<1>2. ~ SignInKept(v) /\ ~ BeginSignOut(v) /\ ~ Close(v) /\ ~ (Rotated(v) /\ RefreshStands(v))
  <2>1. Close(v) => refreshing'[v].at = "none"
    BY <1>0, Fields DEF Close
  <2>2. Rotated(v) => refreshing'[v].at \in {"writing", "done"}
    <3>1. PICK token : token = Answer(v, "refresh").token
      OBVIOUS
    <3>2. Rotated(v) => \E at \in {"writing", "done"} :
            refreshing' = [refreshing EXCEPT ![v].at = at, ![v].token = token]
      BY <3>1 DEF Rotated
    <3> QED
      BY <1>0, <3>2 DEF Refreshes
  <2> QED
    BY <1>0, <1>1, <2>1, <2>2, Overtaken
<1>3. CASE /\ Rotating(v) /\ refreshing'[v].epoch = refreshing[v].epoch
           /\ refreshing'[v].token = refreshing[v].token
  <2>1. RefreshStands(v)
    BY <1>0, <1>2, <1>3, StandsBack
  <2>2. /\ store \in {refreshing[v].token, NoToken}
        /\ \A i \in DOMAIN tail[v] : tail[v][i].what = NoToken
    BY <1>3, <2>1 DEF CleanInv
  <2>3. store' \in {refreshing[v].token, NoToken}
    <3>1. ASSUME StoreWrites(v) PROVE 1 \in DOMAIN tail[v] /\ store' = tail[v][1].what
      BY <1>0, <3>1, StoreHead
    <3> QED
      BY <1>0, <2>2, <3>1, StoreFlow
  <2>4. ASSUME NEW i \in DOMAIN tail'[v] PROVE tail'[v][i].what = NoToken
    <3>1. PICK k \in {0, 1} :
            \/ tail'[v][i].what = NoToken
            \/ i + k \in DOMAIN tail[v] /\ tail'[v][i] = tail[v][i + k]
      BY <1>0, <1>2, TailFlow
    <3> QED
      BY <2>2, <3>1
  <2> QED
    BY <1>3, <2>3, <2>4
<1>4. CASE /\ StoreReads(v) /\ Task(v).who = "refresh"
           /\ refreshing'[v].epoch = refreshing[v].epoch /\ refreshing'[v].token = store
  <2>1. RefreshStands(v)
    BY <1>0, <1>2, <1>4, StandsBack
  <2>2. /\ tail[v] # <<>> /\ Task(v).do = "read" /\ store' = store
        /\ tail'[v] = Tail(tail[v])
    BY <1>0, <1>4 DEF StoreReads, Taken
  <2>3. /\ Task(v) \in Tasks /\ Task(v) = tail[v][1] /\ 1 \in DOMAIN tail[v]
        /\ TaskInv(v, Task(v)) /\ Shifted(tail[v], tail'[v])
    BY <1>0, <2>2, AtTask
  <2>4. Task(v).what = NoToken
    BY <2>2, <2>3 DEF TaskInv, TaskAt
  <2>5. Task(v) = Read("refresh")
    BY <1>4, <2>2, <2>3, <2>4 DEF Tasks, Read
  <2>6. ASSUME NEW i \in DOMAIN tail'[v] PROVE tail'[v][i].what = NoToken
    <3>1. i \in Nat /\ i > 0 /\ i + 1 \in DOMAIN tail[v] /\ tail'[v][i] = tail[v][i + 1]
      BY <2>3 DEF Shifted
    <3>2. tail[v][i + 1].what = NoToken
      <4>1. tail[v][1] = Read("refresh") /\ 1 < i + 1
        BY <2>3, <2>5, <3>1
      <4> QED
        BY <2>1, <2>3, <3>1, <4>1 DEF LastInv
    <3> QED
      BY <3>1, <3>2
  <2> QED
    BY <1>0, <1>4, <2>2, <2>6
<1>5. Rotation(v).at = "reading" /\ NoRefresh.at = "none"
  BY Fields
<1>6. \/ refreshing'[v] = refreshing[v]
      \/ /\ refreshing[v].at = "read" /\ refreshing'[v].epoch = refreshing[v].epoch
         /\ refreshing'[v].token = refreshing[v].token
      \/ /\ StoreReads(v) /\ Task(v).who = "refresh"
         /\ refreshing'[v].epoch = refreshing[v].epoch /\ refreshing'[v].token = store
  BY <1>0, <1>1, <1>5, RefreshMoves
<1> QED
  BY <1>1, <1>3, <1>4, <1>6 DEF Rotating

LEMMA OnwardHolds == ASSUME ~ HasLock PROVE Spec => [](VaultInv /\ UseInv /\ OnwardInv)
<1>1. Init => OnwardInv
  <2> SUFFICES ASSUME Init PROVE OnwardInv
    OBVIOUS
  <2>1. /\ \A s \in Sessions : rows[s].at = 0
        /\ \A v \in Vaults : /\ tail[v] = <<>> /\ refreshing[v].at = "none"
                             /\ Answer(v, "signIn").what = "none"
    BY Fields, NoneTyped DEF Init, NoRow, NoCall, Answer, Kinds
  <2> QED
    BY <2>1 DEF OnwardInv, RowOrder, AheadInv, Exchanged, LineInv, LastInv, CleanInv, Rotating
<1>2. VaultInv /\ OnwardInv /\ [Next]_vars => OnwardInv'
  <2> SUFFICES ASSUME VaultInv, OnwardInv, [Next]_vars PROVE OnwardInv'
    OBVIOUS
  <2>1. RowOrder'
    BY RowOrderStep DEF VaultInv, OnwardInv
  <2>2. ASSUME NEW v \in Vaults PROVE AheadInv(v)' /\ LineInv(v)' /\ LastInv(v)' /\ CleanInv(v)'
    BY AheadStep, LineStep, LastStep, CleanStep DEF OnwardInv
  <2> QED
    BY <2>1, <2>2 DEF OnwardInv
<1> QED
  BY <1>1, <1>2, UseInvHolds, PTL DEF Spec

\* A vault that is alone: the store never goes back to an older token nor to
\* an older session, whatever sign-in, refresh or restart was under way and
\* whatever was lost (session-vault.ts:111).
THEOREM AloneGoesOn == ASSUME ~ HasLock PROVE Spec => StoreNeverGoesBack
<1>1. ASSUME VaultInv, UseInv, OnwardInv, [Next]_vars, store # NoToken, store' # NoToken
      PROVE  \/ store'.of > store.of
             \/ store'.of = store.of /\ store'.at >= store.at
  <2>0. /\ TypeInv /\ TypeInv' /\ store \in Tokens /\ store' \in Tokens
        /\ store.of \in Nat /\ store'.of \in Nat /\ store.at \in Nat /\ store'.at \in Nat
    BY <1>1, TypeInvStep, OfTyped DEF VaultInv, TypeInv, KeptTyped, Tokens, Maybe
  <2>1. CASE store' = store
    BY <2>0, <2>1
  <2>2. ASSUME NEW v \in Vaults, StoreWrites(v)
        PROVE  store.of <= store'.of /\ (store.of = store'.of => store.at <= store'.at)
    <3>1. 1 \in DOMAIN tail[v] /\ store' = tail[v][1].what
      BY <2>0, <2>2, StoreHead
    <3>2. store.of <= store'.of
      BY <1>1, <3>1 DEF OnwardInv, LineInv
    <3>3. Used(store) /\ Kept(store')
      BY <3>1 DEF Used, Kept
    <3> QED
      BY <1>1, <2>0, <3>2, <3>3 DEF UseInv, OrderInv
  <2> QED
    BY <1>1, <2>0, <2>1, <2>2, StoreFlow
<1>2. VaultInv /\ UseInv /\ OnwardInv /\ [Next]_vars =>
        [store # NoToken /\ store' # NoToken =>
           \/ store'.of > store.of
           \/ store'.of = store.of /\ store'.at >= store.at]_vars
  BY <1>1
<1> QED
  BY <1>2, OnwardHolds, PTL DEF Spec, StoreNeverGoesBack

-----------------------------------------------------------------------------
(* What clears the store had a cause to: of every task that clears, the token
   that is kept when its turn comes is one that may be cleared. *)

Void(t) ==
  \/ Expired(t) \/ ~ hasKey
  \/ rows[t.of].is # "open" \/ t.at + 1 < rows[t.of].at
Cause(t) == t.of \in leaving \/ Void(t)

\* t is what is kept when task i of queue q has its turn, if kept is now.
Faces(q, kept, i, t) ==
  \/ t = kept /\ \A j \in DOMAIN q : j < i => q[j].do # "write"
  \/ \E j \in DOMAIN q :
       /\ j < i /\ q[j].what = t
       /\ \A k \in DOMAIN q : j < k /\ k < i => q[k].do # "write"
Clears(task) == task.do = "write" /\ task.what = NoToken

CauseInv(v) ==
  \A i \in DOMAIN tail[v], t \in Tokens :
    Clears(tail[v][i]) /\ Faces(tail[v], store, i, t) => Cause(t)

\* The last token a queue is to write is the one its vault knows.
NewsInv(v) ==
  \A i \in DOMAIN tail[v] :
    /\ tail[v][i].what # NoToken
    /\ \A j \in DOMAIN tail[v] : i < j => tail[v][j].do # "write"
    => current[v] = tail[v][i].what

\* A refresh asks with the token it read, and is refused for a cause.
RefusalInv(v) ==
  refreshing[v].at = "asked" =>
    /\ refreshing[v].token \in Tokens
    /\ Answer(v, "refresh").at \notin {"answered", "lost"} =>
         Answer(v, "refresh").token = refreshing[v].token
    /\ Answer(v, "refresh").at = "refused" => Void(refreshing[v].token)

ClearedInv == \A v \in Vaults : RefusalInv(v) /\ NewsInv(v) /\ CauseInv(v)

LEMMA FacesGrown ==
  ASSUME NEW q, NEW r, NEW e, Grown(q, r, e), NEW i \in DOMAIN q, NEW kept, NEW t,
         Faces(r, kept, i, t)
  PROVE  Faces(q, kept, i, t)
<1>1. \A j \in DOMAIN r : j < i => j \in DOMAIN q /\ r[j] = q[j]
  BY DEF Grown
<1>2. \A j \in DOMAIN q : j \in DOMAIN r /\ r[j] = q[j]
  BY DEF Grown
<1> QED
  BY <1>1, <1>2 DEF Faces

LEMMA FacesShifted ==
  ASSUME NEW q, NEW r, Shifted(q, r), NEW i \in DOMAIN r, NEW kept, NEW next, NEW t,
         IF q[1].do = "write" THEN next = q[1].what ELSE next = kept,
         Faces(r, next, i, t)
  PROVE  i + 1 \in DOMAIN q /\ r[i] = q[i + 1] /\ Faces(q, kept, i + 1, t)
<1>0. /\ \A j \in DOMAIN r : j \in Nat /\ j > 0 /\ j + 1 \in DOMAIN q /\ r[j] = q[j + 1]
      /\ \A j \in DOMAIN q : j # 1 => j \in Nat /\ j > 1 /\ j - 1 \in DOMAIN r /\ r[j - 1] = q[j]
      /\ 1 \in DOMAIN q
  BY DEF Shifted
<1>1. CASE t = next /\ \A j \in DOMAIN r : j < i => r[j].do # "write"
  <2>1. \A k \in DOMAIN q : 1 < k /\ k < i + 1 => q[k].do # "write"
    BY <1>0, <1>1
  <2>2. CASE q[1].do = "write"
    BY <1>0, <1>1, <2>1, <2>2 DEF Faces
  <2>3. CASE q[1].do # "write"
    <3>1. \A k \in DOMAIN q : k < i + 1 => q[k].do # "write"
      BY <1>0, <2>1, <2>3
    <3> QED
      BY <1>0, <1>1, <2>3, <3>1 DEF Faces
  <2> QED
    BY <2>2, <2>3
<1>2. ASSUME NEW j \in DOMAIN r, j < i, r[j].what = t,
             \A k \in DOMAIN r : j < k /\ k < i => r[k].do # "write"
      PROVE  Faces(q, kept, i + 1, t)
  <2>1. j + 1 \in DOMAIN q /\ j + 1 < i + 1 /\ q[j + 1].what = t
    BY <1>0, <1>2
  <2>2. \A k \in DOMAIN q : j + 1 < k /\ k < i + 1 => q[k].do # "write"
    BY <1>0, <1>2
  <2> QED
    BY <2>1, <2>2 DEF Faces
<1> QED
  BY <1>0, <1>1, <1>2 DEF Faces

\* A start that clears comes before all else, and nothing is kept from then on.
LEMMA FacesReplaced ==
  ASSUME NEW q \in Seq(Tasks), q # <<>>, NEW e \in Tasks, Clears(e),
         NEW i \in DOMAIN q, i # 1, NEW kept, NEW t \in Tokens,
         Faces([q EXCEPT ![1] = e], kept, i, t)
  PROVE  Faces(q, kept, i, t)
<1>0. PICK r : r = [q EXCEPT ![1] = e]
  OBVIOUS
<1>1. /\ DOMAIN r = DOMAIN q /\ r[1] = e /\ 1 \in DOMAIN q
      /\ \A j \in DOMAIN q : j # 1 => r[j] = q[j]
      /\ \A j \in DOMAIN q : j \in Nat /\ j > 0
  BY <1>0, Replaced, LenProperties
<1>2. r[1].do = "write" /\ r[1].what # t
  BY <1>1, Fields DEF Clears
<1>3. PICK j \in DOMAIN r :
        /\ j < i /\ r[j].what = t
        /\ \A k \in DOMAIN r : j < k /\ k < i => r[k].do # "write"
  BY <1>0, <1>1, <1>2 DEF Faces
<1>4. j # 1 /\ q[j].what = t
  BY <1>1, <1>2, <1>3
<1>5. \A k \in DOMAIN q : j < k /\ k < i => q[k].do # "write"
  BY <1>1, <1>3, <1>4
<1> QED
  BY <1>1, <1>3, <1>4, <1>5 DEF Faces

\* What a sign-out without a lock puts on the queue.
SignsOut(q, r) ==
  /\ \A i \in DOMAIN r :
       \/ i \in DOMAIN q /\ r[i] = q[i]
       \/ i = Len(q) + 1 /\ r[i] = Read("signOut")
       \/ i = Len(q) + 2 /\ r[i] = Write("nobody", NoToken)
       \/ i = Len(q) + 3 /\ r[i] = Write("signOut", NoToken)
  /\ \A i \in DOMAIN q : i \in DOMAIN r /\ r[i] = q[i]
  /\ Len(q) + 1 \in DOMAIN r /\ r[Len(q) + 1] = Read("signOut")
  /\ Len(q) + 2 \in DOMAIN r /\ r[Len(q) + 2] = Write("nobody", NoToken)
  /\ Len(q) + 3 \in DOMAIN r /\ r[Len(q) + 3] = Write("signOut", NoToken)
  /\ DOMAIN q = 1 .. Len(q) /\ Len(q) \in Nat

LEMMA SignOutTail ==
  ASSUME TypeInv, ~ HasLock, NEW v \in Vaults, BeginSignOut(v)
  PROVE  SignsOut(tail[v], tail'[v])
<1>1. PICK q \in Seq(Tasks) : q = tail[v]
  BY DEF TypeInv, TailTyped
<1>2. PICK r : r = tail'[v]
  OBVIOUS
<1>3. r = Append(q \o ReadThenClear, Write("signOut", NoToken))
  BY <1>1, <1>2 DEF BeginSignOut, TypeInv, TailTyped
<1>4. /\ \A i \in DOMAIN r :
           \/ i \in DOMAIN q /\ r[i] = q[i]
           \/ i = Len(q) + 1 /\ r[i] = Read("signOut")
           \/ i = Len(q) + 2 /\ r[i] = Write("nobody", NoToken)
           \/ i = Len(q) + 3 /\ r[i] = Write("signOut", NoToken)
      /\ \A i \in DOMAIN q : i \in DOMAIN r /\ r[i] = q[i]
      /\ Len(q) + 2 \in DOMAIN r
      /\ Len(q) + 3 \in DOMAIN r /\ r[Len(q) + 3] = Write("signOut", NoToken)
      /\ DOMAIN q = 1 .. Len(q) /\ Len(q) \in Nat /\ r \in Seq(Tasks)
  <2> DEFINE Long(x) == x = Append(q \o ReadThenClear, Write("signOut", NoToken))
             Short(x) == x = q \o ReadThenClear
  <2>1. Long(r)
    BY <1>3
  <2>2. ASSUME NEW x, Short(x) \/ Long(x)
        PROVE  /\ x \in Seq(Tasks)
               /\ \A i \in DOMAIN x :
                    \/ i \in DOMAIN q /\ x[i] = q[i]
                    \/ i = Len(q) + 1 /\ x[i] = Read("signOut")
                    \/ i = Len(q) + 2 /\ x[i] = Write("nobody", NoToken)
                    \/ i = Len(q) + 3 /\ x[i] = Write("signOut", NoToken)
               /\ \A i \in DOMAIN q : i \in DOMAIN x /\ x[i] = q[i]
               /\ Len(q) + 2 \in DOMAIN x
               /\ Long(x) => Len(q) + 3 \in DOMAIN x /\ x[Len(q) + 3] = Write("signOut", NoToken)
               /\ DOMAIN q = 1 .. Len(q) /\ Len(q) \in Nat
    BY <2>2, SignOutQueues, Zenon
  <2> HIDE DEF Long, Short
  <2> QED
    BY <2>1, <2>2
<1>5. DOMAIN r = 1 .. Len(r)
  BY <1>4, LenProperties
<1>6. Len(q) + 1 \in DOMAIN r /\ r[Len(q) + 1] = Read("signOut")
  <2>1. Len(q) + 1 \in DOMAIN r
    BY <1>4, <1>5, LenProperties
  <2> QED
    BY <1>4, <2>1
<1>7. r[Len(q) + 2] = Write("nobody", NoToken)
  BY <1>4
<1> QED
  BY <1>1, <1>2, <1>4, <1>6, <1>7 DEF SignsOut

\* What a sign-out clears is kept, or the last the queue is to write.
LEMMA FacesSignOut ==
  ASSUME NEW q, NEW r, SignsOut(q, r),
         NEW i \in DOMAIN r, Clears(r[i]), NEW kept, NEW t \in Tokens, Faces(r, kept, i, t)
  PROVE  \/ i \in DOMAIN q /\ r[i] = q[i] /\ Faces(q, kept, i, t)
         \/ t = kept
         \/ \E j \in DOMAIN q : q[j].what = t /\ \A k \in DOMAIN q : j < k => q[k].do # "write"
<1>1. /\ \A j \in DOMAIN r :
           \/ j \in DOMAIN q /\ r[j] = q[j]
           \/ j = Len(q) + 1 /\ r[j] = Read("signOut")
           \/ j = Len(q) + 2 /\ r[j] = Write("nobody", NoToken)
           \/ j = Len(q) + 3 /\ r[j] = Write("signOut", NoToken)
      /\ \A j \in DOMAIN q : j \in DOMAIN r /\ r[j] = q[j]
      /\ Len(q) + 2 \in DOMAIN r
      /\ DOMAIN q = 1 .. Len(q) /\ Len(q) \in Nat
  BY DEF SignsOut
<1>2. /\ Read("signOut").what # t /\ Write("nobody", NoToken).what # t
      /\ Write("signOut", NoToken).what # t /\ Read("signOut").do # "write"
      /\ Write("nobody", NoToken).do = "write"
  BY Fields
<1>3. CASE i \in DOMAIN q
  <2>1. \A j \in DOMAIN r : j < i => j \in DOMAIN q /\ r[j] = q[j]
    BY <1>1, <1>3
  <2> QED
    BY <1>1, <1>3, <2>1 DEF Faces
<1>4. CASE i = Len(q) + 2
  <2>1. ASSUME NEW j \in DOMAIN r, j < i, r[j].what = t,
               \A k \in DOMAIN r : j < k /\ k < i => r[k].do # "write"
        PROVE  \E h \in DOMAIN q : q[h].what = t /\ \A k \in DOMAIN q : h < k => q[k].do # "write"
    <3>1. j \in DOMAIN q /\ q[j].what = t
      BY <1>1, <1>2, <2>1
    <3>2. \A k \in DOMAIN q : j < k => q[k].do # "write"
      BY <1>1, <1>4, <2>1
    <3> QED
      BY <3>1, <3>2
  <2> QED
    BY <2>1 DEF Faces
<1>5. CASE i = Len(q) + 3
  <2>1. Len(q) + 2 \in DOMAIN r /\ Len(q) + 2 < i
    BY <1>1, <1>5
  <2>2. r[Len(q) + 2].do = "write" /\ r[Len(q) + 2].what # t
    BY <1>1, <1>2, <2>1
  <2>3. ASSUME NEW j \in DOMAIN r, j < i, r[j].what = t,
               \A k \in DOMAIN r : j < k /\ k < i => r[k].do # "write"
        PROVE  FALSE
    <3>1. j < Len(q) + 2
      BY <1>1, <1>5, <2>2, <2>3
    <3> QED
      BY <2>1, <2>2, <2>3, <3>1
  <2> QED
    BY <2>1, <2>2, <2>3 DEF Faces
<1>6. i # Len(q) + 1
  BY <1>1, <1>2 DEF Clears
<1> QED
  BY <1>1, <1>3, <1>4, <1>5, <1>6

LEMMA FacesKept ==
  ASSUME NEW v \in Vaults, NEW i, NEW t \in Tokens, Faces(tail[v], store, i, t)
  PROVE  Kept(t)
BY DEF Faces, Kept

\* A cause stays one, for a token that is kept or may come to be.
LEMMA IsStays ==
  ASSUME TypeInv, [Next]_vars, NEW s \in Sessions, rows[s].is # "open", rows[s].at # 0
  PROVE  rows'[s].is # "open"
<1>0. rows \in [Sessions -> Rows]
  BY DEF TypeInv, RowsTyped
<1>1. ASSUME NEW o \in Slots, OpenSession(o) PROVE rows'[s].is # "open"
  <2>1. PICK u \in Sessions : rows[u].at = 0 /\ \E r : rows' = [rows EXCEPT ![u] = r]
    BY <1>1 DEF OpenSession
  <2> QED
    BY <1>0, <2>1
<1>2. ASSUME NEW o \in Slots, Replay(o) \/ EndRow(o) PROVE rows'[s].is # "open"
  <2>0. PICK u : u = calls[o].token.of
    OBVIOUS
  <2>1. Replay(o) =>
          \/ rows' = rows
          \/ rows' = [rows EXCEPT ![u].is = IF rows[u].is = "open" THEN "reused" ELSE rows[u].is]
    BY <2>0 DEF Replay
  <2>2. EndRow(o) => rows' = rows \/ rows' = [rows EXCEPT ![u].is = "ended"]
    BY <2>0 DEF EndRow
  <2> QED
    BY <1>0, <1>2, <2>1, <2>2 DEF Rows
<1>3. ASSUME NEW o \in Slots, ReadRow(o) \/ WriteRow(o) PROVE rows'[s].is # "open"
  <2>0. PICK u : u = calls[o].token.of
    OBVIOUS
  <2>1. ReadRow(o) => Replay(o) \/ rows' = rows
    BY DEF ReadRow
  <2>2. WriteRow(o) =>
          \/ Replay(o)
          \/ /\ rows[u].is = "open"
             /\ rows' = [rows EXCEPT ![u].at = @ + 1, ![u].fresh = TRUE, ![u].live = TRUE]
    BY <2>0 DEF WriteRow
  <2>3. ASSUME u # s, rows' = [rows EXCEPT ![u].at = @ + 1, ![u].fresh = TRUE, ![u].live = TRUE]
        PROVE  rows'[s] = rows[s]
    BY <1>0, <2>3
  <2> QED
    BY <1>2, <1>3, <2>1, <2>2, <2>3
<1>4. ASSUME NEW u \in Sessions, ClockMoves(u) PROVE rows'[s].is # "open"
  <2>1. \/ \E x : rows' = [rows EXCEPT ![u].live = x]
        \/ \E x : rows' = [rows EXCEPT ![u].fresh = x]
        \/ \E x : rows' = [rows EXCEPT ![u].past = x]
    BY <1>4 DEF ClockMoves
  <2> QED
    BY <1>0, <2>1 DEF Rows
<1> QED
  BY <1>1, <1>2, <1>3, <1>4, WhoTouches DEF BookStep

LEMMA VoidStays ==
  ASSUME TypeInv, UseInv, [Next]_vars, NEW t \in Tokens, t.at <= rows[t.of].at, Void(t)
  PROVE  Void(t)'
<1>0. /\ t.of \in Sessions /\ t.at \in Nat /\ t.at > 0 /\ t.at <= rows[t.of].at
      /\ rows[t.of].at \in Nat /\ rows[t.of].past \in Nat
  BY OfTyped DEF Tokens, UseInv, RangeInv, TypeInv, RowsTyped, Rows
<1>1. /\ (~ hasKey => ~ hasKey')
      /\ rows[t.of].at <= rows'[t.of].at /\ rows'[t.of].at \in Nat
  <2>1. \A v \in Vaults : StoreWrites(v) => hasKey' = hasKey
    BY DEF StoreWrites, around
  <2>2. ~ hasKey => ~ hasKey'
    BY <2>1, WhoTouches DEF KeyLost
  <2> QED
    BY <1>0, <2>2, RowsMonotone
<1>2. rows[t.of].past <= rows'[t.of].past /\ rows'[t.of].past \in Nat
  BY <1>0, PastFlow
<1>3. rows[t.of].is # "open" => rows'[t.of].is # "open"
  BY <1>0, IsStays
<1> QED
  BY <1>0, <1>1, <1>2, <1>3 DEF Void, Expired

LEMMA CauseStays ==
  ASSUME TypeInv, UseInv, [Next]_vars, NEW t \in Tokens, Kept(t), Cause(t)
  PROVE  Cause(t)'
<1>1. leaving \subseteq leaving' /\ t.at <= rows[t.of].at
  BY LeavingFlow DEF UseInv, RangeInv
<1> QED
  BY <1>1, VoidStays DEF Cause

\* The book refuses a token for a cause.
LEMMA Refused ==
  ASSUME TypeInv, [Next]_vars, NEW v \in Vaults, NEW asks \in {"refresh", "signOut"},
         NEW t \in Tokens,
         Answer(v, asks).what = "refresh", Answer(v, asks).token = t,
         Answer(v, asks).at \in {"sent", "read"}, t.at <= rows[t.of].at,
         calls'[<<v, asks>>].at = "refused"
  PROVE  Void(t)'
<1>0. /\ calls \in [Slots -> Calls] /\ rows \in [Sessions -> Rows]
      /\ \A w \in Vaults, kind \in Kinds : <<w, kind>> \in Slots
      /\ t.of \in Sessions /\ t.at \in Nat /\ t.at > 0
  BY NoneTyped, OfTyped DEF TypeInv, CallsTyped, RowsTyped, Tokens
<1>1. PICK o \in Slots : o = <<v, asks>>
  BY <1>0 DEF Kinds
<1>2. /\ calls[o].what = "refresh" /\ calls[o].token = t /\ calls[o].at # "refused"
      /\ calls'[o].at = "refused"
  BY <1>1 DEF Answer
<1>3. ASSUME Replay(o) PROVE Void(t)'
  <2>1. \/ /\ rows' = rows
           /\ \E token : calls' = [calls EXCEPT ![o].at = "answered", ![o].token = token]
        \/ rows' = [rows EXCEPT ![t.of].is =
                      IF rows[t.of].is = "open" THEN "reused" ELSE rows[t.of].is]
    BY <1>2, <1>3 DEF Replay, Answers
  <2>2. ASSUME NEW token, calls' = [calls EXCEPT ![o].at = "answered", ![o].token = token]
        PROVE  calls'[o].at = "answered"
    BY <1>0, <2>2 DEF Calls
  <2>3. rows'[t.of].is # "open"
    BY <1>0, <1>2, <2>1, <2>2 DEF Rows
  <2> QED
    BY <2>3 DEF Void
<1>4. ASSUME ReadRow(o) PROVE Void(t)'
  <2>1. CASE ~ Finds(t) /\ rows' = rows
    <3>1. /\ rows[t.of].at \in Nat /\ rows[t.of].past \in Nat
      BY <1>0 DEF Rows
    <3>2. \/ rows[t.of].is # "open" \/ t.at <= rows[t.of].past
          \/ t.at + 1 < rows[t.of].at
      BY <1>0, <2>1, <3>1 DEF Finds, Gone
    <3> QED
      BY <2>1, <3>2 DEF Void, Expired
  <2>2. ASSUME calls' = [calls EXCEPT ![o].at = "read"] PROVE FALSE
    BY <1>0, <1>2, <2>2 DEF Calls
  <2>3. \/ ~ Finds(t) /\ rows' = rows
        \/ calls' = [calls EXCEPT ![o].at = "read"]
        \/ Replay(o)
    BY <1>2, <1>4 DEF ReadRow
  <2> QED
    BY <1>3, <2>1, <2>2, <2>3
<1>5. ASSUME WriteRow(o) PROVE Void(t)'
  <2>1. Replay(o) \/ \E token : calls' = [calls EXCEPT ![o].at = "answered", ![o].token = token]
    BY <1>5 DEF WriteRow, Answers
  <2>2. ASSUME NEW token, calls' = [calls EXCEPT ![o].at = "answered", ![o].token = token]
        PROVE  FALSE
    BY <1>0, <1>2, <2>2 DEF Calls
  <2> QED
    BY <1>3, <2>1, <2>2
<1>6. ~ OpenSession(o) /\ ~ EndRow(o)
  BY <1>2 DEF OpenSession, EndRow, Sent
<1>7. ASSUME NEW p \in Slots, p # o, BookStep(p) \/ CallLost(p) PROVE FALSE
  <2>1. \A token : Answers(p, token) => calls'[o] = calls[o]
    BY <1>0, <1>7 DEF Answers
  <2>2. \A at : calls' = [calls EXCEPT ![p].at = at] => calls'[o] = calls[o]
    BY <1>0, <1>7
  <2>3. Refuses(p) \/ CallLost(p) => calls'[o] = calls[o]
    BY <2>2 DEF Refuses, CallLost
  <2>4. OpenSession(p) => calls'[o] = calls[o]
    BY <2>1 DEF OpenSession
  <2>5. Replay(p) \/ EndRow(p) => calls'[o] = calls[o]
    BY <2>1, <2>3 DEF Replay, EndRow
  <2>6. ReadRow(p) \/ WriteRow(p) => calls'[o] = calls[o]
    BY <2>1, <2>2, <2>3, <2>5 DEF ReadRow, WriteRow
  <2> QED
    BY <1>2, <1>7, <2>3, <2>4, <2>5, <2>6 DEF BookStep
<1>8. ~ CallLost(o)
  <2> SUFFICES ASSUME CallLost(o) PROVE FALSE
    OBVIOUS
  <2>1. calls' = [calls EXCEPT ![o].at = "lost"]
    BY DEF CallLost
  <2> QED
    BY <1>0, <1>2, <2>1 DEF Calls
<1>9. ASSUME NEW w \in Vaults, NEW kind \in Kinds, NEW c, c.at # "refused",
             calls' = [calls EXCEPT ![<<w, kind>>] = c]
      PROVE  FALSE
  <2>1. PICK p \in Slots : p = <<w, kind>>
    BY <1>0
  <2> QED
    BY <1>0, <1>2, <1>9, <2>1
<1>10. ASSUME NEW w \in Vaults, Close(w) PROVE FALSE
  <2>1. PICK kind \in Kinds :
          calls' = [p \in Slots |-> IF p = <<w, "stray">> THEN calls[<<w, kind>>]
                                    ELSE IF p[1] = w THEN NoCall ELSE calls[p]]
    BY <1>10 DEF Close
  <2>2. o # <<w, "stray">> /\ NoCall.at = "none"
    BY <1>1 DEF NoCall
  <2>3. calls'[o] = (IF o[1] = w THEN NoCall ELSE calls[o])
    BY <2>1, <2>2
  <2> QED
    BY <1>2, <2>2, <2>3
<1>11. ASSUME NEW w \in Vaults,
              \/ BeginSignIn(w) \/ SignInKept(w) \/ SignInOvertaken(w) \/ SignInOver(w)
              \/ CannotRotate(w) \/ AskRotation(w) \/ Rotated(w) \/ RotationLost(w)
              \/ SpendKept(w) \/ NothingToSpend(w) \/ AskEnd(w) \/ SignOutAnswered(w)
       PROVE  FALSE
  <2>1. NoCall.at = "none" /\ \A what, x : Call(what, x).at = "sent"
    BY DEF NoCall, Call
  <2>2. ASSUME NEW kind \in Kinds, HangsUp(w, kind) PROVE FALSE
    BY <1>9, <2>1, <2>2 DEF HangsUp, Asks
  <2>3. ASSUME NEW kind \in Kinds, NEW what, NEW x, Asks(w, kind, Call(what, x)) PROVE FALSE
    BY <1>9, <2>1, <2>3 DEF Asks
  <2>4. "signIn" \in Kinds /\ "refresh" \in Kinds /\ "signOut" \in Kinds
    BY DEF Kinds
  <2>5. ~ SignInKept(w) /\ ~ SignInOver(w) /\ ~ CannotRotate(w) /\ ~ Rotated(w)
        /\ ~ RotationLost(w) /\ ~ NothingToSpend(w) /\ ~ SignOutAnswered(w)
    BY <2>2, <2>4 DEF SignInKept, SignInOver, CannotRotate, Rotated, RotationLost, NothingToSpend,
       SignOutAnswered, SignOutOver
  <2>6. ~ BeginSignIn(w) /\ ~ SignInOvertaken(w) /\ ~ AskRotation(w) /\ ~ SpendKept(w) /\ ~ AskEnd(w)
    BY <2>3, <2>4 DEF BeginSignIn, SignInOvertaken, AskRotation, SpendKept, AskEnd
  <2> QED
    BY <1>11, <2>5, <2>6
<1> QED
  BY <1>2, <1>4, <1>5, <1>6, <1>7, <1>8, <1>10, <1>11, WhoTouches DEF BookStep

LEMMA RefusalStep ==
  ASSUME VaultInv, UseInv, [Next]_vars, NEW v \in Vaults, RefusalInv(v)
  PROVE  RefusalInv(v)'
<1> SUFFICES ASSUME NEW t, t = refreshing'[v].token, refreshing'[v].at = "asked"
             PROVE  /\ t \in Tokens
                    /\ calls'[<<v, "refresh">>].at \notin {"answered", "lost"} =>
                         calls'[<<v, "refresh">>].token = t
                    /\ calls'[<<v, "refresh">>].at = "refused" => Void(t)'
  BY DEF RefusalInv, Answer, Void, Expired
<1>0. /\ TypeInv /\ TypeInv' /\ calls \in [Slots -> Calls]
      /\ refreshing \in [Vaults -> Refreshes] /\ refreshing' \in [Vaults -> Refreshes]
  BY TypeInvStep DEF VaultInv, TypeInv, CallsTyped, OpsTyped
<1>1. PICK o \in Slots : o = <<v, "refresh">>
  BY NoneTyped DEF Kinds
<1>2. calls'[o].what = "refresh"
  BY <1>0, <1>1 DEF TypeInv, RefreshInv, Answer
<1>3. CASE AskRotation(v)
  <2>1. /\ calls'[o].token = refreshing[v].token /\ refreshing'[v].token = refreshing[v].token
        /\ refreshing[v].token # NoToken
    BY <1>0, <1>1, <1>3, AskPut DEF AskRotation
  <2>2. calls'[o].at = "sent"
    <3>1. calls' = [calls EXCEPT ![o] = Call("refresh", refreshing[v].token)]
      BY <1>1, <1>3 DEF AskRotation, Asks
    <3>2. Call("refresh", refreshing[v].token).at = "sent"
      BY DEF Call
    <3> QED
      BY <1>0, <3>1, <3>2
  <2>3. refreshing[v].token \in Tokens
    BY <1>0, <2>1, OfTyped DEF Refreshes
  <2> QED
    BY <1>1, <2>1, <2>2, <2>3
<1>4. CASE ~ AskRotation(v)
  <2>1. refreshing'[v] = refreshing[v] /\ refreshing[v].at = "asked"
    BY <1>0, <1>4, RefreshMoves, Fields
  <2>2. t \in Tokens /\ t = refreshing[v].token
    BY <2>1 DEF RefusalInv
  <2>3. /\ calls[o].what = "refresh" /\ (calls[o].at \notin {"answered", "lost"} => calls[o].token = t)
        /\ (calls[o].at = "refused" => Void(t))
    BY <1>0, <1>1, <2>1, <2>2 DEF RefusalInv, TypeInv, RefreshInv, Answer
  <2>4. Kept(t) /\ t.at <= rows[t.of].at
    BY <2>1, <2>2 DEF Kept, Rotating, UseInv, RangeInv
  <2>5. \A w \in Vaults : /\ o # <<w, "signOut">> /\ o # <<w, "stray">>
                          /\ (o = <<w, "refresh">> => w = v)
    BY <1>1
  <2>6. \/ /\ calls'[o].token = calls[o].token
           /\ \/ calls'[o].at = calls[o].at \/ calls'[o].at = "lost"
              \/ calls'[o].at = "refused" /\ calls[o].at \in {"sent", "read"}
              \/ calls'[o].at = "read" /\ calls[o].at = "sent"
        \/ calls'[o].at = "answered"
    BY <1>0, <1>2, <1>4, <2>5, CallsFlow
  <2>7. calls'[o].at \notin {"answered", "lost"} => calls'[o].token = t
    BY <2>3, <2>6
  <2>8. ASSUME calls'[o].at = "refused" PROVE Void(t)'
    <3>1. CASE calls[o].at = "refused"
      BY <1>0, <2>2, <2>3, <2>4, <3>1, VoidStays
    <3>2. CASE calls[o].at \in {"sent", "read"}
      BY <1>0, <1>1, <2>2, <2>3, <2>4, <2>8, <3>2, Refused DEF Answer
    <3> QED
      BY <2>6, <2>8, <3>1, <3>2
  <2> QED
    BY <1>1, <2>2, <2>7, <2>8
<1> QED
  BY <1>3, <1>4

LEMMA CurrentMoves ==
  ASSUME TypeInv, [Next]_vars, NEW v \in Vaults
  PROVE  \/ current'[v] = current[v]
         \/ SignInKept(v) /\ current'[v] = Answer(v, "signIn").token
         \/ (NothingKept(v) \/ CannotRotate(v)) /\ RefreshStands(v)
         \/ Rotated(v) /\ RefreshStands(v) /\ current'[v] = Answer(v, "refresh").token
         \/ BeginSignOut(v) \/ Close(v)
<1>0. current \in [Vaults -> Maybe]
  BY DEF TypeInv, KnownTyped
<1>1. ASSUME NEW w \in Vaults
      PROVE  /\ SignInKept(w) => current' = [current EXCEPT ![w] = Answer(w, "signIn").token]
             /\ NothingKept(w) \/ CannotRotate(w) =>
                  \/ current' = current
                  \/ RefreshStands(w) /\ current' = [current EXCEPT ![w] = NoToken]
             /\ BeginSignOut(w) \/ Close(w) => current' = [current EXCEPT ![w] = NoToken]
             /\ Rotated(w) =>
                  \/ current' = current
                  \/ /\ RefreshStands(w)
                     /\ current' = [current EXCEPT ![w] = Answer(w, "refresh").token]
  <2>1. NothingKept(w) =>
          \/ current' = current
          \/ RefreshStands(w) /\ current' = [current EXCEPT ![w] = NoToken]
    BY DEF NothingKept
  <2>2. CannotRotate(w) =>
          \/ current' = current
          \/ RefreshStands(w) /\ current' = [current EXCEPT ![w] = NoToken]
    BY DEF CannotRotate, Forget
  <2>3. Rotated(w) =>
          \/ current' = current
          \/ RefreshStands(w) /\ current' = [current EXCEPT ![w] = Answer(w, "refresh").token]
    BY DEF Rotated
  <2>4. /\ SignInKept(w) => current' = [current EXCEPT ![w] = Answer(w, "signIn").token]
        /\ BeginSignOut(w) \/ Close(w) => current' = [current EXCEPT ![w] = NoToken]
    BY DEF SignInKept, BeginSignOut, Close
  <2> QED
    BY <2>1, <2>2, <2>3, <2>4
<1>2. \/ current' = current
      \/ \E w \in Vaults : SignInKept(w) /\ current' = [current EXCEPT ![w] = Answer(w, "signIn").token]
      \/ \E w \in Vaults : /\ (NothingKept(w) \/ CannotRotate(w)) /\ RefreshStands(w)
                           /\ current' = [current EXCEPT ![w] = NoToken]
      \/ \E w \in Vaults : /\ BeginSignOut(w) \/ Close(w)
                           /\ current' = [current EXCEPT ![w] = NoToken]
      \/ \E w \in Vaults : /\ Rotated(w) /\ RefreshStands(w)
                           /\ current' = [current EXCEPT ![w] = Answer(w, "refresh").token]
  BY <1>1, WhoTouches DEF memory
<1> QED
  BY <1>0, <1>2

LEMMA NewsStep ==
  ASSUME ~ HasLock, VaultInv, [Next]_vars, NEW v \in Vaults, CleanInv(v), NewsInv(v)
  PROVE  NewsInv(v)'
<1> SUFFICES ASSUME NEW i \in DOMAIN tail'[v], tail'[v][i].what # NoToken,
                    \A j \in DOMAIN tail'[v] : i < j => tail'[v][j].do # "write"
             PROVE  current'[v] = tail'[v][i].what
  BY DEF NewsInv
<1>0. /\ TypeInv /\ tail \in [Vaults -> Seq(Tasks)] /\ tail[v] \in Seq(Tasks)
      /\ DOMAIN tail[v] = 1 .. Len(tail[v]) /\ Len(tail[v]) \in Nat
  BY LenProperties DEF VaultInv, TypeInv, TailTyped
<1>1. CASE SignInKept(v)
  <2>1. PICK e \in Tasks : e = Write("signIn", Answer(v, "signIn").token)
    BY <1>0, <1>1, Answered, TasksTyped DEF SignInKept, Kinds
  <2>2. /\ tail'[v] = Append(tail[v], e) /\ current'[v] = Answer(v, "signIn").token
        /\ e.do = "write" /\ e.what = Answer(v, "signIn").token
    BY <1>0, <1>1, <2>1, Fields DEF SignInKept, Queue, TypeInv, KnownTyped
  <2>3. Grown(tail[v], tail'[v], e)
    BY <1>0, <2>2, Appended
  <2>4. i = Len(tail[v]) + 1
    BY <1>0, <2>2, <2>3 DEF Grown
  <2> QED
    BY <2>2, <2>3, <2>4 DEF Grown
<1>2. CASE (NothingKept(v) \/ CannotRotate(v)) /\ RefreshStands(v)
  <2>1. Rotating(v)
    BY <1>2 DEF NothingKept, CannotRotate, Rotating
  <2>2. \A j \in DOMAIN tail[v] : tail[v][j].what = NoToken
    BY <1>2, <2>1 DEF CleanInv
  <2>3. tail' = tail \/ tail' = [tail EXCEPT ![v] = Append(@, Write("refresh", NoToken))]
    BY <1>2 DEF NothingKept, CannotRotate, Forget, Queue
  <2>4. PICK e \in Tasks : e = Write("refresh", NoToken) /\ e.what = NoToken
    BY Fields, TasksTyped, NoneTyped
  <2>5. tail'[v] = tail[v] \/ Grown(tail[v], tail'[v], e)
    <3>1. tail'[v] = tail[v] \/ tail'[v] = Append(tail[v], e)
      BY <1>0, <2>3, <2>4
    <3> QED
      BY <1>0, <3>1, Appended
  <2> QED
    BY <2>2, <2>4, <2>5 DEF Grown
<1>3. CASE Rotated(v) /\ RefreshStands(v)
  <2>1. Rotating(v)
    BY <1>3 DEF Rotated, Rotating
  <2>2. \A j \in DOMAIN tail[v] : tail[v][j].what = NoToken
    BY <1>3, <2>1 DEF CleanInv
  <2>3. PICK view : view = Answer(v, "refresh").token
    OBVIOUS
  <2>4. PICK e \in Tasks : e = Write("refresh", view) /\ e.what = view
    BY <1>0, <1>3, <2>3, Fields, RotatedSame, TasksTyped DEF Maybe
  <2>5. tail'[v] = Append(tail[v], e) /\ current'[v] = view
    BY <1>0, <1>3, <2>3, <2>4 DEF Rotated, Queue, TypeInv, KnownTyped
  <2>6. Grown(tail[v], tail'[v], e)
    BY <1>0, <2>5, Appended
  <2> QED
    BY <2>2, <2>4, <2>5, <2>6 DEF Grown
<1>4. ~ BeginSignOut(v)
  <2> SUFFICES ASSUME BeginSignOut(v) PROVE FALSE
    OBVIOUS
  <2>1. SignsOut(tail[v], tail'[v])
    BY <1>0, SignOutTail
  <2>2. /\ Read("signOut").what = NoToken
        /\ Write("nobody", NoToken).what = NoToken /\ Write("nobody", NoToken).do = "write"
        /\ Write("signOut", NoToken).what = NoToken
    BY Fields
  <2>3. i \in DOMAIN tail[v]
    BY <2>1, <2>2 DEF SignsOut
  <2>4. i < Len(tail[v]) + 2 /\ Len(tail[v]) + 2 \in DOMAIN tail'[v]
    BY <1>0, <2>1, <2>3 DEF SignsOut
  <2>5. tail'[v][Len(tail[v]) + 2] = Write("nobody", NoToken)
    BY <1>0, <2>1, <2>4 DEF SignsOut
  <2> QED
    BY <2>2, <2>4, <2>5
<1>5. ~ Close(v)
  <2> SUFFICES ASSUME Close(v) PROVE FALSE
    OBVIOUS
  <2>1. tail'[v] = <<>>
    BY <1>0 DEF Close
  <2> QED
    BY <2>1
<1>6. ASSUME NEW j \in DOMAIN tail[v], tail[v][j].what # NoToken,
             \A k \in DOMAIN tail[v] : j < k => tail[v][k].do # "write"
      PROVE  current[v] = tail[v][j].what
  BY <1>6 DEF NewsInv
<1>7. CASE /\ current'[v] = current[v]
           /\ ~ SignInKept(v) /\ ~ (Rotated(v) /\ RefreshStands(v))
  <2>1. CASE tail'[v] = tail[v]
    BY <1>6, <1>7, <2>1
  <2>2. ASSUME NEW e \in Tasks, Grown(tail[v], tail'[v], e), e.what = NoToken
        PROVE  current'[v] = tail'[v][i].what
    <3>1. i \in DOMAIN tail[v] /\ tail'[v][i] = tail[v][i]
      BY <2>2 DEF Grown
    <3>2. \A k \in DOMAIN tail[v] : i < k => tail[v][k].do # "write"
      BY <2>2 DEF Grown
    <3> QED
      BY <1>6, <1>7, <3>1, <3>2
  <2>3. CASE tail[v] # <<>> /\ tail'[v] = Tail(tail[v])
    <3>1. Shifted(tail[v], tail'[v])
      BY <1>0, <2>3, AtTask
    <3>2. i \in Nat /\ i > 0 /\ i + 1 \in DOMAIN tail[v] /\ tail'[v][i] = tail[v][i + 1]
      BY <3>1 DEF Shifted
    <3>3. ASSUME NEW k \in DOMAIN tail[v], i + 1 < k PROVE tail[v][k].do # "write"
      <4>1. k # 1
        BY <1>0, <3>2, <3>3
      <4>2. k \in Nat /\ k - 1 \in DOMAIN tail'[v] /\ tail'[v][k - 1] = tail[v][k]
        BY <3>1, <4>1 DEF Shifted
      <4>3. i < k - 1
        BY <3>2, <3>3, <4>2
      <4> QED
        BY <4>2, <4>3
    <3> QED
      BY <1>6, <1>7, <3>2, <3>3
  <2>4. CASE tail[v] # <<>> /\ tail'[v] = [tail[v] EXCEPT ![1] = Write("nobody", NoToken)]
    <3>1. PICK e \in Tasks : e = Write("nobody", NoToken) /\ e.what = NoToken
      BY TasksTyped, NoneTyped, Fields
    <3>2. /\ DOMAIN tail'[v] = DOMAIN tail[v] /\ tail'[v][1] = e
          /\ \A h \in DOMAIN tail[v] : h # 1 => tail'[v][h] = tail[v][h]
      BY <1>0, <2>4, <3>1, Replaced
    <3>3. i # 1 /\ i \in DOMAIN tail[v] /\ tail'[v][i] = tail[v][i]
      BY <3>1, <3>2
    <3>4. \A k \in DOMAIN tail[v] : i < k => k # 1
      BY <1>0, <3>3
    <3> QED
      BY <1>6, <1>7, <3>2, <3>3, <3>4
  <2>5. \A e \in {RestoreTask, Read("refresh"), Write("refresh", NoToken), Write("signOut", NoToken)} :
          e.what = NoToken
    BY Fields
  <2>6. \/ tail'[v] = tail[v]
        \/ \E e \in Tasks :
             /\ Grown(tail[v], tail'[v], e)
             /\ e \in {RestoreTask, Read("refresh"), Write("refresh", NoToken),
                       Write("signOut", NoToken)}
        \/ tail[v] # <<>> /\ tail'[v] = Tail(tail[v])
        \/ tail[v] # <<>> /\ tail'[v] = [tail[v] EXCEPT ![1] = Write("nobody", NoToken)]
    <3> HIDE <1>6
    <3> QED
      BY <1>0, <1>4, <1>5, <1>7, TailMoves
  <2> QED
    BY <2>1, <2>2, <2>3, <2>4, <2>5, <2>6
<1> QED
  BY <1>0, <1>1, <1>2, <1>3, <1>4, <1>5, <1>7, CurrentMoves

\* What a refresh that clears has read is what is kept, and may not be used.
LEMMA ForgetsHeld ==
  ASSUME TypeInv, NEW v \in Vaults, CleanInv(v), RefusalInv(v), CannotRotate(v),
         refreshing'[v].at = "writing"
  PROVE  /\ store \in {refreshing[v].token, NoToken} /\ Rotating(v)
         /\ \A i \in DOMAIN tail[v] : tail[v][i].what = NoToken
         /\ Void(refreshing[v].token)
<1>0. refreshing \in [Vaults -> Refreshes]
  BY DEF TypeInv, OpsTyped
<1>1. RefreshStands(v) /\ Rotating(v)
  <2>1. ~ RefreshStands(v) =>
          refreshing' = [refreshing EXCEPT ![v].at = "done", ![v].token = NoToken]
    BY DEF CannotRotate, Forget, RefreshEnds
  <2>2. RefreshStands(v)
    BY <1>0, <2>1 DEF Refreshes
  <2> QED
    BY <2>2 DEF CannotRotate, Rotating
<1>2. Void(refreshing[v].token)
  BY DEF CannotRotate, RefusalInv, Void
<1> QED
  BY <1>1, <1>2 DEF CleanInv

LEMMA ForgetsOwn ==
  ASSUME TypeInv, NEW v \in Vaults, CleanInv(v), RefusalInv(v), CannotRotate(v),
         refreshing'[v].at = "writing",
         NEW r, NEW e, Grown(tail[v], r, e), NEW t \in Tokens,
         Faces(r, store, Len(tail[v]) + 1, t)
  PROVE  Kept(t) /\ Void(t)
<1>1. /\ store \in {refreshing[v].token, NoToken} /\ Rotating(v)
      /\ \A i \in DOMAIN tail[v] : tail[v][i].what = NoToken
      /\ Void(refreshing[v].token)
  BY ForgetsHeld
<1>2. \A j \in DOMAIN r : j < Len(tail[v]) + 1 => r[j].what = NoToken
  BY <1>1 DEF Grown
<1>3. t = refreshing[v].token
  BY <1>1, <1>2, Fields DEF Faces
<1> QED
  BY <1>1, <1>3 DEF Kept

LEMMA CauseStep ==
  ASSUME ~ HasLock, VaultInv, UseInv, [Next]_vars, NEW v \in Vaults,
         CleanInv(v), RefusalInv(v), NewsInv(v), CauseInv(v)
  PROVE  CauseInv(v)'
<1> SUFFICES ASSUME NEW i \in DOMAIN tail'[v], NEW t \in Tokens, Clears(tail'[v][i]),
                    Faces(tail'[v], store', i, t)
             PROVE  Cause(t)'
  BY DEF CauseInv
<1>0. /\ TypeInv /\ tail \in [Vaults -> Seq(Tasks)] /\ tail[v] \in Seq(Tasks)
      /\ DOMAIN tail[v] = 1 .. Len(tail[v]) /\ Len(tail[v]) \in Nat
      /\ \A w \in Vaults : w = v
  BY LenProperties, LockAssumption DEF VaultInv, TypeInv, TailTyped
<1>1. ASSUME NEW j \in DOMAIN tail[v], tail[v][j] = tail'[v][i], Faces(tail[v], store, j, t)
      PROVE  Cause(t)'
  <2>1. Clears(tail[v][j])
    BY <1>1
  <2>2. Cause(t)
    BY <1>1, <2>1 DEF CauseInv
  <2>3. Kept(t)
    BY <1>1, FacesKept
  <2> QED
    BY <1>0, <2>2, <2>3, CauseStays
<1>2. ASSUME tail[v] # <<>>, tail'[v] = Tail(tail[v]),
             IF tail[v][1].do = "write" THEN store' = tail[v][1].what ELSE store' = store
      PROVE  Cause(t)'
  <2>1. Shifted(tail[v], tail'[v])
    BY <1>0, <1>2, AtTask
  <2>2. /\ i + 1 \in DOMAIN tail[v] /\ tail'[v][i] = tail[v][i + 1]
        /\ Faces(tail[v], store, i + 1, t)
    BY <1>2, <2>1, FacesShifted
  <2> QED
    BY <1>1, <2>2
<1>3. CASE StoreWrites(v)
  <2>1. /\ tail[v] # <<>> /\ tail'[v] = Tail(tail[v]) /\ store' = tail[v][1].what
        /\ tail[v][1].do = "write"
    BY <1>0, <1>3, StoreHead DEF StoreWrites, Taken
  <2> QED
    BY <1>2, <2>1
<1>4. CASE ~ StoreWrites(v) /\ store' = store
  <2>1. CASE tail'[v] = tail[v]
    BY <1>1, <1>4, <2>1
  <2>2. ASSUME NEW e \in Tasks, Grown(tail[v], tail'[v], e),
               \/ ~ Clears(e)
               \/ CannotRotate(v) /\ refreshing'[v].at = "writing"
        PROVE  Cause(t)'
    <3>1. CASE i \in DOMAIN tail[v]
      <4>1. tail'[v][i] = tail[v][i]
        BY <2>2, <3>1 DEF Grown
      <4>2. Faces(tail[v], store, i, t)
        BY <1>4, <2>2, <3>1, FacesGrown
      <4> QED
        BY <1>1, <3>1, <4>1, <4>2
    <3>2. CASE i = Len(tail[v]) + 1 /\ tail'[v][i] = e
      <4>1. CannotRotate(v) /\ refreshing'[v].at = "writing"
        BY <2>2, <3>2
      <4>2. Kept(t) /\ Cause(t)
        BY <1>0, <1>4, <2>2, <3>2, <4>1, ForgetsOwn DEF Cause
      <4> QED
        BY <1>0, <4>2, CauseStays
    <3> QED
      BY <2>2, <3>1, <3>2 DEF Grown
  <2>3. CASE BeginSignOut(v)
    <3>1. SignsOut(tail[v], tail'[v])
      BY <1>0, <2>3, SignOutTail
    <3>2. t.of # 0
      BY OfTyped
    <3>3. {store.of, current[v].of} \ {0} \subseteq leaving'
      BY <2>3 DEF BeginSignOut
    <3>4. CASE i \in DOMAIN tail[v] /\ tail'[v][i] = tail[v][i] /\ Faces(tail[v], store, i, t)
      BY <1>1, <3>4
    <3>5. CASE t = store
      BY <3>2, <3>3, <3>5 DEF Cause
    <3>6. ASSUME NEW j \in DOMAIN tail[v], tail[v][j].what = t,
                 \A k \in DOMAIN tail[v] : j < k => tail[v][k].do # "write"
          PROVE  Cause(t)'
      <4>1. current[v] = t
        BY <3>6, Fields DEF NewsInv
      <4> QED
        BY <3>2, <3>3, <4>1 DEF Cause
    <3> QED
      BY <1>4, <3>1, <3>4, <3>5, <3>6, FacesSignOut
  <2>4. CASE tail[v] # <<>> /\ tail'[v] = Tail(tail[v]) /\ Task(v).do # "write"
    BY <1>0, <1>2, <1>4, <2>4, AtTask
  <2>5. CASE /\ StoreRestores(v) /\ tail[v] # <<>>
             /\ tail'[v] = [tail[v] EXCEPT ![1] = Write("nobody", NoToken)]
    <3>1. PICK e \in Tasks : e = Write("nobody", NoToken) /\ Clears(e)
      BY TasksTyped, NoneTyped, Fields DEF Clears
    <3>2. /\ DOMAIN tail'[v] = DOMAIN tail[v]
          /\ \A h \in DOMAIN tail[v] : h # 1 => tail'[v][h] = tail[v][h]
      BY <1>0, <2>5, <3>1, Replaced
    <3>3. CASE i # 1
      <4>1. Faces(tail[v], store, i, t)
        BY <1>0, <1>4, <2>5, <3>1, <3>2, <3>3, FacesReplaced
      <4> QED
        BY <1>1, <3>2, <3>3, <4>1
    <3>4. CASE i = 1
      <4>1. t = store
        <5>1. \A j \in DOMAIN tail'[v] : ~ (j < 1)
          BY <1>0, <3>2
        <5> QED
          BY <1>4, <3>4, <5>1 DEF Faces
      <4>2. Expired(store)
        <5>1. ~ Expired(store) => tail'[v] = Tail(tail[v])
          <6>1. StoreRestores(v) => Expired(store) \/ Taken(v)
            BY DEF StoreRestores
          <6>2. Taken(v) => tail'[v] = Tail(tail[v])
            BY <1>0 DEF Taken
          <6> QED
            BY <2>5, <6>1, <6>2
        <5>2. Shifted(tail[v], Tail(tail[v]))
          BY <1>0, <2>5, AtTask
        <5>3. tail'[v] # Tail(tail[v])
          <6>1. Len(tail[v]) \in DOMAIN tail[v] /\ Len(tail[v]) + 1 \notin DOMAIN tail[v]
            BY <1>0, <3>4, <3>2
          <6> QED
            BY <3>2, <5>2, <6>1 DEF Shifted
        <5> QED
          BY <5>1, <5>3
      <4>3. Kept(t) /\ Cause(t)
        BY <4>1, <4>2 DEF Kept, Cause, Void
      <4> QED
        BY <1>0, <4>3, CauseStays
    <3> QED
      BY <3>3, <3>4
  <2>6. ~ Close(v)
    <3>1. Close(v) => tail'[v] = <<>>
      BY <1>0 DEF Close
    <3> QED
      BY <3>1
  <2>7. ~ SignOutGetsLock(v)
    BY <1>0 DEF SignOutGetsLock, TypeInv, RefreshInv
  <2>8. ASSUME NEW e, \/ SignInKept(v) /\ e = Write("signIn", Answer(v, "signIn").token)
                      \/ e \in {RestoreTask, Read("refresh")}
                      \/ Rotated(v) /\ e = Write("refresh", Answer(v, "refresh").token)
        PROVE  ~ Clears(e)
    <3>1. SignInKept(v) => Answer(v, "signIn").token # NoToken
      BY <1>0, Answered, Fields DEF SignInKept, Kinds
    <3>2. Rotated(v) => Answer(v, "refresh").token # NoToken
      BY <1>0, RotatedSame, Fields
    <3> QED
      BY <2>8, <3>1, <3>2, Fields DEF Clears
  <2>9. \/ tail'[v] = tail[v]
        \/ \E e \in Tasks :
             /\ Grown(tail[v], tail'[v], e)
             /\ \/ ~ Clears(e)
                \/ CannotRotate(v) /\ refreshing'[v].at = "writing"
        \/ BeginSignOut(v)
        \/ tail[v] # <<>> /\ tail'[v] = Tail(tail[v]) /\ Task(v).do # "write"
        \/ /\ StoreRestores(v) /\ tail[v] # <<>>
           /\ tail'[v] = [tail[v] EXCEPT ![1] = Write("nobody", NoToken)]
    <3> HIDE <1>1, <1>2, <2>2
    <3> QED
      BY <1>0, <1>4, <2>6, <2>7, <2>8, TailMoves
  <2> QED
    BY <2>1, <2>2, <2>3, <2>4, <2>5, <2>9
<1>5. StoreWrites(v) \/ store' = store
  BY <1>0, StoreFlow
<1> QED
  BY <1>3, <1>4, <1>5

LEMMA ClearedInit ==
  ASSUME Init, NEW v \in Vaults
  PROVE  RefusalInv(v) /\ NewsInv(v) /\ CauseInv(v)
<1>1. DOMAIN tail[v] = {} /\ refreshing[v].at = "none"
  BY Fields DEF Init
<1> QED
  BY <1>1 DEF RefusalInv, NewsInv, CauseInv

LEMMA ClearedHolds == ASSUME ~ HasLock PROVE Spec => [](VaultInv /\ UseInv /\ ClearedInv)
<1>1. Init => ClearedInv
  BY ClearedInit, Zenon DEF ClearedInv
<1>2. VaultInv /\ UseInv /\ OnwardInv /\ ClearedInv /\ [Next]_vars => ClearedInv'
  <2> SUFFICES ASSUME VaultInv, UseInv, OnwardInv, ClearedInv, [Next]_vars PROVE ClearedInv'
    OBVIOUS
  <2>1. ASSUME NEW v \in Vaults PROVE RefusalInv(v)' /\ NewsInv(v)' /\ CauseInv(v)'
    BY RefusalStep, NewsStep, CauseStep DEF OnwardInv, ClearedInv
  <2> QED
    BY <2>1 DEF ClearedInv
<1> QED
  BY <1>1, <1>2, OnwardHolds, PTL DEF Spec

\* A vault that is alone: whatever was overtaken or lost, the store is cleared
\* only of a session that a sign-out is for, that is past its end, whose key is
\* gone, or that the book no longer takes (session-vault.ts:255).
THEOREM AloneClears == ASSUME ~ HasLock PROVE Spec => ClearedWithCause
<1>1. ASSUME VaultInv, ClearedInv, [Next]_vars, store # NoToken, store' = NoToken
      PROVE  \/ store.of \in leaving \/ Expired(store) \/ ~ hasKey
             \/ ~ Finds(store)
  <2>1. TypeInv /\ store \in Tokens
    BY <1>1, OfTyped DEF VaultInv, TypeInv, KeptTyped
  <2>2. PICK v \in Vaults : StoreWrites(v)
    BY <1>1, StoreFlow
  <2>3. 1 \in DOMAIN tail[v] /\ Clears(tail[v][1])
    BY <1>1, <2>1, <2>2, StoreHead DEF Clears
  <2>4. Faces(tail[v], store, 1, store)
    <3>1. DOMAIN tail[v] = 1 .. Len(tail[v])
      BY <2>1, LenProperties DEF TypeInv, TailTyped
    <3>2. \A j \in DOMAIN tail[v] : ~ (j < 1)
      BY <3>1
    <3> QED
      BY <3>2 DEF Faces
  <2>5. Cause(store)
    BY <1>1, <2>1, <2>3, <2>4 DEF ClearedInv, CauseInv
  <2>6. ~ Finds(store)
          \/ ~ (rows[store.of].is # "open" \/ store.at + 1 < rows[store.of].at)
    <3>1. rows[store.of].at \in Nat /\ store.at \in Nat
      BY <2>1, OfTyped DEF TypeInv, RowsTyped, Rows, Tokens
    <3> QED
      BY <3>1 DEF Finds, Gone
  <2> QED
    BY <2>5, <2>6 DEF Cause, Void
<1>2. VaultInv /\ UseInv /\ ClearedInv /\ [Next]_vars =>
        [store # NoToken /\ store' = NoToken =>
           \/ store.of \in leaving \/ Expired(store) \/ ~ hasKey
           \/ ~ Finds(store)]_vars
  BY <1>1
<1> QED
  BY <1>2, ClearedHolds, PTL DEF Spec, ClearedWithCause

-----------------------------------------------------------------------------
(* A sign-out that knows no access token, of a vault that is alone: what it
   has in hand is a token its session goes on from. *)

Ending == Write("signOut", NoToken)
Later(q, i) == \E p \in DOMAIN q : p > i /\ q[p] = Ending

\* A vault that knows nothing is to keep nothing, unless a sign-out clears that.
Hushed(q) == \A i \in DOMAIN q : q[i].what # NoToken => Later(q, i)
\* What a sign-out is to read it reads before it clears the store again.
Awaits(q) == \A i \in DOMAIN q : q[i] = Read("signOut") => Later(q, i)
\* A task that clears and is no sign-out's clears what may no longer be used.
Forgets(q, void) ==
  \A i \in DOMAIN q :
    Clears(q[i]) /\ q[i] # Ending /\ ~ Later(q, i) =>
      void /\ \A j \in DOMAIN q : j < i => q[j].what = NoToken

\* The queue r is q with its first task, a restore, about to clear.
Clearing(q, r) ==
  /\ DOMAIN r = DOMAIN q /\ 1 \in DOMAIN q /\ q[1].do = "restore"
  /\ r[1] = Write("nobody", NoToken)
  /\ \A i \in DOMAIN q : i # 1 => r[i] = q[i]

LEMMA LaterMoves ==
  ASSUME NEW q \in Seq(Tasks), NEW r \in Seq(Tasks)
  PROVE  /\ \A e : Grown(q, r, e) =>
              \A i \in DOMAIN q : /\ Later(q, i) => Later(r, i)
                                  /\ Later(r, i) /\ e # Ending => Later(q, i)
         /\ Shifted(q, r) => \A i \in DOMAIN r : Later(r, i) <=> Later(q, i + 1)
         /\ Clearing(q, r) => \A i \in DOMAIN r : Later(r, i) <=> Later(q, i)
         /\ SignsOut(q, r) => \A i \in DOMAIN r : i = Len(q) + 3 \/ Later(r, i)
<1>0. DOMAIN q = 1 .. Len(q) /\ DOMAIN r = 1 .. Len(r) /\ Len(q) \in Nat /\ Len(r) \in Nat
  BY LenProperties
<1>1. ASSUME NEW e, Grown(q, r, e), NEW i \in DOMAIN q
      PROVE  /\ Later(q, i) => Later(r, i)
             /\ Later(r, i) /\ e # Ending => Later(q, i)
  BY <1>1 DEF Grown, Later
<1>2. ASSUME Shifted(q, r), NEW i \in DOMAIN r PROVE Later(r, i) <=> Later(q, i + 1)
  <2>1. ASSUME Later(r, i) PROVE Later(q, i + 1)
    BY <1>0, <1>2, <2>1 DEF Shifted, Later
  <2>2. ASSUME Later(q, i + 1) PROVE Later(r, i)
    <3>1. PICK p \in DOMAIN q : p > i + 1 /\ q[p] = Ending
      BY <2>2 DEF Later
    <3>2. p - 1 \in DOMAIN r /\ r[p - 1] = q[p] /\ p - 1 > i
      BY <1>0, <1>2, <3>1 DEF Shifted
    <3> QED
      BY <3>1, <3>2 DEF Later
  <2> QED
    BY <2>1, <2>2
<1>3. ASSUME Clearing(q, r), NEW i \in DOMAIN r PROVE Later(r, i) <=> Later(q, i)
  BY <1>0, <1>3 DEF Clearing, Later
<1>4. ASSUME SignsOut(q, r), NEW i \in DOMAIN r PROVE i = Len(q) + 3 \/ Later(r, i)
  BY <1>0, <1>4 DEF SignsOut, Later, Ending
<1> QED
  BY <1>1, <1>2, <1>3, <1>4

LEMMA QueueMoves ==
  ASSUME ~ HasLock, TypeInv, [Next]_vars, NEW v \in Vaults
  PROVE  /\ tail[v] \in Seq(Tasks) /\ tail'[v] \in Seq(Tasks)
         /\ \/ tail'[v] = tail[v] /\ store' = store
            \/ \E e \in Tasks :
                 /\ Grown(tail[v], tail'[v], e) /\ store' = store
                 /\ \/ SignInKept(v) /\ e = Write("signIn", Answer(v, "signIn").token)
                    \/ e = RestoreTask
                    \/ BeginRefresh(v) /\ e = Read("refresh")
                    \/ /\ CannotRotate(v) /\ refreshing'[v].at = "writing"
                       /\ e = Write("refresh", NoToken)
                    \/ /\ Rotated(v) /\ RefreshStands(v)
                       /\ e = Write("refresh", Answer(v, "refresh").token)
            \/ BeginSignOut(v) /\ SignsOut(tail[v], tail'[v]) /\ store' = store
            \/ /\ Shifted(tail[v], tail'[v]) /\ Task(v) = tail[v][1]
               /\ \/ StoreReads(v) /\ tail[v][1].do = "read" /\ store' = store
                  \/ StoreWrites(v) /\ tail[v][1].do = "write" /\ store' = tail[v][1].what
                  \/ tail[v][1].do = "restore" /\ store' = store
            \/ /\ Clearing(tail[v], tail'[v]) /\ store' = store
               /\ store # NoToken /\ Expired(store)
            \/ Close(v) /\ tail'[v] = <<>> /\ store' = store
<1>0. /\ TypeInv' /\ tail \in [Vaults -> Seq(Tasks)] /\ tail' \in [Vaults -> Seq(Tasks)]
      /\ \A w \in Vaults : w = v
      /\ refreshing[v].at # "waiting" /\ signOut[v].at # "waiting"
  BY LockAssumption, TypeInvStep DEF TypeInv, TailTyped, RefreshInv
<1>1. ~ RefreshGetsLock(v) /\ ~ SignOutGetsLock(v)
  BY <1>0 DEF RefreshGetsLock, SignOutGetsLock
<1>2. CASE StoreWrites(v)
  <2>1. tail[v] # <<>> /\ Task(v).do = "write" /\ store' = Task(v).what /\ tail'[v] = Tail(tail[v])
    BY <1>0, <1>2 DEF StoreWrites, Taken
  <2> QED
    BY <1>0, <1>2, <2>1, AtTask
<1>3. CASE ~ StoreWrites(v)
  <2>0. store' = store
    BY <1>0, <1>3, StoreFlow
  <2>1. BeginSignOut(v) => SignsOut(tail[v], tail'[v])
    BY SignOutTail
  <2>2. ASSUME tail[v] # <<>>, tail'[v] = Tail(tail[v]), StoreStep(v),
               \/ Task(v).do = "read" /\ StoreReads(v)
               \/ Task(v).do = "restore" /\ StoreRestores(v)
        PROVE  /\ Shifted(tail[v], tail'[v]) /\ Task(v) = tail[v][1]
               /\ \/ StoreReads(v) /\ tail[v][1].do = "read"
                  \/ tail[v][1].do = "restore"
    BY <2>2, AtTask
  <2>3. ASSUME StoreRestores(v), tail[v] # <<>>, Task(v).do = "restore",
               tail'[v] = [tail[v] EXCEPT ![1] = Write("nobody", NoToken)],
               tail'[v] # Tail(tail[v])
        PROVE  Clearing(tail[v], tail'[v]) /\ store # NoToken /\ Expired(store)
    <3>1. store # NoToken /\ Expired(store)
      <4>1. StoreRestores(v) => (store # NoToken /\ Expired(store)) \/ Taken(v)
        BY DEF StoreRestores
      <4>2. Taken(v) => tail'[v] = Tail(tail[v])
        BY <1>0 DEF Taken
      <4> QED
        BY <2>3, <4>1, <4>2
    <3>2. Write("nobody", NoToken) \in Tasks
      BY TasksTyped, NoneTyped
    <3>3. PICK q \in Seq(Tasks) : q = tail[v]
      BY <1>0
    <3>4. Clearing(q, [q EXCEPT ![1] = Write("nobody", NoToken)])
      <4>1. q[1].do = "restore"
        BY <2>3, <3>3, AtTask
      <4> QED
        BY <2>3, <3>2, <3>3, <4>1, Replaced DEF Clearing
    <3> QED
      BY <2>3, <3>1, <3>3, <3>4
  <2>4. (BeginRefresh(v) \/ RefreshGetsLock(v)) => BeginRefresh(v)
    BY <1>1
  <2> QED
    BY <1>0, <1>1, <1>3, <2>0, <2>1, <2>2, <2>3, <2>4, TailMoves
<1> QED
  BY <1>2, <1>3

HushInv(v) == current[v] = NoToken => Hushed(tail[v])
ForgetInv(v) == Forgets(tail[v], store = NoToken \/ Void(store))

LEMMA HushStep ==
  ASSUME ~ HasLock, TypeInv, [Next]_vars, NEW v \in Vaults, CleanInv(v), HushInv(v)
  PROVE  HushInv(v)'
<1> SUFFICES ASSUME current'[v] = NoToken PROVE Hushed(tail'[v])
  BY DEF HushInv
<1>0. PICK q \in Seq(Tasks), r \in Seq(Tasks) : q = tail[v] /\ r = tail'[v]
  BY QueueMoves
<1>1. DOMAIN q = 1 .. Len(q) /\ DOMAIN r = 1 .. Len(r) /\ Len(q) \in Nat /\ Len(r) \in Nat
  BY LenProperties
<1>2. ~ SignInKept(v) /\ ~ (Rotated(v) /\ RefreshStands(v))
  <2>1. SignInKept(v) => current'[v] = Answer(v, "signIn").token /\ Answer(v, "signIn").token \in Tokens
    BY Answered DEF SignInKept, TypeInv, KnownTyped, Kinds
  <2>2. Rotated(v) /\ RefreshStands(v) => current'[v] = Answer(v, "refresh").token
    BY DEF Rotated, TypeInv, KnownTyped
  <2> QED
    BY <2>1, <2>2, RotatedSame, Fields
<1>3. Hushed(q) \/ BeginSignOut(v) \/ Close(v)
  <2>1. CASE current[v] = NoToken
    BY <1>0, <2>1 DEF HushInv
  <2>2. CASE (NothingKept(v) \/ CannotRotate(v)) /\ RefreshStands(v)
    <3>1. Rotating(v)
      BY <2>2 DEF NothingKept, CannotRotate, Rotating
    <3> QED
      BY <1>0, <2>2, <3>1 DEF CleanInv, Hushed
  <2> QED
    BY <1>2, <2>1, <2>2, CurrentMoves
<1>4. \/ r = q
      \/ \E e : Grown(q, r, e) /\ e.what = NoToken
      \/ BeginSignOut(v) /\ SignsOut(q, r)
      \/ Shifted(q, r) \/ Clearing(q, r) \/ r = <<>>
  BY <1>0, <1>2, QueueMoves, Fields
<1>5. CASE r = <<>>
  BY <1>0, <1>5 DEF Hushed
<1>6. CASE SignsOut(q, r)
  <2>1. r[Len(q) + 3].what = NoToken
    BY <1>6, Fields DEF SignsOut
  <2>2. \A i \in DOMAIN r : i = Len(q) + 3 \/ Later(r, i)
    BY <1>6, LaterMoves
  <2> QED
    BY <1>0, <2>1, <2>2 DEF Hushed
<1>7. ASSUME Hushed(q), NEW e, Grown(q, r, e), e.what = NoToken PROVE Hushed(r)
  <2>1. \A i \in DOMAIN q : r[i] = q[i] /\ (Later(q, i) => Later(r, i))
    BY <1>7, LaterMoves DEF Grown
  <2>2. \A i \in DOMAIN r : i \in DOMAIN q \/ r[i] = e
    BY <1>7 DEF Grown
  <2> QED
    BY <1>7, <2>1, <2>2 DEF Hushed
<1>8. CASE Hushed(q) /\ Shifted(q, r)
  <2>1. \A i \in DOMAIN r : Later(r, i) <=> Later(q, i + 1)
    BY <1>8, LaterMoves
  <2>2. \A i \in DOMAIN r : i + 1 \in DOMAIN q /\ r[i] = q[i + 1]
    BY <1>8 DEF Shifted
  <2>3. \A i \in DOMAIN q : q[i].what # NoToken => Later(q, i)
    BY <1>8 DEF Hushed
  <2>4. \A i \in DOMAIN r : r[i].what # NoToken => Later(r, i)
    BY <2>1, <2>2, <2>3
  <2> QED
    BY <1>0, <2>4 DEF Hushed
<1>9. CASE Hushed(q) /\ Clearing(q, r)
  <2>1. \A i \in DOMAIN r : r[i].what = NoToken \/ r[i] = q[i]
    BY <1>9, Fields DEF Clearing
  <2>2. \A i \in DOMAIN r : i \in DOMAIN q /\ (Later(r, i) <=> Later(q, i))
    BY <1>9, LaterMoves DEF Clearing
  <2>3. \A i \in DOMAIN r : r[i].what # NoToken => Later(r, i)
    BY <1>9, <2>1, <2>2 DEF Hushed
  <2> QED
    BY <1>0, <2>3 DEF Hushed
<1>10. Close(v) => r = <<>>
  BY <1>0 DEF Close, TypeInv, TailTyped
<1>11. BeginSignOut(v) => SignsOut(q, r)
  BY <1>0, SignOutTail
<1> QED
  BY <1>0, <1>3, <1>4, <1>5, <1>6, <1>7, <1>8, <1>9, <1>10, <1>11

LEMMA AwaitStep ==
  ASSUME ~ HasLock, TypeInv, [Next]_vars, NEW v \in Vaults, Awaits(tail[v])
  PROVE  Awaits(tail'[v])
<1>0. PICK q \in Seq(Tasks), r \in Seq(Tasks) : q = tail[v] /\ r = tail'[v]
  BY QueueMoves
<1>1. DOMAIN q = 1 .. Len(q) /\ DOMAIN r = 1 .. Len(r) /\ Len(q) \in Nat /\ Len(r) \in Nat
  BY LenProperties
<1> SUFFICES Awaits(r)
  BY <1>0
<1>2. \/ r = q
      \/ \E e : Grown(q, r, e) /\ e # Read("signOut")
      \/ SignsOut(q, r) \/ Shifted(q, r) \/ Clearing(q, r) \/ r = <<>>
  <2>1. ASSUME NEW who, NEW what PROVE Write(who, what) # Read("signOut")
    BY DEF Write, Read
  <2>2. RestoreTask # Read("signOut") /\ Read("refresh") # Read("signOut")
    BY Fields
  <2> QED
    BY <1>0, <2>1, <2>2, QueueMoves
<1>3. CASE SignsOut(q, r)
  <2>1. Read("signOut").do = "read" /\ Write("signOut", NoToken).do = "write"
    BY Fields
  <2>2. r[Len(q) + 3] # Read("signOut")
    BY <1>3, <2>1 DEF SignsOut
  <2> QED
    BY <1>0, <1>3, <2>2, LaterMoves DEF Awaits
<1>4. ASSUME NEW e, Grown(q, r, e), e # Read("signOut") PROVE Awaits(r)
  <2>1. \A i \in DOMAIN q : r[i] = q[i] /\ (Later(q, i) => Later(r, i))
    BY <1>4, LaterMoves DEF Grown
  <2>2. \A i \in DOMAIN r : i \in DOMAIN q \/ r[i] = e
    BY <1>4 DEF Grown
  <2> QED
    BY <1>0, <1>4, <2>1, <2>2 DEF Awaits
<1>5. CASE Shifted(q, r)
  <2>1. \A i \in DOMAIN r : Later(r, i) <=> Later(q, i + 1)
    BY <1>5, LaterMoves
  <2>2. \A i \in DOMAIN r : i + 1 \in DOMAIN q /\ r[i] = q[i + 1]
    BY <1>5 DEF Shifted
  <2>3. \A i \in DOMAIN q : q[i] = Read("signOut") => Later(q, i)
    BY <1>0 DEF Awaits
  <2>4. \A i \in DOMAIN r : r[i] = Read("signOut") => Later(r, i)
    BY <2>1, <2>2, <2>3
  <2> QED
    BY <2>4 DEF Awaits
<1>6. CASE Clearing(q, r)
  <2>1. r[1] # Read("signOut")
    BY <1>6, Fields DEF Clearing
  <2>2. \A i \in DOMAIN r : i \in DOMAIN q /\ (Later(r, i) <=> Later(q, i)) /\ (i = 1 \/ r[i] = q[i])
    BY <1>6, LaterMoves DEF Clearing
  <2> QED
    BY <1>0, <2>1, <2>2 DEF Awaits
<1> QED
  BY <1>0, <1>2, <1>3, <1>4, <1>5, <1>6 DEF Awaits

LEMMA ForgetStep ==
  ASSUME ~ HasLock, TypeInv, UseInv, [Next]_vars, NEW v \in Vaults, CleanInv(v),
         RefusalInv(v), ForgetInv(v)
  PROVE  ForgetInv(v)'
<1>0. PICK q \in Seq(Tasks), r \in Seq(Tasks) : q = tail[v] /\ r = tail'[v]
  BY QueueMoves
<1>1. DOMAIN q = 1 .. Len(q) /\ DOMAIN r = 1 .. Len(r) /\ Len(q) \in Nat /\ Len(r) \in Nat
  BY LenProperties
<1>2. PICK ok \in BOOLEAN : ok <=> (store = NoToken \/ Void(store))
  OBVIOUS
<1>3. PICK fine \in BOOLEAN : fine <=> (store' = NoToken \/ Void(store)')
  OBVIOUS
<1>4. Forgets(q, ok)
  BY <1>0, <1>2 DEF ForgetInv, Forgets
<1>5. store' = store /\ ok => fine
  <2>1. store # NoToken => store \in Tokens /\ store.at <= rows[store.of].at
    BY OfTyped DEF TypeInv, KeptTyped, UseInv, RangeInv, Kept
  <2>2. store # NoToken /\ Void(store) => Void(store)' \/ store' # store
    <3> SUFFICES ASSUME store # NoToken, Void(store), store' = store PROVE Void(store)'
      OBVIOUS
    <3>1. PICK t \in Tokens : t = store
      BY <2>1
    <3>2. Void(t)'
      BY <2>1, <3>1, VoidStays
    <3> QED
      BY <3>1, <3>2 DEF Void, Expired
  <2> QED
    BY <1>2, <1>3, <2>2
<1>6. ASSUME Forgets(r, fine) PROVE ForgetInv(v)'
  BY <1>0, <1>3, <1>6 DEF ForgetInv, Forgets
<1> SUFFICES Forgets(r, fine)
  BY <1>6
<1>7. CASE r = q /\ store' = store
  BY <1>4, <1>5, <1>7 DEF Forgets
<1>8. CASE r = <<>>
  BY <1>8 DEF Forgets
<1>9. CASE SignsOut(q, r)
  <2>0. r[Len(q) + 3] = Ending
    BY <1>9 DEF SignsOut, Ending
  <2>1. \A i \in DOMAIN r : r[i] = Ending \/ Later(r, i)
    BY <1>9, <2>0, LaterMoves
  <2> QED
    BY <2>1 DEF Forgets
<1>10. CASE Clearing(q, r) /\ store' = store /\ store # NoToken /\ Expired(store)
  <2>1. fine
    BY <1>2, <1>5, <1>10 DEF Void
  <2>2. \A i \in DOMAIN r : i \in DOMAIN q /\ (Later(r, i) <=> Later(q, i))
                            /\ (i = 1 \/ r[i] = q[i])
    BY <1>10, LaterMoves DEF Clearing
  <2>3. r[1].what = NoToken
    BY <1>10, Fields DEF Clearing
  <2> QED
    BY <1>1, <1>4, <2>1, <2>2, <2>3 DEF Forgets
<1>11. ASSUME Shifted(q, r), store' = store \/ (q[1].do = "write" /\ store' = q[1].what)
       PROVE  Forgets(r, fine)
  <2> SUFFICES ASSUME NEW i \in DOMAIN r, Clears(r[i]), r[i] # Ending, ~ Later(r, i)
               PROVE  fine /\ \A j \in DOMAIN r : j < i => r[j].what = NoToken
    BY DEF Forgets
  <2>1. /\ i \in Nat /\ i > 0 /\ i + 1 \in DOMAIN q /\ r[i] = q[i + 1] /\ ~ Later(q, i + 1)
        /\ 1 \in DOMAIN q
    BY <1>11, LaterMoves DEF Shifted
  <2>2. ok /\ \A j \in DOMAIN q : j < i + 1 => q[j].what = NoToken
    BY <1>4, <2>1 DEF Forgets
  <2>3. store' = store \/ store' = NoToken
    BY <1>11, <2>1, <2>2
  <2>4. fine
    BY <1>3, <1>5, <2>2, <2>3
  <2>5. \A j \in DOMAIN r : j < i => r[j].what = NoToken
    BY <1>11, <2>1, <2>2 DEF Shifted
  <2> QED
    BY <2>4, <2>5
<1>12. ASSUME NEW e, Grown(q, r, e), store' = store, e # Ending,
              ~ Clears(e) \/ (CannotRotate(v) /\ refreshing'[v].at = "writing")
       PROVE  Forgets(r, fine)
  <2> SUFFICES ASSUME NEW i \in DOMAIN r, Clears(r[i]), r[i] # Ending, ~ Later(r, i)
               PROVE  fine /\ \A j \in DOMAIN r : j < i => r[j].what = NoToken
    BY DEF Forgets
  <2>1. CASE i \in DOMAIN q
    <3>1. r[i] = q[i] /\ ~ Later(q, i)
      BY <1>12, <2>1, LaterMoves DEF Grown
    <3>2. ok /\ \A j \in DOMAIN q : j < i => q[j].what = NoToken
      BY <1>4, <2>1, <3>1 DEF Forgets
    <3>3. \A j \in DOMAIN r : j < i => j \in DOMAIN q /\ r[j] = q[j]
      BY <1>1, <1>12, <2>1 DEF Grown
    <3> QED
      BY <1>5, <1>12, <3>2, <3>3
  <2>2. CASE i = Len(q) + 1 /\ r[i] = e
    <3>1. CannotRotate(v) /\ refreshing'[v].at = "writing"
      BY <1>12, <2>2
    <3>2. ok /\ \A j \in DOMAIN q : q[j].what = NoToken
      BY <1>0, <1>2, <3>1, ForgetsHeld DEF Void, Expired
    <3>3. \A j \in DOMAIN r : j < i => j \in DOMAIN q /\ r[j] = q[j]
      BY <1>1, <1>12, <2>2 DEF Grown
    <3> QED
      BY <1>5, <1>12, <3>2, <3>3
  <2> QED
    BY <1>12, <2>1, <2>2 DEF Grown
<1>13. \/ r = q /\ store' = store
       \/ \E e : /\ Grown(q, r, e) /\ store' = store /\ e # Ending
                 /\ ~ Clears(e) \/ (CannotRotate(v) /\ refreshing'[v].at = "writing")
       \/ SignsOut(q, r)
       \/ Shifted(q, r) /\ (store' = store \/ (q[1].do = "write" /\ store' = q[1].what))
       \/ Clearing(q, r) /\ store' = store /\ store # NoToken /\ Expired(store)
       \/ r = <<>>
  <2>1. \A who, what : Write(who, what) = Ending => who = "signOut"
    BY Fields DEF Ending
  <2>2. \A who, what : Clears(Write(who, what)) => what = NoToken
    BY Fields DEF Clears
  <2>3. RestoreTask # Ending /\ Read("refresh") # Ending
        /\ ~ Clears(RestoreTask) /\ ~ Clears(Read("refresh"))
    BY Fields DEF Ending, Clears
  <2>4. SignInKept(v) => Answer(v, "signIn").token # NoToken
    BY Answered, Fields DEF SignInKept, Kinds
  <2>5. Rotated(v) => Answer(v, "refresh").token # NoToken
    BY RotatedSame, Fields
  <2> QED
    BY <1>0, <2>1, <2>2, <2>3, <2>4, <2>5, QueueMoves
<1> QED
  BY <1>6, <1>7, <1>8, <1>9, <1>10, <1>11, <1>12, <1>13

\* A sign-out that begins has nothing in hand yet.
LEMMA Begun ==
  ASSUME ~ HasLock, TypeInv, NEW v \in Vaults, BeginSignOut(v)
  PROVE  /\ signOut[v].at = "none" /\ signOut'[v].at = "clearing"
         /\ signOut'[v].known = current[v] /\ signOut'[v].view = NoToken
         /\ signOut'[v].joins = (refreshing[v].at # "none")
         /\ UNCHANGED <<store, hasKey, rows, refreshing, calls>>
<1>0. PICK o : /\ o = [NoSignOut EXCEPT !.at = IF HasLock THEN "waiting" ELSE "clearing",
                                        !.known = current[v],
                                        !.joins = refreshing[v].at # "none",
                                        !.meant = {store.of, current[v].of} \ {0}]
               /\ signOut' = [signOut EXCEPT ![v] = o]
  BY DEF BeginSignOut
<1>1. /\ o.at = "clearing" /\ o.known = current[v] /\ o.view = NoToken
      /\ o.joins = (refreshing[v].at # "none")
  BY <1>0 DEF NoSignOut
<1>2. signOut'[v] = o /\ signOut[v].at = "none"
  BY <1>0 DEF BeginSignOut, TypeInv, OpsTyped
<1> QED
  BY <1>1, <1>2 DEF BeginSignOut

\* A refresh that waits for its task has started.
LEMMA TaskWaits ==
  ASSUME TypeInv, NEW v \in Vaults
  PROVE  /\ StoreReads(v) /\ Task(v).who = "refresh" => refreshing[v].at = "reading"
         /\ StoreWrites(v) /\ Task(v).who = "refresh" => refreshing[v].at = "writing"
<1>1. tail[v] # <<>> => 1 \in DOMAIN tail[v] /\ Task(v) = tail[v][1]
  BY AtTask
<1> QED
  BY <1>1 DEF StoreReads, StoreWrites, TypeInv, TailInv, TaskInv, TaskAt

\* What a sign-out remembers changes with its own steps only.
LEMMA SignOutFields ==
  ASSUME ~ HasLock, TypeInv, [Next]_vars, NEW v \in Vaults
  PROVE  LET old == signOut[v]  new == signOut'[v] IN
         \/ new = old
         \/ /\ BeginSignOut(v) /\ old.at = "none" /\ new.at = "clearing"
            /\ new.known = current[v] /\ new.joins = (refreshing[v].at # "none")
            /\ new.view = NoToken
         \/ /\ NothingToSpend(v) \/ SignOutAnswered(v) \/ Close(v)
            /\ new = NoSignOut
         \/ /\ new.known = old.known /\ new.joins = old.joins /\ new.view = old.view
            /\ new.stored = old.stored
            /\ \/ StoreWrites(v) /\ Task(v).who = "signOut" /\ new.at = "cleared"
               \/ Cleared(v) /\ new.at = "joining"
               \/ SpendKept(v) /\ new.at = "spending"
               \/ AskEnd(v) /\ new.at = "ending"
         \/ /\ FinishRefresh(v) /\ old.joins /\ new.at = old.at /\ new.known = old.known
            /\ new.stored = old.stored
            /\ ~ new.joins /\ new.view = refreshing[v].token
         \/ /\ StoreReads(v) /\ new.at = old.at /\ new.known = old.known
            /\ new.joins = old.joins /\ new.view = old.view
            /\ new.stored = (IF Task(v).who = "refresh" THEN old.stored ELSE store)
<1> DEFINE Goal ==
      LET old == signOut[v]  new == signOut'[v] IN
         \/ new = old
         \/ /\ BeginSignOut(v) /\ old.at = "none" /\ new.at = "clearing"
            /\ new.known = current[v] /\ new.joins = (refreshing[v].at # "none")
            /\ new.view = NoToken
         \/ /\ NothingToSpend(v) \/ SignOutAnswered(v) \/ Close(v)
            /\ new = NoSignOut
         \/ /\ new.known = old.known /\ new.joins = old.joins /\ new.view = old.view
            /\ new.stored = old.stored
            /\ \/ StoreWrites(v) /\ Task(v).who = "signOut" /\ new.at = "cleared"
               \/ Cleared(v) /\ new.at = "joining"
               \/ SpendKept(v) /\ new.at = "spending"
               \/ AskEnd(v) /\ new.at = "ending"
         \/ /\ FinishRefresh(v) /\ old.joins /\ new.at = old.at /\ new.known = old.known
            /\ new.stored = old.stored
            /\ ~ new.joins /\ new.view = refreshing[v].token
         \/ /\ StoreReads(v) /\ new.at = old.at /\ new.known = old.known
            /\ new.joins = old.joins /\ new.view = old.view
            /\ new.stored = (IF Task(v).who = "refresh" THEN old.stored ELSE store)
<1>0. /\ signOut \in [Vaults -> SignOuts] /\ \A w \in Vaults : w = v
      /\ ~ SignOutGetsLock(v)
  BY LockAssumption DEF TypeInv, OpsTyped, RefreshInv, SignOutGetsLock
<1>1. ASSUME BeginSignOut(v) PROVE Goal
  BY <1>1, Begun
<1>2. ASSUME NEW at, signOut' = [signOut EXCEPT ![v].at = at]
      PROVE  LET old == signOut[v]  new == signOut'[v] IN
             /\ new.known = old.known /\ new.joins = old.joins /\ new.view = old.view
             /\ new.stored = old.stored /\ new.at = at
  BY <1>0, <1>2 DEF SignOuts
<1>3. ASSUME Cleared(v) \/ SpendKept(v) \/ AskEnd(v) \/ StoreWrites(v) PROVE Goal
  <2>1. Cleared(v) => signOut' = [signOut EXCEPT ![v].at = "joining"]
    BY DEF Cleared
  <2>2. SpendKept(v) => signOut' = [signOut EXCEPT ![v].at = "spending"]
    BY DEF SpendKept
  <2>3. AskEnd(v) => signOut' = [signOut EXCEPT ![v].at = "ending"]
    BY DEF AskEnd
  <2>4. StoreWrites(v) => \/ signOut' = signOut
                          \/ /\ Task(v).who = "signOut"
                             /\ signOut' = [signOut EXCEPT ![v].at = "cleared"]
    BY DEF StoreWrites
  <2> QED
    BY <1>2, <1>3, <2>1, <2>2, <2>3, <2>4
<1>4. ASSUME NothingToSpend(v) \/ SignOutAnswered(v) \/ Close(v) PROVE Goal
  <2>1. signOut' = [signOut EXCEPT ![v] = NoSignOut]
    BY <1>4 DEF NothingToSpend, SignOutAnswered, SignOutOver, Close
  <2> QED
    BY <1>0, <1>4, <2>1
<1>5. ASSUME FinishRefresh(v) PROVE Goal
  <2>1. PICK token : token = refreshing[v].token
    OBVIOUS
  <2>2. \/ signOut' = signOut
        \/ /\ signOut[v].joins
           /\ signOut' = [signOut EXCEPT ![v].joins = FALSE, ![v].view = token]
    BY <1>5, <2>1 DEF FinishRefresh
  <2>3. ASSUME signOut' = [signOut EXCEPT ![v].joins = FALSE, ![v].view = token]
        PROVE  LET old == signOut[v]  new == signOut'[v] IN
               /\ new.at = old.at /\ new.known = old.known /\ new.stored = old.stored
               /\ new.joins = FALSE /\ new.view = token
    BY <1>0, <2>3 DEF SignOuts
  <2> QED
    BY <1>5, <2>1, <2>2, <2>3
<1>6. ASSUME StoreReads(v) PROVE Goal
  BY <1>0, <1>6 DEF StoreReads, SignOuts
<1>7. ASSUME UNCHANGED signOut PROVE Goal
  BY <1>7
<1> HIDE DEF Goal
<1>8. Goal
  BY <1>0, <1>1, <1>3, <1>4, <1>5, <1>6, <1>7, WhoTouches
<1> QED
  BY <1>8 DEF Goal

\* A refresh that was overtaken found a store that is cleared; one that stands
\* and is done has the token its vault knows; the book moves a session on by
\* one; and a request is lost only where one was lost.
OldInv(v) ==
  /\ ~ RefreshStands(v) /\ refreshing[v].at # "none" /\ current[v] = NoToken
  /\ signOut[v].at # "clearing"
  => store = NoToken
DoneInv(v) ==
  RefreshStands(v) /\ refreshing[v].at \in {"writing", "done", "threw"} =>
    refreshing[v].token \in {NoToken, current[v]}
NextInv(v) ==
  refreshing[v].at = "asked" /\ Answer(v, "refresh").at = "answered" =>
    Answer(v, "refresh").token.at = refreshing[v].token.at + 1
LostInv(v) == Answer(v, "signOut").at = "lost" => begun.loss > 0

LEMMA EndsQueue ==
  ASSUME TypeInv, NEW v \in Vaults, HushInv(v), current[v] = NoToken,
         signOut[v].at # "clearing", NEW i \in DOMAIN tail[v]
  PROVE  tail[v][i].what = NoToken /\ tail[v][i] # Ending /\ ~ Later(tail[v], i)
<1>1. \A j \in DOMAIN tail[v] : tail[v][j] # Ending
  BY Fields DEF TypeInv, TailInv, TaskInv, TaskAt, Ending
<1> QED
  BY <1>1 DEF HushInv, Hushed, Later

LEMMA OldStep ==
  ASSUME ~ HasLock, TypeInv, [Next]_vars, NEW v \in Vaults, HushInv(v), OldInv(v)
  PROVE  OldInv(v)'
<1> SUFFICES ASSUME ~ RefreshStands(v)', refreshing'[v].at # "none", current'[v] = NoToken,
                    signOut'[v].at # "clearing"
             PROVE  store' = NoToken
  BY DEF OldInv
<1>0. /\ refreshing \in [Vaults -> Refreshes] /\ signOut \in [Vaults -> SignOuts]
      /\ current \in [Vaults -> Maybe] /\ \A w \in Vaults : w = v
  BY LockAssumption DEF TypeInv, OpsTyped, KnownTyped
<1>1. ~ Close(v) /\ ~ BeginSignOut(v) /\ ~ SignInKept(v)
  <2>1. Close(v) => refreshing' = [refreshing EXCEPT ![v] = NoRefresh]
    BY DEF Close
  <2>2. ~ Close(v)
    BY <1>0, <2>1, Fields
  <2>3. ~ BeginSignOut(v)
    BY Begun
  <2>4. SignInKept(v) => current'[v] = Answer(v, "signIn").token /\ Answer(v, "signIn").token \in Tokens
    BY <1>0, Answered DEF SignInKept, Kinds
  <2> QED
    BY <2>2, <2>3, <2>4, Fields
<1>2. epoch'[v] = epoch[v]
  BY <1>1, EpochBy
<1>3. /\ refreshing'[v].epoch = refreshing[v].epoch /\ refreshing[v].at # "none"
  <2>1. refreshing'[v] # NoRefresh /\ refreshing'[v] # Rotation(v)
    BY <1>2, Fields DEF RefreshStands
  <2> QED
    BY <2>1, RefreshMoves, TaskWaits
<1>4. ~ RefreshStands(v)
  BY <1>2, <1>3 DEF RefreshStands
<1>5. current[v] = NoToken
  BY <1>1, <1>4, CurrentMoves
<1>6. CASE signOut[v].at = "clearing"
  <2>1. StoreWrites(v) /\ Task(v).who = "signOut"
    BY <1>1, <1>6, SignOutFields DEF Cleared, SpendKept, AskEnd, NothingToSpend, SignOutAnswered
  <2> QED
    BY <2>1, StoreHead DEF TypeInv, TailInv, TaskInv, TaskAt
<1>7. CASE signOut[v].at # "clearing"
  <2>1. store = NoToken
    BY <1>3, <1>4, <1>5, <1>7 DEF OldInv
  <2>2. StoreWrites(v) => store' = NoToken
    BY <1>5, <1>7, StoreHead, EndsQueue
  <2> QED
    BY <1>0, <2>1, <2>2, StoreFlow
<1> QED
  BY <1>6, <1>7

LEMMA DoneStep ==
  ASSUME TypeInv, [Next]_vars, NEW v \in Vaults, DoneInv(v)
  PROVE  DoneInv(v)'
<1> SUFFICES ASSUME RefreshStands(v)', refreshing'[v].at \in {"writing", "done", "threw"}
             PROVE  refreshing'[v].token \in {NoToken, current'[v]}
  BY DEF DoneInv
<1>0. /\ refreshing \in [Vaults -> Refreshes] /\ current \in [Vaults -> Maybe]
  BY DEF TypeInv, OpsTyped, KnownTyped
<1>1. ~ Close(v)
  BY <1>0, Fields DEF Close
<1>2. ~ SignInKept(v) /\ ~ BeginSignOut(v)
  BY Overtaken
<1>3. refreshing'[v].epoch = refreshing[v].epoch
  BY <1>1, RefreshMoves, Fields
<1>4. RefreshStands(v)
  BY <1>1, <1>3, StandsBack
<1>5. CASE Rotated(v)
  <2>1. current' = [current EXCEPT ![v] = Answer(v, "refresh").token]
    BY <1>4, <1>5 DEF Rotated
  <2>2. refreshing'[v].token = Answer(v, "refresh").token
    <3>1. PICK token : token = Answer(v, "refresh").token
      OBVIOUS
    <3>2. refreshing' = [refreshing EXCEPT ![v].at = "writing", ![v].token = token]
      BY <1>4, <1>5, <3>1 DEF Rotated
    <3> QED
      BY <1>0, <3>1, <3>2 DEF Refreshes
  <2> QED
    BY <1>0, <2>1, <2>2
<1>6. CASE ~ Rotated(v) /\ refreshing'[v].token # NoToken
  <2>1. refreshing[v].at \in {"writing", "done", "threw"} /\ refreshing'[v].token = refreshing[v].token
    BY <1>6, RefreshMoves, Fields, TaskWaits
  <2>2. current'[v] = current[v]
    BY <1>1, <1>2, <1>6, <2>1, CurrentMoves DEF NothingKept, CannotRotate
  <2> QED
    BY <1>4, <2>1, <2>2 DEF DoneInv
<1> QED
  BY <1>5, <1>6

LEMMA NextStep ==
  ASSUME TypeInv, [Next]_vars, NEW v \in Vaults, RefusalInv(v), NextInv(v)
  PROVE  NextInv(v)'
<1> SUFFICES ASSUME refreshing'[v].at = "asked", calls'[<<v, "refresh">>].at = "answered"
             PROVE  calls'[<<v, "refresh">>].token.at = refreshing'[v].token.at + 1
  BY DEF NextInv, Answer
<1>0. TypeInv' /\ calls \in [Slots -> Calls]
  BY TypeInvStep DEF TypeInv, CallsTyped
<1>1. PICK o \in Slots : o = <<v, "refresh">>
  BY NoneTyped DEF Kinds
<1>2. calls'[o].what = "refresh"
  BY <1>0, <1>1 DEF TypeInv, RefreshInv, Answer
<1>3. ~ AskRotation(v)
  <2>1. AskRotation(v) => calls' = [calls EXCEPT ![o] = Call("refresh", refreshing[v].token)]
    BY <1>1 DEF AskRotation, Asks
  <2>2. Call("refresh", refreshing[v].token).at = "sent"
    BY DEF Call
  <2> QED
    BY <1>0, <1>1, <2>1, <2>2
<1>4. refreshing'[v] = refreshing[v]
  BY <1>3, RefreshMoves, Fields
<1>5. \A w \in Vaults : o # <<w, "signOut">> /\ o # <<w, "stray">> /\ (o = <<w, "refresh">> => w = v)
  BY <1>1
<1>6. \/ calls'[o].token = calls[o].token /\ calls[o].at = "answered"
      \/ calls[o].at \in {"sent", "read"} /\ calls'[o].token.at = calls[o].token.at + 1
  BY <1>1, <1>2, <1>3, <1>5, CallsFlow
<1> QED
  BY <1>1, <1>4, <1>6 DEF NextInv, RefusalInv, Answer

\* How the request of a call changes: the call makes it or hangs up, the book
\* answers it, or it gets lost.
LEMMA CallMoves ==
  ASSUME TypeInv, [Next]_vars, NEW v \in Vaults, NEW kind \in Kinds, NEW o, o = <<v, kind>>
  PROVE  \/ calls'[o] = calls[o]
         \/ /\ calls'[o] = NoCall
            /\ kind = "signOut" => NothingToSpend(v) \/ SignOutAnswered(v) \/ Close(v)
         \/ /\ \E what, token : calls'[o] = Call(what, token)
            /\ kind = "signOut" => SpendKept(v) \/ AskEnd(v)
         \/ o \in Slots /\ BookStep(o)
         \/ o \in Slots /\ CallLost(o)
<1> DEFINE Goal == \/ calls'[o] = calls[o]
                   \/ /\ calls'[o] = NoCall
                      /\ kind = "signOut" => NothingToSpend(v) \/ SignOutAnswered(v) \/ Close(v)
                   \/ /\ \E what, token : calls'[o] = Call(what, token)
                      /\ kind = "signOut" => SpendKept(v) \/ AskEnd(v)
                   \/ o \in Slots /\ BookStep(o)
                   \/ o \in Slots /\ CallLost(o)
<1>0. /\ calls \in [Slots -> Calls] /\ o \in Slots
      /\ \A w \in Vaults, k \in Kinds : <<w, k>> \in Slots
  BY NoneTyped DEF TypeInv, CallsTyped
<1>1. ASSUME NEW w \in Vaults, NEW k \in Kinds, NEW c, calls' = [calls EXCEPT ![<<w, k>>] = c]
      PROVE  calls'[o] = calls[o] \/ (w = v /\ k = kind /\ calls'[o] = c)
  <2>1. PICK p \in Slots : p = <<w, k>>
    BY <1>0
  <2> QED
    BY <1>0, <1>1, <2>1
<1>2. ASSUME NEW w \in Vaults, NEW k \in Kinds, HangsUp(w, k)
      PROVE  calls'[o] = calls[o] \/ (w = v /\ k = kind /\ calls'[o] = NoCall)
  BY <1>1, <1>2 DEF HangsUp, Asks
<1>3. ASSUME NEW w \in Vaults, NEW k \in Kinds, NEW what, NEW token, Asks(w, k, Call(what, token))
      PROVE  \/ calls'[o] = calls[o]
             \/ w = v /\ k = kind /\ \E a, b : calls'[o] = Call(a, b)
  BY <1>1, <1>3 DEF Asks
<1>4. ASSUME NEW p \in Slots, p # o, BookStep(p) \/ CallLost(p) PROVE calls'[o] = calls[o]
  <2>1. ASSUME NEW x, NEW y, \/ calls' = [calls EXCEPT ![p].at = x, ![p].token = y]
                             \/ calls' = [calls EXCEPT ![p].at = x]
        PROVE  calls'[o] = calls[o]
    BY <1>0, <1>4, <2>1
  <2>2. OpenSession(p) => calls'[o] = calls[o]
    BY <2>1 DEF OpenSession, Answers
  <2>3. Replay(p) \/ EndRow(p) => calls'[o] = calls[o]
    BY <2>1 DEF Replay, EndRow, Answers, Refuses
  <2>4. ASSUME NEW x, calls' = [calls EXCEPT ![p].at = x] PROVE calls'[o] = calls[o]
    BY <1>0, <1>4, <2>4
  <2>5. ReadRow(p) => calls'[o] = calls[o]
    <3>1. ReadRow(p) => Replay(p) \/ \E x \in {"refused", "read"} : calls' = [calls EXCEPT ![p].at = x]
      BY DEF ReadRow, Refuses
    <3> QED
      BY <2>3, <2>4, <3>1
  <2>6. WriteRow(p) => calls'[o] = calls[o]
    <3>1. WriteRow(p) => Replay(p) \/ \E y : Answers(p, y)
      BY DEF WriteRow
    <3>2. ASSUME NEW y, Answers(p, y) PROVE calls'[o] = calls[o]
      BY <2>1, <3>2 DEF Answers
    <3> QED
      BY <2>3, <3>1, <3>2
  <2> QED
    BY <1>4, <2>2, <2>3, <2>4, <2>5, <2>6 DEF BookStep, CallLost
<1>5. ASSUME NEW w \in Vaults, Close(w) PROVE Goal
  <2>1. PICK k \in Kinds :
          calls' = [p \in Slots |-> IF p = <<w, "stray">> THEN calls[<<w, k>>]
                                    ELSE IF p[1] = w THEN NoCall ELSE calls[p]]
    BY <1>5 DEF Close
  <2>2. o # <<w, "stray">>
    BY DEF Kinds
  <2>3. o[1] = v /\ calls'[o] = (IF o[1] = w THEN NoCall ELSE calls[o])
    BY <1>0, <2>1, <2>2
  <2> QED
    BY <1>5, <2>3
<1>6. UNCHANGED calls => Goal
  OBVIOUS
<1> HIDE DEF Goal
<1>7. ASSUME NEW w \in Vaults,
             \/ BeginSignIn(w) \/ SignInKept(w) \/ SignInOvertaken(w) \/ SignInOver(w)
             \/ CannotRotate(w) \/ AskRotation(w) \/ Rotated(w) \/ RotationLost(w)
             \/ SpendKept(w) \/ NothingToSpend(w) \/ AskEnd(w) \/ SignOutAnswered(w)
      PROVE  Goal
  <2>1. "signIn" \in Kinds /\ "refresh" \in Kinds /\ "signOut" \in Kinds
    BY DEF Kinds
  <2> USE DEF Goal
  <2>2. SignInKept(w) \/ SignInOver(w) \/ CannotRotate(w) \/ Rotated(w)
          \/ RotationLost(w) \/ NothingToSpend(w) \/ SignOutAnswered(w) => Goal
    BY <1>2, <2>1 DEF SignInKept, SignInOver, CannotRotate, Rotated, RotationLost, NothingToSpend,
       SignOutAnswered, SignOutOver
  <2>3. BeginSignIn(w) \/ SignInOvertaken(w) \/ AskRotation(w) \/ SpendKept(w) \/ AskEnd(w) => Goal
    BY <1>3, <2>1 DEF BeginSignIn, SignInOvertaken, AskRotation, SpendKept, AskEnd
  <2> QED
    BY <1>7, <2>2, <2>3
<1>8. ASSUME NEW p \in Slots, BookStep(p) \/ CallLost(p) PROVE Goal
  BY <1>0, <1>4, <1>8 DEF Goal
<1>9. Goal
  BY <1>5, <1>6, <1>7, <1>8, WhoTouches
<1> QED
  BY <1>9 DEF Goal

\* What the book makes of a request it did not answer yet.
LEMMA BookAnswers ==
  ASSUME TypeInv, NEW o \in Slots, BookStep(o)
  PROVE  /\ calls'[o].at \in {"read", "answered", "refused"}
         /\ calls[o].at \in {"sent", "read"} /\ calls'[o].what = calls[o].what
         /\ calls[o].what = "end" =>
              /\ EndRow(o) /\ calls'[o].token = calls[o].token
              /\ calls'[o].at \in {"answered", "refused"}
<1>0. /\ calls \in [Slots -> Calls] /\ CallInv(calls[o])
  BY DEF TypeInv, CallsTyped
<1>1. ASSUME NEW x, NEW y, \/ calls' = [calls EXCEPT ![o].at = x, ![o].token = y]
                           \/ y = calls[o].token /\ calls' = [calls EXCEPT ![o].at = x]
      PROVE  calls'[o].what = calls[o].what /\ calls'[o].at = x /\ calls'[o].token = y
  BY <1>0, <1>1 DEF Calls
<1>2. PICK token : token = calls[o].token
  OBVIOUS
<1>3. ASSUME NEW x \in {"read", "refused"}, calls' = [calls EXCEPT ![o].at = x]
      PROVE  /\ calls'[o].what = calls[o].what /\ calls'[o].at = x
             /\ calls'[o].token = calls[o].token
  BY <1>1, <1>2, <1>3
<1>4. ASSUME NEW y, Answers(o, y)
      PROVE  calls'[o].what = calls[o].what /\ calls'[o].at = "answered" /\ calls'[o].token = y
  BY <1>1, <1>4 DEF Answers
<1>5. CASE OpenSession(o)
  BY <1>4, <1>5 DEF OpenSession, Sent
<1>6. CASE EndRow(o)
  <2>1. Sent(o, "end") /\ (Answers(o, token) \/ Refuses(o))
    BY <1>2, <1>6 DEF EndRow
  <2> QED
    BY <1>2, <1>3, <1>4, <1>6, <2>1 DEF Sent, Refuses
<1>7. CASE ReadRow(o) \/ WriteRow(o)
  <2>1. calls[o].what = "refresh" /\ calls[o].at \in {"sent", "read"}
    BY <1>0, <1>7 DEF ReadRow, WriteRow, Sent, CallInv
  <2>2. Replay(o) => Refuses(o) \/ \E y : Answers(o, y)
    BY DEF Replay
  <2>3. Refuses(o) \/ (\E y : Answers(o, y)) \/ calls' = [calls EXCEPT ![o].at = "read"]
    BY <1>7, <2>2 DEF ReadRow, WriteRow
  <2> QED
    BY <1>3, <1>4, <2>1, <2>3 DEF Refuses
<1> QED
  BY <1>5, <1>6, <1>7 DEF BookStep

LEMMA LostStep ==
  ASSUME TypeInv, [Next]_vars, NEW v \in Vaults, NEW kind \in Kinds,
         Answer(v, kind).at = "lost" => begun.loss > 0,
         calls'[<<v, kind>>].at = "lost"
  PROVE  begun'.loss > 0
<1>0. /\ "loss" \in DOMAIN Bound /\ calls \in [Slots -> Calls]
      /\ begun \in [DOMAIN Bound -> Nat]
  BY DEF Bound, TypeInv, CallsTyped, CountTyped
<1>1. begun.loss \in Nat /\ begun'.loss \in Nat /\ begun.loss <= begun'.loss
  BY <1>0, BegunStep
<1>2. PICK o : o = <<v, kind>>
  OBVIOUS
<1>3. CASE calls'[o] = calls[o]
  BY <1>1, <1>2, <1>3 DEF Answer
<1>4. CASE o \in Slots /\ BookStep(o)
  BY <1>2, <1>4, BookAnswers
<1>5. CASE o \in Slots /\ CallLost(o)
  BY <1>0, <1>1, <1>5 DEF CallLost, Begins
<1>6. NoCall.at = "none" /\ \A what, token : Call(what, token).at = "sent"
  BY DEF NoCall, Call
<1> QED
  BY <1>2, <1>3, <1>4, <1>5, <1>6, CallMoves

\* An access token is good again only once its session moved on.
LEMMA LiveFlow ==
  ASSUME TypeInv, [Next]_vars, NEW s \in Sessions, rows'[s].live, rows'[s].at = rows[s].at
  PROVE  rows[s].live
<1>0. rows \in [Sessions -> Rows]
  BY DEF TypeInv, RowsTyped
<1>1. ASSUME NEW o \in Slots, OpenSession(o) PROVE rows[s].live
  <2>1. PICK u \in Sessions, r \in {[NoRow EXCEPT !.at = 1, !.is = "open", !.live = TRUE]} :
          rows[u].at = 0 /\ rows' = [rows EXCEPT ![u] = r]
    BY <1>1 DEF OpenSession
  <2>2. r.at = 1
    BY DEF NoRow
  <2> QED
    BY <1>0, <2>1, <2>2
<1>2. ASSUME NEW u, NEW x, rows' = [rows EXCEPT ![u].is = x] PROVE rows[s].live
  BY <1>0, <1>2 DEF Rows
<1>3. ASSUME NEW u, rows' = [rows EXCEPT ![u].at = @ + 1, ![u].fresh = TRUE, ![u].live = TRUE]
      PROVE  rows[s].live
  <2>1. CASE u # s
    BY <1>0, <1>3, <2>1
  <2>2. CASE u = s
    <3>1. PICK r : r = [rows EXCEPT ![s].at = @ + 1]
      OBVIOUS
    <3>2. r \in [Sessions -> Rows] /\ r[s].at = rows[s].at + 1
      BY <1>0, <3>1 DEF Rows
    <3>3. rows' = [r EXCEPT ![s].fresh = TRUE, ![s].live = TRUE]
      BY <1>0, <1>3, <2>2, <3>1
    <3>4. rows'[s].at = rows[s].at + 1 /\ rows[s].at \in Nat
      BY <1>0, <3>2, <3>3 DEF Rows
    <3> QED
      BY <3>4
  <2> QED
    BY <2>1, <2>2
<1>4. ASSUME NEW o \in Slots, BookStep(o) PROVE rows[s].live
  <2>1. OpenSession(o) \/ rows' = rows
          \/ \E u \in {calls[o].token.of} :
               \/ \E x : rows' = [rows EXCEPT ![u].is = x]
               \/ rows' = [rows EXCEPT ![u].at = @ + 1, ![u].fresh = TRUE, ![u].live = TRUE]
    BY <1>4 DEF BookStep, ReadRow, WriteRow, EndRow, Replay
  <2> QED
    BY <1>1, <1>2, <1>3, <2>1
<1>5. ASSUME NEW u \in Sessions, ClockMoves(u) PROVE rows[s].live
  <2>1. \/ rows' = [rows EXCEPT ![u].live = FALSE]
        \/ \E x : rows' = [rows EXCEPT ![u].fresh = x]
        \/ \E x : rows' = [rows EXCEPT ![u].past = x]
    BY <1>5 DEF ClockMoves
  <2> QED
    BY <1>0, <2>1 DEF Rows
<1> QED
  BY <1>4, <1>5, WhoTouches

-----------------------------------------------------------------------------
(* What a sign-out that knows no access token still owes its session. *)

Pending(v) == \E i \in DOMAIN tail[v] : tail[v][i] = Read("signOut")

\* The token the sign-out read, or is to read.
Base(v) == IF Pending(v) THEN store ELSE signOut[v].stored

\* s is still open, and the sign-out v has under way could end it.
Owed(v, s) ==
  /\ s \in signOut[v].meant /\ signOut[v].known = NoToken
  /\ hasKey /\ rows[s].past = 0 /\ rows[s].is = "open"

\* t is of the rotation after the token the sign-out read.
Brings(v, s, t) == t.of = s /\ t.at = Base(v).at + 1 /\ t.at <= rows[s].at

HeldInv(v, s) ==
  /\ Base(v).of = s /\ NoTask(v, s)
  /\ \A i, j \in DOMAIN tail[v] :
       tail[v][i] = Read("signOut") /\ j < i => tail[v][j].do # "write"
TopInv(v, s) ==
  /\ rows[s].at <= Base(v).at + 1
  /\ \A t \in Tokens : Used(t) /\ t.of = s => t.at <= Base(v).at

\* The refresh it joins goes on from the same token, or ends with none.
JoinInv(v, s) ==
  signOut[v].joins =>
    /\ refreshing[v].at # "none" /\ ~ RefreshStands(v)
    /\ Rotating(v) => refreshing[v].token \in {NoToken, Base(v)}
    /\ refreshing[v].at \in {"writing", "done", "threw"} =>
         refreshing[v].token = NoToken \/ Brings(v, s, refreshing[v].token)
    /\ \A i \in DOMAIN tail[v] : tail[v][i] = Read("refresh") =>
         \E j \in DOMAIN tail[v] : j > i /\ tail[v][j] = Read("signOut")

\* What it has in hand, spends or ends the session with.
HandInv(v, s) ==
  /\ signOut[v].view = NoToken \/ Brings(v, s, signOut[v].view)
  /\ signOut[v].at = "spending" =>
       /\ Answer(v, "signOut").what = "refresh" /\ Answer(v, "signOut").at # "refused"
       /\ Answer(v, "signOut").at \in {"sent", "read"} =>
            Answer(v, "signOut").token = signOut[v].stored
       /\ Answer(v, "signOut").at = "answered" => Brings(v, s, Answer(v, "signOut").token)
  /\ signOut[v].at = "ending" =>
       /\ Answer(v, "signOut").what = "end" /\ Answer(v, "signOut").at # "answered"
       /\ Brings(v, s, Answer(v, "signOut").token)
       /\ Answer(v, "signOut").at = "refused" => ~ rows[s].live

OwedInv(v) ==
  \A s \in Sessions :
    Owed(v, s) => HeldInv(v, s) /\ TopInv(v, s) /\ JoinInv(v, s) /\ HandInv(v, s)

\* Once the store is cleared nothing is to be read any more.
LEMMA NotPending ==
  ASSUME TypeInv, NEW v \in Vaults, Awaits(tail[v]), signOut[v].at # "clearing"
  PROVE  ~ Pending(v) /\ Base(v) = signOut[v].stored
<1>1. \A i \in DOMAIN tail[v] : tail[v][i] # Ending
  BY Fields DEF TypeInv, TailInv, TaskInv, TaskAt, Ending
<1>2. ~ Pending(v)
  BY <1>1 DEF Pending, Awaits, Later
<1> QED
  BY <1>2 DEF Base

\* A session is owed by the sign-out that began for it.
LEMMA OwedBack ==
  ASSUME ~ HasLock, VaultInv, [Next]_vars, NEW v \in Vaults, NEW s \in Sessions,
         Owed(v, s)', ~ BeginSignOut(v)
  PROVE  Owed(v, s) /\ signOut'[v] # NoSignOut /\ ~ Close(v) /\ rows[s].at # 0
<1>0. /\ s \in signOut'[v].meant /\ signOut'[v].known = NoToken
      /\ hasKey' /\ rows'[s].past = 0 /\ rows'[s].is = "open"
      /\ TypeInv /\ rows \in [Sessions -> Rows] /\ signOut \in [Vaults -> SignOuts]
  BY DEF Owed, VaultInv, TypeInv, RowsTyped, OpsTyped
<1>1. signOut'[v] # NoSignOut
  BY <1>0, Fields
<1>2. ~ Close(v)
  BY <1>0, <1>1 DEF Close
<1>3. s \in signOut[v].meant
  BY <1>0, MeantFlow
<1>4. rows[s].at # 0
  BY <1>3 DEF VaultInv, FreshInv, Nowhere
<1>5. signOut[v].known = NoToken
  BY <1>0, <1>1, SignOutFields
<1>6. hasKey
  <2>1. \A w \in Vaults : StoreWrites(w) => hasKey' = hasKey
    BY DEF StoreWrites, around
  <2> QED
    BY <1>0, <2>1, WhoTouches DEF KeyLost
<1>7. rows[s].past = 0
  <2>1. rows[s].past \in Nat
    BY <1>0 DEF Rows
  <2> QED
    BY <1>0, <1>4, <2>1, PastFlow
<1>8. rows[s].is = "open"
  BY <1>0, <1>4, IsStays
<1> QED
  BY <1>1, <1>2, <1>3, <1>4, <1>5, <1>6, <1>7, <1>8 DEF Owed

\* The token the sign-out reads stays what it is until it is read, and then.
LEMMA BaseStays ==
  ASSUME ~ HasLock, TypeInv, [Next]_vars, NEW v \in Vaults, QueueInv(v),
         ~ BeginSignOut(v), signOut'[v] # NoSignOut, ~ Close(v),
         \A i, j \in DOMAIN tail[v] :
           tail[v][i] = Read("signOut") /\ j < i => tail[v][j].do # "write"
  PROVE  Base(v)' = Base(v)
<1>0. PICK q \in Seq(Tasks), r \in Seq(Tasks) : q = tail[v] /\ r = tail'[v]
  BY QueueMoves
<1>1. DOMAIN q = 1 .. Len(q) /\ DOMAIN r = 1 .. Len(r) /\ Len(q) \in Nat /\ Len(r) \in Nat
  BY LenProperties
<1>2. /\ Pending(v) <=> \E i \in DOMAIN q : q[i] = Read("signOut")
      /\ Pending(v)' <=> \E i \in DOMAIN r : r[i] = Read("signOut")
  BY <1>0 DEF Pending
<1>3. CASE StoreReads(v) /\ Task(v).who # "refresh"
  <2>1. store' = store /\ signOut'[v].stored = store
    BY <1>3 DEF StoreReads, TypeInv, OpsTyped, SignOuts
  <2>2. Pending(v)
    <3>1. q # <<>> /\ Task(v).do = "read"
      BY <1>0, <1>3 DEF StoreReads
    <3>2. 1 \in DOMAIN q /\ Task(v) = q[1]
      BY <1>0, <3>1, AtTask
    <3>3. q[1] = Read("signOut")
      BY <1>0, <1>3, <3>1, <3>2, Fields DEF QueueInv
    <3> QED
      BY <1>2, <3>2, <3>3
  <2> QED
    BY <2>1, <2>2 DEF Base
<1>4. CASE ~ (StoreReads(v) /\ Task(v).who # "refresh")
  <2>1. signOut'[v].stored = signOut[v].stored
    BY <1>4, SignOutFields
  <2>2. \/ r = q /\ store' = store
        \/ \E e : Grown(q, r, e) /\ store' = store /\ e # Read("signOut")
        \/ /\ Shifted(q, r) /\ q[1] # Read("signOut")
           /\ store' = store \/ q[1].do = "write"
        \/ Clearing(q, r) /\ store' = store
    <3>1. ASSUME NEW who, NEW what PROVE Write(who, what) # Read("signOut")
      BY DEF Write, Read
    <3>2. RestoreTask # Read("signOut") /\ Read("refresh") # Read("signOut")
      BY Fields
    <3>3. Read("signOut").do = "read" /\ Read("signOut").who # "refresh"
      BY Fields
    <3>4. StoreReads(v) => Task(v).who = "refresh"
      BY <1>4
    <3> QED
      BY <1>0, <3>1, <3>2, <3>3, <3>4, QueueMoves
  <2>3. ASSUME NEW p \in DOMAIN q, q[p] = Read("signOut")
        PROVE  store' = store /\ \E i \in DOMAIN r : r[i] = Read("signOut")
    <3>1. CASE Shifted(q, r) /\ q[1] # Read("signOut") /\ (store' = store \/ q[1].do = "write")
      <4>1. p > 1 /\ p - 1 \in DOMAIN r /\ r[p - 1] = q[p] /\ 1 \in DOMAIN q
        BY <2>3, <3>1 DEF Shifted
      <4>2. q[1].do # "write"
        BY <1>0, <1>1, <2>3, <4>1
      <4> QED
        BY <2>3, <3>1, <4>1, <4>2
    <3>2. CASE Clearing(q, r) /\ store' = store
      <4>1. Read("signOut").do = "read"
        BY Fields
      <4> QED
        BY <2>3, <3>2, <4>1 DEF Clearing
    <3>3. ASSUME NEW e, Grown(q, r, e) PROVE p \in DOMAIN r /\ r[p] = q[p]
      BY <2>3, <3>3 DEF Grown
    <3> QED
      BY <2>2, <2>3, <3>1, <3>2, <3>3
  <2>4. ASSUME NEW p \in DOMAIN r, r[p] = Read("signOut")
        PROVE  \E i \in DOMAIN q : q[i] = Read("signOut")
    <3>1. CASE Shifted(q, r)
      BY <2>4, <3>1 DEF Shifted
    <3>2. CASE Clearing(q, r)
      <4>1. Read("signOut").do = "read" /\ Write("nobody", NoToken).do = "write"
        BY Fields
      <4> QED
        BY <2>4, <3>2, <4>1 DEF Clearing
    <3>3. ASSUME NEW e, Grown(q, r, e), e # Read("signOut") PROVE p \in DOMAIN q /\ r[p] = q[p]
      BY <2>4, <3>3 DEF Grown
    <3> QED
      BY <2>2, <2>4, <3>1, <3>2, <3>3
  <2>5. Pending(v)' <=> Pending(v)
    BY <1>2, <2>3, <2>4
  <2>6. Pending(v) => store' = store
    BY <1>2, <2>3
  <2> QED
    BY <2>1, <2>5, <2>6 DEF Base
<1> QED
  BY <1>3, <1>4

\* A sign-out that begins owes the session that is kept, and nothing is on its
\* way to the store.
LEMMA OwedBegins ==
  ASSUME ~ HasLock, VaultInv, UseInv, [Next]_vars, NEW v \in Vaults, NEW s \in Sessions,
         HushInv(v), ForgetInv(v), Awaits(tail[v]), OldInv(v), DoneInv(v), CleanInv(v),
         BeginSignOut(v), Owed(v, s)'
  PROVE  HeldInv(v, s)' /\ TopInv(v, s)' /\ JoinInv(v, s)' /\ HandInv(v, s)'
<1>0. /\ TypeInv /\ signOut \in [Vaults -> SignOuts] /\ ~ Close(v)
      /\ s \in signOut'[v].meant /\ signOut'[v].known = NoToken
      /\ hasKey' /\ rows'[s].past = 0 /\ rows'[s].is = "open"
  <2>1. TypeInv /\ signOut \in [Vaults -> SignOuts]
    BY DEF VaultInv, TypeInv, OpsTyped
  <2>2. signOut'[v].at = "clearing"
    BY <2>1, Begun
  <2>3. ~ Close(v)
    BY <2>1, <2>2, Fields DEF Close
  <2> QED
    BY <2>1, <2>3 DEF Owed
<1>1. /\ signOut[v].at = "none" /\ signOut'[v].at = "clearing" /\ current[v] = NoToken
      /\ signOut'[v].view = NoToken /\ signOut'[v].joins = (refreshing[v].at # "none")
      /\ UNCHANGED <<store, hasKey, rows, refreshing, calls>>
  BY <1>0, Begun
<1>2. store.of = s /\ store \in Tokens
  <2>1. NoSignOut.meant = {} /\ NoToken.of # s
    BY Fields
  <2>2. signOut'[v].meant = {store.of, current[v].of} \ {0}
    <3>1. NoSignOut.at = "none"
      BY Fields
    <3> QED
      BY <1>0, <1>1, <3>1, SignOutMoves
  <2>3. store.of = s
    BY <1>0, <1>1, <2>1, <2>2
  <2> QED
    BY <1>0, <2>1, <2>3, OfTyped DEF TypeInv, KeptTyped
<1>3. PICK q \in Seq(Tasks), r \in Seq(Tasks) : q = tail[v] /\ r = tail'[v]
  BY <1>0, QueueMoves
<1>4. SignsOut(q, r)
  BY <1>0, <1>3, SignOutTail
<1>5. DOMAIN q = 1 .. Len(q) /\ DOMAIN r = 1 .. Len(r) /\ Len(q) \in Nat /\ Len(r) \in Nat
  BY LenProperties
<1>6. \A i \in DOMAIN q : q[i].what = NoToken /\ q[i] # Ending /\ ~ Later(q, i)
  BY <1>0, <1>1, <1>3, EndsQueue
<1>7. Kept(store) /\ Used(store)
  BY DEF Kept, Used
<1>8. /\ store.at <= rows[s].at /\ rows[s].at <= store.at + 1
      /\ store.at \in Nat /\ store.at > 0 /\ rows[s].at \in Nat
  BY <1>0, <1>2, <1>7 DEF UseInv, RangeInv, Tokens, TypeInv, RowsTyped, Rows
<1>9. store # NoToken /\ ~ Void(store)
  BY <1>0, <1>1, <1>2, <1>8, Fields DEF Void, Expired
<1>10. \A i \in DOMAIN q : q[i] # Read("signOut") /\ q[i].do # "write"
  <2>1. \A i \in DOMAIN q : q[i] # Read("signOut")
    BY <1>3, <1>6 DEF Awaits
  <2>2. \A i \in DOMAIN q : ~ Clears(q[i])
    BY <1>3, <1>6, <1>9 DEF ForgetInv, Forgets
  <2> QED
    BY <1>6, <2>1, <2>2 DEF Clears
<1>11. Base(v)' = store
  <2>1. Pending(v)'
    BY <1>3, <1>4 DEF SignsOut, Pending
  <2> QED
    BY <1>1, <2>1 DEF Base
<1>12. HeldInv(v, s)'
  <2>1. \A i \in DOMAIN r : r[i].what.of # s
    BY <1>4, <1>6, Fields DEF SignsOut
  <2>2. ASSUME NEW i \in DOMAIN r, NEW j \in DOMAIN r, r[i] = Read("signOut"), j < i
        PROVE  r[j].do # "write"
    <3>1. Read("signOut").do = "read" /\ \A who, what : Write(who, what).do = "write"
      BY Fields
    <3>2. i = Len(q) + 1
      BY <1>4, <1>10, <2>2, <3>1 DEF SignsOut
    <3>3. j \in DOMAIN q /\ r[j] = q[j]
      BY <1>4, <1>5, <2>2, <3>2 DEF SignsOut
    <3> QED
      BY <1>10, <3>3
  <2> QED
    BY <1>2, <1>3, <1>11, <2>1, <2>2 DEF HeldInv, NoTask
<1>13. TopInv(v, s)'
  <2>1. \A w \in Vaults : ~ StoreWrites(w)
    <3>1. \A w \in Vaults : w = v
      BY LockAssumption
    <3>2. StoreWrites(v) =>
            signOut' = signOut \/ signOut' = [signOut EXCEPT ![v].at = "cleared"]
      BY DEF StoreWrites
    <3>3. ~ StoreWrites(v)
      BY <1>0, <1>1, <3>2 DEF SignOuts
    <3> QED
      BY <3>1, <3>3
  <2>2. ASSUME NEW t \in Tokens, Used(t)', t.of = s PROVE t.at <= store.at
    <3>1. Used(t)
      BY <1>0, <2>1, <2>2, UsedFlow
    <3> QED
      BY <1>2, <1>7, <2>2, <3>1 DEF UseInv, OrderInv
  <2> QED
    BY <1>1, <1>8, <1>11, <2>2 DEF TopInv
<1>14. JoinInv(v, s)'
  <2> SUFFICES ASSUME signOut'[v].joins
               PROVE  /\ refreshing'[v].at # "none" /\ ~ RefreshStands(v)'
                      /\ Rotating(v)' => refreshing'[v].token = store
                      /\ refreshing'[v].at \in {"writing", "done", "threw"} =>
                           refreshing'[v].token = NoToken
                      /\ \A i \in DOMAIN r : r[i] = Read("refresh") =>
                           \E j \in DOMAIN r : j > i /\ r[j] = Read("signOut")
    BY <1>3, <1>11 DEF JoinInv
  <2>1. refreshing'[v] = refreshing[v] /\ refreshing[v].at # "none"
    BY <1>1
  <2>2. ~ RefreshStands(v)'
    BY <1>0, Overtaken
  <2>3. RefreshStands(v)
    BY <1>1, <1>9, <2>1 DEF OldInv
  <2>4. Rotating(v)' => refreshing'[v].token = store
    BY <1>9, <2>1, <2>3 DEF Rotating, CleanInv
  <2>5. refreshing'[v].at \in {"writing", "done", "threw"} => refreshing'[v].token = NoToken
    BY <1>1, <2>1, <2>3 DEF DoneInv
  <2>6. ASSUME NEW i \in DOMAIN r, r[i] = Read("refresh")
        PROVE  \E j \in DOMAIN r : j > i /\ r[j] = Read("signOut")
    <3>1. /\ Read("refresh").do = "read" /\ Read("refresh").who = "refresh"
          /\ Read("signOut").who = "signOut" /\ \A who, what : Write(who, what).do = "write"
      BY Fields
    <3>2. i \in DOMAIN q
      BY <1>4, <2>6, <3>1 DEF SignsOut
    <3>3. Len(q) + 1 > i /\ Len(q) + 1 \in DOMAIN r /\ r[Len(q) + 1] = Read("signOut")
      BY <1>4, <1>5, <3>2 DEF SignsOut
    <3> QED
      BY <3>3
  <2> QED
    BY <2>1, <2>2, <2>4, <2>5, <2>6
<1>15. HandInv(v, s)'
  BY <1>1 DEF HandInv
<1> QED
  BY <1>12, <1>13, <1>14, <1>15

LEMMA HeldStep ==
  ASSUME ~ HasLock, VaultInv, AloneInv, [Next]_vars, NEW v \in Vaults, NEW s \in Sessions,
         Owed(v, s), ~ BeginSignOut(v), Base(v)' = Base(v), HeldInv(v, s),
         Base(v).of = s => Base(v).at > rows[s].past
  PROVE  HeldInv(v, s)'
<1>0. /\ TypeInv /\ s \in signOut[v].meant /\ MeantInv(v)
      /\ Base(v).of = s /\ NoTask(v, s)
  BY DEF VaultInv, AloneInv, Owed, HeldInv
<1>1. NoTask(v, s)'
  <2>1. ~ (SignInKept(v) /\ Answer(v, "signIn").token.of = s)
    BY <1>0, KeepsExchanged DEF VaultInv, FreshInv, Nowhere
  <2>2. ~ (Rotated(v) /\ RefreshStands(v) /\ refreshing[v].token.of = s)
    BY <1>0, StandsClear
  <2> QED
    BY <1>0, <2>1, <2>2, NoTaskStep
<1>2. PICK q \in Seq(Tasks), r \in Seq(Tasks) : q = tail[v] /\ r = tail'[v]
  BY <1>0, QueueMoves
<1>3. DOMAIN q = 1 .. Len(q) /\ DOMAIN r = 1 .. Len(r) /\ Len(q) \in Nat /\ Len(r) \in Nat
  BY LenProperties
<1>4. \A i, j \in DOMAIN q : q[i] = Read("signOut") /\ j < i => q[j].do # "write"
  BY <1>2 DEF HeldInv
<1>5. ASSUME NEW i \in DOMAIN r, NEW j \in DOMAIN r, r[i] = Read("signOut"), j < i
      PROVE  r[j].do # "write"
  <2>1. \/ r = q
        \/ \E e : Grown(q, r, e) /\ e # Read("signOut")
        \/ Shifted(q, r)
        \/ Clearing(q, r) /\ store # NoToken /\ Expired(store)
        \/ r = <<>>
    <3>1. ASSUME NEW who, NEW what PROVE Write(who, what) # Read("signOut")
      BY DEF Write, Read
    <3>2. RestoreTask # Read("signOut") /\ Read("refresh") # Read("signOut")
      BY Fields
    <3> QED
      BY <1>0, <1>2, <3>1, <3>2, QueueMoves
  <2>2. ASSUME NEW e, Grown(q, r, e), e # Read("signOut") PROVE r[j].do # "write"
    <3>1. i \in DOMAIN q /\ r[i] = q[i]
      BY <1>5, <2>2 DEF Grown
    <3>2. j \in DOMAIN q /\ r[j] = q[j]
      BY <1>3, <1>5, <2>2, <3>1 DEF Grown
    <3> QED
      BY <1>4, <1>5, <3>1, <3>2
  <2>3. CASE Shifted(q, r)
    <3>1. /\ i + 1 \in DOMAIN q /\ r[i] = q[i + 1] /\ i \in Nat
          /\ j + 1 \in DOMAIN q /\ r[j] = q[j + 1] /\ j \in Nat
      BY <1>5, <2>3 DEF Shifted
    <3>2. j + 1 < i + 1
      BY <1>5, <3>1
    <3> QED
      BY <1>4, <1>5, <3>1, <3>2
  <2>4. CASE Clearing(q, r) /\ store # NoToken /\ Expired(store)
    <3>1. i # 1
      <4>1. Read("signOut").do = "read" /\ Write("nobody", NoToken).do = "write"
        BY Fields
      <4> QED
        BY <1>5, <2>4, <4>1 DEF Clearing
    <3>2. i \in DOMAIN q /\ q[i] = Read("signOut")
      BY <1>5, <2>4, <3>1 DEF Clearing
    <3>3. Base(v) = store
      BY <1>2, <3>2 DEF Base, Pending
    <3>4. store.at \in Nat /\ rows[s].past \in Nat
      BY <1>0, <2>4, OfTyped DEF TypeInv, KeptTyped, Tokens, RowsTyped, Rows
    <3> QED
      BY <1>0, <2>4, <3>3, <3>4 DEF Expired
  <2> QED
    BY <1>4, <1>5, <2>1, <2>2, <2>3, <2>4
<1> QED
  BY <1>0, <1>1, <1>2, <1>5 DEF HeldInv

LEMMA TopStep ==
  ASSUME ~ HasLock, VaultInv, [Next]_vars, NEW v \in Vaults, NEW s \in Sessions,
         rows[s].at # 0, Base(v)' = Base(v), Base(v).at \in Nat, HeldInv(v, s), TopInv(v, s)
  PROVE  TopInv(v, s)'
<1>0. /\ TypeInv /\ rows[s].at \in Nat /\ \A w \in Vaults : w = v
  BY LockAssumption DEF VaultInv, TypeInv, RowsTyped, Rows
<1>1. rows'[s].at <= Base(v).at + 1
  <2>1. ASSUME NEW o \in Slots, calls[o].at = "read", calls[o].what = "refresh",
               calls[o].token \in Tokens, calls[o].token.of = s,
               calls[o].token.at = rows[s].at, rows'[s].at = rows[s].at + 1
        PROVE  rows'[s].at <= Base(v).at + 1
    <3>1. Used(calls[o].token)
      BY <2>1 DEF Used, Spends
    <3>2. rows[s].at <= Base(v).at
      BY <2>1, <3>1 DEF TopInv
    <3> QED
      BY <1>0, <2>1, <3>2
  <2>2. rows[s].at <= Base(v).at + 1
    BY DEF TopInv
  <2> QED
    BY <1>0, <2>1, <2>2, RowsGrow
<1>2. ASSUME NEW t \in Tokens, Used(t)', t.of = s PROVE t.at <= Base(v).at
  <2>1. CASE Used(t)
    BY <1>2, <2>1 DEF TopInv
  <2>2. CASE StoreWrites(v) /\ t = Task(v).what
    <3>1. 1 \in DOMAIN tail[v] /\ tail[v][1].what = t
      BY <1>0, <2>2, StoreHead
    <3> QED
      BY <1>2, <3>1 DEF HeldInv, NoTask
  <2> QED
    BY <1>0, <1>2, <2>1, <2>2, UsedFlow
<1> QED
  BY <1>1, <1>2 DEF TopInv

\* A token that is brought stays one.
LEMMA BringsStays ==
  ASSUME TypeInv, [Next]_vars, NEW v \in Vaults, NEW s \in Sessions,
         Base(v)' = Base(v), Base(v).at \in Nat, NEW t, Brings(v, s, t)
  PROVE  Brings(v, s, t)'
<1>1. t.of = s /\ t.at = Base(v).at + 1 /\ t.at <= rows[s].at
  BY DEF Brings
<1>2. rows[s].at \in Nat /\ rows'[s].at \in Nat /\ rows[s].at <= rows'[s].at
  BY RowsMonotone
<1>3. t.at <= rows'[s].at
  BY <1>1, <1>2
<1> QED
  BY <1>1, <1>3 DEF Brings

LEMMA JoinStep ==
  ASSUME ~ HasLock, VaultInv, UseInv, [Next]_vars, NEW v \in Vaults, NEW s \in Sessions,
         ~ BeginSignOut(v), signOut'[v] # NoSignOut, ~ Close(v),
         QueueInv(v), RefusalInv(v), NextInv(v),
         Base(v)' = Base(v), Base(v).at \in Nat, Base(v).of = s, JoinInv(v, s)
  PROVE  JoinInv(v, s)'
<1> SUFFICES ASSUME signOut'[v].joins PROVE JoinInv(v, s)'
  BY DEF JoinInv
<1>0. /\ TypeInv /\ signOut \in [Vaults -> SignOuts] /\ refreshing \in [Vaults -> Refreshes]
  BY DEF VaultInv, TypeInv, OpsTyped
<1>1. signOut[v].joins /\ ~ FinishRefresh(v)
  <2>1. signOut[v].joins
    BY <1>0, SignOutFields
  <2>2. ASSUME FinishRefresh(v) PROVE FALSE
    <3>1. PICK token : token = refreshing[v].token
      OBVIOUS
    <3>2. signOut' = [signOut EXCEPT ![v].joins = FALSE, ![v].view = token]
      BY <2>1, <2>2, <3>1 DEF FinishRefresh
    <3> QED
      BY <1>0, <3>2 DEF SignOuts
  <2> QED
    BY <2>1, <2>2
<1>2. /\ refreshing[v].at # "none" /\ ~ RefreshStands(v)
      /\ Rotating(v) => refreshing[v].token \in {NoToken, Base(v)}
      /\ refreshing[v].at \in {"writing", "done", "threw"} =>
           refreshing[v].token = NoToken \/ Brings(v, s, refreshing[v].token)
      /\ \A i \in DOMAIN tail[v] : tail[v][i] = Read("refresh") =>
           \E j \in DOMAIN tail[v] : j > i /\ tail[v][j] = Read("signOut")
  BY <1>1 DEF JoinInv
<1>3. ~ BeginRefresh(v) /\ ~ RefreshGetsLock(v)
  BY <1>0, <1>2 DEF BeginRefresh, RefreshGetsLock, TypeInv, RefreshInv
<1>4. refreshing'[v].epoch = refreshing[v].epoch /\ refreshing'[v].at # "none"
  BY <1>0, <1>1, <1>2, <1>3, RefreshMoves
<1>5. ~ RefreshStands(v)'
  BY <1>0, <1>2, <1>4, StandsBack
<1>6. ASSUME Rotating(v)' PROVE refreshing'[v].token \in {NoToken, Base(v)}
  <2>1. CASE StoreReads(v) /\ Task(v).who = "refresh" /\ refreshing'[v].token = store
    <3>1. /\ 1 \in DOMAIN tail[v] /\ tail[v][1] = Read("refresh")
      <4>1. tail[v] # <<>> /\ Task(v).do = "read"
        BY <2>1 DEF StoreReads
      <4>2. 1 \in DOMAIN tail[v] /\ Task(v) = tail[v][1]
        BY <1>0, <4>1, AtTask
      <4> QED
        BY <2>1, <4>1, <4>2, Fields DEF QueueInv
    <3>2. Pending(v)
      BY <1>2, <3>1 DEF Pending
    <3> QED
      BY <2>1, <3>2 DEF Base
  <2>2. CASE refreshing'[v].token = NoToken
    BY <2>2
  <2>3. CASE Rotating(v) /\ refreshing'[v].token = refreshing[v].token
    BY <1>2, <2>3
  <2> QED
    BY <1>0, <1>1, <1>3, <1>6, <2>1, <2>2, <2>3, RefreshMoves DEF Rotating
<1>7. ASSUME refreshing'[v].at \in {"writing", "done", "threw"}
      PROVE  refreshing'[v].token = NoToken \/ Brings(v, s, refreshing'[v].token)
  <2>1. CASE /\ refreshing[v].at \in {"writing", "done", "threw"}
             /\ refreshing'[v].token = refreshing[v].token
    BY <1>2, <2>1
  <2>2. CASE refreshing'[v].token = NoToken
    BY <2>2
  <2>3. CASE Rotated(v) /\ refreshing'[v].token = Answer(v, "refresh").token
    <3>1. refreshing[v].at = "asked" /\ Answer(v, "refresh").at = "answered"
      BY <2>3 DEF Rotated
    <3>2. refreshing[v].token = Base(v)
      BY <1>2, <3>1, Fields DEF Rotating, RefusalInv
    <3>3. /\ Answer(v, "refresh").token.at = Base(v).at + 1
          /\ Answer(v, "refresh").token.of = s
      BY <1>0, <2>3, <3>1, <3>2, RotatedSame DEF NextInv
    <3>4. Answer(v, "refresh").token.at <= rows[s].at
      <4>1. PICK o \in Slots : o = <<v, "refresh">>
        BY NoneTyped DEF Kinds
      <4>2. calls[o].what = "refresh" /\ calls[o].at = "answered" /\ calls[o].token.of = s
        BY <1>0, <3>1, <3>3, <4>1 DEF TypeInv, RefreshInv, Answer
      <4> QED
        BY <4>1, <4>2 DEF UseInv, AnswerInv, Answer
    <3> QED
      BY <2>3, <3>3, <3>4 DEF Brings
  <2> QED
    BY <1>0, <1>1, <1>3, <1>7, <2>1, <2>2, <2>3, RefreshMoves, TaskWaits
<1>8. ASSUME refreshing'[v].at \in {"writing", "done", "threw"}
      PROVE  refreshing'[v].token = NoToken \/ Brings(v, s, refreshing[v].token)'
  <2>1. PICK t : t = refreshing'[v].token
    OBVIOUS
  <2>2. Brings(v, s, t) => Brings(v, s, t)'
    BY <1>0, BringsStays
  <2>3. Brings(v, s, t)' => Brings(v, s, refreshing[v].token)'
    BY <2>1 DEF Brings
  <2> QED
    BY <1>7, <1>8, <2>1, <2>2, <2>3
<1>9. ASSUME NEW i \in DOMAIN tail'[v], tail'[v][i] = Read("refresh")
      PROVE  \E j \in DOMAIN tail'[v] : j > i /\ tail'[v][j] = Read("signOut")
  <2>1. ASSUME NEW who, NEW what PROVE Write(who, what) # Read("refresh")
    BY DEF Write, Read
  <2>2. RestoreTask # Read("refresh") /\ Read("signOut") # Read("refresh")
    BY Fields
  <2>3. refreshing[v].at # "waiting"
    BY <1>0 DEF TypeInv, RefreshInv
  <2>4. Comes(tail[v], tail'[v], i)
    BY <1>0, <1>2, <1>9, <2>1, <2>2, <2>3, TaskBack
  <2>5. PICK j \in DOMAIN tail[v] :
          /\ tail'[v][i] = tail[v][j]
          /\ \A p \in DOMAIN tail[v] : p > j => \E x \in DOMAIN tail'[v] : x > i /\ tail'[v][x] = tail[v][p]
    BY <2>4 DEF Comes
  <2>6. PICK p \in DOMAIN tail[v] : p > j /\ tail[v][p] = Read("signOut")
    BY <1>2, <1>9, <2>5
  <2> QED
    BY <2>5, <2>6
<1> QED
  BY <1>4, <1>5, <1>6, <1>8, <1>9 DEF JoinInv

LEMMA StoredStays ==
  ASSUME TypeInv', NEW v \in Vaults, Awaits(tail[v]), Awaits(tail'[v]), TypeInv,
         signOut[v].at # "clearing", signOut'[v].at # "clearing", Base(v)' = Base(v)
  PROVE  Base(v) = signOut[v].stored /\ signOut'[v].stored = signOut[v].stored
<1>1. Base(v) = signOut[v].stored
  BY NotPending
<1>2. \A i \in DOMAIN tail'[v] : tail'[v][i] # Ending
  BY Fields DEF TypeInv, TailInv, TaskInv, TaskAt, Ending
<1>3. ~ Pending(v)'
  BY <1>2 DEF Pending, Awaits, Later
<1>4. Base(v)' = signOut'[v].stored
  BY <1>3 DEF Base
<1> QED
  BY <1>1, <1>4

LEMMA ViewStep ==
  ASSUME ~ HasLock, TypeInv, [Next]_vars, NEW v \in Vaults, NEW s \in Sessions,
         ~ BeginSignOut(v), signOut'[v] # NoSignOut,
         Base(v)' = Base(v), Base(v).at \in Nat, JoinInv(v, s),
         signOut[v].view = NoToken \/ Brings(v, s, signOut[v].view)
  PROVE  signOut'[v].view = NoToken \/ Brings(v, s, signOut[v].view)'
<1>1. PICK t : t = signOut'[v].view
  OBVIOUS
<1>2. \/ t = signOut[v].view
      \/ /\ signOut[v].joins /\ refreshing[v].at \in {"done", "threw"}
         /\ t = refreshing[v].token
  <2>1. FinishRefresh(v) => refreshing[v].at \in {"done", "threw"}
    BY DEF FinishRefresh
  <2> QED
    BY <1>1, <2>1, SignOutFields
<1>3. t = NoToken \/ Brings(v, s, t)
  BY <1>2 DEF JoinInv
<1>4. Brings(v, s, t) => Brings(v, s, t)'
  BY BringsStays
<1>5. Brings(v, s, t)' => Brings(v, s, signOut[v].view)'
  BY <1>1 DEF Brings
<1> QED
  BY <1>1, <1>3, <1>4, <1>5

\* The step of a request that the sign-out does not take itself.
LEMMA AnswerGoesOn ==
  ASSUME TypeInv, [Next]_vars, NEW v \in Vaults, NEW o \in Slots, o = <<v, "signOut">>,
         signOut'[v] # NoSignOut, ~ Close(v), ~ SpendKept(v), ~ AskEnd(v)
  PROVE  calls'[o] = calls[o] \/ BookStep(o) \/ (CallLost(o) /\ calls'[o].at = "lost"
           /\ calls'[o].what = calls[o].what /\ calls'[o].token = calls[o].token)
<1>1. calls \in [Slots -> Calls] /\ signOut \in [Vaults -> SignOuts] /\ "signOut" \in Kinds
  BY DEF TypeInv, CallsTyped, OpsTyped, Kinds
<1>2. CallLost(o) => /\ calls'[o].at = "lost" /\ calls'[o].what = calls[o].what
                     /\ calls'[o].token = calls[o].token
  BY <1>1 DEF CallLost, Calls
<1>3. ~ NothingToSpend(v) /\ ~ SignOutAnswered(v)
  BY <1>1 DEF NothingToSpend, SignOutAnswered, SignOutOver
<1> QED
  BY <1>1, <1>2, <1>3, CallMoves

LEMMA SpendsOn ==
  ASSUME ~ HasLock, TypeInv, [Next]_vars, NEW v \in Vaults, NEW s \in Sessions,
         ~ BeginSignOut(v), ~ Close(v), signOut'[v].at = "spending",
         Base(v)' = Base(v), Base(v) \in Tokens, Base(v).of = s, Base(v).at <= rows[s].at,
         Base(v) = signOut[v].stored,
         Owed(v, s)', TopInv(v, s)', HandInv(v, s)
  PROVE  /\ Answer(v, "signOut")'.what = "refresh" /\ Answer(v, "signOut")'.at # "refused"
         /\ Answer(v, "signOut")'.at \in {"sent", "read"} =>
              Answer(v, "signOut")'.token = Base(v)
         /\ Answer(v, "signOut")'.at = "answered" => Brings(v, s, Answer(v, "signOut").token)'
<1>0. /\ calls \in [Slots -> Calls] /\ signOut \in [Vaults -> SignOuts]
      /\ signOut'[v] # NoSignOut /\ Base(v).at \in Nat /\ Base(v).at > 0
  BY Fields DEF TypeInv, CallsTyped, OpsTyped, Tokens
<1>1. PICK o \in Slots : o = <<v, "signOut">>
  BY NoneTyped DEF Kinds
<1>2. Answer(v, "signOut") = calls[o] /\ Answer(v, "signOut")' = calls'[o]
  BY <1>1 DEF Answer
<1>3. PICK t : t = calls'[o].token
  OBVIOUS
<1>4. Brings(v, s, t)' => Brings(v, s, Answer(v, "signOut").token)'
  BY <1>2, <1>3 DEF Brings
<1>5. CASE SpendKept(v)
  <2>1. calls'[o] = Call("refresh", Base(v))
    BY <1>0, <1>1, <1>5 DEF SpendKept, Asks
  <2> QED
    BY <1>2, <2>1 DEF Call
<1>6. CASE ~ SpendKept(v)
  <2>1. signOut[v].at = "spending" /\ ~ AskEnd(v)
    <3>1. ~ AskEnd(v)
      BY <1>0 DEF AskEnd, SignOuts
    <3> QED
      BY <1>0, <1>6, <3>1, SignOutFields
  <2>2. /\ calls[o].what = "refresh" /\ calls[o].at # "refused"
        /\ calls[o].at \in {"sent", "read"} => calls[o].token = Base(v)
        /\ calls[o].at = "answered" => Brings(v, s, calls[o].token)
    BY <1>2, <2>1 DEF HandInv
  <2>3. CASE calls'[o] = calls[o]
    <3>1. Brings(v, s, t) => Brings(v, s, t)'
      BY <1>0, BringsStays
    <3> QED
      BY <1>2, <1>3, <1>4, <2>2, <2>3, <3>1
  <2>4. CASE CallLost(o) /\ calls'[o].at = "lost" /\ calls'[o].what = calls[o].what
    BY <1>2, <2>2, <2>4
  <2>5. CASE BookStep(o)
    <3>1. /\ calls'[o].at \in {"read", "answered", "refused"} /\ calls'[o].what = "refresh"
          /\ calls[o].at \in {"sent", "read"} /\ calls[o].token = Base(v)
      BY <2>2, <2>5, BookAnswers
    <3>2. calls'[o].at # "refused"
      <4>1. SUFFICES ASSUME calls'[o].at = "refused" PROVE FALSE
        OBVIOUS
      <4>2. PICK b \in Tokens : b = Base(v)
        OBVIOUS
      <4>3. Void(b)'
        BY <1>1, <1>2, <2>2, <3>1, <4>1, <4>2, Refused
      <4>4. /\ hasKey' /\ rows'[s].past = 0 /\ rows'[s].is = "open"
            /\ rows'[s].at <= b.at + 1 /\ b.of = s /\ b.at \in Nat /\ b.at > 0
        BY <1>0, <4>2 DEF Owed, TopInv
      <4>5. rows'[s].at \in Nat
        BY RowsMonotone
      <4> QED
        BY <4>3, <4>4, <4>5 DEF Void, Expired
    <3>3. \/ calls'[o].token = calls[o].token /\ calls'[o].at # "answered"
          \/ /\ calls'[o].token.of = s /\ calls'[o].token.at = Base(v).at + 1
             /\ calls'[o].token.at <= rows'[s].at /\ calls'[o].at = "answered"
      <4>1. \A w \in Vaults : o # <<w, "refresh">> /\ o # <<w, "stray">>
        BY <1>1
      <4>2. \A w \in Vaults : SpendKept(w) => w = v
        BY LockAssumption
      <4> QED
        BY <1>6, <3>1, <4>1, <4>2, CallsFlow
    <3>4. ASSUME calls'[o].at = "answered" PROVE Brings(v, s, t)'
      BY <1>3, <3>1, <3>3, <3>4 DEF Brings
    <3> QED
      BY <1>2, <1>4, <3>1, <3>2, <3>3, <3>4
  <2> QED
    BY <1>0, <1>1, <1>6, <2>1, <2>3, <2>4, <2>5, AnswerGoesOn
<1> QED
  BY <1>5, <1>6

LEMMA EndsOn ==
  ASSUME ~ HasLock, TypeInv, [Next]_vars, NEW v \in Vaults, NEW s \in Sessions,
         ~ BeginSignOut(v), ~ Close(v), signOut'[v].at = "ending",
         Base(v)' = Base(v), Base(v) \in Tokens, Base(v).of = s,
         Owed(v, s), Owed(v, s)', TopInv(v, s), TopInv(v, s)', HandInv(v, s)
  PROVE  /\ Answer(v, "signOut")'.what = "end" /\ Answer(v, "signOut")'.at # "answered"
         /\ Brings(v, s, Answer(v, "signOut").token)'
         /\ Answer(v, "signOut")'.at = "refused" => ~ rows'[s].live
<1>0. /\ calls \in [Slots -> Calls] /\ signOut \in [Vaults -> SignOuts]
      /\ rows \in [Sessions -> Rows]
      /\ signOut'[v] # NoSignOut /\ Base(v).at \in Nat /\ Base(v).at > 0
  BY Fields DEF TypeInv, CallsTyped, OpsTyped, RowsTyped, Tokens
<1>1. PICK o \in Slots : o = <<v, "signOut">>
  BY NoneTyped DEF Kinds
<1>2. Answer(v, "signOut") = calls[o] /\ Answer(v, "signOut")' = calls'[o]
  BY <1>1 DEF Answer
<1>3. PICK t : t = calls'[o].token
  OBVIOUS
<1>4. Brings(v, s, t)' => Brings(v, s, Answer(v, "signOut").token)'
  BY <1>2, <1>3 DEF Brings
<1>5. Brings(v, s, t) => Brings(v, s, t)'
  BY <1>0, BringsStays
<1>6. CASE AskEnd(v)
  <2>1. PICK e : calls'[o] = Call("end", e) /\ Brings(v, s, e)
    <3>1. CASE signOut[v].at = "joining" /\ TokenInHand(v) # NoToken
                 /\ Asks(v, "signOut", Call("end", TokenInHand(v)))
      <4>1. TokenInHand(v) = signOut[v].view
        BY DEF Owed, TokenInHand
      <4>2. calls'[o] = Call("end", signOut[v].view)
        BY <1>0, <1>1, <3>1, <4>1 DEF Asks
      <4> QED
        BY <3>1, <4>1, <4>2 DEF HandInv
    <3>2. CASE signOut[v].at = "spending" /\ Answer(v, "signOut").at = "answered"
                 /\ Asks(v, "signOut", Call("end", Answer(v, "signOut").token))
      <4>1. calls'[o] = Call("end", Answer(v, "signOut").token)
        BY <1>0, <1>1, <3>2 DEF Asks
      <4> QED
        BY <3>2, <4>1 DEF HandInv
    <3> QED
      BY <1>6, <3>1, <3>2 DEF AskEnd
  <2>2. calls'[o].what = "end" /\ calls'[o].at = "sent" /\ t = e
    BY <1>3, <2>1 DEF Call
  <2> QED
    BY <1>2, <1>4, <1>5, <2>1, <2>2
<1>7. CASE ~ AskEnd(v)
  <2>1. signOut[v].at = "ending" /\ ~ SpendKept(v)
    <3>1. ~ SpendKept(v)
      BY <1>0 DEF SpendKept, SignOuts
    <3> QED
      BY <1>0, <1>7, <3>1, SignOutFields
  <2>2. /\ calls[o].what = "end" /\ calls[o].at # "answered" /\ Brings(v, s, calls[o].token)
        /\ calls[o].at = "refused" => ~ rows[s].live
    BY <1>2, <2>1 DEF HandInv
  <2>3. calls[o].token.of = s /\ calls[o].token.at = Base(v).at + 1 /\ rows[s].at = Base(v).at + 1
        /\ rows'[s].at = Base(v).at + 1
    <3>1. /\ rows[s].at <= Base(v).at + 1 /\ rows'[s].at <= Base(v).at + 1
          /\ Base(v).at + 1 <= rows[s].at
      BY <2>2 DEF TopInv, Brings
    <3> QED
      BY <1>0, <2>2, <3>1, RowsMonotone DEF Brings
  <2>4. rows'[s].live => rows[s].live
    BY <2>3, LiveFlow
  <2>5. CASE calls'[o] = calls[o]
    BY <1>2, <1>3, <1>4, <1>5, <2>2, <2>4, <2>5
  <2>6. CASE /\ CallLost(o) /\ calls'[o].at = "lost" /\ calls'[o].what = calls[o].what
             /\ calls'[o].token = calls[o].token
    BY <1>2, <1>3, <1>4, <1>5, <2>2, <2>6
  <2>7. CASE BookStep(o)
    <3>1. EndRow(o) /\ calls'[o].token = calls[o].token /\ calls'[o].what = "end"
          /\ calls'[o].at \in {"answered", "refused"}
      BY <2>2, <2>7, BookAnswers
    <3>2. CASE /\ ~ Gone(s) /\ rows[s].live
               /\ rows' = [rows EXCEPT ![s].is = "ended"]
      <4>1. rows'[s].is = "ended"
        BY <1>0, <3>2 DEF Rows
      <4> QED
        BY <4>1 DEF Owed
    <3>3. CASE rows' = rows /\ Refuses(o) /\ (Gone(s) \/ ~ rows[s].live)
      <4>1. ~ Gone(s)
        BY <1>0, <2>3 DEF Owed, Gone
      <4>2. calls'[o].at = "refused"
        BY <1>0, <3>3 DEF Refuses, Calls
      <4> QED
        BY <1>2, <1>3, <1>4, <1>5, <2>2, <3>1, <3>3, <4>1, <4>2
    <3> QED
      BY <2>3, <3>1, <3>2, <3>3 DEF EndRow
  <2> QED
    BY <1>0, <1>1, <1>7, <2>1, <2>5, <2>6, <2>7, AnswerGoesOn
<1> QED
  BY <1>6, <1>7

\* A session is owed its end until the sign-out is over.
LEMMA OwedStep ==
  ASSUME ~ HasLock, VaultInv, VaultInv', UseInv, AloneInv, [Next]_vars, NEW v \in Vaults,
         HushInv(v), ForgetInv(v), Awaits(tail[v]), OldInv(v), DoneInv(v), NextInv(v),
         CleanInv(v), QueueInv(v), RefusalInv(v), OwedInv(v)
  PROVE  OwedInv(v)'
<1> SUFFICES ASSUME NEW s \in Sessions, Owed(v, s)'
             PROVE  HeldInv(v, s)' /\ TopInv(v, s)' /\ JoinInv(v, s)' /\ HandInv(v, s)'
  BY DEF OwedInv
<1>0. TypeInv /\ TypeInv'
  BY DEF VaultInv
<1>1. CASE BeginSignOut(v)
  BY <1>1, OwedBegins
<1>2. CASE ~ BeginSignOut(v)
  <2>1. Owed(v, s) /\ signOut'[v] # NoSignOut /\ ~ Close(v) /\ rows[s].at # 0
    BY <1>2, OwedBack
  <2>2. HeldInv(v, s) /\ TopInv(v, s) /\ JoinInv(v, s) /\ HandInv(v, s)
    BY <2>1 DEF OwedInv
  <2>3. Base(v)' = Base(v)
    BY <1>0, <1>2, <2>1, <2>2, BaseStays DEF HeldInv
  <2>4. /\ Base(v) \in Tokens /\ Base(v).of = s /\ Base(v).at \in Nat /\ Base(v).at > 0
        /\ Base(v).at <= rows[s].at /\ rows[s].past = 0
    <3>1. Base(v) \in Maybe /\ Base(v).of = s
      BY <1>0, <2>2 DEF HeldInv, Base, TypeInv, KeptTyped, OpsTyped, SignOuts
    <3>2. Base(v) \in Tokens
      BY <3>1, Fields DEF Maybe
    <3>3. Used(Base(v))
      BY DEF Used, Base
    <3> QED
      BY <2>1, <3>1, <3>2, <3>3 DEF Tokens, Owed, UseInv, RangeInv
  <2>5. HeldInv(v, s)'
    BY <1>2, <2>1, <2>2, <2>3, <2>4, HeldStep
  <2>6. TopInv(v, s)'
    BY <2>1, <2>2, <2>3, <2>4, TopStep
  <2>7. JoinInv(v, s)'
    BY <1>2, <2>1, <2>2, <2>3, <2>4, JoinStep
  <2>8. HandInv(v, s)'
    <3>1. signOut'[v].view = NoToken \/ Brings(v, s, signOut[v].view)'
      BY <1>0, <1>2, <2>1, <2>2, <2>3, <2>4, ViewStep DEF HandInv
    <3>2. ASSUME signOut'[v].at = "spending"
          PROVE  /\ Answer(v, "signOut")'.what = "refresh" /\ Answer(v, "signOut")'.at # "refused"
                 /\ Answer(v, "signOut")'.at \in {"sent", "read"} =>
                      Answer(v, "signOut")'.token = signOut'[v].stored
                 /\ Answer(v, "signOut")'.at = "answered" =>
                      Brings(v, s, Answer(v, "signOut").token)'
      <4>1. signOut[v].at # "clearing"
        BY <1>0, <1>2, <2>1, <3>2, SignOutMoves
      <4>2. Base(v) = signOut[v].stored /\ signOut'[v].stored = signOut[v].stored
        BY <1>0, <2>3, <3>2, <4>1, AwaitStep, StoredStays
      <4> QED
        BY <1>0, <1>2, <2>1, <2>2, <2>3, <2>4, <2>6, <3>2, <4>2, SpendsOn
    <3>3. ASSUME signOut'[v].at = "ending"
          PROVE  /\ Answer(v, "signOut")'.what = "end" /\ Answer(v, "signOut")'.at # "answered"
                 /\ Brings(v, s, Answer(v, "signOut").token)'
                 /\ Answer(v, "signOut")'.at = "refused" => ~ rows'[s].live
      BY <1>0, <1>2, <2>1, <2>2, <2>3, <2>4, <2>6, <3>3, EndsOn
    <3> QED
      BY <3>1, <3>2, <3>3 DEF HandInv
  <2> QED
    BY <2>5, <2>6, <2>7, <2>8
<1> QED
  BY <1>1, <1>2

EndInv(v) ==
  /\ HushInv(v) /\ ForgetInv(v) /\ Awaits(tail[v])
  /\ OldInv(v) /\ DoneInv(v) /\ NextInv(v) /\ LostInv(v) /\ OwedInv(v)

LEMMA EndInit ==
  ASSUME Init, NEW v \in Vaults
  PROVE  EndInv(v)
<1>0. tail[v] = <<>> /\ refreshing[v] = NoRefresh /\ signOut[v] = NoSignOut
  BY DEF Init
<1>1. /\ DOMAIN tail[v] = {} /\ refreshing[v].at = "none"
      /\ signOut[v].at = "none" /\ signOut[v].meant = {}
      /\ Answer(v, "signOut").at = "none"
  <2>1. PICK o \in Slots : o = <<v, "signOut">>
    BY NoneTyped DEF Kinds
  <2>2. calls[o] = NoCall
    BY DEF Init
  <2>3. Answer(v, "signOut").at = "none"
    BY <2>1, <2>2 DEF Answer, NoCall
  <2>4. DOMAIN tail[v] = {}
    BY <1>0
  <2>5. NoRefresh.at = "none" /\ NoSignOut.at = "none" /\ NoSignOut.meant = {}
    BY DEF NoRefresh, NoSignOut
  <2> QED
    BY <1>0, <2>3, <2>4, <2>5
<1>2. HushInv(v) /\ ForgetInv(v) /\ Awaits(tail[v])
  BY <1>1 DEF HushInv, Hushed, ForgetInv, Forgets, Awaits
<1>3. OldInv(v) /\ DoneInv(v) /\ NextInv(v) /\ LostInv(v) /\ OwedInv(v)
  BY <1>1 DEF OldInv, DoneInv, NextInv, LostInv, OwedInv, Owed
<1> QED
  BY <1>2, <1>3 DEF EndInv

LEMMA EndStep ==
  ASSUME ~ HasLock, VaultInv, UseInv, AloneInv, SpentInv, OnwardInv, ClearedInv, [Next]_vars,
         NEW v \in Vaults, EndInv(v)
  PROVE  EndInv(v)'
<1>0. /\ VaultInv' /\ TypeInv
      /\ QueueInv(v) /\ CleanInv(v) /\ RefusalInv(v)
      /\ HushInv(v) /\ ForgetInv(v) /\ Awaits(tail[v])
      /\ OldInv(v) /\ DoneInv(v) /\ NextInv(v) /\ LostInv(v) /\ OwedInv(v)
  BY VaultInvStep DEF VaultInv, SpentInv, OnwardInv, ClearedInv, EndInv
<1>1. HushInv(v)' /\ ForgetInv(v)' /\ Awaits(tail'[v])
  BY <1>0, HushStep, ForgetStep, AwaitStep
<1>2. OldInv(v)' /\ DoneInv(v)' /\ NextInv(v)'
  BY <1>0, OldStep, DoneStep, NextStep
<1>3. LostInv(v)'
  <2>1. "signOut" \in Kinds
    BY DEF Kinds
  <2> QED
    BY <1>0, <2>1, LostStep DEF LostInv, Answer
<1>4. OwedInv(v)'
  BY <1>0, OwedStep
<1> QED
  BY <1>1, <1>2, <1>3, <1>4 DEF EndInv

LEMMA EndHolds ==
  ASSUME ~ HasLock
  PROVE  Spec => [](VaultInv /\ UseInv /\ \A v \in Vaults : EndInv(v))
<1>1. Init => \A v \in Vaults : EndInv(v)
  BY EndInit
<1>2. VaultInv /\ UseInv /\ AloneInv /\ SpentInv /\ OnwardInv /\ ClearedInv
        /\ (\A v \in Vaults : EndInv(v)) /\ [Next]_vars => (\A v \in Vaults : EndInv(v))'
  BY EndStep
<1> QED
  BY <1>1, <1>2, SpentInit, SpentStep, AloneInvHolds, OnwardHolds, ClearedHolds, PTL DEF Spec

\* A vault that is alone, with no access token in hand and the key at hand: its
\* sign-out ends the session with the token a refresh under way brings or with
\* one it spends the kept token for, unless a request was lost or the session
\* ran out (session-vault.ts:194).
THEOREM AloneSpends == ASSUME ~ HasLock PROVE Spec => SpendingEndsSession
<1>1. ASSUME VaultInv, UseInv, [Next]_vars, NEW v \in Vaults, EndInv(v),
             signOut[v].at \in {"joining", "spending", "ending"},
             signOut'[v] = NoSignOut, signOut[v].known = NoToken,
             begun.loss = 0, begun'.close = begun.close, hasKey,
             NEW s \in signOut[v].meant, rows[s].live, rows[s].past = 0
      PROVE  Gone(s)
  <2>0. /\ TypeInv /\ signOut \in [Vaults -> SignOuts] /\ rows \in [Sessions -> Rows]
        /\ s \in Sessions /\ Awaits(tail[v])
        /\ begun \in [DOMAIN Bound -> Nat] /\ "close" \in DOMAIN Bound
    BY <1>1 DEF VaultInv, TypeInv, OpsTyped, RowsTyped, CountTyped, SignOuts, EndInv, Bound
  <2>1. SUFFICES ASSUME rows[s].is = "open" PROVE FALSE
    BY DEF Gone
  <2>2. HeldInv(v, s) /\ HandInv(v, s)
    BY <1>1, <2>0, <2>1 DEF EndInv, OwedInv, Owed
  <2>3. Base(v) = signOut[v].stored
    BY <1>1, <2>0, NotPending
  <2>4. ~ Close(v)
    <3>1. begun.close \in Nat /\ \A n \in Nat : n + 1 # n
      BY <2>0
    <3>2. ASSUME Begins("close") PROVE begun'.close = begun.close + 1
      BY <2>0, <3>2 DEF Begins
    <3> QED
      BY <1>1, <3>1, <3>2 DEF Close
  <2>5. NothingToSpend(v) \/ SignOutAnswered(v)
    BY <1>1, <2>0, <2>4, Fields, SignOutMoves
  <2>6. ~ NothingToSpend(v)
    <3>1. signOut[v].stored \in Tokens /\ signOut[v].stored.of = s /\ signOut[v].stored.at \in Nat
          /\ signOut[v].stored.at > 0
      <4>1. signOut[v].stored \in Maybe /\ signOut[v].stored.of = s
        BY <2>0, <2>2, <2>3 DEF HeldInv, SignOuts
      <4>2. signOut[v].stored \in Tokens
        BY <2>0, <4>1, Fields DEF Maybe
      <4> QED
        BY <4>1, <4>2 DEF Tokens
    <3>2. CanSpend(v)
      BY <1>1, <2>0, <3>1, Fields DEF CanSpend, Expired
    <3> QED
      BY <3>2 DEF NothingToSpend
  <2>7. ~ SignOutAnswered(v)
    BY <1>1, <2>2 DEF HandInv, SignOutAnswered, EndInv, LostInv
  <2> QED
    BY <2>5, <2>6, <2>7
<1>2. VaultInv /\ UseInv /\ (\A v \in Vaults : EndInv(v)) /\ [Next]_vars =>
        [\A v \in Vaults :
           /\ signOut[v].at \in {"joining", "spending", "ending"}
           /\ signOut'[v] = NoSignOut /\ signOut[v].known = NoToken
           /\ begun.loss = 0 /\ begun'.close = begun.close /\ hasKey
           => \A s \in signOut[v].meant :
                rows[s].live /\ rows[s].past = 0 => Gone(s)]_vars
  BY <1>1
<1> QED
  BY <1>2, EndHolds, PTL DEF Spec, SpendingEndsSession

=============================================================================
