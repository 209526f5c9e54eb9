---------------------------- MODULE SessionVault ----------------------------
(***************************************************************************)
(* The sign-in of a client: SessionVault of                                *)
(* packages/pulsar/src/session-vault.ts, the holder of a refresh token,    *)
(* against the sessions of the address book of                             *)
(* apps/pulsar-worker/src/sessions.ts.                                     *)
(*                                                                         *)
(* Several vaults (the tabs of a browser) share one store and take turns   *)
(* with a lock; the desktop shell has one vault and no lock.  Every call   *)
(* of a vault is cut at its awaits: the lock, the queue of the store, the  *)
(* request.  The book reads and writes a row in two steps where the code   *)
(* guards that.  A token names its session and how often that rotated:     *)
(* one rotation makes one refresh token and one access token, and the same *)
(* pair again for a replay.                                                *)
(***************************************************************************)
EXTENDS Naturals, Sequences

CONSTANTS
  Vaults,        \* the vaults over one store
  HasLock,       \* whether they have navigator.locks
  MaxSignIns, MaxRefreshes, MaxSignOuts, MaxRestores,  \* bounds: calls made
  MaxLosses,     \* bound: requests or answers the network loses
  MaxCloses,     \* bound: vaults that go down
  CanLapse,      \* whether an access token may run out
  CanTarry,      \* whether a retry may come after the grace
  CanExpire,     \* whether a session may pass its end
  CanLoseKey     \* whether the device may lose its key

ASSUME LockAssumption == HasLock \/ \A v, w \in Vaults : v = w
ASSUME BoundsAssumption ==
  {MaxSignIns, MaxRefreshes, MaxSignOuts, MaxRestores, MaxLosses, MaxCloses}
    \subseteq Nat
ASSUME EventsAssumption ==
  {HasLock, CanLapse, CanTarry, CanExpire, CanLoseKey} \subseteq BOOLEAN

Sessions == 1 .. MaxSignIns
Tokens == [of : Sessions, at : Nat \ {0}]
NoToken == [of |-> 0, at |-> 0]
Maybe == Tokens \cup {NoToken}

VARIABLES
  store,       \* what is kept between starts, one for all vaults
  hasKey,      \* whether the signer still has the key
  lock,        \* when each call asked for the lock, 0 for one that has not
  current,     \* the access token of each vault
  epoch,
  signOuts,
  tail,        \* the queue before the store (storeTail)
  signIn,      \* the sign-in under way, if any
  refreshing,  \* the refresh under way, if any
  signOut,     \* the sign-out under way, if any
  calls,       \* the request each of those has under way
  rows,        \* the sessions of the address book
  begun,       \* how often each kind of thing happened
  given,       \* ghost: the session the last refresh answered with
  leaving,     \* ghost: the sessions a sign-out has still to clear, or cleared
  signedOut    \* ghost: the sessions a sign-out ended for

vars == <<store, hasKey, lock, current, epoch, signOuts, tail, signIn,
          refreshing, signOut, calls, rows, begun, given, leaving, signedOut>>
memory == <<current, epoch, signOuts>>
ghosts == <<given, leaving, signedOut>>
ops == <<signIn, refreshing, signOut>>
around == <<hasKey, rows, begun>>

Kinds == {"signIn", "refresh", "signOut"}
Slots == Vaults \X (Kinds \cup {"stray"})
Turns == Vaults \X {"refresh", "signOut"}
NoCall == [at |-> "none", what |-> "none", token |-> NoToken]
Call(what, token) == [at |-> "sent", what |-> what, token |-> token]

NoSignIn == [at |-> "none", signOuts |-> 0]
NoRefresh == [at |-> "none", epoch |-> 0, token |-> NoToken]
NoSignOut == [at |-> "none", known |-> NoToken, joins |-> FALSE,
              view |-> NoToken, stored |-> NoToken, meant |-> {}]
NoRow == [at |-> 0, is |-> "none", fresh |-> FALSE, live |-> FALSE, past |-> 0]

Bound == [signIn |-> MaxSignIns, refresh |-> MaxRefreshes,
          signOut |-> MaxSignOuts, restore |-> MaxRestores,
          loss |-> MaxLosses, close |-> MaxCloses]

\* Tasks of the queue before the store, and who awaits them.
Read(who) == [do |-> "read", who |-> who, what |-> NoToken]
Write(who, what) == [do |-> "write", who |-> who, what |-> what]
RestoreTask == [do |-> "restore", who |-> "nobody", what |-> NoToken]
Waiters == Kinds \cup {"nobody"}
Tasks == [do : {"read", "write", "restore"}, who : Waiters, what : Maybe]

TypeOK ==
  /\ store \in Maybe /\ hasKey \in BOOLEAN
  /\ lock \in [Turns -> Nat]
  /\ current \in [Vaults -> Maybe]
  /\ epoch \in [Vaults -> Nat] /\ signOuts \in [Vaults -> Nat]
  /\ tail \in [Vaults -> Seq(Tasks)]
  /\ signIn \in [Vaults -> [at : {"none", "asked", "keeping", "ending"},
                            signOuts : Nat]]
  /\ refreshing \in
       [Vaults -> [at : {"none", "waiting", "reading", "read", "asked",
                         "writing", "done", "threw"},
                   epoch : Nat, token : Maybe]]
  /\ signOut \in
       [Vaults -> [at : {"none", "waiting", "clearing", "cleared", "joining",
                         "spending", "ending"},
                   known : Maybe, joins : BOOLEAN, view : Maybe,
                   stored : Maybe, meant : SUBSET Sessions]]
  /\ calls \in
       [Slots -> [at : {"none", "sent", "read", "answered", "refused", "lost"},
                  what : {"none", "exchange", "refresh", "end"}, token : Maybe]]
  /\ rows \in [Sessions -> [at : Nat, is : {"none", "open", "ended", "reused"},
                            fresh : BOOLEAN, live : BOOLEAN, past : Nat]]
  /\ \A what \in DOMAIN Bound : begun[what] \in 0 .. Bound[what]
  /\ given \in [Vaults -> {0} \cup Sessions]
  /\ leaving \subseteq Sessions /\ signedOut \subseteq Sessions

Init ==
  /\ store = NoToken /\ hasKey = TRUE /\ lock = [t \in Turns |-> 0]
  /\ current = [v \in Vaults |-> NoToken]
  /\ epoch = [v \in Vaults |-> 0] /\ signOuts = [v \in Vaults |-> 0]
  /\ tail = [v \in Vaults |-> <<>>]
  /\ signIn = [v \in Vaults |-> NoSignIn]
  /\ refreshing = [v \in Vaults |-> NoRefresh]
  /\ signOut = [v \in Vaults |-> NoSignOut]
  /\ calls = [o \in Slots |-> NoCall]
  /\ rows = [s \in Sessions |-> NoRow]
  /\ begun = [what \in DOMAIN Bound |-> 0]
  /\ given = [v \in Vaults |-> 0]
  /\ leaving = {} /\ signedOut = {}

-----------------------------------------------------------------------------
Begins(what) ==
  /\ begun[what] < Bound[what]
  /\ begun' = [begun EXCEPT ![what] = @ + 1]

Queue(v, task) == tail' = [tail EXCEPT ![v] = Append(@, task)]
Asks(v, kind, call) == calls' = [calls EXCEPT ![<<v, kind>>] = call]
Answer(v, kind) == calls[<<v, kind>>]
HangsUp(v, kind) == Asks(v, kind, NoCall)

\* The lock goes to who asked first of those that have not let go of it.
LinesUp(v, kind) ==
  lock' = [lock EXCEPT ![<<v, kind>>] = begun.refresh + begun.signOut + 1]
Holds(v, kind) ==
  /\ lock[<<v, kind>>] # 0
  /\ \A t \in Turns : lock[t] # 0 => lock[<<v, kind>>] <= lock[t]
Release(v, kind) == lock' = [lock EXCEPT ![<<v, kind>>] = 0]

\* expiresAt is behind the clock, for a kept session and for a row.
Expired(token) == token.at <= rows[token.of].past
Gone(s) == rows[s].is # "open" \/ rows[s].at <= rows[s].past

-----------------------------------------------------------------------------
(* Signing in. *)

BeginSignIn(v) ==
  /\ signIn[v].at = "none" /\ hasKey
  /\ Begins("signIn")
  /\ signIn' = [signIn EXCEPT ![v] = [at |-> "asked", signOuts |-> signOuts[v]]]
  /\ Asks(v, "signIn", Call("exchange", NoToken))
  /\ UNCHANGED <<store, hasKey, lock, memory, tail, refreshing, signOut, rows,
                 ghosts>>

SignInKept(v) ==
  /\ signIn[v].at = "asked" /\ Answer(v, "signIn").at = "answered"
  /\ signIn[v].signOuts = signOuts[v]
  /\ epoch' = [epoch EXCEPT ![v] = @ + 1]
  /\ current' = [current EXCEPT ![v] = Answer(v, "signIn").token]
  /\ Queue(v, Write("signIn", Answer(v, "signIn").token))
  /\ signIn' = [signIn EXCEPT ![v].at = "keeping"]
  /\ HangsUp(v, "signIn")
  /\ UNCHANGED <<store, lock, signOuts, refreshing, signOut, around, ghosts>>

SignInOvertaken(v) ==
  /\ signIn[v].at = "asked" /\ Answer(v, "signIn").at = "answered"
  /\ signIn[v].signOuts # signOuts[v]
  /\ signIn' = [signIn EXCEPT ![v].at = "ending"]
  /\ Asks(v, "signIn", Call("end", Answer(v, "signIn").token))
  /\ UNCHANGED <<store, lock, memory, tail, refreshing, signOut, around, ghosts>>

SignInOver(v) ==
  /\ \/ signIn[v].at = "asked" /\ Answer(v, "signIn").at = "lost"
     \/ signIn[v].at = "ending"
          /\ Answer(v, "signIn").at \in {"answered", "refused", "lost"}
  /\ signIn' = [signIn EXCEPT ![v] = NoSignIn]
  /\ HangsUp(v, "signIn")
  /\ UNCHANGED <<store, lock, memory, tail, refreshing, signOut, around, ghosts>>

Restore(v) ==
  /\ Begins("restore")
  /\ Queue(v, RestoreTask)
  /\ UNCHANGED <<store, hasKey, lock, memory, ops, calls, rows, ghosts>>

-----------------------------------------------------------------------------
(* The refresh. *)

Rotation(v) == [at |-> "reading", epoch |-> epoch[v], token |-> NoToken]
\* Mutant: a rotation is never overtaken.
StandsAnyway(v) == refreshing[v].at # "none"

RefreshStands(v) == refreshing[v].epoch = epoch[v]
RefreshAt(v, at) == refreshing' = [refreshing EXCEPT ![v].at = at]
RefreshEnds(v, at) ==
  refreshing' = [refreshing EXCEPT ![v].at = at, ![v].token = NoToken]

BeginRefresh(v) ==
  /\ refreshing[v].at = "none"
  /\ Begins("refresh")
  /\ given' = [given EXCEPT ![v] = 0]
  /\ IF HasLock
       THEN /\ LinesUp(v, "refresh")
            /\ RefreshAt(v, "waiting") /\ UNCHANGED tail
       ELSE /\ refreshing' = [refreshing EXCEPT ![v] = Rotation(v)]
            /\ Queue(v, Read("refresh")) /\ UNCHANGED lock
  /\ UNCHANGED <<store, hasKey, memory, signIn, signOut, calls, rows, leaving,
                 signedOut>>

\* Mutant: the refresh does not wait for the other vaults.
RefreshTakesNoTurn(v) ==
  /\ refreshing[v].at = "waiting"
  /\ refreshing' = [refreshing EXCEPT ![v] = Rotation(v)]
  /\ Queue(v, Read("refresh"))
  /\ UNCHANGED <<store, lock, memory, signIn, signOut, calls, around, ghosts>>

RefreshGetsLock(v) ==
  /\ refreshing[v].at = "waiting" /\ Holds(v, "refresh")
  /\ refreshing' = [refreshing EXCEPT ![v] = Rotation(v)]
  /\ Queue(v, Read("refresh"))
  /\ UNCHANGED <<store, lock, memory, signIn, signOut, calls, around, ghosts>>

NothingKept(v) ==
  /\ refreshing[v].at = "read" /\ refreshing[v].token = NoToken
  /\ current' = IF RefreshStands(v) THEN [current EXCEPT ![v] = NoToken]
                ELSE current
  /\ RefreshEnds(v, "done")
  /\ UNCHANGED <<store, lock, epoch, signOuts, tail, signIn, signOut, calls,
                 around, ghosts>>

\* Mutant: forget clears the store and not what this vault knows.
ForgetStored(v) ==
  /\ IF RefreshStands(v)
       THEN Queue(v, Write("refresh", NoToken)) /\ RefreshEnds(v, "writing")
       ELSE RefreshEnds(v, "done") /\ UNCHANGED tail
  /\ UNCHANGED <<store, lock, memory, signIn, signOut, around, ghosts>>

\* forget with a reason, which clears the store within the epoch only.
Forget(v) ==
  /\ IF RefreshStands(v)
       THEN /\ current' = [current EXCEPT ![v] = NoToken]
            /\ Queue(v, Write("refresh", NoToken))
            /\ RefreshEnds(v, "writing")
       ELSE /\ RefreshEnds(v, "done")
            /\ UNCHANGED <<current, tail>>
  /\ UNCHANGED <<store, lock, epoch, signOuts, signIn, signOut, around, ghosts>>

CannotRotate(v) ==
  /\ \/ /\ refreshing[v].at = "read" /\ refreshing[v].token # NoToken
        /\ Expired(refreshing[v].token) \/ ~hasKey
     \/ refreshing[v].at = "asked" /\ Answer(v, "refresh").at = "refused"
  /\ Forget(v) /\ HangsUp(v, "refresh")

AskRotation(v) ==
  /\ refreshing[v].at = "read" /\ refreshing[v].token # NoToken
  /\ ~Expired(refreshing[v].token) /\ hasKey
  /\ RefreshAt(v, "asked")
  /\ Asks(v, "refresh", Call("refresh", refreshing[v].token))
  /\ UNCHANGED <<store, lock, memory, tail, signIn, signOut, around, ghosts>>

Rotated(v) ==
  LET view == Answer(v, "refresh").token IN
  /\ refreshing[v].at = "asked" /\ Answer(v, "refresh").at = "answered"
  /\ IF RefreshStands(v)
       THEN /\ current' = [current EXCEPT ![v] = view]
            /\ Queue(v, Write("refresh", view))
            /\ refreshing' = [refreshing EXCEPT ![v].at = "writing",
                                                ![v].token = view]
       ELSE /\ refreshing' = [refreshing EXCEPT ![v].at = "done",
                                                ![v].token = view]
            /\ UNCHANGED <<current, tail>>
  /\ HangsUp(v, "refresh")
  /\ UNCHANGED <<store, lock, epoch, signOuts, signIn, signOut, around, ghosts>>

\* Mutant: a request that got lost clears the session as a refusal does.
LostIsRefused(v) ==
  /\ refreshing[v].at = "asked" /\ Answer(v, "refresh").at = "lost"
  /\ Forget(v) /\ HangsUp(v, "refresh")

RotationLost(v) ==
  /\ refreshing[v].at = "asked" /\ Answer(v, "refresh").at = "lost"
  /\ RefreshEnds(v, "threw")
  /\ HangsUp(v, "refresh")
  /\ UNCHANGED <<store, lock, memory, tail, signIn, signOut, around, ghosts>>

\* Mutant: the caller hears of the rotation, overtaken or not.
HeardAnyway(v) == refreshing[v].token

\* What the caller of refresh hears.
Heard(v) ==
  IF refreshing[v].at = "threw" THEN NoToken
  ELSE IF RefreshStands(v) THEN refreshing[v].token ELSE current[v]

\* Mutant: a refresh that throws keeps the lock.
LetsGoAnswered(v) ==
  IF refreshing[v].at = "threw" THEN UNCHANGED lock ELSE Release(v, "refresh")

\* However it ends, the refresh lets go of the lock.
LetsGo(v) == Release(v, "refresh")

FinishRefresh(v) ==
  /\ refreshing[v].at \in {"done", "threw"}
  /\ given' = [given EXCEPT ![v] = Heard(v).of]
  /\ signOut' = IF signOut[v].joins
                  THEN [signOut EXCEPT ![v].joins = FALSE,
                                       ![v].view = refreshing[v].token]
                  ELSE signOut
  /\ refreshing' = [refreshing EXCEPT ![v] = NoRefresh]
  /\ LetsGo(v)
  /\ UNCHANGED <<store, memory, tail, signIn, calls, around, leaving, signedOut>>

-----------------------------------------------------------------------------
(* Signing out. *)

\* Mutant: the kept token is read after it was cleared.
ClearThenRead == <<Write("nobody", NoToken), Read("signOut")>>

\* What a sign-out asks of the store before it waits for anything.
ReadThenClear == <<Read("signOut"), Write("nobody", NoToken)>>

BeginSignOut(v) ==
  LET meant == {store.of, current[v].of} \ {0}
      reads == tail[v] \o ReadThenClear
  IN
  /\ signOut[v].at = "none"
  /\ Begins("signOut")
  /\ epoch' = [epoch EXCEPT ![v] = @ + 1]
  /\ signOuts' = [signOuts EXCEPT ![v] = @ + 1]
  /\ current' = [current EXCEPT ![v] = NoToken]
  /\ signOut' = [signOut EXCEPT ![v] =
       [NoSignOut EXCEPT !.at = IF HasLock THEN "waiting" ELSE "clearing",
                         !.known = current[v],
                         !.joins = refreshing[v].at # "none",
                         !.meant = meant]]
  /\ IF HasLock
       THEN /\ LinesUp(v, "signOut")
            /\ tail' = [tail EXCEPT ![v] = reads]
       ELSE /\ tail' = [tail EXCEPT ![v] =
                          Append(reads, Write("signOut", NoToken))]
            /\ UNCHANGED lock
  /\ leaving' = leaving \cup meant
  /\ UNCHANGED <<store, hasKey, signIn, refreshing, calls, rows, given,
                 signedOut>>

\* Mutant: the store is not cleared again once the others are done.
SignOutTakesTurn(v) ==
  /\ signOut[v].at = "waiting" /\ Holds(v, "signOut")
  /\ signOut' = [signOut EXCEPT ![v].at = "cleared"]
  /\ UNCHANGED <<store, lock, memory, tail, signIn, refreshing, calls, around,
                 ghosts>>

SignOutGetsLock(v) ==
  /\ signOut[v].at = "waiting" /\ Holds(v, "signOut")
  /\ signOut' = [signOut EXCEPT ![v].at = "clearing"]
  /\ Queue(v, Write("signOut", NoToken))
  /\ UNCHANGED <<store, lock, memory, signIn, refreshing, calls, around, ghosts>>

Cleared(v) ==
  /\ signOut[v].at = "cleared"
  /\ signOut' = [signOut EXCEPT ![v].at = "joining"]
  /\ Release(v, "signOut")
  /\ UNCHANGED <<store, memory, tail, signIn, refreshing, calls, around, ghosts>>

\* The access token in hand, else the one a refresh under way brought.
TokenInHand(v) ==
  IF signOut[v].known # NoToken THEN signOut[v].known ELSE signOut[v].view
Settled(v) == signOut[v].known # NoToken \/ ~signOut[v].joins
CanSpend(v) ==
  signOut[v].stored # NoToken /\ ~Expired(signOut[v].stored) /\ hasKey

SignOutOver(v) ==
  /\ signOut' = [signOut EXCEPT ![v] = NoSignOut]
  /\ signedOut' = signedOut \cup signOut[v].meant
  /\ HangsUp(v, "signOut")
  /\ UNCHANGED <<store, lock, memory, tail, signIn, refreshing, around, given,
                 leaving>>

SpendKept(v) ==
  /\ signOut[v].at = "joining" /\ Settled(v) /\ TokenInHand(v) = NoToken
  /\ CanSpend(v)
  /\ signOut' = [signOut EXCEPT ![v].at = "spending"]
  /\ Asks(v, "signOut", Call("refresh", signOut[v].stored))
  /\ UNCHANGED <<store, lock, memory, tail, signIn, refreshing, around, ghosts>>

NothingToSpend(v) ==
  /\ signOut[v].at = "joining" /\ Settled(v) /\ TokenInHand(v) = NoToken
  /\ ~CanSpend(v)
  /\ SignOutOver(v)

AskEnd(v) ==
  /\ \/ /\ signOut[v].at = "joining" /\ Settled(v)
        /\ TokenInHand(v) # NoToken
        /\ Asks(v, "signOut", Call("end", TokenInHand(v)))
     \/ /\ signOut[v].at = "spending" /\ Answer(v, "signOut").at = "answered"
        /\ Asks(v, "signOut", Call("end", Answer(v, "signOut").token))
  /\ signOut' = [signOut EXCEPT ![v].at = "ending"]
  /\ UNCHANGED <<store, lock, memory, tail, signIn, refreshing, around, ghosts>>

SignOutAnswered(v) ==
  /\ \/ signOut[v].at = "spending"
          /\ Answer(v, "signOut").at \in {"refused", "lost"}
     \/ signOut[v].at = "ending"
          /\ Answer(v, "signOut").at \in {"answered", "refused", "lost"}
  /\ SignOutOver(v)

-----------------------------------------------------------------------------
(* The queue before the store, one task at a time and in order. *)

Task(v) == Head(tail[v])
Taken(v) == tail' = [tail EXCEPT ![v] = Tail(@)]

StoreReads(v) ==
  /\ tail[v] # <<>> /\ Task(v).do = "read"
  /\ IF Task(v).who = "refresh"
       THEN /\ refreshing' = [refreshing EXCEPT ![v].at = "read",
                                                ![v].token = store]
            /\ UNCHANGED signOut
       ELSE /\ signOut' = [signOut EXCEPT ![v].stored = store]
            /\ UNCHANGED refreshing
  /\ Taken(v)
  /\ UNCHANGED <<store, lock, memory, signIn, calls, around, ghosts>>

StoreWrites(v) ==
  LET who == Task(v).who IN
  /\ tail[v] # <<>> /\ Task(v).do = "write"
  /\ store' = Task(v).what
  /\ signIn' = IF who = "signIn" THEN [signIn EXCEPT ![v] = NoSignIn]
               ELSE signIn
  /\ refreshing' = IF who = "refresh" THEN [refreshing EXCEPT ![v].at = "done"]
                   ELSE refreshing
  /\ signOut' = IF who = "signOut" THEN [signOut EXCEPT ![v].at = "cleared"]
                ELSE signOut
  /\ leaving' = leaving \cup
       {s \in {Task(v).what.of} : who = "signIn" /\ \E w \in Vaults :
          signOut[w].at \in {"waiting", "clearing"}}
  /\ Taken(v)
  /\ UNCHANGED <<lock, memory, calls, around, given, signedOut>>

\* restore reads in its turn and writes in the same turn, a while later.
StoreRestores(v) ==
  /\ tail[v] # <<>> /\ Task(v).do = "restore"
  /\ IF store # NoToken /\ Expired(store)
       THEN tail' = [tail EXCEPT ![v][1] = Write("nobody", NoToken)]
       ELSE Taken(v)
  /\ UNCHANGED <<store, lock, memory, ops, calls, around, ghosts>>

-----------------------------------------------------------------------------
(* The address book. *)

Sent(o, what) == calls[o].at = "sent" /\ calls[o].what = what
Answers(o, token) ==
  calls' = [calls EXCEPT ![o].at = "answered", ![o].token = token]
Refuses(o) == calls' = [calls EXCEPT ![o].at = "refused"]
AtBook == <<store, hasKey, lock, memory, tail, ops, begun, ghosts>>

\* createSession
OpenSession(o) ==
  /\ Sent(o, "exchange")
  /\ \E s \in Sessions :
       /\ rows[s].at = 0 /\ \A t \in Sessions : t < s => rows[t].at # 0
       /\ rows' = [rows EXCEPT ![s] = [NoRow EXCEPT !.at = 1, !.is = "open",
                                                    !.live = TRUE]]
       /\ Answers(o, [of |-> s, at |-> 1])
  /\ UNCHANGED AtBook

\* The row a refresh token finds: the one it is of or the one it was of last.
Finds(token) ==
  /\ ~Gone(token.of)
  /\ token.at \in {rows[token.of].at, rows[token.of].at - 1}

\* Mutant: a spent token rotates the session once more.
ReplayAnew(o) ==
  LET token == calls[o].token  s == token.of IN
  IF Finds(token) /\ token.at # rows[s].at /\ rows[s].fresh
    THEN /\ rows' = [rows EXCEPT ![s].at = @ + 1]
         /\ Answers(o, [of |-> s, at |-> rows[s].at + 1])
    ELSE /\ rows' = [rows EXCEPT ![s].is = IF @ = "open" THEN "reused" ELSE @]
         /\ Refuses(o)

\* A spent token: the rotation it made once more, or the end of the session.
Replay(o) ==
  LET token == calls[o].token  s == token.of IN
  IF Finds(token) /\ token.at # rows[s].at /\ rows[s].fresh
    THEN /\ Answers(o, [of |-> s, at |-> rows[s].at])
         /\ UNCHANGED rows
    ELSE /\ rows' = [rows EXCEPT ![s].is = IF @ = "open" THEN "reused" ELSE @]
         /\ Refuses(o)

\* rotateSession, up to the row it reads.
ReadRow(o) ==
  LET token == calls[o].token IN
  /\ Sent(o, "refresh")
  /\ \/ ~Finds(token) /\ Refuses(o) /\ UNCHANGED rows
     \/ /\ Finds(token) /\ token.at = rows[token.of].at
        /\ calls' = [calls EXCEPT ![o].at = "read"]
        /\ UNCHANGED rows
     \/ Finds(token) /\ token.at # rows[token.of].at /\ Replay(o)
  /\ UNCHANGED AtBook

\* rotateSession, from the guarded update on.
WriteRow(o) ==
  LET token == calls[o].token  s == token.of IN
  /\ calls[o].at = "read"
  /\ IF token.at = rows[s].at /\ rows[s].is = "open"
       THEN /\ rows' = [rows EXCEPT ![s].at = @ + 1, ![s].fresh = TRUE,
                                    ![s].live = TRUE]
            /\ Answers(o, [of |-> s, at |-> token.at + 1])
       ELSE Replay(o)
  /\ UNCHANGED AtBook

\* endSession, for the access token the row holds now.
EndRow(o) ==
  LET token == calls[o].token  s == token.of
      authenticated == ~Gone(s) /\ rows[s].at = token.at /\ rows[s].live
  IN
  /\ Sent(o, "end")
  /\ IF authenticated
       THEN /\ rows' = [rows EXCEPT ![s].is = "ended"]
            /\ Answers(o, token)
       ELSE Refuses(o) /\ UNCHANGED rows
  /\ UNCHANGED AtBook

BookStep(o) == OpenSession(o) \/ ReadRow(o) \/ WriteRow(o) \/ EndRow(o)

-----------------------------------------------------------------------------
(* The network, the clock, the keychain, and vaults that go down. *)

CallLost(o) ==
  /\ calls[o].at \in {"sent", "read", "answered"}
  /\ Begins("loss")
  /\ calls' = [calls EXCEPT ![o].at = "lost"]
  /\ UNCHANGED <<store, hasKey, lock, memory, tail, ops, rows, ghosts>>

ClockMoves(s) ==
  /\ rows[s].at # 0
  /\ \/ /\ CanLapse /\ rows[s].live
        /\ rows' = [rows EXCEPT ![s].live = FALSE]
     \/ /\ CanTarry /\ rows[s].fresh
        /\ rows' = [rows EXCEPT ![s].fresh = FALSE]
     \/ /\ CanExpire /\ rows[s].past < rows[s].at
        /\ rows' = [rows EXCEPT ![s].past = @ + 1]
  /\ UNCHANGED <<AtBook, calls>>

KeyLost ==
  /\ CanLoseKey /\ hasKey
  /\ hasKey' = FALSE
  /\ UNCHANGED <<store, lock, memory, tail, ops, calls, rows, begun, ghosts>>

\* What a vault knew goes; one request of its own may still be on its way.
Close(v) ==
  /\ Begins("close")
  /\ current' = [current EXCEPT ![v] = NoToken]
  /\ epoch' = [epoch EXCEPT ![v] = 0] /\ signOuts' = [signOuts EXCEPT ![v] = 0]
  /\ tail' = [tail EXCEPT ![v] = <<>>]
  /\ signIn' = [signIn EXCEPT ![v] = NoSignIn]
  /\ refreshing' = [refreshing EXCEPT ![v] = NoRefresh]
  /\ signOut' = [signOut EXCEPT ![v] = NoSignOut]
  /\ lock' = [t \in Turns |-> IF t[1] = v THEN 0 ELSE lock[t]]
  /\ \E kind \in Kinds :
       calls' = [o \in Slots |->
                   IF o = <<v, "stray">> THEN calls[<<v, kind>>]
                   ELSE IF o[1] = v THEN NoCall ELSE calls[o]]
  /\ given' = [given EXCEPT ![v] = 0]
  /\ UNCHANGED <<store, hasKey, rows, leaving, signedOut>>

-----------------------------------------------------------------------------
VaultStep(v) ==
  \/ SignInKept(v) \/ SignInOvertaken(v) \/ SignInOver(v)
  \/ RefreshGetsLock(v) \/ NothingKept(v) \/ CannotRotate(v)
  \/ AskRotation(v) \/ Rotated(v) \/ RotationLost(v)
  \/ FinishRefresh(v)
  \/ SignOutGetsLock(v) \/ Cleared(v) \/ SpendKept(v) \/ NothingToSpend(v)
  \/ AskEnd(v) \/ SignOutAnswered(v)

StoreStep(v) == StoreReads(v) \/ StoreWrites(v) \/ StoreRestores(v)

Next ==
  \/ \E v \in Vaults :
       \/ BeginSignIn(v) \/ Restore(v) \/ BeginRefresh(v) \/ BeginSignOut(v)
       \/ VaultStep(v) \/ StoreStep(v) \/ Close(v)
  \/ \E o \in Slots : BookStep(o) \/ CallLost(o)
  \/ \E s \in Sessions : ClockMoves(s)
  \/ KeyLost

Spec == Init /\ [][Next]_vars

\* A vault goes on by itself, its queue moves, and every request ends: the
\* book answers or fetch fails.  People, the clock and losses owe nothing.
FairSpec ==
  /\ Spec
  /\ \A v \in Vaults : WF_vars(VaultStep(v)) /\ WF_vars(StoreStep(v))
  /\ \A o \in Slots : WF_vars(BookStep(o))

-----------------------------------------------------------------------------
(* Properties *)

\* A session that a sign-out ended for never comes back in the store,
\* whatever refresh any vault had under way (session-vault.ts:97).
SignedOutStaysOut == store.of \notin signedOut

\* No refresh answers with a token of a session its own vault is signing out
\* of, or that any vault has signed out of (session-vault.ts:177).
AnswersStand ==
  [][\A v \in Vaults :
       given'[v] # given[v] /\ given'[v] # 0 =>
         given'[v] \notin signedOut \cup signOut[v].meant]_vars

\* Vaults that take turns never spend one token twice: the book ends a session
\* for reuse only after an answer or a vault was lost, when a sign-out meant it
\* to end, when it once ran out, which has a start clear the store while a
\* refresh is under way, or when there was another sign-in, whose write of the
\* store a refresh of the older session may come before (session-vault.ts:60, 94).
ReuseNeedsLoss ==
  \A s \in Sessions :
    rows[s].is = "reused" =>
      \/ s \in leaving \/ begun.loss > 0 \/ begun.close > 0 \/ rows[s].past > 0
      \/ \E t \in Sessions \ {s} : rows[t].at # 0

\* The kept token is never more than one rotation behind, so that as long as
\* the session is open a refresh can go on from it (sessions.ts:132).
KeptIsUsable == store # NoToken /\ ~Gone(store.of) => Finds(store)

\* The store never goes back to an older token nor to an older session
\* (session-vault.ts:111, the epoch of a rotation).
StoreNeverGoesBack ==
  [][store # NoToken /\ store' # NoToken =>
       \/ store'.of > store.of
       \/ store'.of = store.of /\ store'.at >= store.at]_vars

\* A vault that is alone clears its session only for a cause: a sign-out, its
\* end, a lost key or a session the book no longer takes (session-vault.ts:255).
ClearedWithCause ==
  [][store # NoToken /\ store' = NoToken =>
       \/ store.of \in leaving \/ Expired(store) \/ ~hasKey
       \/ ~Finds(store)]_vars

Quiet(v) ==
  /\ signIn[v] = NoSignIn /\ refreshing[v] = NoRefresh
  /\ signOut[v] = NoSignOut /\ tail[v] = <<>>

\* When nothing is under way in a vault that is alone, what it knows is what is
\* kept, unless that is past its end (session-vault.ts:270, 259).
QuietAgrees ==
  \A v \in Vaults :
    Quiet(v) /\ current[v] # NoToken /\ ~Expired(current[v]) =>
      store = current[v]

\* A sign-out ends its sessions at the book as well, when no request is lost
\* and the key is at hand: "Ends the session at the address book when it can"
\* (session-vault.ts:181).  A stale access token breaks this (README, section 6).
SignOutEndsSession ==
  begun.loss = 0 /\ begun.close = 0 /\ hasKey =>
    \A s \in signedOut : Gone(s)

\* With no access token in hand a sign-out ends the session with the one a
\* refresh under way brings, or with one it spends the kept token for, unless
\* the session once ran out while nobody refreshed it (session-vault.ts:194).
SpendingEndsSession ==
  [][\A v \in Vaults :
       /\ signOut[v].at \in {"joining", "spending", "ending"}
       /\ signOut'[v] = NoSignOut /\ signOut[v].known = NoToken
       /\ begun.loss = 0 /\ begun'.close = begun.close /\ hasKey
       => \A s \in signOut[v].meant :
            rows[s].live /\ rows[s].past = 0 => Gone(s)]_vars

\* Every refresh and every sign-out ends: neither waits for the other in a
\* circle through the lock, the queue and the refresh it joins.
CallsEnd ==
  \A v \in Vaults :
    /\ refreshing[v].at # "none" ~> refreshing[v].at = "none"
    /\ signOut[v].at # "none" ~> signOut[v].at = "none"

=============================================================================
