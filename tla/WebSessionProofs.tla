----------------------------- MODULE WebSessionProofs -----------------------
(***************************************************************************)
(* What holds of the account and of the page whatever the number of login  *)
(* requests, the policy, the hotels, the clicks and the withdrawals: the   *)
(* four safety properties of WebSession.                                   *)
(*                                                                         *)
(* The three of the account hang on one fact, Locked: whoever holds the row*)
(* of the credential knows what it says.  A login keeps the row until it   *)
(* writes, and set_password writes only when no login holds it.  The one of*)
(* the page hangs on Settling: what is held is the answer to what was asked*)
(* last, and a hotel that was not found is one the account has lost.       *)
(***************************************************************************)
EXTENDS WebSession, SequenceTheorems, WellFoundedInduction, TLAPS

account == <<clock, credential, sessions, rowOwner, logins, rotation, guesses, lifted>>

Instant == Nat \ {0}
Row == [password : Nat, failed : Nat, lockedUntil : Nat]
Session == [openedWith : Nat, createdAt : Nat, expiresAt : Nat, revokedAt : Nat]
Login == [step : {"idle", "verifying"}, given : Nat, now : Nat, read : Row]
RotationState == [step : {"idle", "hashing", "read"}, now : Nat, read : Row, met : BOOLEAN]

Types ==
  /\ clock \in Instant /\ credential \in Row /\ sessions \in Seq(Session)
  /\ logins \in [Attempts -> Login] /\ rotation \in RotationState
  /\ guesses \in Seq(Nat) /\ lifted \in BOOLEAN

\* A login between its two steps holds the row and has read what it says.
Locked ==
  \A a \in Attempts : logins[a].step = "verifying" =>
    /\ rowOwner = a /\ logins[a].read = credential
    /\ logins[a].now <= clock

\* Every session that is not revoked was opened with the password of today.
OpenOnes ==
  /\ \A t \in DOMAIN sessions :
       sessions[t].revokedAt = 0 => sessions[t].openedWith = credential.password
  /\ rotation.step # "idle" => rotation.now \in Instant

\* The guesses are in the order of the clock, each is counted in the row, and
\* after as many as are allowed the row is locked from the last of them on.
Counted ==
  /\ \A i, j \in DOMAIN guesses : i <= j => guesses[i] <= guesses[j]
  /\ \A i \in DOMAIN guesses : guesses[i] <= clock
  /\ \A a \in Attempts : logins[a].step = "verifying" =>
       \A i \in DOMAIN guesses : guesses[i] <= logins[a].now
  /\ Len(guesses) <= credential.failed
  /\ Len(guesses) >= MaxFailedAttempts =>
       credential.lockedUntil >= guesses[Len(guesses)] + LockDuration
  /\ GuessesAreBounded

\* What set_password will leave unwritten is zero, unless a login failed since.
Lifting ==
  /\ rotation.step = "read" /\ ~rotation.met =>
       /\ rotation.read.failed = 0 => credential.failed = 0
       /\ rotation.read.lockedUntil = 0 => credential.lockedUntil = 0
  /\ RotationLiftsTheLock

AccountInv == Types /\ Locked /\ OpenOnes /\ Counted /\ Lifting

--------------------------------------------------------------------------------
LEMMA InitAccount == Init => AccountInv
<1> SUFFICES ASSUME Init PROVE AccountInv
  OBVIOUS
<1> USE DEF Init, AuthInit
<1>1. NoCredential \in Row /\ credential \in Row /\ credential.failed = 0 /\ credential.lockedUntil = 0
  BY DEF NoCredential, Row
<1>2. Types
  <2>1. Idle \in Login
    BY <1>1 DEF Idle, Login
  <2>2. NoRotation \in RotationState
    BY <1>1 DEF NoRotation, RotationState
  <2>3. sessions \in Seq(Session) /\ guesses \in Seq(Nat)
    OBVIOUS
  <2>4. logins \in [Attempts -> Login] /\ rotation \in RotationState
    BY <2>1, <2>2
  <2>5. clock \in Instant
    BY DEF Instant
  <2>6. lifted \in BOOLEAN
    BY Zenon
  <2> HIDE DEF Init, AuthInit
  <2> QED BY <1>1, <2>3, <2>4, <2>5, <2>6 DEF Types
<1>3. Locked
  BY DEF Locked, Idle
<1>4. OpenOnes
  BY DEF OpenOnes, NoRotation
<1>5. Counted
  <2>1. Len(guesses) = 0 /\ DOMAIN guesses = {} /\ logins = [a \in Attempts |-> Idle]
    BY DEF Idle
  <2>2. ~(Len(guesses) >= MaxFailedAttempts)
    BY <2>1, PolicyAssumption
  <2> QED BY <1>1, <2>1, <2>2 DEF Counted, GuessesAreBounded
<1>6. Lifting
  BY <1>1 DEF Lifting, RotationLiftsTheLock, NoRotation
<1> QED BY <1>2, <1>3, <1>4, <1>5, <1>6 DEF AccountInv

LEMMA SteadyAccount ==
    ASSUME AccountInv, UNCHANGED account
    PROVE  AccountInv'
BY DEF AccountInv, account, Types, Locked, OpenOnes, Counted, GuessesAreBounded, Lifting,
       RotationLiftsTheLock

LEMMA TickKeepsAccount ==
    ASSUME AccountInv, Tick
    PROVE  AccountInv'
<1> USE DEF Tick, AccountInv
<1>1. clock' \in Instant /\ clock \in Nat /\ clock' = clock + 1
  BY DEF Types, Instant
<1>2. Types'
  BY <1>1 DEF Types
<1>3. Locked'
  BY <1>1 DEF Locked, Types, Login
<1>4. OpenOnes'
  BY DEF OpenOnes
<1>5. Counted'
  <2>1. \A i \in DOMAIN guesses : guesses[i] \in Nat
    BY DEF Types
  <2> QED BY <1>1, <2>1 DEF Counted, GuessesAreBounded
<1>6. Lifting'
  BY DEF Lifting, RotationLiftsTheLock
<1> QED BY <1>2, <1>3, <1>4, <1>5, <1>6

LEMMA LockingKeepsAccount ==
    ASSUME AccountInv, NEW a \in Attempts, NEW given \in Nat, LockCredential(a, given)
    PROVE  AccountInv'
<1> USE DEF LockCredential, AccountInv
<1>1. logins'[a] = [step |-> "verifying", given |-> given, now |-> clock, read |-> credential]
  BY DEF Types
<1>2. \A b \in Attempts : b # a => logins'[b] = logins[b] /\ logins[b].step # "verifying"
  BY NoOneAssumption DEF Types, Locked, RowIsFree
<1>3. Types'
  <2>1. logins'[a] \in Login
    BY <1>1 DEF Login, Types, Instant
  <2>2. logins' \in [Attempts -> Login]
    BY <2>1 DEF Types
  <2> QED BY <2>2 DEF Types
<1>4. Locked'
  BY <1>1, <1>2 DEF Locked, Types, Instant
<1>5. OpenOnes'
  BY DEF OpenOnes
<1>6. Counted'
  BY <1>1, <1>2 DEF Counted, GuessesAreBounded
<1>7. Lifting'
  BY DEF Lifting, RotationLiftsTheLock
<1> QED BY <1>3, <1>4, <1>5, <1>6, <1>7

\* A refused attempt: nothing when the row was locked, one more failure otherwise.
LEMMA RefusalKeepsAccount ==
    ASSUME AccountInv, NEW a \in Attempts, RefuseLogin(a)
    PROVE  AccountInv'
<1> DEFINE l == logins[a]
<1> USE DEF AccountInv
<1>0. /\ l \in Login /\ l.read = credential /\ l.now <= clock /\ l.now \in Nat
      /\ credential \in Row /\ credential.failed \in Nat /\ credential.lockedUntil \in Nat
      /\ rowOwner = a /\ clock \in Instant
  BY DEF Types, Locked, RefuseLogin, Login, Row
<1>1. /\ logins' = [logins EXCEPT ![a] = Idle] /\ rowOwner' = NoOne
      /\ UNCHANGED <<clock, sessions, lifted>>
  BY DEF RefuseLogin
<1>2. \A b \in Attempts : logins'[b].step # "verifying"
  BY <1>0, <1>1 DEF Idle, Types, Locked
<1>3. logins' \in [Attempts -> Login]
  <2>1. Idle \in Login
    BY DEF Idle, Login, NoCredential, Row
  <2> QED BY <1>1, <2>1 DEF Types
<1>4. rotation' \in RotationState /\ rotation'.step = rotation.step /\ rotation'.now = rotation.now
      /\ rotation'.read = rotation.read
  <2>1. rotation \in RotationState
    BY DEF Types
  <2>2. rotation' = [rotation EXCEPT !.met = \/ @
                                            \/ /\ rotation.step = "read"
                                               /\ ~IsLocked(l.read, l.now)]
    BY DEF RefuseLogin
  <2> DEFINE m == rotation.met \/ (rotation.step = "read" /\ ~IsLocked(l.read, l.now))
  <2>3. m \in BOOLEAN
    OBVIOUS
  <2>4. rotation' = [rotation EXCEPT !.met = m]
    BY <2>2
  <2> HIDE DEF m
  <2> QED BY <2>1, <2>3, <2>4 DEF RotationState
<1>5. CASE IsLocked(l.read, l.now)
  <2>1. credential' = credential /\ guesses' = guesses
    BY <1>0, <1>5 DEF RefuseLogin, AfterFailure
  <2>2. rotation'.met = rotation.met
    <3>1. rotation' = [rotation EXCEPT !.met = @ \/ (rotation.step = "read" /\ FALSE)]
      BY <1>5 DEF RefuseLogin
    <3>2. rotation.met \in BOOLEAN /\ rotation \in RotationState
      BY DEF Types, RotationState
    <3> QED BY <3>1, <3>2 DEF RotationState
  <2>3. Types'
    BY <1>1, <1>3, <1>4, <2>1 DEF Types
  <2>4. Locked' /\ Counted'
    BY <1>1, <1>2, <2>1 DEF Locked, Counted, GuessesAreBounded
  <2>5. OpenOnes'
    BY <1>1, <1>4, <2>1 DEF OpenOnes
  <2>6. Lifting'
    BY <1>1, <1>4, <2>1, <2>2 DEF Lifting, RotationLiftsTheLock
  <2> QED BY <2>3, <2>4, <2>5, <2>6
<1>6. CASE ~IsLocked(l.read, l.now)
  <2> DEFINE n == Len(guesses)
  <2>1. /\ guesses' = Append(guesses, l.now)
        /\ credential' = AfterFailure(credential, l.now)
    BY <1>0, <1>6 DEF RefuseLogin
  <2>2. /\ credential' \in Row /\ credential'.password = credential.password
        /\ credential'.failed = credential.failed + 1
        /\ credential'.failed >= MaxFailedAttempts => credential'.lockedUntil = l.now + LockDuration
    <3> DEFINE until == IF credential.failed + 1 >= MaxFailedAttempts THEN l.now + LockDuration
                        ELSE credential.lockedUntil
    <3>1. credential' = [credential EXCEPT !.failed = @ + 1, !.lockedUntil = until]
      BY <1>0, <1>6, <2>1 DEF AfterFailure
    <3>2. until \in Nat
      BY <1>0, PolicyAssumption
    <3>3. credential.failed + 1 >= MaxFailedAttempts => until = l.now + LockDuration
      OBVIOUS
    <3> HIDE DEF until
    <3>4. credential' \in Row
      <4> DEFINE more == credential.failed + 1
      <4>1. credential' = [credential EXCEPT !.failed = more, !.lockedUntil = until]
        BY <3>1
      <4>2. more \in Nat
        BY <1>0
      <4> HIDE DEF more
      <4> QED BY <1>0, <3>2, <4>1, <4>2 DEF Row
    <3>5. /\ credential'.password = credential.password
          /\ credential'.failed = credential.failed + 1
          /\ credential'.lockedUntil = until
      BY <1>0, <3>1 DEF Row
    <3> QED BY <3>3, <3>4, <3>5
  <2>3. /\ n \in Nat /\ Len(guesses') = n + 1 /\ guesses' \in Seq(Nat)
        /\ DOMAIN guesses' = 1 .. (n + 1) /\ DOMAIN guesses = 1 .. n
        /\ guesses'[n + 1] = l.now
        /\ \A i \in 1 .. n : guesses'[i] = guesses[i] /\ guesses[i] \in Nat
    BY <1>0, <2>1 DEF Types
  <2>4. \A i \in 1 .. n : guesses[i] <= l.now
    BY <1>0, <2>3 DEF Counted, RefuseLogin
  <2>5. n <= credential.failed
    BY DEF Counted
  <2>6. credential.lockedUntil <= l.now
    BY <1>0, <1>6 DEF IsLocked
  <2> HIDE DEF n
  <2>7. Types'
    BY <1>1, <1>3, <1>4, <2>2, <2>3 DEF Types
  <2>8. Locked'
    BY <1>2 DEF Locked
  <2>9. OpenOnes'
    BY <1>1, <1>4, <2>2 DEF OpenOnes
  <2>10. GuessesAreBounded'
    <3> SUFFICES ASSUME NEW i \in 1 .. (n + 1), NEW j \in 1 .. (n + 1), j - i >= MaxFailedAttempts
                 PROVE  guesses'[j] - guesses'[i] >= LockDuration
      BY <2>3 DEF GuessesAreBounded
    <3>1. i \in 1 .. n /\ j > i
      BY <2>3, PolicyAssumption
    <3>2. CASE j \in 1 .. n
      BY <2>3, <3>1, <3>2 DEF Counted, GuessesAreBounded
    <3>3. CASE j = n + 1
      <4>1. n >= MaxFailedAttempts /\ n \in 1 .. n /\ i <= n
        BY <2>3, <3>1, <3>3, PolicyAssumption
      <4>2. credential.lockedUntil >= guesses[n] + LockDuration /\ guesses[i] <= guesses[n]
        BY <2>3, <3>1, <4>1 DEF Counted, n
      <4> QED BY <1>0, <2>3, <2>6, <3>1, <3>3, <4>1, <4>2, PolicyAssumption
    <3> QED BY <2>3, <3>2, <3>3
  <2>11. Counted'
    <3>1. \A i, j \in DOMAIN guesses' : i <= j => guesses'[i] <= guesses'[j]
      <4> SUFFICES ASSUME NEW i \in 1 .. (n + 1), NEW j \in 1 .. (n + 1), i <= j
                   PROVE  guesses'[i] <= guesses'[j]
        BY <2>3
      <4>1. CASE j = n + 1
        BY <1>0, <2>3, <2>4, <4>1
      <4>2. CASE j \in 1 .. n
        <5>1. i \in DOMAIN guesses /\ j \in DOMAIN guesses
          BY <2>3, <4>2
        <5>2. guesses[i] <= guesses[j]
          BY <5>1 DEF Counted
        <5> QED BY <2>3, <5>1, <5>2
      <4> QED BY <2>3, <4>1, <4>2
    <3>2. \A i \in DOMAIN guesses' : guesses'[i] <= clock'
      BY <1>0, <1>1, <2>3 DEF Counted, Instant
    <3>3. Len(guesses') <= credential'.failed
      BY <1>0, <2>2, <2>3, <2>5
    <3>4. Len(guesses') >= MaxFailedAttempts =>
            credential'.lockedUntil >= guesses'[Len(guesses')] + LockDuration
      BY <1>0, <2>2, <2>3, <2>5, PolicyAssumption
    <3> QED BY <1>2, <2>10, <3>1, <3>2, <3>3, <3>4 DEF Counted
  <2>12. Lifting'
    <3>1. rotation'.step = "read" => rotation'.met
      <4>1. rotation' = [rotation EXCEPT !.met = @ \/ (rotation.step = "read" /\ TRUE)]
        BY <1>6 DEF RefuseLogin
      <4>2. rotation \in RotationState
        BY DEF Types
      <4> QED BY <4>1, <4>2 DEF RotationState
    <3>2. guesses' # <<>>
      BY <2>3
    <3> QED BY <3>1, <3>2 DEF Lifting, RotationLiftsTheLock
  <2> QED BY <2>7, <2>8, <2>9, <2>11, <2>12
<1> QED BY <1>5, <1>6

LEMMA OpeningKeepsAccount ==
    ASSUME AccountInv, NEW a \in Attempts, OpenSession(a)
    PROVE  AccountInv'
<1> DEFINE l == logins[a]
<1> USE DEF AccountInv
<1>0. /\ l \in Login /\ l.read = credential /\ l.now \in Nat /\ l.given \in Nat
      /\ credential \in Row /\ l.given = credential.password
  BY DEF Types, Locked, OpenSession, Login, Admitted, Verified
<1> DEFINE s == [openedWith |-> l.given, createdAt |-> l.now,
                 expiresAt |-> l.now + SessionLifetime, revokedAt |-> 0]
<1>1. /\ credential' = [credential EXCEPT !.failed = 0, !.lockedUntil = 0]
      /\ sessions' = Append(sessions, s) /\ guesses' = <<>>
      /\ logins' = [logins EXCEPT ![a] = Idle] /\ rowOwner' = NoOne
      /\ UNCHANGED <<clock, rotation, lifted>>
  BY <1>0 DEF OpenSession
<1>2. /\ credential' \in Row /\ credential'.password = credential.password
      /\ credential'.failed = 0 /\ credential'.lockedUntil = 0
  BY <1>0, <1>1 DEF Row
<1>3. s \in Session /\ s.openedWith = credential.password
  BY <1>0, PolicyAssumption DEF Session
<1>4. \A b \in Attempts : logins'[b].step # "verifying"
  BY <1>1 DEF Idle, Types, Locked, OpenSession
<1>5. Types'
  <2>1. Idle \in Login
    BY DEF Idle, Login, NoCredential, Row
  <2>2. logins' \in [Attempts -> Login]
    BY <1>1, <2>1 DEF Types
  <2>3. sessions' \in Seq(Session)
    BY <1>1, <1>3 DEF Types
  <2>4. guesses' \in Seq(Nat)
    BY <1>1
  <2> QED BY <1>1, <1>2, <2>2, <2>3, <2>4 DEF Types
<1>6. Locked'
  BY <1>4 DEF Locked
<1>7. OpenOnes'
  <2> HIDE DEF s
  <2>1. \A t \in DOMAIN sessions' :
          \/ t \in DOMAIN sessions /\ sessions'[t] = sessions[t]
          \/ sessions'[t] = s
    BY <1>1, <1>3 DEF Types
  <2> QED BY <1>1, <1>2, <1>3, <2>1 DEF OpenOnes
<1>8. Counted'
  BY <1>1, <1>2, <1>4, PolicyAssumption DEF Counted, GuessesAreBounded
<1>9. Lifting'
  BY <1>1, <1>2 DEF Lifting, RotationLiftsTheLock
<1> QED BY <1>5, <1>6, <1>7, <1>8, <1>9

LEMMA RevokingKeepsAccount ==
    ASSUME AccountInv, NEW token, sessions' = Revoked(token),
           UNCHANGED <<clock, credential, rowOwner, logins, rotation, guesses, lifted>>
    PROVE  AccountInv'
<1> USE DEF AccountInv
<1>1. clock \in Nat /\ clock # 0 /\ sessions \in Seq(Session)
  BY DEF Types, Instant
<1>2. sessions' \in Seq(Session) /\ DOMAIN sessions' = DOMAIN sessions
      /\ \A t \in DOMAIN sessions : sessions'[t] = sessions[t] \/ sessions'[t].revokedAt = clock
  <2>1. CASE sessions' = sessions
    BY <1>1, <2>1
  <2>2. CASE /\ token \in DOMAIN sessions
             /\ sessions' = [sessions EXCEPT ![token].revokedAt = clock]
    <3>1. sessions[token] \in Session
      BY <1>1, <2>2
    <3>2. [sessions[token] EXCEPT !.revokedAt = clock] \in Session
      BY <1>1, <3>1 DEF Session
    <3>3. sessions' = [sessions EXCEPT ![token] = [sessions[token] EXCEPT !.revokedAt = clock]]
      BY <2>2
    <3>4. sessions' \in Seq(Session)
      BY <1>1, <2>2, <3>2, <3>3, ExceptSeq
    <3> QED BY <3>1, <3>3, <3>4, <2>2, <1>1 DEF Session
  <2> QED BY <2>1, <2>2 DEF Revoked
<1>3. OpenOnes'
  BY <1>1, <1>2 DEF OpenOnes
<1> QED BY <1>2, <1>3 DEF Types, Locked, Counted, GuessesAreBounded, Lifting, RotationLiftsTheLock

--------------------------------------------------------------------------------
(* set_password                                                            *)

LEMMA BeginningKeepsAccount ==
    ASSUME AccountInv, BeginRotation \/ ReadCredential \/ RotationRefused
    PROVE  AccountInv'
<1> USE DEF AccountInv
<1>1. UNCHANGED <<clock, credential, sessions, rowOwner, logins, guesses, lifted>>
  BY DEF BeginRotation, ReadCredential, RotationRefused
<1>2. /\ rotation' \in RotationState
      /\ rotation'.step # "idle" => rotation'.now \in Instant
      /\ rotation'.step = "read" => rotation'.read = credential
  <2>0. NoRotation \in RotationState /\ NoRotation.step = "idle"
    BY DEF NoRotation, NoCredential, Row, RotationState
  <2>1. CASE BeginRotation
    <3>1. rotation' = [step |-> "hashing", now |-> clock, read |-> NoCredential, met |-> FALSE]
      BY <2>1 DEF BeginRotation, NoRotation
    <3> QED BY <3>1 DEF Types, RotationState, Instant, NoCredential, Row
  <2>2. CASE ReadCredential
    <3>1. /\ rotation \in RotationState /\ rotation.step = "hashing" /\ credential \in Row
          /\ rotation' = [rotation EXCEPT !.step = "read", !.read = credential]
      BY <2>2 DEF ReadCredential, Types
    <3> QED BY <3>1 DEF RotationState, OpenOnes
  <2>3. CASE RotationRefused
    BY <2>0, <2>3 DEF RotationRefused
  <2> QED BY <2>1, <2>2, <2>3
<1>3. Types' /\ Locked' /\ OpenOnes' /\ Counted'
  BY <1>1, <1>2 DEF Types, Locked, OpenOnes, Counted, GuessesAreBounded
<1>4. Lifting'
  BY <1>1, <1>2 DEF Lifting, RotationLiftsTheLock
<1> QED BY <1>3, <1>4

\* No login holds the row when it is written, and no session is left open.
LEMMA RotationKeepsAccount ==
    ASSUME AccountInv, CommitRotation
    PROVE  AccountInv'
<1> USE DEF AccountInv
<1>1. /\ rotation.step = "read" /\ rowOwner = NoOne
      /\ credential' = Rotated(rotation.read, credential)
      /\ guesses' = <<>> /\ rotation' = NoRotation
      /\ UNCHANGED <<clock, rowOwner, logins>>
      /\ lifted' = ~rotation.met
  BY DEF CommitRotation, RowIsFree
<1>2. /\ rotation \in RotationState /\ rotation.now \in Instant /\ credential \in Row
      /\ rotation.read \in Row
  BY <1>1 DEF Types, OpenOnes, RotationState
<1>3. credential' \in Row
  BY <1>1, <1>2 DEF Rotated, NewPassword, Row
<1>4. \A a \in Attempts : logins[a].step # "verifying"
  BY <1>1, NoOneAssumption DEF Locked
<1>5. /\ sessions' \in Seq(Session) /\ DOMAIN sessions' = DOMAIN sessions
      /\ \A t \in DOMAIN sessions' : sessions'[t].revokedAt # 0
  <2> DEFINE After(t) == IF StillOpen(t) THEN [sessions[t] EXCEPT !.revokedAt = rotation.now]
                         ELSE sessions[t]
  <2>1. sessions' = [t \in 1 .. Len(sessions) |-> After(t)] /\ Len(sessions) \in Nat
        /\ DOMAIN sessions = 1 .. Len(sessions)
    BY DEF CommitRotation, Types
  <2>2. \A t \in 1 .. Len(sessions) : After(t) \in Session /\ After(t).revokedAt # 0
    <3> TAKE t \in 1 .. Len(sessions)
    <3>1. sessions[t] \in Session
      BY DEF Types
    <3> QED BY <1>2, <3>1 DEF StillOpen, Session, Instant
  <2> HIDE DEF After
  <2>3. sessions' \in Seq(Session)
    BY <2>1, <2>2, IsASeq
  <2> QED BY <2>1, <2>2, <2>3
<1>6. Types'
  <2>1. NoRotation \in RotationState
    BY DEF NoRotation, NoCredential, Row, RotationState
  <2>2. lifted' \in BOOLEAN
    BY <1>1, Zenon
  <2>3. guesses' \in Seq(Nat)
    BY <1>1
  <2> QED BY <1>1, <1>3, <1>5, <2>1, <2>2, <2>3 DEF Types
<1>7. Locked'
  BY <1>1, <1>4 DEF Locked
<1>8. OpenOnes'
  BY <1>1, <1>5 DEF OpenOnes, NoRotation
<1>9. Counted'
  BY <1>1, <1>3, <1>4, PolicyAssumption DEF Counted, GuessesAreBounded, Row
<1>10. Lifting'
  <2>1. lifted' => credential'.failed = 0 /\ credential'.lockedUntil = 0
    <3> SUFFICES ASSUME ~rotation.met
                 PROVE  credential'.failed = 0 /\ credential'.lockedUntil = 0
      BY <1>1, Zenon
    <3>1. /\ rotation.read.failed = 0 => credential.failed = 0
          /\ rotation.read.lockedUntil = 0 => credential.lockedUntil = 0
      BY <1>1 DEF Lifting
    <3> QED BY <1>1, <3>1 DEF Rotated
  <2> QED BY <1>1, <2>1 DEF Lifting, RotationLiftsTheLock, NoRotation
<1> QED BY <1>6, <1>7, <1>8, <1>9, <1>10

--------------------------------------------------------------------------------
LEMMA NextAccount == AccountInv /\ [Next]_vars => AccountInv'
<1> SUFFICES ASSUME AccountInv, [Next]_vars PROVE AccountInv'
  OBVIOUS
<1> USE BrowserAssumption
<1>1. ASSUME NEW a \in Attempts, NEW given \in Passwords, LockCredential(a, given)
      PROVE  AccountInv'
  BY <1>1, LockingKeepsAccount DEF Passwords
<1>2. ASSUME NEW a \in Attempts, RefuseUnknown(a) \/ RefuseLogin(a)
      PROVE  AccountInv'
  BY <1>2, RefusalKeepsAccount, SteadyAccount DEF RefuseUnknown, account
<1>3. CASE Rotation
  BY <1>3, BeginningKeepsAccount, RotationKeepsAccount DEF Rotation
<1>4. CASE Time
  BY <1>4, TickKeepsAccount DEF Time
<1>5. ASSUME TabOnly PROVE AccountInv'
  BY <1>5, SteadyAccount DEF TabOnly, account
<1>6. CASE LoginDelivered \/ LoginLost \/ Logout
  BY <1>6, RevokingKeepsAccount DEF LoginDelivered, LoginLost, Logout
<1>7. CASE SubmitAdmitted
  BY <1>7, OpeningKeepsAccount DEF SubmitAdmitted
<1>8. CASE UNCHANGED vars
  BY <1>8, SteadyAccount DEF vars, authVars, account
<1>9. ASSUME NEW a \in Others,
             (\E given \in Passwords : Guess(a, given)) \/ GuessRefused(a) \/ GuessAdmitted(a)
      PROVE  AccountInv'
  BY <1>1, <1>2, <1>9, OpeningKeepsAccount DEF Others, Guess, GuessRefused, GuessAdmitted
<1>10. CASE (\E given \in Passwords : Submit(given)) \/ SubmitRefused
  BY <1>1, <1>2, <1>10 DEF Submit, SubmitRefused
<1>11. CASE (\E h \in Hotels : Withdraw(h)) \/ LogoutLost \/ Arrival \/ Click \/ Midnight
  BY <1>5, <1>11 DEF Withdraw, LogoutLost, Arrival, Click, Midnight
<1> QED BY <1>3, <1>4, <1>6, <1>7, <1>8, <1>9, <1>10, <1>11 DEF Next

\* AccountIsSound: whoever holds the row of the credential knows what it says, an open
\* session is of the password of today, every guess is counted, and what a rotation
\* leaves unwritten is zero (auth/service.py, login and set_password).
THEOREM AccountIsSound == Spec => []AccountInv
BY InitAccount, NextAccount, PTL DEF Spec

\* SessionsAreOfThePassword: in any order of any number of logins, logouts and rotations,
\* a token that still resolves was obtained with the password of today
\* (set_password: "revokes every one of their existing sessions").
THEOREM SessionsAreOfThePassword == Spec => []SessionsFollowThePassword
<1>1. AccountInv => SessionsFollowThePassword
  BY DEF AccountInv, OpenOnes, SessionsFollowThePassword, Resolves
<1> QED BY <1>1, AccountIsSound, PTL

\* GuessingIsBounded: whatever the limit and the duration of the lock, and however many
\* attempts run together, two guesses with as many between them as are allowed are at
\* least a LOCK_DURATION apart (auth/service.py, login).
THEOREM GuessingIsBounded == Spec => []GuessesAreBounded
<1>1. AccountInv => GuessesAreBounded
  BY DEF AccountInv, Counted
<1> QED BY <1>1, AccountIsSound, PTL

\* RotationsLiftTheLock: a new password is given with its lock lifted, unless an attempt
\* failed between the reading of the row and the commit (auth/service.py, set_password).
THEOREM RotationsLiftTheLock == Spec => []RotationLiftsTheLock
<1>1. AccountInv => RotationLiftsTheLock
  BY DEF AccountInv, Lifting
<1> QED BY <1>1, AccountIsSound, PTL

--------------------------------------------------------------------------------
(* The page                                                                *)

\* A page with no effect under way, and not overtaken, holds the answer to what it
\* asked last; when that was that the hotel does not exist, the hotel is lost to the
\* account and the session is being read again.
Settling ==
  OnScreen /\ ~effect /\ ~overtaken =>
    /\ held.of = asked /\ held.kind # "loading"
    /\ held.kind = "resolving" => rereading /\ held.of.hotel \notin access

Page ==
  /\ access \subseteq Hotels
  /\ selected # NoHotel => status = "authenticated"
  /\ OnScreen => asked.hotel = selected
  /\ ~OnScreen => asked = NoKey
  /\ Settling

LEMMA SmallestIsThere ==
    ASSUME NEW S \in SUBSET Nat, S # {}
    PROVE  \E n \in S : \A m \in S : n <= m
<1>1. PICK n \in S : \A m \in S : ~ (<<m, n>> \in OpToRel(<, Nat))
  BY NatLessThanWellFounded, WFMin
<1>2. \A m \in S : ~ (m < n)
  BY <1>1 DEF OpToRel
<1> QED BY <1>2

\* The hotel a session context is resolved to is one of its own.
LEMMA ResolvedIsGranted ==
    ASSUME NEW hotels \in SUBSET Hotels, NEW requested, Resolved(hotels, requested) # NoHotel
    PROVE  Resolved(hotels, requested) \in hotels
<1>1. CASE requested \in hotels
  BY <1>1 DEF Resolved
<1>2. CASE requested \notin hotels
  <2>1. hotels # {} /\ hotels \subseteq Nat
    BY <1>2, HotelsAssumption DEF Resolved
  <2>2. \E h \in hotels : \A other \in hotels : h <= other
    BY <2>1, SmallestIsThere
  <2>3. First(hotels) \in hotels
    BY <2>2 DEF First
  <2> QED BY <1>2, <2>1, <2>3 DEF Resolved
<1> QED BY <1>1, <1>2

LEMMA RenderAsks ==
    ASSUME NEW frame \in BOOLEAN, Render(frame)
    PROVE  /\ asked'.hotel = selected'
           /\ ~effect' => ~effect /\ asked' = asked
BY DEF Render, Key, Changed

\* A frame rendered with another session context: what was asked stays settled, or is
\* asked again.
LEMMA FrameKeepsPage ==
    ASSUME Page, Frame, access' = access,
           selected' # NoHotel => status' = "authenticated",
           \/ rereading' = rereading
           \/ selected' # NoHotel => selected' \in access
    PROVE  Page'
<1>1. CASE at' = "page" /\ selected' # NoHotel
  <2>1. Render(TRUE) /\ UNCHANGED <<held, refresh, overtaken>> /\ OnScreen'
    BY <1>1 DEF Frame, Rerender, OnScreen
  <2>2. asked'.hotel = selected' /\ (~effect' => ~effect /\ asked' = asked)
    BY <2>1, RenderAsks
  <2>3. ASSUME ~effect' PROVE OnScreen
    BY <1>1, <2>2, <2>3 DEF Page, NoKey
  <2>4. Settling'
    BY <1>1, <2>1, <2>2, <2>3 DEF Settling, Page
  <2> QED BY <2>1, <2>2, <2>4 DEF Page
<1>2. CASE ~(at' = "page" /\ selected' # NoHotel)
  BY <1>2 DEF Frame, Unmount, OnScreen, Page, Settling
<1> QED BY <1>1, <1>2

LEMMA ForgettingKeepsPage ==
    ASSUME Page, Forget, Unmount, access' = access
    PROVE  Page'
BY DEF Page, Forget, Unmount, OnScreen, Settling

LEMMA SteadyPage ==
    ASSUME Page, UNCHANGED pageVars, access' \subseteq access
    PROVE  Page'
BY DEF Page, pageVars, OnScreen, Settling

\* An answer of GET /auth/session: what the account reaches now, or nothing.
LEMMA SessionReadKeepsPage ==
    ASSUME Page, NEW s \in SessionAnswers, SessionRead(s.ok, s.hotels), access' = access
    PROVE  Page'
<1>1. CASE ~s.ok
  BY <1>1, ForgettingKeepsPage DEF SessionRead
<1>2. CASE s.ok
  <2>1. s.hotels = access /\ access \in SUBSET Hotels
    BY <1>2 DEF SessionAnswers, Page
  <2>2. Adopt(access) /\ Frame
    BY <1>2, <2>1 DEF SessionRead
  <2> QED BY <2>1, <2>2, ResolvedIsGranted, FrameKeepsPage DEF Adopt
<1> QED BY <1>1, <1>2

LEMMA EffectKeepsPage ==
    ASSUME Page, NEW answer \in Answers(asked.hotel), EffectAnswered(answer), access' = access
    PROVE  Page'
<1>1. /\ OnScreen /\ held' = [kind |-> KindOf(answer), of |-> asked]
      /\ asked' = Key(selected, period)
      /\ UNCHANGED <<selected, status, at>>
      /\ ~effect' => asked' = asked
      /\ answer = "PROPERTY_NOT_FOUND" => rereading'
  BY DEF EffectAnswered, Changed, Invalid
<1>2. answer = "PROPERTY_NOT_FOUND" => asked.hotel \notin access
  BY DEF Answers
<1>3. KindOf(answer) # "loading" /\ (KindOf(answer) = "resolving" => answer = "PROPERTY_NOT_FOUND")
  BY DEF KindOf, Answers
<1>4. Settling'
  BY <1>1, <1>2, <1>3 DEF Settling
<1> QED BY <1>1, <1>4 DEF Page, OnScreen, Key

LEMMA RefreshKeepsPage ==
    ASSUME Page, NEW answer \in Answers(refresh.hotel), RefreshAnswered(answer), access' = access
    PROVE  Page'
<1>1. /\ OnScreen /\ Render(FALSE) /\ UNCHANGED <<selected, status, at>>
      /\ held' = IF KeepsTheCards(answer) THEN held
                 ELSE [kind |-> KindOf(answer), of |-> refresh]
      /\ ~overtaken' => refresh = asked'
      /\ answer = "PROPERTY_NOT_FOUND" => rereading'
  BY DEF RefreshAnswered, Invalid
<1>2. answer = "PROPERTY_NOT_FOUND" => refresh.hotel \notin access
  BY DEF Answers
<1>3. KindOf(answer) # "loading" /\ (KindOf(answer) = "resolving" => answer = "PROPERTY_NOT_FOUND")
  BY DEF KindOf, Answers
<1>4. KeepsTheCards(answer) => held.kind = "loaded" /\ held.of = refresh
  BY DEF KeepsTheCards
<1>5. asked'.hotel = selected'
  BY <1>1, RenderAsks
<1>6. Settling'
  BY <1>1, <1>2, <1>3, <1>4 DEF Settling
<1> QED BY <1>1, <1>5, <1>6 DEF Page, OnScreen

\* Clicks that ask for something else, or for the same again.
LEMMA ClicksKeepPage ==
    ASSUME Page, access' = access,
           (\E h \in Hotels : SelectHotel(h)) \/ (\E p \in Periods : SelectPeriod(p)) \/ StartRefresh
    PROVE  Page'
<1>1. /\ OnScreen /\ UNCHANGED <<status, at, held, rereading, overtaken>>
      /\ selected' = selected \/ selected' # NoHotel
      /\ Render(TRUE) \/ Render(FALSE)
  <2>1. ASSUME NEW h \in Hotels, SelectHotel(h) PROVE h # NoHotel
    BY HotelsAssumption DEF NoHotel
  <2> QED BY <2>1 DEF SelectHotel, SelectPeriod, StartRefresh, Rerender
<1>2. asked'.hotel = selected' /\ (~effect' => ~effect /\ asked' = asked)
  BY <1>1, RenderAsks
<1>3. OnScreen'
  BY <1>1 DEF OnScreen
<1>4. Settling'
  BY <1>1, <1>2 DEF Settling, Page
<1> QED BY <1>1, <1>2, <1>3, <1>4 DEF Page, OnScreen

LEMMA NextPage == Page /\ [Next]_vars => Page'
<1> SUFFICES ASSUME Page, [Next]_vars PROVE Page'
  OBVIOUS
<1>1. CASE /\ UNCHANGED pageVars
           /\ access' \subseteq access
  BY <1>1, SteadyPage
<1>2. ASSUME NEW h \in Hotels, Withdraw(h) PROVE Page'
  BY <1>2, SteadyPage DEF Withdraw
<1>3. CASE \/ \E a \in Others : (\E given \in Passwords : Guess(a, given)) \/ GuessRefused(a) \/ GuessAdmitted(a)
           \/ Rotation \/ Time \/ (\E given \in Passwords : Submit(given))
           \/ SubmitRefused \/ SubmitAdmitted \/ LoginLost \/ UNCHANGED vars
  BY <1>1, <1>3 DEF Guess, GuessRefused, GuessAdmitted, Rotation, Time, Submit, SubmitRefused,
                    SubmitAdmitted, LoginLost, ServerOnly, webVars, vars
<1>4. CASE LoginDelivered
  <2>1. Adopt(access) /\ Frame /\ access' = access /\ UNCHANGED rereading
    BY <1>4 DEF LoginDelivered, LoggedIn
  <2> QED BY <2>1, FrameKeepsPage DEF Adopt
<1>5. CASE Logout \/ LogoutLost
  BY <1>5, ForgettingKeepsPage DEF Logout, LogoutLost, LoggedOut, webVars
<1>6. CASE Arrival
  <2>1. access' = access
    BY <1>6 DEF Arrival, webVars
  <2>2. CASE TabBootstrapped \/ TabReread
    BY <2>1, <2>2, SessionReadKeepsPage DEF TabBootstrapped, TabReread, Bootstrapped, SessionReread
  <2>3. CASE TabEffectAnswered \/ TabRefreshAnswered
    BY <2>1, <2>3, EffectKeepsPage, RefreshKeepsPage DEF TabEffectAnswered, TabRefreshAnswered
  <2> QED BY <1>6, <2>2, <2>3 DEF Arrival
<1>7. CASE Click
  BY <1>7, ClicksKeepPage DEF Click, webVars
<1>8. CASE Midnight
  BY <1>8 DEF Midnight, NextDay, Page, OnScreen, Settling, webVars
<1> QED BY <1>2, <1>3, <1>4, <1>5, <1>6, <1>7, <1>8 DEF Next

\* QuietPagesHaveSettled: for any hotels and periods and any order of answers, a page
\* without a request under way is not left waiting, unless a refresh() was overtaken
\* (use-decision-feed.ts, use-data-overview.ts, use-data-sources.ts).
THEOREM QuietPagesHaveSettled == Spec => []QuietPageHasSettled
<1>1. Init => Page
  BY DEF Init, PageInit, Page, OnScreen, Settling
<1>2. Page => QuietPageHasSettled
  BY DEF Page, Settling, QuietPageHasSettled, Busy, Refreshing
<1> QED BY <1>1, <1>2, NextPage, PTL DEF Spec
================================================================================
