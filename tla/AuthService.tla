------------------------------ MODULE AuthService ------------------------------
(***************************************************************************)
(* The credential and the sessions of one account, as                       *)
(* app/modules/auth/service.py keeps them: login requests that run at the    *)
(* same time, the command line's set_password beside them, logouts, and the  *)
(* resolution of a session's token.                                          *)
(*                                                                           *)
(* A login locks the credential's row (SELECT ... FOR UPDATE), reads the     *)
(* clock, verifies and commits: LockCredential, then RefuseLogin or          *)
(* OpenSession.  set_password reads the clock first, reads the row WITHOUT   *)
(* a lock, and writes it when it revokes the sessions: BeginRotation,        *)
(* ReadCredential, CommitRotation or RotationRefused.  Its write waits for   *)
(* the lock of a login in progress, and only the columns whose value differs *)
(* from the one that was read are written (the unit of work's UPDATE).       *)
(*                                                                           *)
(* A password is its number: 0 is a wrong guess, n the n-th password the     *)
(* account was given.  An instant is a tick of the clock; 0 stands for NULL. *)
(* The rehash of a password that was just verified accepts the same          *)
(* password, so it is not seen here.  The account stays active.              *)
(***************************************************************************)
EXTENDS Naturals, Sequences, FiniteSets

CONSTANTS Attempts,          \* the login requests that may run at once
          MaxFailedAttempts, \* MAX_FAILED_ATTEMPTS
          LockDuration,      \* LOCK_DURATION, in ticks
          SessionLifetime,   \* SESSION_ABSOLUTE_LIFETIME, in ticks
          Budgets            \* bound: how much may happen in one behaviour

ASSUME PolicyAssumption ==
    /\ MaxFailedAttempts \in Nat \ {0}
    /\ LockDuration \in Nat \ {0}
    /\ SessionLifetime \in Nat \ {0}

VARIABLES clock,      \* the server's clock
          credential, \* the row of user_credentials, or NoCredential
          sessions,   \* the rows of auth_sessions, in the order they were opened
          rowOwner,   \* the login holding the credential's row, or NoOne
          logins,     \* what every login in progress has read
          rotation,   \* set_password in progress
          guesses,    \* history: when a password was tried and refused since
                      \* the account was last opened or rotated
          lifted,     \* history: the last rotation met no failing login
          budget      \* bound: what may still happen

authVars == <<clock, credential, sessions, rowOwner, logins, rotation,
              guesses, lifted, budget>>

NoOne == "no one"
ASSUME NoOneAssumption == NoOne \notin Attempts
NoCredential == [password |-> 0, failed |-> 0, lockedUntil |-> 0]
Idle == [step |-> "idle", given |-> 0, now |-> 0, read |-> NoCredential]
NoRotation == [step |-> "idle", now |-> 0, read |-> NoCredential, met |-> FALSE]

AuthInit ==
    /\ clock = 1
    /\ credential \in {NoCredential, [NoCredential EXCEPT !.password = 1]}
    /\ sessions = <<>>
    /\ rowOwner = NoOne
    /\ logins = [a \in Attempts |-> Idle]
    /\ rotation = NoRotation
    /\ guesses = <<>>
    /\ lifted = FALSE
    /\ budget \in Budgets

Spend(what) ==
    /\ budget[what] > 0
    /\ budget' = [budget EXCEPT ![what] = @ - 1]

Tick ==
    /\ Spend("ticks")
    /\ clock' = clock + 1
    /\ UNCHANGED <<credential, sessions, rowOwner, logins, rotation, guesses,
                   lifted>>

-------------------------------------------------------------------------------
\* _resolve_valid_session: the row behind a token, still good now.
Resolves(token) ==
    /\ token \in DOMAIN sessions
    /\ sessions[token].revokedAt = 0
    /\ sessions[token].expiresAt > clock

-------------------------------------------------------------------------------
\* login

IsLocked(row, now) == row.lockedUntil > now

\* No credential to lock: the dummy verification, and nothing is written.
RefuseUnknown(a) ==
    /\ logins[a].step = "idle"
    /\ credential = NoCredential
    /\ Spend("attempts")
    /\ UNCHANGED <<clock, credential, sessions, rowOwner, logins, rotation,
                   guesses, lifted>>

\* Bug: the row is read without FOR UPDATE.
NoWaiting(a) == TRUE

RowIsFree(a) == rowOwner = NoOne

\* SELECT ... FOR UPDATE answers, then the clock is read.
LockCredential(a, given) ==
    /\ logins[a].step = "idle"
    /\ credential # NoCredential
    /\ RowIsFree(a)
    /\ Spend("attempts")
    /\ rowOwner' = a
    /\ logins' = [logins EXCEPT ![a] = [step |-> "verifying", given |-> given,
                                        now |-> clock, read |-> credential]]
    /\ UNCHANGED <<clock, credential, sessions, rotation, guesses, lifted>>

Verified(l) == l.given = l.read.password
Admitted(l) == Verified(l) /\ ~IsLocked(l.read, l.now)

\* What a refused attempt leaves in the row it has read.
AfterFailure(row, now) ==
    IF IsLocked(row, now) THEN row
    ELSE [row EXCEPT !.failed = @ + 1,
                     !.lockedUntil = IF row.failed + 1 >= MaxFailedAttempts
                                     THEN now + LockDuration ELSE @]

RefuseLogin(a) ==
    LET l == logins[a] IN
    /\ l.step = "verifying"
    /\ ~Admitted(l)
    /\ credential' = AfterFailure(l.read, l.now)
    /\ guesses' = IF IsLocked(l.read, l.now) THEN guesses
                  ELSE Append(guesses, l.now)
    /\ rotation' = [rotation EXCEPT !.met = \/ @
                                            \/ /\ rotation.step = "read"
                                               /\ ~IsLocked(l.read, l.now)]
    /\ logins' = [logins EXCEPT ![a] = Idle]
    /\ rowOwner' = NoOne
    /\ UNCHANGED <<clock, sessions, lifted, budget>>

OpenSession(a) ==
    LET l == logins[a] IN
    /\ l.step = "verifying"
    /\ Admitted(l)
    /\ credential' = [l.read EXCEPT !.failed = 0, !.lockedUntil = 0]
    /\ sessions' = Append(sessions,
                          [openedWith |-> l.given, createdAt |-> l.now,
                           expiresAt |-> l.now + SessionLifetime, revokedAt |-> 0])
    /\ guesses' = <<>>
    /\ logins' = [logins EXCEPT ![a] = Idle]
    /\ rowOwner' = NoOne
    /\ UNCHANGED <<clock, rotation, lifted, budget>>

\* logout_by_raw_token: any token, once.
Revoked(token) ==
    IF token \in DOMAIN sessions /\ sessions[token].revokedAt = 0
    THEN [sessions EXCEPT ![token].revokedAt = clock]
    ELSE sessions

-------------------------------------------------------------------------------
\* set_password

BeginRotation ==
    /\ rotation.step = "idle"
    /\ Spend("rotations")
    /\ rotation' = [NoRotation EXCEPT !.step = "hashing", !.now = clock]
    /\ UNCHANGED <<clock, credential, sessions, rowOwner, logins, guesses, lifted>>

\* The hash is ready; the row is read as it is committed now.
ReadCredential ==
    /\ rotation.step = "hashing"
    /\ rotation' = [rotation EXCEPT !.step = "read", !.read = credential]
    /\ UNCHANGED <<clock, credential, sessions, rowOwner, logins, guesses,
                   lifted, budget>>

NewPassword == rotation.read.password + 1

\* Bug: the new hash is stored and the lock is left as it was.
KeepTheLock(read, row) == [row EXCEPT !.password = NewPassword, !.failed = 0]

\* The UPDATE (or, with no row, the INSERT): the counter and the lock are only
\* written when they differ from what ReadCredential saw.
Rotated(read, row) ==
    [password |-> NewPassword,
     failed |-> IF read.failed = 0 THEN row.failed ELSE 0,
     lockedUntil |-> IF read.lockedUntil = 0 THEN row.lockedUntil ELSE 0]

\* Bug: the sessions are listed before the row is waited for.
ListedBefore(token) ==
    /\ sessions[token].revokedAt = 0
    /\ sessions[token].createdAt < rotation.now

\* SELECT of the user's sessions, once the row has been written.
StillOpen(token) == sessions[token].revokedAt = 0

\* ck revoked_at_not_before_created refuses to revoke a session opened after
\* the clock was read.
TooYoungToRevoke ==
    \E token \in DOMAIN sessions :
        StillOpen(token) /\ sessions[token].createdAt > rotation.now

CommitRotation ==
    /\ rotation.step = "read"
    /\ RowIsFree("rotation")
    /\ ~TooYoungToRevoke
    /\ credential' = Rotated(rotation.read, credential)
    /\ sessions' = [t \in DOMAIN sessions |->
                      IF StillOpen(t)
                      THEN [sessions[t] EXCEPT !.revokedAt = rotation.now]
                      ELSE sessions[t]]
    /\ guesses' = <<>>
    /\ lifted' = ~rotation.met
    /\ rotation' = NoRotation
    /\ UNCHANGED <<clock, rowOwner, logins, budget>>

\* The constraint fails: everything the rotation wrote is rolled back.
RotationRefused ==
    /\ rotation.step = "read"
    /\ RowIsFree("rotation")
    /\ TooYoungToRevoke
    /\ rotation' = NoRotation
    /\ UNCHANGED <<clock, credential, sessions, rowOwner, logins, guesses,
                   lifted, budget>>
===============================================================================
