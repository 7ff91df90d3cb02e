------------------------------- MODULE WebSession ------------------------------
(***************************************************************************)
(* One browser tab in front of the API: the login form and the logout of     *)
(* AuthService, the screen of PropertyPage, and the requests between them.   *)
(* The tab's requests carry the session's cookie, and every one of them is   *)
(* answered by what the cookie resolves to then (app/core/auth.py).          *)
(*                                                                           *)
(* Somebody else may be trying passwords on the same account, the operator   *)
(* may be rotating it, and a hotel may be taken away from it.  A request or  *)
(* its answer may be lost (apiRequest then answers NETWORK_ERROR).           *)
(***************************************************************************)
EXTENDS AuthService, PropertyPage

CONSTANT Browser \* the attempt that is the tab's own login request

ASSUME BrowserAssumption == Browser \in Attempts

VARIABLES cookie, \* the token in the browser's cookie, or NoToken
          reply,  \* the token a login's answer is bringing, or NoToken
          access  \* the hotels the account's memberships reach

webVars == <<cookie, reply, access>>
vars == <<authVars, pageVars, webVars>>

NoToken == 0

Init ==
    /\ AuthInit
    /\ PageInit
    /\ screen \in budget.screens
    /\ cookie = NoToken
    /\ reply = NoToken
    /\ access = Hotels

\* Nothing of the tab moves in a step of the server's.
ServerOnly == UNCHANGED <<pageVars, webVars>>

\* Nothing of the account moves in a step of the tab's.
TabOnly ==
    UNCHANGED <<clock, credential, sessions, rowOwner, logins, rotation,
                guesses, lifted>>

-------------------------------------------------------------------------------
\* The account, as others use it

Others == Attempts \ {Browser}
Guess(a, given) == LockCredential(a, given) /\ ServerOnly
GuessRefused(a) == (RefuseUnknown(a) \/ RefuseLogin(a)) /\ ServerOnly
GuessAdmitted(a) == OpenSession(a) /\ ServerOnly

Rotation ==
    /\ \/ BeginRotation
       \/ ReadCredential
       \/ CommitRotation
       \/ RotationRefused
    /\ ServerOnly

Time == Tick /\ ServerOnly

\* The hotel is archived, or the membership that reached it has ended.
Withdraw(h) ==
    /\ h \in access
    /\ Spend("withdrawals")
    /\ access' = access \ {h}
    /\ TabOnly
    /\ UNCHANGED <<pageVars, cookie, reply>>

-------------------------------------------------------------------------------
\* POST /auth/login from the tab's form

Submit(given) ==
    /\ at = "login"
    /\ reply = NoToken
    /\ LockCredential(Browser, given)
    /\ ServerOnly

SubmitRefused ==
    /\ at = "login"
    /\ reply = NoToken
    /\ RefuseUnknown(Browser) \/ RefuseLogin(Browser)
    /\ ServerOnly

SubmitAdmitted ==
    /\ OpenSession(Browser)
    /\ reply' = Len(sessions')
    /\ UNCHANGED <<pageVars, cookie, access>>

\* The rest of the route: the session the old cookie names is revoked, in a
\* transaction of its own; then the answer sets the new cookie.
LoginDelivered ==
    /\ reply # NoToken
    /\ sessions' = Revoked(cookie)
    /\ cookie' = reply
    /\ reply' = NoToken
    /\ LoggedIn(access)
    /\ UNCHANGED <<clock, credential, rowOwner, logins, rotation, guesses,
                   lifted, budget, access>>

\* The answer is lost: the form says so, and the session opened is nobody's.
LoginLost ==
    /\ reply # NoToken
    /\ sessions' = Revoked(cookie)
    /\ reply' = NoToken
    /\ UNCHANGED <<clock, credential, rowOwner, logins, rotation, guesses,
                   lifted, budget, pageVars, cookie, access>>

-------------------------------------------------------------------------------
\* POST /auth/logout

Logout ==
    /\ Spend("clicks")
    /\ sessions' = Revoked(cookie)
    /\ cookie' = NoToken
    /\ LoggedOut
    /\ UNCHANGED <<clock, credential, rowOwner, logins, rotation, guesses,
                   lifted, reply, access>>

\* The request never arrives: the tab forgets the session it still has.
LogoutLost ==
    /\ Spend("clicks")
    /\ LoggedOut
    /\ TabOnly
    /\ UNCHANGED webVars

-------------------------------------------------------------------------------
\* The tab's reads

\* GET /auth/session: 401, or the hotels of the account now; or no answer.
SessionAnswers == {[ok |-> FALSE, hotels |-> {}]} \cup
                  (IF Resolves(cookie) THEN {[ok |-> TRUE, hotels |-> access]} ELSE {})

\* A property's GET: 401 and a lost answer are the same error to the hook.
Answers(hotel) == {"FAILED"} \cup
    (IF ~Resolves(cookie) THEN {}
     ELSE IF hotel \in access THEN {"OK"} ELSE {"PROPERTY_NOT_FOUND"})

TabBootstrapped == \E s \in SessionAnswers : Bootstrapped(s.ok, s.hotels)
TabReread == \E s \in SessionAnswers : SessionReread(s.ok, s.hotels)
TabEffectAnswered == \E answer \in Answers(asked.hotel) : EffectAnswered(answer)
TabRefreshAnswered == \E answer \in Answers(refresh.hotel) : RefreshAnswered(answer)

Arrival ==
    /\ \/ TabBootstrapped
       \/ TabReread
       \/ TabEffectAnswered
       \/ TabRefreshAnswered
    /\ TabOnly
    /\ UNCHANGED <<webVars, budget>>

Click ==
    /\ Spend("clicks")
    /\ \/ \E h \in Hotels : SelectHotel(h)
       \/ \E p \in Periods : SelectPeriod(p)
       \/ StartRefresh
    /\ TabOnly
    /\ UNCHANGED webVars

Midnight ==
    /\ Spend("midnights")
    /\ NextDay
    /\ TabOnly
    /\ UNCHANGED webVars

-------------------------------------------------------------------------------
Passwords == 0 .. 2

Next ==
    \/ \E a \in Others :
          \/ \E given \in Passwords : Guess(a, given)
          \/ GuessRefused(a)
          \/ GuessAdmitted(a)
    \/ Rotation
    \/ Time
    \/ \E h \in Hotels : Withdraw(h)
    \/ \E given \in Passwords : Submit(given)
    \/ SubmitRefused
    \/ SubmitAdmitted
    \/ LoginDelivered
    \/ LoginLost
    \/ Logout
    \/ LogoutLost
    \/ Arrival
    \/ Click
    \/ Midnight

Spec == Init /\ [][Next]_vars

-------------------------------------------------------------------------------
\* SessionsFollowThePassword: whatever login was under way while the password
\* was replaced ("revokes every one of their existing sessions"), a token that
\* still opens the door was obtained with the password of today.
SessionsFollowThePassword ==
    \A token \in DOMAIN sessions :
        Resolves(token) => sessions[token].openedWith = credential.password

\* GuessesAreBounded: however many attempts run together, between two times the
\* account is opened or rotated no more than MAX_FAILED_ATTEMPTS of them are
\* put to the password within one LOCK_DURATION ("two concurrent login attempts
\* for the SAME user serialize on their failure-counter").
GuessesAreBounded ==
    \A i, j \in DOMAIN guesses :
        j - i >= MaxFailedAttempts => guesses[j] - guesses[i] >= LockDuration

\* RotationLiftsTheLock: a new password is not given to an account that is left
\* locked - unless an attempt failed between set_password's reading of the row
\* and its commit: the unit of work then finds the columns unchanged since its
\* reading and does not write them.
RotationLiftsTheLock ==
    lifted /\ guesses = <<>> =>
        credential.failed = 0 /\ credential.lockedUntil = 0

\* QuietPageHasSettled: a screen with no request left to be answered is not
\* busy, that is, it does not wait for ever with its refresh disabled - unless
\* what it holds is a refresh() answered after the hotel, the day or the period
\* had changed under it, which nothing drops.
QuietPageHasSettled ==
    OnScreen /\ ~effect /\ refresh = NoKey /\ ~rereading /\ ~overtaken
        => ~Busy
===============================================================================
