------------------------------ MODULE PropertyPage -----------------------------
(***************************************************************************)
(* A screen of the web application about one hotel, in one browser tab: the  *)
(* session context (lib/session/session-context.tsx), the resolution of the  *)
(* selected hotel (lib/session/properties.ts) and the hook that loads what   *)
(* the screen shows.  The three hooks are one machine:                       *)
(*   "feed"      useDecisionFeed   (the Home and Decisioni)                   *)
(*   "overview"  useDataOverview   (Dati; also depends on the period)         *)
(*   "sources"   useDataSources    (Struttura; never dated)                   *)
(* An effect asks for the key of the present render and drops every answer   *)
(* to an earlier one; refresh() asks for the key of the render it was        *)
(* clicked in and stores its answer whatever is on screen by then.           *)
(*                                                                           *)
(* Every action that sets state renders the page: the day of the hotel is    *)
(* read again and the effect runs again when its dependencies have changed.  *)
(* A request's answer is decided when it arrives.                            *)
(***************************************************************************)
EXTENDS Naturals, FiniteSets

CONSTANTS Hotels,    \* numbered in the order of their slugs
          Periods    \* the periods of the overview

ASSUME HotelsAssumption == Hotels \subseteq Nat \ {0} /\ IsFiniteSet(Hotels)

VARIABLES screen,    \* the screen that is open
          at,        \* "login" or "page"
          status,    \* SessionProvider: loading, authenticated, unauthenticated
          granted,   \* the hotels of the session context the tab holds
          selected,  \* the hotel the screen is rendered for, or NoHotel
          period,    \* the period chosen
          today,     \* the hotel's calendar day, as the clock has it
          asked,     \* the dependencies of the last effect
          held,      \* the hook's state
          effect,    \* the effect's request is unanswered
          refresh,   \* the key refresh() waits for, or NoKey
          bootstrap, \* GET /auth/session of the mount is unanswered
          rereading, \* GET /auth/session after a 404 is unanswered
          overtaken  \* history: what is held is a refresh()'s answer for a key no
                     \* longer asked for

pageVars == <<screen, at, status, granted, selected, period, today, asked,
              held, effect, refresh, bootstrap, rereading, overtaken>>
hookVars == <<asked, held, effect, refresh, overtaken>>

Screens == {"feed", "overview", "sources"}
NoHotel == 0
NoKey == [hotel |-> NoHotel, day |-> 0, period |-> 0]
Loading == [kind |-> "loading", of |-> NoKey]
Answer == {"OK", "PROPERTY_NOT_FOUND", "FAILED"}

\* allAccessibleProperties is in the order of the slugs.
First(hotels) == CHOOSE h \in hotels : \A other \in hotels : h <= other

\* resolveSelectedProperty
Resolved(hotels, requested) ==
    IF requested \in hotels THEN requested
    ELSE IF hotels = {} THEN NoHotel
    ELSE First(hotels)

\* What a render asks for: the dependencies of the screen's effect.
Key(hotel, ofPeriod) ==
    [hotel |-> hotel,
     day |-> IF screen = "sources" THEN 0 ELSE today,
     period |-> IF screen = "overview" THEN ofPeriod ELSE 0]

\* Bug: only the hotel is among the dependencies.
OtherHotel(key) == key.hotel # asked.hotel

\* The dependencies of the effect have changed.
Changed(key) == key # asked

OnScreen == at = "page" /\ status = "authenticated" /\ selected # NoHotel

\* "refreshing" of the feed and of the overview; the sources have no such flag.
Refreshing == refresh # NoKey /\ screen # "sources"

\* The control that would start another refresh is disabled while this holds.
Busy ==
    \/ Refreshing
    \/ held.kind \in {"loading", "resolving"}
    \/ held.of # asked

\* What is shown: a loaded answer of the hotel and day asked for; another
\* period of the same hotel stays on screen while its own is on the way.
Shown ==
    IF /\ held.kind = "loaded"
       /\ held.of.hotel = asked.hotel
       /\ held.of.day = asked.day
    THEN held.of ELSE NoKey

PageInit ==
    /\ screen \in Screens
    /\ at \in {"login", "page"}
    /\ status = "loading"
    /\ granted = {}
    /\ selected = NoHotel
    /\ period = CHOOSE p \in Periods : TRUE
    /\ today = 1
    /\ asked = NoKey
    /\ held = Loading
    /\ effect = FALSE
    /\ refresh = NoKey
    /\ bootstrap = TRUE
    /\ rereading = FALSE
    /\ overtaken = FALSE

-------------------------------------------------------------------------------
\* Rendering

\* The hook's component renders: the effect runs again if its key has changed,
\* or if the frame around it has rendered too and the hook depends on the
\* callback the frame makes anew each time (only the feed does).
Render(frame) ==
    LET key == Key(selected', period') IN
    /\ asked' = key
    /\ effect' = \/ Changed(key)
                 \/ frame /\ screen = "feed"
                 \/ effect

\* The hook's component is gone: what it asked for is answered to nobody.
Unmount ==
    /\ asked' = NoKey
    /\ held' = Loading
    /\ effect' = FALSE
    /\ refresh' = NoKey
    /\ overtaken' = FALSE

\* The frame renders the hotel that is now selected, or no hotel at all.
Rerender == Render(TRUE) /\ UNCHANGED <<held, refresh, overtaken>>
Frame == IF at' = "page" /\ selected' # NoHotel THEN Rerender ELSE Unmount

-------------------------------------------------------------------------------
\* The session context

\* setSession, or the state an answer of GET /auth/session leaves.
Adopt(hotels) ==
    /\ status' = "authenticated"
    /\ granted' = hotels
    /\ selected' = Resolved(hotels, selected)

\* No session: AuthGate sends the tab to the login form.
Forget ==
    /\ status' = "unauthenticated"
    /\ granted' = {}
    /\ selected' = NoHotel
    /\ at' = "login"

SessionRead(ok, hotels) ==
    \/ ok /\ Adopt(hotels) /\ UNCHANGED at /\ Frame
    \/ ~ok /\ Forget /\ Unmount

Bootstrapped(ok, hotels) ==
    /\ bootstrap
    /\ bootstrap' = FALSE
    /\ UNCHANGED <<screen, period, today, rereading>>
    /\ SessionRead(ok, hotels)

SessionReread(ok, hotels) ==
    /\ rereading
    /\ rereading' = FALSE
    /\ UNCHANGED <<screen, period, today, bootstrap>>
    /\ SessionRead(ok, hotels)

\* The login form: the answer IS the session context.
LoggedIn(hotels) ==
    /\ at = "login"
    /\ at' = "page"
    /\ Adopt(hotels)
    /\ UNCHANGED <<screen, period, today, bootstrap, rereading>>
    /\ Frame

\* logout() has been answered, or has failed: the local state goes either way.
LoggedOut ==
    /\ OnScreen
    /\ Forget
    /\ UNCHANGED <<screen, period, today, bootstrap, rereading>>
    /\ Unmount

-------------------------------------------------------------------------------
\* The hook

KindOf(answer) ==
    CASE answer = "OK" -> "loaded"
      [] answer = "PROPERTY_NOT_FOUND" /\ screen # "sources" -> "resolving"
      [] OTHER -> "error"

\* onPropertyInvalid: the session's hotels are read again.
Invalid(answer) == rereading' = (rereading \/ answer = "PROPERTY_NOT_FOUND")

\* The answer to the request of the present effect.
EffectAnswered(answer) ==
    /\ OnScreen
    /\ effect
    /\ held' = [kind |-> KindOf(answer), of |-> asked]
    /\ Invalid(answer)
    /\ UNCHANGED <<selected, period, today>>
    /\ asked' = Key(selected, period)
    /\ effect' = Changed(Key(selected, period))
    /\ overtaken' = FALSE
    /\ UNCHANGED <<screen, at, status, granted, refresh, bootstrap>>

\* A click on refresh, or an import of the sources' page that has succeeded.
StartRefresh ==
    /\ OnScreen
    /\ refresh = NoKey
    /\ screen # "sources" => ~Busy
    /\ refresh' = asked
    /\ UNCHANGED <<selected, period, today>>
    /\ Render(FALSE)
    /\ UNCHANGED <<screen, at, status, granted, held, bootstrap, rereading,
                   overtaken>>

\* A re-read of the sources that fails keeps the cards of the same hotel.
KeepsTheCards(answer) ==
    /\ screen = "sources"
    /\ KindOf(answer) = "error"
    /\ held.kind = "loaded"
    /\ held.of = refresh

\* The answer to refresh(): stored for the key it was asked for.
RefreshAnswered(answer) ==
    /\ OnScreen
    /\ refresh # NoKey
    /\ refresh' = NoKey
    /\ held' = IF KeepsTheCards(answer) THEN held
               ELSE [kind |-> KindOf(answer), of |-> refresh]
    /\ Invalid(answer)
    /\ UNCHANGED <<selected, period, today>>
    /\ Render(FALSE)
    /\ overtaken' = (refresh # asked')
    /\ UNCHANGED <<screen, at, status, granted, bootstrap>>

-------------------------------------------------------------------------------
\* The person and the clock

SelectHotel(h) ==
    /\ OnScreen
    /\ h \in granted \ {selected}
    /\ selected' = h
    /\ UNCHANGED <<screen, at, status, granted, period, today, bootstrap, rereading>>
    /\ Rerender

SelectPeriod(p) ==
    /\ OnScreen
    /\ screen = "overview"
    /\ p \in Periods \ {period}
    /\ period' = p
    /\ UNCHANGED <<screen, at, status, granted, selected, today, bootstrap, rereading>>
    /\ Rerender

\* Midnight at the hotel: nothing renders.
NextDay ==
    /\ today' = today + 1
    /\ UNCHANGED <<screen, at, status, granted, selected, period, asked, held,
                   effect, refresh, bootstrap, rereading, overtaken>>
===============================================================================
