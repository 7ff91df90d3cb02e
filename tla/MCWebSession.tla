----------------------------- MODULE MCWebSession ------------------------------
(***************************************************************************)
(* The instance of WebSession that TLC checks: two hotels, two periods, one   *)
(* login of the tab's and one of somebody else at a time; an account locks    *)
(* after 2 failures (the code's 5) for 2 ticks, a session lives 2.            *)
(***************************************************************************)
EXTENDS WebSession

\* A behaviour has many logins, or many clicks.
ManyLogins == [attempts |-> 4, rotations |-> 1, ticks |-> 3, clicks |-> 0,
               midnights |-> 0, withdrawals |-> 0, screens |-> {"sources"}]
ManyClicks == [attempts |-> 1, rotations |-> 0, ticks |-> 2, clicks |-> 3,
               midnights |-> 1, withdrawals |-> 2, screens |-> Screens]
TheBudgets == {ManyLogins, ManyClicks}
===============================================================================
