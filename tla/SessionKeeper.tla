---------------------------- MODULE SessionKeeper ----------------------------
(***************************************************************************)
(* The sliding session of the web client (useAuth): a cookie that lives    *)
(* for Life ticks and is renewed by an interval timer of half that, if the *)
(* user has done something within the last interval and the request gets   *)
(* through; and an idle timer that signs out.  Both timers live as long as *)
(* the page is signed in.  Until the server has told the page its times,   *)
(* which it may fail to, defaults are used.  A life is two minutes at      *)
(* least: below that the interval is more than half of it.                 *)
(***************************************************************************)
EXTENDS Naturals

CONSTANTS
    HalfLife,     \* AUTH_TOKEN_LIFETIME / 2, the refresh interval
    IdleTimeout,  \* AUTH_IDLE_TIMEOUT
    DefaultHalf,  \* DEFAULT_TOKEN_LIFETIME_MS / 2
    DefaultIdle   \* DEFAULT_IDLE_TIMEOUT_MS

ASSUME KeeperAssumption ==
    {HalfLife, IdleTimeout, DefaultHalf, DefaultIdle} \subseteq Nat \ {0}

VARIABLES
    cookie,      \* ticks for which the cookie is still valid
    signedIn,    \* state.isAuthenticated
    due,         \* ticks to the next tick of the refresh timer
    idle,        \* ticks since the last activity, as far as anything asks
    renewing,    \* POST /auth/refresh: "no", or what came of it
    told,        \* the server has told the page its times
    lively       \* history: since the sign-in the times were known, no refresh was
                 \* lost, and there was neither a reload nor an interval without
                 \* activity

keeperVars == <<cookie, signedIn, due, idle, renewing, told, lively>>

Life == 2 * HalfLife
Interval == IF told THEN HalfLife ELSE DefaultHalf
Timeout == IF told THEN IdleTimeout ELSE DefaultIdle
Longest == IF HalfLife > DefaultHalf THEN HalfLife ELSE DefaultHalf
LongIdle == Life + Longest + IdleTimeout + DefaultIdle

KeeperInit ==
    /\ cookie = 0
    /\ signedIn = FALSE
    /\ due = DefaultHalf
    /\ idle = LongIdle
    /\ renewing = "no"
    /\ told = FALSE
    /\ lively = FALSE

Activity ==
    /\ signedIn
    /\ idle > 0
    /\ idle' = 0
    /\ UNCHANGED <<cookie, signedIn, due, renewing, told, lively>>

\* the answer to /config/auth-status; a timer starts over if its time is another
Configured ==
    /\ ~told
    /\ told' = TRUE
    /\ due' = IF signedIn /\ HalfLife # DefaultHalf THEN HalfLife ELSE due
    /\ idle' = IF signedIn /\ IdleTimeout # DefaultIdle THEN 0 ELSE idle
    /\ UNCHANGED <<cookie, signedIn, renewing, lively>>

\* what comes of a refresh: a lost one does not reach the server, is turned down by
\* its limiter, or fails in it
Refreshed(lost) ==
    /\ renewing' = IF idle >= Interval THEN renewing
                   ELSE IF lost THEN "lost"
                   ELSE IF cookie > 0 THEN "good" ELSE "refused"
    /\ lively' = (lively /\ renewing' # "lost")

\* an interval as long as the cookie lives
RefreshSeldom(lost) ==
    /\ signedIn
    /\ due = 0
    /\ due' = 2 * Interval
    /\ Refreshed(lost)
    /\ UNCHANGED <<cookie, signedIn, idle, told>>

\* tick: skipped when there was nothing for an interval
RefreshTimer(lost) ==
    /\ signedIn
    /\ due = 0
    /\ due' = Interval
    /\ Refreshed(lost)
    /\ UNCHANGED <<cookie, signedIn, idle, told>>

\* the answer: a new cookie, or an error that is ignored
Renewed ==
    /\ renewing # "no"
    /\ renewing' = "no"
    /\ cookie' = IF renewing = "good" THEN Life ELSE cookie
    /\ UNCHANGED <<signedIn, due, idle, told, lively>>

\* handleTimeout; the request that clears the cookie may fail
IdleOut(cleared) ==
    /\ signedIn
    /\ idle >= Timeout
    /\ signedIn' = FALSE
    /\ cookie' = IF cleared THEN 0 ELSE cookie
    /\ UNCHANGED <<due, idle, renewing, told, lively>>

\* logout
SignOut(cleared) ==
    /\ signedIn
    /\ signedIn' = FALSE
    /\ cookie' = IF cleared THEN 0 ELSE cookie
    /\ idle' = 0
    /\ UNCHANGED <<due, renewing, told, lively>>

\* the interceptor: some request was answered 401
ShownOut ==
    /\ signedIn
    /\ cookie = 0
    /\ signedIn' = FALSE
    /\ UNCHANGED <<cookie, due, idle, renewing, told, lively>>

\* login: the cookie first, then the profile, then the timers
SignIn ==
    /\ ~signedIn
    /\ cookie' = Life
    /\ signedIn' = TRUE
    /\ due' = Interval
    /\ idle' = 0
    /\ lively' = told
    /\ UNCHANGED <<renewing, told>>

\* The page is loaded anew: refreshUser on mount, and new timers if it succeeds.
Reload ==
    /\ cookie > 0 \/ signedIn
    /\ signedIn' = (cookie > 0)
    /\ due' = DefaultHalf
    /\ idle' = 0
    /\ renewing' = "no"
    /\ told' = FALSE
    /\ lively' = FALSE
    /\ UNCHANGED cookie

\* Time passes; a timer that is due fires first, and an answer takes less.
KeeperTick ==
    /\ signedIn => due > 0 /\ idle < Timeout
    /\ renewing = "no"
    /\ cookie > 0 \/ signedIn
    /\ cookie' = IF cookie > 0 THEN cookie - 1 ELSE 0
    /\ due' = IF signedIn THEN due - 1 ELSE due
    /\ idle' = IF idle < LongIdle THEN idle + 1 ELSE idle
    /\ lively' = (lively /\ idle' < HalfLife)
    /\ UNCHANGED <<signedIn, renewing, told>>

KeeperNext ==
    \/ Activity
    \/ Configured
    \/ \E lost \in BOOLEAN : RefreshTimer(lost)
    \/ Renewed
    \/ \E cleared \in BOOLEAN : IdleOut(cleared) \/ SignOut(cleared)
    \/ ShownOut
    \/ SignIn
    \/ Reload
    \/ KeeperTick

KeeperSpec == KeeperInit /\ [][KeeperNext]_keeperVars

-----------------------------------------------------------------------------
\* A user who does something in every interval is never signed out by the
\* cookie: it is renewed before it runs out, wherever in an interval the
\* activity falls (as long as the page knows the server's times, no refresh is
\* lost, which nothing repeats, and the page is not reloaded: that starts the
\* timer over, but not the cookie).  And the session of a user who has gone lapses
\* by itself, whether or not the page is still open, its times are the server's and
\* the sign-out reached the server: no cookie outlives the last activity by its
\* life and one interval.
SessionFollowsUse ==
    /\ signedIn /\ lively => cookie > 0
    /\ cookie > 0 => idle <= Life + Longest
=============================================================================
