---------------------------- MODULE AccountLogin ----------------------------
(***************************************************************************)
(* The row of one account under overlapping requests: sign-in attempts     *)
(* with a lockout, changes of the password by its owner and resets by      *)
(* mail, each a coroutine that reads the row, decides by what it read and  *)
(* writes.  An update sends the columns whose value differs from the one   *)
(* read (SQLAlchemy), so a column that looks unchanged is not written.     *)
(*                                                                         *)
(* A lock counts down: 0 is no lock, 1 one that has run out, l + 1 one     *)
(* with l ticks to go.  A count stays at the threshold once it is there,   *)
(* since the code only asks whether it has been reached.                   *)
(***************************************************************************)
EXTENDS Naturals, FiniteSets, Sequences, SequencesExt

CONSTANTS
    Requests,     \* coroutines that work on the account
    Passwords,
    First,        \* the password it was registered with
    Threshold,    \* LOCKOUT_THRESHOLD
    Lockout,      \* LOCKOUT_DURATION_MINUTES, in ticks
    Remembered    \* PASSWORD_HISTORY_COUNT

ASSUME LoginAssumption ==
    /\ IsFiniteSet(Requests) /\ Requests # {}
    /\ First \in Passwords
    /\ Threshold \in Nat \ {0}
    /\ Lockout \in Nat \ {0}
    /\ Remembered \in Nat \ {0}

VARIABLES
    row,      \* count: failed_login_attempts, lock: locked_until,
              \* password: hashed_password, history: password_history
    request,  \* [Requests -> ...] what a coroutine does, with the row it read
    misses,   \* history: wrong passwords judged since the counters were cleared
    quiet,    \* history: ticks since the last of them, up to Lockout
    late,     \* history: wrong passwords judged under the present lock, up to one a request
    resets,   \* history: the last passwords set by a finished reset
    crossed   \* history: some request began while another was under way; the
              \* histories above, except late, are kept only until then

loginVars == <<row, request, misses, quiet, late, resets, crossed>>

NoRequest == [kind |-> "idle"]
ToThreshold(n) == IF n > Threshold THEN Threshold ELSE n
LastFew(s) == SubSeq(s, IF Len(s) > Remembered THEN Len(s) - Remembered + 1 ELSE 1, Len(s))
IsLocked(r) == r.lock > 1

LoginInit ==
    /\ row = [count |-> 0, lock |-> 0, password |-> First, history |-> <<>>]
    /\ request = [c \in Requests |-> NoRequest]
    /\ misses = 0
    /\ quiet = Lockout
    /\ late = 0
    /\ resets = <<>>
    /\ crossed = FALSE

-----------------------------------------------------------------------------
Begins(c, r) ==
    /\ request[c] = NoRequest
    /\ request' = [request EXCEPT ![c] = r]
    /\ crossed' = (crossed \/ \E d \in Requests : request[d] # NoRequest)
    /\ IF crossed'
       THEN misses' = 0 /\ quiet' = Lockout /\ resets' = <<>>
       ELSE UNCHANGED <<misses, quiet, resets>>
    /\ UNCHANGED <<row, late>>

Ends(c) == request' = [request EXCEPT ![c] = NoRequest]

\* authenticate: get_by_email; right: the password that is given is the row's
ReadForLogin(c, right) ==
    Begins(c, [kind |-> "login", count |-> row.count, lock |-> row.lock, right |-> right,
               took |-> 0])

\* the lock is not looked at
JudgedAnyway(c) == request[c].kind = "login"
Judged(c) == request[c].kind = "login" /\ ~IsLocked(request[c])

\* starts the lock over
RefuseAndRelock(c) ==
    /\ request[c].kind = "login"
    /\ IsLocked(request[c])
    /\ Ends(c)
    /\ row' = [row EXCEPT !.lock = Lockout + 1]
    /\ UNCHANGED <<misses, quiet, late, resets, crossed>>

\* "Login blocked — account locked": nothing is counted
RefuseLocked(c) ==
    /\ request[c].kind = "login"
    /\ IsLocked(request[c])
    /\ Ends(c)
    /\ UNCHANGED <<row, misses, quiet, late, resets, crossed>>

\* the last failure before the lock is the one after the threshold
LocksAfter(count) == count > Threshold
LocksAt(count) == count >= Threshold

CountMiss(c) ==
    LET count == request[c].count + 1
        lock == IF LocksAt(count) THEN Lockout + 1 ELSE row.lock
    IN  /\ Judged(c)
        /\ ~request[c].right
        /\ row' = [row EXCEPT !.count = ToThreshold(count), !.lock = lock]
        /\ misses' = IF crossed THEN 0 ELSE ToThreshold(misses + 1)
        /\ quiet' = IF crossed THEN Lockout ELSE 0
        /\ late' = IF ~IsLocked(row) THEN 0
                    ELSE IF late < Cardinality(Requests) THEN late + 1 ELSE late
        /\ Ends(c)
        /\ UNCHANGED <<resets, crossed>>

\* The right password clears the counters if the row that was read had any
\* failure; its lock only if that row had one.
AdmitOwner(c) ==
    LET read == request[c]
    IN  /\ Judged(c)
        /\ request[c].right
        /\ row' = IF read.count = 0 THEN row
                  ELSE [row EXCEPT !.count = 0,
                                   !.lock = IF read.lock = 0 THEN row.lock ELSE 0]
        /\ misses' = IF read.count = 0 THEN misses ELSE 0
        /\ late' = IF IsLocked(row') THEN late ELSE 0
        /\ Ends(c)
        /\ UNCHANGED <<quiet, resets, crossed>>

-----------------------------------------------------------------------------
\* _check_password_history
Reused(p) == p = row.password \/ p \in ToSet(LastFew(row.history))

\* reset_password, with a token for the row's password, and PATCH /users/me;
\* a password that is refused leaves everything as it is
ReadForChange(c, kind, p) ==
    /\ ~Reused(p)
    /\ Begins(c, [kind |-> kind, given |-> p, history |-> row.history])

\* nothing but the password just set
PushedAlone(history, p) == <<p>>
Pushed(history, p) == LastFew(Append(history, p))

SetPassword(c) ==
    LET p == request[c].given
    IN  /\ request[c].kind \in {"reset", "change"}
        /\ row' = [row EXCEPT !.password = p]
        /\ request' = [request EXCEPT ![c] =
              IF @.kind = "change" THEN NoRequest
              ELSE [kind |-> "hook", history |-> Pushed(@.history, p)]]
        /\ UNCHANGED <<misses, quiet, late, resets, crossed>>

\* on_after_reset_password, in a session of its own: the hash it pushes is the
\* one just set, and the row's history is the one read before.
AfterReset(c) ==
    /\ request[c].kind = "hook"
    /\ row' = [row EXCEPT !.count = 0, !.lock = 0, !.history = request[c].history]
    /\ misses' = 0
    /\ late' = 0
    /\ resets' = IF crossed THEN <<>> ELSE LastFew(Append(resets, Last(request[c].history)))
    /\ Ends(c)
    /\ UNCHANGED <<quiet, crossed>>

-----------------------------------------------------------------------------
LockAges(lock) == IF lock > 1 THEN lock - 1 ELSE lock

\* A minute passes, for the row and for what was read of it; no attempt lasts
\* through two of them.
Minute ==
    /\ \A c \in Requests : request[c].kind = "login" => request[c].took = 0
    /\ \/ quiet < Lockout
       \/ IsLocked(row)
       \/ \E c \in Requests : request[c].kind = "login" /\ IsLocked(request[c])
    /\ quiet' = IF quiet < Lockout THEN quiet + 1 ELSE quiet
    /\ row' = [row EXCEPT !.lock = LockAges(@)]
    /\ late' = IF IsLocked(row') THEN late ELSE 0
    /\ request' = [c \in Requests |->
          IF request[c].kind = "login" THEN [request[c] EXCEPT !.took = 1, !.lock = LockAges(@)]
          ELSE request[c]]
    /\ UNCHANGED <<misses, resets, crossed>>

LoginNext ==
    \/ \E c \in Requests :
          \/ \E right \in BOOLEAN : ReadForLogin(c, right)
          \/ \E p \in Passwords : ReadForChange(c, "reset", p) \/ ReadForChange(c, "change", p)
          \/ RefuseLocked(c)
          \/ CountMiss(c)
          \/ AdmitOwner(c)
          \/ SetPassword(c)
          \/ AfterReset(c)
    \/ Minute

LoginSpec == LoginInit /\ [][LoginNext]_loginVars

\* Time passes, and an attempt that was begun is judged.
LoginEnds(c) == RefuseLocked(c) \/ CountMiss(c) \/ AdmitOwner(c)
LoginFairness ==
    /\ WF_loginVars(Minute)
    /\ \A c \in Requests : WF_loginVars(LoginEnds(c))

-----------------------------------------------------------------------------
\* While requests do not overlap, once the counter has reached the threshold
\* no further wrong password is even compared until a whole lock has passed
\* since the one before: a lock that runs out leaves the counter, so one
\* failure is enough to lock the account again (authenticate).
GuessesAreSpaced ==
    [][ \A c \in Requests :
          ~crossed /\ Judged(c) /\ ~request[c].right /\ request'[c] = NoRequest /\ misses = Threshold
          => quiet = Lockout ]_loginVars

\* However requests overlap, under one lock only those are still compared that
\* had read the row before: at most one for each of the other requests.
OnlyStragglers == late < Cardinality(Requests)

\* A lock ends, whatever is tried in the meantime: refused attempts do not
\* prolong it.
LockEnds == IsLocked(row) ~> ~IsLocked(row)

\* Passwords set by the last Remembered resets are refused, as long as
\* requests do not overlap (_check_password_history, on_after_reset_password).
ResetsAreRemembered ==
    [][ ~crossed' /\ row'.password # row.password
        => row'.password \notin ToSet(resets) ]_loginVars
=============================================================================
