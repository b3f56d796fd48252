------------------------------ MODULE RateLimit ------------------------------
(***************************************************************************)
(* The sliding window that guards sign-in (auth/rate_limit.py) and the     *)
(* authorization server (mcp_server/oauth.py): per caller a list of the    *)
(* times of the requests let through, pruned when the caller comes again,  *)
(* and in the first of the two swept of idle callers every so many         *)
(* requests.  Times are kept as ages, oldest first.                        *)
(***************************************************************************)
EXTENDS Naturals, Sequences, SequencesExt

CONSTANTS
    Callers,   \* pairs of endpoint and address
    Span,    \* AUTH_RATE_LIMIT_WINDOW, _RATE_LIMIT_WINDOW
    Limit,     \* AUTH_RATE_LIMIT_MAX, _RATE_LIMITS
    GcEvery    \* _GC_INTERVAL

ASSUME RateAssumption == Span \in Nat \ {0} /\ Limit \in Nat \ {0} /\ GcEvery \in Nat \ {0}

VARIABLES
    log,      \* [Callers -> Seq(Nat)] _request_log, _rate_counts
    calls,    \* _call_count
    passed    \* history: [Callers -> Seq(Nat)] ages under Span of what was let through

rateVars == <<log, calls, passed>>

RateInit ==
    /\ log = [i \in Callers |-> <<>>]
    /\ calls = 0
    /\ passed = [i \in Callers |-> <<>>]

\* t > window_start
Fresh(age) == age < Span
\* [t for t in request_times if t > window_start]
Pruned(ages) ==
    LET kept[n \in 0 .. Len(ages)] ==
            IF n = 0 THEN <<>>
            ELSE IF Fresh(ages[n]) THEN Append(kept[n - 1], ages[n]) ELSE kept[n - 1]
    IN  kept[Len(ages)]

\* goes by the oldest request instead of the newest
StaleAtHead(ages) == ages = <<>> \/ ~Fresh(Head(ages))
\* _gc_expired_entries: not ts or ts[-1] <= cutoff
Stale(ages) == ages = <<>> \/ ~Fresh(Last(ages))

\* over the limit: only the pruning stays
TurnAway(i) ==
    /\ Len(Pruned(log[i])) >= Limit
    /\ log' = [log EXCEPT ![i] = Pruned(@)]
    /\ UNCHANGED <<calls, passed>>

LetThrough(i) ==
    LET noted == [log EXCEPT ![i] = Append(Pruned(@), 0)]
        sweep == calls + 1 >= GcEvery
    IN  /\ Len(Pruned(log[i])) < Limit
        /\ log' = IF sweep
                  THEN [j \in Callers |-> IF Stale(noted[j]) THEN <<>> ELSE noted[j]]
                  ELSE noted
        /\ calls' = IF sweep THEN 0 ELSE calls + 1
        /\ passed' = [passed EXCEPT ![i] = Append(@, 0)]

\* An age past the window counts no further.
Second ==
    LET older(age) == IF age < Span THEN age + 1 ELSE age
        aged(ages) == [n \in DOMAIN ages |-> older(ages[n])]
    IN  /\ log' = [i \in Callers |-> aged(log[i])]
        /\ passed' = [i \in Callers |-> Pruned(aged(passed[i]))]
        /\ UNCHANGED calls

RateNext == (\E i \in Callers : TurnAway(i) \/ LetThrough(i)) \/ Second
RateSpec == RateInit /\ [][RateNext]_rateVars

-----------------------------------------------------------------------------
\* No Span seconds let more than Limit requests of a caller through, and a
\* request is refused only if that many went through within the window: neither
\* what is pruned, swept or refused in between counts for or against a caller
\* (_check_rate_limit, check_auth_rate_limit).
LimitIsExact ==
    \A i \in Callers :
        /\ Len(passed[i]) <= Limit
        /\ Len(Pruned(log[i])) >= Limit => Len(passed[i]) >= Limit
=============================================================================
