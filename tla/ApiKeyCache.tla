----------------------------- MODULE ApiKeyCache -----------------------------
(***************************************************************************)
(* The hashes of the administrators' API keys: a table, and in every       *)
(* process that checks keys (the UI backend, the MCP/A2A server) a copy of *)
(* the active ones that is read again once it is Ttl old, or after the     *)
(* process itself has created or deleted a key.                            *)
(*                                                                         *)
(* A check of a key is a coroutine: it awaits the answer of the database,  *)
(* and in the meantime others of its process run.  Time is counted in      *)
(* ages, which stop where nothing depends on them any more.                *)
(***************************************************************************)
EXTENDS Naturals

CONSTANTS
    Keys,      \* keys that may ever be created; a deleted one never comes back
    Procs,     \* processes
    Ui,        \* the one that has the administration routes
    Calls,     \* coroutines that check a key
    Home,      \* [Calls -> Procs]
    Ttl,       \* CACHE_TTL_SECONDS
    CallTime   \* bound: no check takes longer than this

ASSUME CacheAssumption ==
    /\ Ui \in Procs
    /\ Home \in [Calls -> Procs]
    /\ Ttl \in Nat \ {0}
    /\ CallTime \in Nat

VARIABLES
    active,   \* SUBSET Keys: rows with is_active
    born,     \* SUBSET Keys: keys created so far
    pending,  \* changes committed by a route that has yet to call invalidate_cache
    cache,    \* [Procs -> SUBSET Keys] _cache
    age,      \* [Procs -> 0..Ttl] since _cache_loaded_at; Ttl: expired, or _cache is None
    pc,       \* [Calls -> ...] where a check is
    got,      \* [Calls -> SUBSET Keys] the hashes it was given
    took,     \* [Calls -> 0..CallTime] how long it has been running
    since     \* [SUBSET Keys -> Nat] how long ago a set was last the active one

vars == <<active, born, pending, cache, age, pc, got, took, since>>

Window == Ttl + CallTime - 1
Never == Window + 1     \* not for as long as matters

Init ==
    /\ active = {}
    /\ born = {}
    /\ pending = {}
    /\ cache = [p \in Procs |-> {}]
    /\ age = [p \in Procs |-> Ttl]
    /\ pc = [c \in Calls |-> "idle"]
    /\ got = [c \in Calls |-> {}]
    /\ took = [c \in Calls |-> 0]
    /\ since = [S \in SUBSET Keys |-> IF S = {} THEN 0 ELSE Never]

-----------------------------------------------------------------------------
(* The administration routes: commit, then invalidate_cache.               *)

Commit(new, change) ==
    /\ active' = new
    /\ since' = [since EXCEPT ![new] = 0]
    /\ pending' = pending \union {change}
    /\ UNCHANGED <<cache, age, pc, got, took>>

Create(k) ==
    /\ k \notin born
    /\ born' = born \union {k}
    /\ Commit(active \union {k}, <<k, "create">>)

Delete(k) ==
    /\ k \in active
    /\ UNCHANGED born
    /\ Commit(active \ {k}, <<k, "delete">>)

Drop(p) ==
    /\ cache' = [cache EXCEPT ![p] = {}]
    /\ age' = [age EXCEPT ![p] = Ttl]

Invalidate(change) ==
    /\ change \in pending
    /\ pending' = pending \ {change}
    /\ Drop(Ui)
    /\ UNCHANGED <<active, born, pc, got, took, since>>

\* A new key is read back first, and that may fail.
RefreshFails(k) ==
    /\ <<k, "create">> \in pending
    /\ pending' = pending \ {<<k, "create">>}
    /\ UNCHANGED <<active, born, cache, age, pc, got, took, since>>

-----------------------------------------------------------------------------
(* get_active_key_hashes.                                                  *)

\* Nothing awaits between the answer and the caller's test of it.
Quiet == \A c \in Calls : pc[c] \notin {"answer", "failed"}
Moves(c, from, to) == Quiet /\ pc[c] = from /\ pc' = [pc EXCEPT ![c] = to]
Gets(c, S) == got' = [got EXCEPT ![c] = S]

HitAtTtl(c) ==   \* mutant: the copy is used for one unit too long
    /\ age[Home[c]] <= Ttl
    /\ Moves(c, "idle", "answer")
    /\ Gets(c, cache[Home[c]])
    /\ UNCHANGED <<active, born, pending, cache, age, took, since>>

HitSlides(c) ==   \* mutant: using the copy renews it
    /\ age[Home[c]] < Ttl
    /\ Moves(c, "idle", "answer")
    /\ Gets(c, cache[Home[c]])
    /\ age' = [age EXCEPT ![Home[c]] = 0]
    /\ UNCHANGED <<active, born, pending, cache, took, since>>

Hit(c) ==
    /\ age[Home[c]] < Ttl
    /\ Moves(c, "idle", "answer")
    /\ Gets(c, cache[Home[c]])
    /\ UNCHANGED <<active, born, pending, cache, age, took, since>>

Miss(c) ==
    /\ age[Home[c]] = Ttl
    /\ Moves(c, "idle", "query")
    /\ UNCHANGED <<active, born, pending, cache, age, got, took, since>>

\* The database answers ...
Select(c) ==
    /\ Moves(c, "query", "read")
    /\ Gets(c, active)
    /\ UNCHANGED <<active, born, pending, cache, age, took, since>>

\* ... and when the coroutine runs again it stores the answer.
Store(c) ==
    /\ Moves(c, "read", "close")
    /\ cache' = [cache EXCEPT ![Home[c]] = got[c]]
    /\ age' = [age EXCEPT ![Home[c]] = 0]
    /\ UNCHANGED <<active, born, pending, got, took, since>>

\* Leaving the session is an await of its own.
Close(c) ==
    /\ Moves(c, "close", "answer")
    /\ UNCHANGED <<active, born, pending, cache, age, got, took, since>>

LoadFailsCached(c) ==   \* mutant: the empty set of a failed load is kept
    /\ \E at \in {"query", "read", "close"} : Moves(c, at, "failed")
    /\ Gets(c, {})
    /\ cache' = [cache EXCEPT ![Home[c]] = {}]
    /\ age' = [age EXCEPT ![Home[c]] = 0]
    /\ UNCHANGED <<active, born, pending, took, since>>

\* Any of the three awaits may raise: the caller is given the empty set.
LoadFails(c) ==
    /\ \E at \in {"query", "read", "close"} : Moves(c, at, "failed")
    /\ Gets(c, {})
    /\ UNCHANGED <<active, born, pending, cache, age, took, since>>

\* The caller looks for its key in the set, and is done.
Test(c) ==
    /\ pc[c] \in {"answer", "failed"}
    /\ pc' = [pc EXCEPT ![c] = "idle"]
    /\ Gets(c, {})
    /\ took' = [took EXCEPT ![c] = 0]
    /\ UNCHANGED <<active, born, pending, cache, age, since>>

Step(c) == Miss(c) \/ Select(c) \/ Store(c) \/ Close(c) \/ Test(c)

-----------------------------------------------------------------------------
\* A process starts again with nothing.
Restart(p) ==
    /\ Drop(p)
    /\ pc' = [c \in Calls |-> IF Home[c] = p THEN "idle" ELSE pc[c]]
    /\ got' = [c \in Calls |-> IF Home[c] = p THEN {} ELSE got[c]]
    /\ took' = [c \in Calls |-> IF Home[c] = p THEN 0 ELSE took[c]]
    /\ pending' = IF p = Ui THEN {} ELSE pending
    /\ UNCHANGED <<active, born, since>>

Older(n, most) == IF n < most THEN n + 1 ELSE most

Running(c) == pc[c] \in {"query", "read", "close"}
Tick ==
    /\ Quiet
    /\ \A c \in Calls : Running(c) => took[c] < CallTime
    /\ age' = [p \in Procs |-> Older(age[p], Ttl)]
    /\ took' = [c \in Calls |-> IF Running(c) THEN took[c] + 1 ELSE 0]
    /\ since' = [S \in SUBSET Keys |-> IF S = active THEN 0 ELSE Older(since[S], Never)]
    /\ UNCHANGED <<active, born, pending, cache, pc, got>>

Next ==
    \/ \E k \in Keys : Create(k) \/ Delete(k) \/ RefreshFails(k)
    \/ \E change \in pending : Invalidate(change)
    \/ \E c \in Calls : Hit(c) \/ Step(c) \/ LoadFails(c)
    \/ \E p \in Procs : Restart(p)
    \/ Tick

Spec == Init /\ [][Next]_vars

\* Time passes, and the event loop comes back to every coroutine whose await is
\* over, however many others run in between.
FairSpec == Spec /\ SF_vars(Tick) /\ \A c \in Calls : SF_vars(Step(c))

-----------------------------------------------------------------------------
TypeOK ==
    /\ active \in SUBSET Keys
    /\ born \in SUBSET Keys
    /\ pending \in SUBSET (Keys \X {"create", "delete"})
    /\ cache \in [Procs -> SUBSET Keys]
    /\ age \in [Procs -> 0 .. Ttl]
    /\ pc \in [Calls -> {"idle", "query", "read", "close", "answer", "failed"}]
    /\ got \in [Calls -> SUBSET Keys]
    /\ took \in [Calls -> 0 .. CallTime]
    /\ since \in [SUBSET Keys -> 0 .. Never]

\* Whatever coroutines overlap, a check decides by a set of keys that was, as a
\* whole, the active one at some moment of the last Ttl + CallTime: after that long
\* every process refuses a revoked key and accepts a new one (but a check whose
\* query failed refuses every key).
AnswersAreRecent == \A c \in Calls : pc[c] = "answer" => since[got[c]] <= Window

\* What the proof of it needs: how far behind the copy and the checks are.
CacheInv ==
    /\ since[active] = 0
    /\ \A p \in Procs : age[p] < Ttl => since[cache[p]] <= age[p] + CallTime
    /\ \A c \in Calls : pc[c] \in {"read", "close"} => since[got[c]] <= took[c]

IndInv == TypeOK /\ CacheInv /\ AnswersAreRecent

\* A revoked key leaves every process for good, although checks go on using
\* the copies and other keys come and go.
Serves(p, k) == age[p] < Ttl /\ k \in cache[p]
RevokedIsForgotten ==
    \A k \in Keys : (k \in born \ active) ~> [](\A p \in Procs : ~Serves(p, k))
=============================================================================
