---------------------------- MODULE Access_proofs ----------------------------
(***************************************************************************)
(* Who gets in, and for how long: the sliding session of the web client,   *)
(* the tokens of the MCP sign-in, the row of one account under wrong       *)
(* passwords, resets and changes that may overlap, and the sliding window  *)
(* that limits the requests of a caller.  And for any keys, processes,     *)
(* calls and durations: a check of an API key that is given the hashes is  *)
(* given a set that was the active one at most Window ago.                 *)
(***************************************************************************)
EXTENDS SessionKeeper, McpSignIn, AccountLogin, RateLimit, ApiKeyCache, FiniteSetTheorems,
        SequenceTheorems, WellFoundedInduction, TLAPS

-----------------------------------------------------------------------------
(* useAuth                                                                 *)

KeeperClocks ==
    /\ cookie \in 0 .. Life
    /\ due \in Nat
    /\ idle \in 0 .. LongIdle
KeeperFlags ==
    /\ signedIn \in BOOLEAN
    /\ renewing \in {"no", "good", "refused", "lost"}
    /\ told \in BOOLEAN
    /\ lively \in BOOLEAN
KeeperTypeOK == KeeperClocks /\ KeeperFlags

\* The cookie and the time since the last activity add up to less than a life and
\* an interval, since only an active user's is renewed; that of a lively one
\* outlasts the interval after the one that runs, or is being renewed.
KeeperInv ==
    /\ cookie > 0 => cookie + idle < Life + Longest
    /\ renewing = "good" => idle < Longest
    /\ lively => told
    /\ signedIn /\ lively =>
          /\ idle < HalfLife
          /\ due <= HalfLife
          /\ IF renewing = "good" THEN cookie >= HalfLife ELSE cookie >= due + HalfLife

KeeperIInv == KeeperTypeOK /\ KeeperInv

LEMMA KeeperNumbers ==
    /\ HalfLife \in Nat /\ HalfLife > 0 /\ IdleTimeout \in Nat /\ IdleTimeout > 0
    /\ DefaultHalf \in Nat /\ DefaultHalf > 0 /\ DefaultIdle \in Nat
    /\ Life \in Nat /\ Longest \in Nat /\ LongIdle \in Nat
    /\ Life = 2 * HalfLife /\ HalfLife <= Longest /\ DefaultHalf <= Longest
    /\ LongIdle = Life + Longest + IdleTimeout + DefaultIdle
BY KeeperAssumption DEF Life, Longest, LongIdle

LEMMA IntervalTyped ==
    Interval \in Nat /\ Interval > 0 /\ Interval <= Longest /\ (told => Interval = HalfLife)
BY KeeperNumbers DEF Interval

LEMMA KeeperStarts == KeeperInit => KeeperIInv
<1> SUFFICES ASSUME KeeperInit PROVE KeeperIInv
  OBVIOUS
<1>1. KeeperClocks
  BY KeeperNumbers DEF KeeperInit, KeeperClocks
<1>2. KeeperFlags
  BY DEF KeeperInit, KeeperFlags
<1>3. KeeperInv
  BY KeeperNumbers DEF KeeperInit, KeeperInv
<1> QED
  BY <1>1, <1>2, <1>3 DEF KeeperIInv, KeeperTypeOK

LEMMA KeeperTypes ==
    ASSUME KeeperIInv, [KeeperNext]_keeperVars
    PROVE  KeeperTypeOK'
<1> USE DEF KeeperIInv, KeeperTypeOK
<1>1. KeeperClocks'
  <2> USE KeeperNumbers, IntervalTyped DEF KeeperClocks
  <2>1. CASE Activity \/ Configured \/ ShownOut \/ UNCHANGED keeperVars
    BY <2>1 DEF Activity, Configured, ShownOut, keeperVars
  <2>2. CASE Renewed \/ SignIn \/ Reload
    BY <2>2 DEF Renewed, SignIn, Reload
  <2>3. ASSUME NEW b \in BOOLEAN, RefreshTimer(b) \/ IdleOut(b) \/ SignOut(b) PROVE KeeperClocks'
    BY <2>3 DEF RefreshTimer, IdleOut, SignOut
  <2>4. CASE KeeperTick
    BY <2>4 DEF KeeperTick
  <2> QED
    BY <2>1, <2>2, <2>3, <2>4 DEF KeeperNext
<1>2. KeeperFlags'
  <2> USE DEF KeeperFlags
  <2>1. CASE Activity \/ Configured \/ Renewed \/ ShownOut \/ UNCHANGED keeperVars
    BY <2>1 DEF Activity, Configured, Renewed, ShownOut, keeperVars
  <2>2. ASSUME NEW cleared \in BOOLEAN, IdleOut(cleared) \/ SignOut(cleared) PROVE KeeperFlags'
    BY <2>2 DEF IdleOut, SignOut
  <2>3. ASSUME NEW lost \in BOOLEAN, RefreshTimer(lost) PROVE KeeperFlags'
    <3>1. lively' \in BOOLEAN
      BY <2>3, Zenon DEF RefreshTimer, Refreshed
    <3>2. renewing' \in {renewing, "good", "refused", "lost"} /\ UNCHANGED <<signedIn, told>>
      BY <2>3 DEF RefreshTimer, Refreshed
    <3> QED
      BY <3>1, <3>2
  <2>4. CASE SignIn
    BY <2>4 DEF SignIn
  <2>5. CASE Reload
    <3>1. signedIn' \in BOOLEAN
      <4>1. signedIn' = (cookie > 0)
        BY <2>5 DEF Reload
      <4>2. (cookie > 0) \in BOOLEAN
        BY KeeperNumbers DEF KeeperClocks
      <4> QED
        BY <4>1, <4>2
    <3>2. renewing' = "no" /\ told' = FALSE /\ lively' = FALSE
      BY <2>5 DEF Reload
    <3> QED
      BY <3>1, <3>2
  <2>6. CASE KeeperTick
    <3>1. lively' \in BOOLEAN
      BY <2>6, Zenon DEF KeeperTick
    <3>2. UNCHANGED <<signedIn, renewing, told>>
      BY <2>6 DEF KeeperTick
    <3> QED
      BY <3>1, <3>2
  <2> QED
    BY <2>1, <2>2, <2>3, <2>4, <2>5, <2>6 DEF KeeperNext
<1> QED
  BY <1>1, <1>2

LEMMA KeeperStep == KeeperIInv /\ [KeeperNext]_keeperVars => KeeperIInv'
<1> SUFFICES ASSUME KeeperIInv, [KeeperNext]_keeperVars PROVE KeeperInv'
  BY KeeperTypes DEF KeeperIInv
<1> USE KeeperNumbers DEF KeeperIInv, KeeperTypeOK, KeeperClocks, KeeperInv
<1>1. CASE Activity
  BY <1>1 DEF Activity
<1>2. ASSUME NEW lost \in BOOLEAN, RefreshTimer(lost) PROVE KeeperInv'
  <2>1. /\ due = 0 /\ due' = Interval /\ UNCHANGED <<cookie, signedIn, idle, told>>
        /\ renewing' = IF idle >= Interval THEN renewing
                       ELSE IF lost THEN "lost" ELSE IF cookie > 0 THEN "good" ELSE "refused"
    BY <1>2 DEF RefreshTimer, Refreshed
  <2>2. lively' => lively /\ renewing' # "lost"
    BY <1>2 DEF RefreshTimer, Refreshed
  <2>3. renewing' = "good" => idle < Longest
    BY <2>1, IntervalTyped
  <2>4. CASE signedIn /\ lively
    <3>1. idle < Interval /\ Interval = HalfLife /\ cookie > 0 /\ cookie >= HalfLife
      BY <2>1, <2>4, IntervalTyped
    <3> QED
      BY <2>1, <2>2, <2>3, <2>4, <3>1
  <2> QED
    BY <2>1, <2>2, <2>3, <2>4
<1>3. CASE Renewed
  BY <1>3 DEF Renewed
<1>4. ASSUME NEW cleared \in BOOLEAN, IdleOut(cleared) PROVE KeeperInv'
  BY <1>4 DEF IdleOut
<1>5. ASSUME NEW cleared \in BOOLEAN, SignOut(cleared) PROVE KeeperInv'
  BY <1>5 DEF SignOut
<1>6. CASE ShownOut
  BY <1>6 DEF ShownOut
<1>7. CASE SignIn
  BY <1>7, IntervalTyped DEF SignIn
<1>8. CASE Reload
  BY <1>8 DEF Reload
<1>9. CASE KeeperTick
  <2>1. /\ renewing = "no" /\ renewing' = "no" /\ signedIn' = signedIn /\ told' = told
        /\ signedIn => due > 0 /\ due' = due - 1
        /\ cookie' = IF cookie > 0 THEN cookie - 1 ELSE 0
    BY <1>9 DEF KeeperTick
  <2>2. idle' <= idle + 1
    BY <1>9 DEF KeeperTick
  <2>3. lively' => lively /\ idle' < HalfLife
    BY <1>9 DEF KeeperTick
  <2>4. cookie' > 0 => cookie' + idle' < Life + Longest
    BY <2>1, <2>2, KeeperTypes
  <2>5. signedIn' /\ lively' => idle' < HalfLife /\ due' <= HalfLife /\ cookie' >= due' + HalfLife
    BY <2>1, <2>3
  <2> QED
    BY <2>1, <2>3, <2>4, <2>5
<1>10. CASE Configured
  BY <1>10 DEF Configured
<1>11. CASE UNCHANGED keeperVars
  BY <1>11 DEF keeperVars
<1> QED
  BY <1>1, <1>2, <1>3, <1>4, <1>5, <1>6, <1>7, <1>8, <1>9, <1>10, <1>11 DEF KeeperNext

\* For any lifetime of the cookie and any idle timeout: a user who does something
\* in every interval is not signed out by the cookie, and no cookie outlives the
\* last activity by more than its life and an interval (useAuth).
THEOREM SessionAlwaysFollows == KeeperSpec => []SessionFollowsUse
<1>1. KeeperIInv => SessionFollowsUse
  BY KeeperNumbers DEF KeeperIInv, KeeperTypeOK, KeeperClocks, KeeperInv, SessionFollowsUse
<1> QED
  BY <1>1, KeeperStarts, KeeperStep, PTL DEF KeeperSpec

-----------------------------------------------------------------------------
(* complete_authorize, exchange_token                                      *)

Entry == [id : Nat \union {Gone}, left : Nat, user : Users \union {"none"}]
Verifying == [at : {"verifying"}, flow : Flows, id : Nat, user : Users]

SignInTypeOK ==
    /\ entry \in [Flows -> Entry]
    /\ visit \in [Visits -> {NoVisit} \union Verifying]
    /\ issued \in [Flows -> [codes : Nat, tokens : Nat]]
    /\ subject \in [Flows -> SUBSET Users]
    /\ spent \in [Flows -> SUBSET Nat]
    /\ waited \in [Flows -> Nat]
    /\ begun \subseteq Flows
    /\ spoiled \subseteq Flows

\* An entry e of a request that came so long ago, from which n was handed out to those
\* in who for the identifiers in used: no token was while it is there, its identifier
\* is the last that was given and unused, and its time with its age is never more than
\* the life of the request and those of its codes.
Alive(e, n, used, gone) ==
    /\ e.id = n.codes
    /\ \A id \in used : id < n.codes
    /\ n.codes > 0 => e.user \in Users
    /\ e.left > 0 => gone + e.left <= PendingLife + n.codes * CodeLife + 1
NoneYet(n, who, turnedDown) == n.tokens = 0 /\ who = {} /\ ~turnedDown
OneAtMost(n, who, turnedDown) ==
    /\ n.tokens <= 1
    /\ n.tokens = 1 => n.codes > 0
    /\ who = {} \/ \E u \in Users : who = {u}
    /\ turnedDown => n.tokens = 0
Sound(e, n, who, used, gone, turnedDown) ==
    IF e.id = Gone THEN OneAtMost(n, who, turnedDown)
    ELSE Alive(e, n, used, gone) /\ NoneYet(n, who, turnedDown)

AllSound == \A f \in Flows : Sound(entry[f], issued[f], subject[f], spent[f], waited[f], f \in spoiled)
NotBegun ==
    \A f \in Flows \ begun :
        /\ entry[f] = NoEntry /\ waited[f] = 0
        /\ issued[f].codes = 0 /\ issued[f].tokens = 0 /\ subject[f] = {} /\ spent[f] = {}
        /\ f \notin spoiled

SignInIInv == SignInTypeOK /\ AllSound /\ NotBegun

LEMMA NoEntryTyped ==
    /\ NoEntry \in Entry /\ NoEntry.id = Gone /\ NoEntry.left = 0 /\ NoVisit \notin Verifying
    /\ Gone \notin Nat /\ Pending \in Nat
BY DEF NoEntry, Entry, NoVisit, Verifying, Gone, Pending

\* What is swept or forgotten leaves the request as sound as it was.
LEMMA SoundWithout ==
    ASSUME NEW e \in Entry, NEW n \in [codes : Nat, tokens : Nat],
           NEW who, NEW used, NEW gone, NEW turnedDown,
           Sound(e, n, who, used, gone, turnedDown)
    PROVE  Sound(NoEntry, n, who, used, gone, turnedDown)
BY NoEntryTyped DEF Sound, NoneYet, OneAtMost, Entry

LEMMA SweptTyped ==
    ASSUME SignInTypeOK, AllSound
    PROVE  /\ Swept(entry) \in [Flows -> Entry]
           /\ \A f \in Flows :
                 /\ Sound(Swept(entry)[f], issued[f], subject[f], spent[f], waited[f], f \in spoiled)
                 /\ entry[f] = NoEntry => Swept(entry)[f] = NoEntry
                 /\ Swept(entry)[f].id # Gone => Swept(entry)[f].left > 0
<1> USE NoEntryTyped
<1>1. Swept(entry) \in [Flows -> Entry]
  BY DEF Swept, SignInTypeOK
<1>2. ASSUME NEW f \in Flows
      PROVE  /\ Sound(Swept(entry)[f], issued[f], subject[f], spent[f], waited[f], f \in spoiled)
             /\ entry[f] = NoEntry => Swept(entry)[f] = NoEntry
             /\ Swept(entry)[f].id # Gone => Swept(entry)[f].left > 0
  <2>1. Sound(entry[f], issued[f], subject[f], spent[f], waited[f], f \in spoiled)
    BY DEF AllSound
  <2>2. entry[f] \in Entry /\ issued[f] \in [codes : Nat, tokens : Nat]
    BY DEF SignInTypeOK
  <2>3. Sound(NoEntry, issued[f], subject[f], spent[f], waited[f], f \in spoiled)
    BY <2>1, <2>2, SoundWithout
  <2>4. Swept(entry)[f] = IF entry[f].left = 0 THEN NoEntry ELSE entry[f]
    BY DEF Swept
  <2>5. entry[f].left \in Nat
    BY <2>2 DEF Entry
  <2> QED
    BY <2>1, <2>3, <2>4, <2>5
<1> QED
  BY <1>1, <1>2

LEMMA SignInStarts == SignInInit => SignInIInv
<1> SUFFICES ASSUME SignInInit PROVE SignInIInv
  OBVIOUS
<1>1. SignInTypeOK
  BY NoEntryTyped DEF SignInInit, SignInTypeOK
<1>2. AllSound
  BY NoEntryTyped DEF SignInInit, AllSound, Sound, OneAtMost
<1>3. NotBegun
  BY DEF SignInInit, NotBegun
<1> QED
  BY <1>1, <1>2, <1>3 DEF SignInIInv

\* Where one request f is dealt with and the others are swept, it is enough that
\* f stays sound.
LEMMA SweepKeeps ==
    ASSUME SignInIInv, SignInTypeOK', UNCHANGED <<waited, begun>>, NEW f \in begun,
           \A g \in Flows \ {f} :
              /\ entry'[g] = Swept(entry)[g] /\ issued'[g] = issued[g] /\ subject'[g] = subject[g]
              /\ spent'[g] = spent[g]
              /\ g \in spoiled' <=> g \in spoiled,
           Sound(entry'[f], issued'[f], subject'[f], spent'[f], waited[f], f \in spoiled')
    PROVE  SignInIInv'
<1>1. AllSound'
  <2> SUFFICES ASSUME NEW g \in Flows
               PROVE  Sound(entry'[g], issued'[g], subject'[g], spent'[g], waited'[g], g \in spoiled')
    BY DEF AllSound
  <2>1. CASE g = f
    BY <2>1
  <2>2. CASE g # f
    <3>1. Sound(Swept(entry)[g], issued[g], subject[g], spent[g], waited[g], g \in spoiled)
      BY SweptTyped DEF SignInIInv
    <3>2. (g \in spoiled') = (g \in spoiled)
      BY <2>2
    <3> QED
      BY <2>2, <3>1, <3>2
  <2> QED
    BY <2>1, <2>2
<1>2. NotBegun'
  <2> SUFFICES ASSUME NEW g \in Flows \ begun
               PROVE  /\ entry'[g] = NoEntry /\ waited'[g] = 0
                      /\ issued'[g].codes = 0 /\ issued'[g].tokens = 0 /\ subject'[g] = {}
                      /\ spent'[g] = {} /\ g \notin spoiled'
    BY DEF NotBegun
  <2>1. Swept(entry)[g] = NoEntry
    BY SweptTyped DEF SignInIInv, NotBegun
  <2> QED
    BY <2>1 DEF SignInIInv, NotBegun
<1> QED
  BY <1>1, <1>2 DEF SignInIInv

LEMMA AuthorizeKeeps ==
    ASSUME SignInIInv, NEW f \in Flows, NEW c \in Clients, Authorize(f, c)
    PROVE  SignInIInv'
<1> DEFINE e == [id |-> Pending, left |-> PendingLife + 1, user |-> "none"]
<1>1. e \in Entry /\ e.id = 0 /\ e.left = PendingLife + 1 /\ e.id # Gone
  BY SignInAssumption DEF Entry, Pending, Gone
<1>2. entry' = [entry EXCEPT ![f] = e] /\ begun' = begun \union {f} /\ f \notin begun
      /\ UNCHANGED <<visit, issued, subject, spent, waited, spoiled>>
  BY DEF Authorize
<1> HIDE DEF e
<1>3. SignInTypeOK'
  BY <1>1, <1>2 DEF SignInIInv, SignInTypeOK
<1>4. AllSound'
  <2>1. Sound(e, issued[f], subject[f], spent[f], waited[f], f \in spoiled)
    BY <1>1, <1>2, SignInAssumption DEF SignInIInv, NotBegun, Sound, Alive, NoneYet
  <2> QED
    BY <1>2, <2>1 DEF SignInIInv, SignInTypeOK, AllSound
<1>5. NotBegun'
  BY <1>2 DEF SignInIInv, SignInTypeOK, NotBegun
<1> QED
  BY <1>3, <1>4, <1>5 DEF SignInIInv

LEMMA CompleteKeeps ==
    ASSUME SignInIInv, NEW v \in Visits, Complete(v)
    PROVE  /\ SignInIInv'
           /\ \A g \in Flows : issued'[g] # issued[g] => spent'[g] # spent[g]
           /\ \A g \in Flows : issued'[g].tokens = issued[g].tokens
<1> DEFINE f == visit[v].flow
           u == visit[v].user
           id == visit[v].id
           code == issued[f].codes + 1
           e == [id |-> code, left |-> CodeLife + 1, user |-> u]
           n == [issued[f] EXCEPT !.codes = code]
           live == Swept(entry)
<1>1. f \in Flows /\ u \in Users /\ id \in Nat
  BY DEF SignInIInv, SignInTypeOK, Complete, Verifying
<1>2. issued[f] \in [codes : Nat, tokens : Nat] /\ waited[f] \in Nat /\ spent[f] \subseteq Nat
  BY <1>1 DEF SignInIInv, SignInTypeOK
<1>3. code \in Nat /\ code = issued[f].codes + 1 /\ code > 0
  BY <1>2
<1>4. e \in Entry /\ e.id = code /\ e.left = CodeLife + 1 /\ e.user = u
  BY <1>1, <1>3, SignInAssumption DEF Entry
<1>5. n \in [codes : Nat, tokens : Nat] /\ n.codes = code /\ n.tokens = issued[f].tokens
  BY <1>2, <1>3
<1>6. visit' \in [Visits -> {NoVisit} \union Verifying] /\ UNCHANGED <<subject, waited, begun, spoiled>>
  BY DEF Complete, SignInIInv, SignInTypeOK
<1>7. live \in [Flows -> Entry]
  BY SweptTyped DEF SignInIInv
<1>8. IF live[f].id = id
      THEN /\ entry' = [live EXCEPT ![f] = e] /\ issued' = [issued EXCEPT ![f] = n]
           /\ spent' = [spent EXCEPT ![f] = spent[f] \union {id}]
      ELSE entry' = live /\ UNCHANGED <<issued, spent>>
  BY DEF Complete, Trade
<1>9. Sound(live[f], issued[f], subject[f], spent[f], waited[f], f \in spoiled)
  BY <1>1, SweptTyped DEF SignInIInv
<1>10. live[f].left \in Nat /\ (live[f].id # Gone => live[f].left > 0)
  <2>1. live[f] \in Entry
    BY <1>1, <1>7
  <2>2. live[f].left \in Nat
    BY <2>1 DEF Entry
  <2> QED
    BY <1>1, <2>2, SweptTyped DEF SignInIInv
<1> HIDE DEF f, u, id, code, e, n, live
<1>11. CASE live[f].id = id
  <2>1. /\ entry' = [live EXCEPT ![f] = e] /\ issued' = [issued EXCEPT ![f] = n]
        /\ spent' = [spent EXCEPT ![f] = spent[f] \union {id}]
    BY <1>8, <1>11
  <2>2. live[f].id # Gone
    BY <1>1, <1>11, NoEntryTyped
  <2>3. SignInTypeOK'
    <3>1. entry' \in [Flows -> Entry]
      BY <1>4, <1>7, <2>1
    <3>2. issued' \in [Flows -> [codes : Nat, tokens : Nat]]
      BY <2>1, <1>5 DEF SignInIInv, SignInTypeOK
    <3>3. spent' \in [Flows -> SUBSET Nat]
      BY <1>1, <2>1 DEF SignInIInv, SignInTypeOK
    <3> QED
      BY <1>6, <3>1, <3>2, <3>3 DEF SignInIInv, SignInTypeOK
  <2>4. f \in begun
    <3>1. live[f] # NoEntry
      BY <2>2, NoEntryTyped
    <3>2. entry[f] # NoEntry
      BY <1>1, <3>1, SweptTyped DEF SignInIInv, live
    <3> QED
      BY <1>1, <3>2 DEF SignInIInv, NotBegun
  <2>5. \A g \in Flows \ {f} : entry'[g] = live[g] /\ issued'[g] = issued[g] /\ spent'[g] = spent[g]
    BY <1>7, <2>1 DEF SignInIInv, SignInTypeOK
  <2>6. entry'[f] = e /\ issued'[f] = n /\ spent'[f] = spent[f] \union {id}
    BY <1>1, <1>7, <2>1 DEF SignInIInv, SignInTypeOK
  <2>7. Alive(live[f], issued[f], spent[f], waited[f]) /\ NoneYet(issued[f], subject[f], f \in spoiled)
    BY <1>9, <2>2 DEF Sound
  <2>8. id = issued[f].codes /\ (\A i \in spent[f] : i < id)
    BY <1>11, <2>7 DEF Alive
  <2>9. Alive(e, n, spent[f] \union {id}, waited[f])
    <3>1. code * CodeLife = issued[f].codes * CodeLife + CodeLife
      BY <1>2, <1>3, SignInAssumption
    <3>2. issued[f].codes * CodeLife \in Nat
      BY <1>2, SignInAssumption
    <3>3. waited[f] <= PendingLife + issued[f].codes * CodeLife
      BY <1>2, <1>10, <2>2, <2>7, <3>2, SignInAssumption DEF Alive
    <3>4. waited[f] + e.left <= PendingLife + n.codes * CodeLife + 1
      BY <1>2, <1>3, <1>4, <1>5, <3>1, <3>2, <3>3, SignInAssumption
    <3>5. \A i \in spent[f] \union {id} : i < code
      BY <1>2, <1>3, <2>8
    <3> QED
      BY <1>1, <1>4, <1>5, <3>4, <3>5 DEF Alive
  <2>10. Sound(e, n, subject[f], spent[f] \union {id}, waited[f], f \in spoiled)
    <3>1. e.id # Gone
      BY <1>3, <1>4, NoEntryTyped
    <3> QED
      BY <1>5, <2>7, <2>9, <3>1 DEF Sound, NoneYet
  <2>11. SignInIInv'
    BY <1>6, <2>3, <2>4, <2>5, <2>6, <2>10, SweepKeeps DEF live
  <2>12. spent'[f] # spent[f]
    BY <1>1, <2>6, <2>8
  <2> QED
    BY <1>5, <2>5, <2>6, <2>11, <2>12
<1>12. CASE live[f].id # id
  <2>1. SignInTypeOK'
    BY <1>6, <1>7, <1>8, <1>12 DEF SignInIInv, SignInTypeOK
  <2>2. AllSound' /\ NotBegun'
    BY <1>6, <1>8, <1>12, SweptTyped DEF SignInIInv, AllSound, NotBegun, live
  <2> QED
    BY <1>8, <1>12, <2>1, <2>2 DEF SignInIInv
<1> QED
  BY <1>11, <1>12

LEMMA ExchangeKeeps ==
    ASSUME SignInIInv, NEW f \in Flows, NEW id \in Nat, NEW right \in BOOLEAN,
           Exchange(f, id, right)
    PROVE  /\ SignInIInv'
           /\ \A g \in Flows : issued'[g] # issued[g] => spent'[g] # spent[g]
           /\ \A g \in Flows : issued'[g].tokens > issued[g].tokens
                                  => waited[g] <= PendingLife + issued[g].codes * CodeLife
<1> DEFINE live == Swept(entry)
           found == live[f].id = id
           good == found /\ id # Pending /\ right
<1>1. /\ f \in begun
      /\ entry' = IF found THEN [live EXCEPT ![f] = NoEntry] ELSE live
      /\ issued' = IF good THEN [issued EXCEPT ![f].tokens = @ + 1] ELSE issued
      /\ subject' = IF good THEN [subject EXCEPT ![f] = @ \union {live[f].user}] ELSE subject
      /\ spent' = IF found THEN [spent EXCEPT ![f] = @ \union {id}] ELSE spent
      /\ spoiled' = IF found /\ ~good THEN spoiled \union {f} ELSE spoiled
      /\ UNCHANGED <<known, visit, waited, begun>>
  BY DEF Exchange
<1>2. live \in [Flows -> Entry]
  BY SweptTyped DEF SignInIInv
<1>3. Sound(live[f], issued[f], subject[f], spent[f], waited[f], f \in spoiled)
  BY SweptTyped DEF SignInIInv
<1>4. issued[f] \in [codes : Nat, tokens : Nat] /\ waited[f] \in Nat /\ subject[f] \in SUBSET Users
      /\ spent[f] \subseteq Nat
  BY DEF SignInIInv, SignInTypeOK
<1>5. live[f].left \in Nat /\ (live[f].id # Gone => live[f].left > 0)
  <2>1. live[f] \in Entry
    BY <1>2
  <2>2. live[f].left \in Nat
    BY <2>1 DEF Entry
  <2> QED
    BY <2>2, SweptTyped DEF SignInIInv
<1>6. CASE good
  <2>1. /\ entry' = [live EXCEPT ![f] = NoEntry]
        /\ issued' = [issued EXCEPT ![f] = [issued[f] EXCEPT !.tokens = issued[f].tokens + 1]]
        /\ subject' = [subject EXCEPT ![f] = subject[f] \union {live[f].user}]
        /\ spent' = [spent EXCEPT ![f] = spent[f] \union {id}]
        /\ spoiled' = spoiled
    BY <1>1, <1>6
  <2>2. /\ live[f].user \in Users /\ issued[f].codes = id /\ id > 0 /\ issued[f].tokens = 0
        /\ subject[f] = {} /\ f \notin spoiled /\ id \notin spent[f]
        /\ waited[f] + live[f].left <= PendingLife + issued[f].codes * CodeLife + 1
    <3>1. live[f].id = id /\ id # Gone /\ id > 0
      BY <1>6, NoEntryTyped DEF Pending
    <3>2. Alive(live[f], issued[f], spent[f], waited[f]) /\ NoneYet(issued[f], subject[f], f \in spoiled)
      BY <1>3, <3>1 DEF Sound
    <3>3. live[f].left > 0
      BY <1>5, <3>1
    <3> QED
      BY <1>4, <3>1, <3>2, <3>3 DEF Alive, NoneYet
  <2>3. [issued[f] EXCEPT !.tokens = issued[f].tokens + 1] \in [codes : Nat, tokens : Nat]
    BY <1>4
  <2>4. SignInTypeOK'
    <3>1. entry' \in [Flows -> Entry]
      BY <1>2, <2>1, NoEntryTyped
    <3>2. issued' \in [Flows -> [codes : Nat, tokens : Nat]]
      BY <2>1, <2>3 DEF SignInIInv, SignInTypeOK
    <3>3. subject' \in [Flows -> SUBSET Users]
      BY <2>1, <2>2 DEF SignInIInv, SignInTypeOK
    <3>4. spent' \in [Flows -> SUBSET Nat]
      BY <2>1 DEF SignInIInv, SignInTypeOK
    <3> QED
      BY <1>1, <2>1, <3>1, <3>2, <3>3, <3>4 DEF SignInIInv, SignInTypeOK
  <2>5. \A g \in Flows \ {f} : /\ entry'[g] = live[g] /\ issued'[g] = issued[g]
                              /\ subject'[g] = subject[g] /\ spent'[g] = spent[g]
    BY <1>2, <2>1 DEF SignInIInv, SignInTypeOK
  <2>6. /\ entry'[f] = NoEntry /\ subject'[f] = {live[f].user}
        /\ issued'[f].codes > 0 /\ issued'[f].tokens = 1 /\ spent'[f] # spent[f]
    <3>1. entry'[f] = NoEntry
      BY <1>2, <2>1
    <3>2. issued'[f] = [issued[f] EXCEPT !.tokens = issued[f].tokens + 1]
      BY <2>1 DEF SignInIInv, SignInTypeOK
    <3>3. subject'[f] = subject[f] \union {live[f].user}
      BY <2>1 DEF SignInIInv, SignInTypeOK
    <3>4. issued'[f].codes > 0 /\ issued'[f].tokens = 1
      BY <1>4, <2>2, <3>2
    <3>5. spent'[f] # spent[f]
      BY <2>1, <2>2 DEF SignInIInv, SignInTypeOK
    <3> QED
      BY <2>2, <3>1, <3>3, <3>4, <3>5
  <2>7. Sound(entry'[f], issued'[f], subject'[f], spent'[f], waited[f], f \in spoiled')
    BY <2>1, <2>2, <2>6, NoEntryTyped DEF Sound, OneAtMost
  <2>8. SignInIInv'
    BY <1>1, <2>1, <2>4, <2>5, <2>7, SweepKeeps
  <2>9. waited[f] <= PendingLife + issued[f].codes * CodeLife
    <3>1. issued[f].codes * CodeLife \in Nat
      BY <1>4, SignInAssumption
    <3>2. live[f].left > 0
      BY <1>5, <1>6, NoEntryTyped
    <3> QED
      BY <1>4, <1>5, <2>2, <3>1, <3>2, SignInAssumption
  <2>10. \A g \in Flows \ {f} : ~(issued'[g].tokens > issued[g].tokens)
    <3> SUFFICES ASSUME NEW g \in Flows \ {f} PROVE ~(issued'[g].tokens > issued[g].tokens)
      OBVIOUS
    <3>1. issued'[g] = issued[g] /\ issued[g].tokens \in Nat
      BY <2>5 DEF SignInIInv, SignInTypeOK
    <3> QED
      BY <3>1
  <2> QED
    BY <2>5, <2>6, <2>8, <2>9, <2>10
<1>7. CASE ~good
  <2>1. issued' = issued /\ subject' = subject
    BY <1>1, <1>7
  <2>2. SignInTypeOK'
    BY <1>1, <1>2, <2>1, NoEntryTyped DEF SignInIInv, SignInTypeOK
  <2>3. Sound(entry'[f], issued'[f], subject'[f], spent'[f], waited[f], f \in spoiled')
    <3>1. CASE found
      <4>1. entry'[f] = NoEntry /\ f \in spoiled'
        BY <1>1, <1>2, <1>7, <3>1
      <4>2. live[f].id # Gone
        BY <3>1, NoEntryTyped
      <4>3. issued[f].tokens = 0 /\ subject[f] = {}
        BY <1>3, <4>2 DEF Sound, NoneYet
      <4> QED
        BY <2>1, <4>1, <4>3, NoEntryTyped DEF Sound, OneAtMost
    <3>2. CASE ~found
      BY <1>1, <1>3, <2>1, <3>2
    <3> QED
      BY <3>1, <3>2
  <2>4. \A g \in Flows \ {f} :
           /\ entry'[g] = Swept(entry)[g] /\ issued'[g] = issued[g] /\ subject'[g] = subject[g]
           /\ spent'[g] = spent[g]
           /\ g \in spoiled' <=> g \in spoiled
    <3> SUFFICES ASSUME NEW g \in Flows, g # f
                 PROVE  /\ entry'[g] = Swept(entry)[g] /\ spent'[g] = spent[g]
                        /\ g \in spoiled' <=> g \in spoiled
      BY <2>1
    <3>1. entry'[g] = live[g]
      BY <1>1, <1>2
    <3>2. spent'[g] = spent[g]
      BY <1>1 DEF SignInIInv, SignInTypeOK
    <3>3. g \in spoiled' <=> g \in spoiled
      BY <1>1
    <3> QED
      BY <3>1, <3>2, <3>3
  <2>5. SignInIInv'
    <3>1. f \in begun /\ UNCHANGED <<waited, begun>>
      BY <1>1
    <3> QED
      BY <2>2, <2>3, <2>4, <3>1, SweepKeeps
  <2>6. \A g \in Flows : ~(issued'[g].tokens > issued[g].tokens)
    <3> SUFFICES ASSUME NEW g \in Flows PROVE ~(issued'[g].tokens > issued[g].tokens)
      OBVIOUS
    <3>1. issued[g].tokens \in Nat
      BY DEF SignInIInv, SignInTypeOK
    <3> QED
      BY <2>1, <3>1
  <2> QED
    BY <2>1, <2>5, <2>6
<1> QED
  BY <1>6, <1>7

LEMMA MinutesKeep ==
    ASSUME SignInIInv, FiveMinutes
    PROVE  SignInIInv'
<1>1. \A f \in Flows :
        /\ entry[f] \in Entry
        /\ entry'[f] = [entry[f] EXCEPT !.left = IF entry[f].left > 0 THEN entry[f].left - 1 ELSE 0]
        /\ waited'[f] = IF f \in begun /\ waited[f] < Ever THEN waited[f] + 1 ELSE waited[f]
        /\ waited[f] \in Nat
  BY DEF FiveMinutes, SignInIInv, SignInTypeOK
<1>2. UNCHANGED <<visit, issued, subject, spent, begun, spoiled>>
  BY DEF FiveMinutes
<1>3. \A f \in Flows :
        /\ entry'[f] \in Entry /\ entry'[f].id = entry[f].id /\ entry'[f].user = entry[f].user
        /\ entry[f].left \in Nat /\ entry'[f].left \in Nat
        /\ entry'[f].left > 0 => entry[f].left > 0 /\ entry'[f].left = entry[f].left - 1
  <2> SUFFICES ASSUME NEW f \in Flows
               PROVE  /\ entry'[f] \in Entry /\ entry'[f].id = entry[f].id
                      /\ entry'[f].user = entry[f].user
                      /\ entry[f].left \in Nat /\ entry'[f].left \in Nat
                      /\ entry'[f].left > 0 => entry[f].left > 0 /\ entry'[f].left = entry[f].left - 1
    OBVIOUS
  <2> DEFINE left == IF entry[f].left > 0 THEN entry[f].left - 1 ELSE 0
  <2>1. entry[f].left \in Nat /\ entry[f] \in Entry /\ entry'[f] = [entry[f] EXCEPT !.left = left]
    BY <1>1 DEF Entry
  <2>2. left \in Nat /\ (left > 0 => entry[f].left > 0 /\ left = entry[f].left - 1)
    BY <2>1
  <2> HIDE DEF left
  <2>3. entry'[f] \in Entry /\ entry'[f].left = left /\ entry'[f].id = entry[f].id
        /\ entry'[f].user = entry[f].user
    BY <2>1, <2>2 DEF Entry
  <2> QED
    BY <2>1, <2>2, <2>3
<1>4. \A f \in Flows : waited'[f] \in Nat /\ waited'[f] <= waited[f] + 1
  <2> SUFFICES ASSUME NEW f \in Flows PROVE waited'[f] \in Nat /\ waited'[f] <= waited[f] + 1
    OBVIOUS
  <2>1. waited[f] \in Nat /\ waited'[f] \in {waited[f], waited[f] + 1}
    BY <1>1
  <2> QED
    BY <2>1
<1>5. SignInTypeOK'
  <2>1. entry' \in [Flows -> Entry]
    BY <1>3 DEF FiveMinutes
  <2>2. waited' \in [Flows -> Nat]
    BY <1>4 DEF FiveMinutes
  <2> QED
    BY <1>2, <2>1, <2>2 DEF SignInIInv, SignInTypeOK
<1>6. AllSound'
  <2> SUFFICES ASSUME NEW f \in Flows
               PROVE  Sound(entry'[f], issued[f], subject[f], spent[f], waited'[f], f \in spoiled)
    BY <1>2 DEF AllSound
  <2>1. Sound(entry[f], issued[f], subject[f], spent[f], waited[f], f \in spoiled)
    BY DEF SignInIInv, AllSound
  <2>2. waited[f] \in Nat
    BY <1>1
  <2>3. \A life \in Nat : entry[f].left > 0 /\ waited[f] + entry[f].left <= life
                            /\ entry'[f].left > 0 => waited'[f] + entry'[f].left <= life
    BY <1>3, <1>4, <2>2
  <2>4. PendingLife + issued[f].codes * CodeLife + 1 \in Nat
    <3>1. issued[f].codes \in Nat
      BY DEF SignInIInv, SignInTypeOK
    <3>2. issued[f].codes * CodeLife \in Nat
      BY <3>1, SignInAssumption
    <3> QED
      BY <3>2, SignInAssumption
  <2>5. CASE entry[f].id = Gone
    BY <1>3, <2>1, <2>5 DEF Sound
  <2>6. CASE entry[f].id # Gone
    <3>1. Alive(entry[f], issued[f], spent[f], waited[f])
      BY <2>1, <2>6 DEF Sound
    <3>2. entry'[f].left > 0 => waited'[f] + entry'[f].left <= PendingLife + issued[f].codes * CodeLife + 1
      BY <1>3, <2>3, <2>4, <3>1 DEF Alive
    <3>3. Alive(entry'[f], issued[f], spent[f], waited'[f])
      BY <1>3, <3>1, <3>2 DEF Alive
    <3> QED
      BY <1>3, <2>1, <2>6, <3>3 DEF Sound
  <2> QED
    BY <2>5, <2>6
<1>7. NotBegun'
  <2> SUFFICES ASSUME NEW f \in Flows \ begun PROVE entry'[f] = NoEntry /\ waited'[f] = 0
    BY <1>2 DEF SignInIInv, NotBegun
  <2>1. entry[f] = NoEntry /\ waited[f] = 0
    BY DEF SignInIInv, NotBegun
  <2>2. entry'[f] = [NoEntry EXCEPT !.left = 0]
    BY <1>1, <2>1, NoEntryTyped
  <2> QED
    BY <1>1, <2>1, <2>2 DEF NoEntry
<1> QED
  BY <1>5, <1>6, <1>7 DEF SignInIInv

\* What a step hands out: one thing for an identifier that was not used, a token in time.
HandsOut ==
    /\ \A f \in Flows : issued'[f] # issued[f] => spent'[f] # spent[f]
    /\ \A f \in Flows : issued'[f].tokens > issued[f].tokens
                           => waited[f] <= PendingLife + issued[f].codes * CodeLife

LEMMA SignInStep ==
    ASSUME SignInIInv, [SignInNext]_signInVars
    PROVE  SignInIInv' /\ HandsOut
<1>1. ASSUME NEW f \in Flows, NEW id \in 0 .. MaxCodes, NEW right \in BOOLEAN,
             Exchange(f, id, right)
      PROVE  SignInIInv' /\ HandsOut
  <2>1. id \in Nat
    BY SignInAssumption
  <2> QED
    BY <1>1, <2>1, ExchangeKeeps DEF HandsOut
<1>2. ASSUME \A f \in Flows : issued'[f].tokens = issued[f].tokens,
             \A f \in Flows : issued'[f] # issued[f] => spent'[f] # spent[f]
      PROVE  HandsOut
  <2> SUFFICES ASSUME NEW f \in Flows PROVE ~(issued'[f].tokens > issued[f].tokens)
    BY <1>2 DEF HandsOut
  <2>1. issued[f].tokens \in Nat
    BY DEF SignInIInv, SignInTypeOK
  <2> QED
    BY <1>2, <2>1
<1>3. ASSUME NEW f \in Flows, NEW c \in Clients, Authorize(f, c)
      PROVE  SignInIInv' /\ UNCHANGED issued
  BY <1>3, AuthorizeKeeps DEF Authorize
<1>4. ASSUME NEW v \in Visits, Complete(v)
      PROVE  SignInIInv' /\ HandsOut
  BY <1>2, <1>4, CompleteKeeps
<1>5. ASSUME NEW v \in Visits, NEW f \in Flows, NEW id \in 0 .. MaxCodes, NEW u \in Users,
             Visit(v, f, id, u)
      PROVE  SignInIInv' /\ UNCHANGED issued
  <2>1. [at |-> "verifying", flow |-> f, id |-> id, user |-> u] \in Verifying
    BY SignInAssumption DEF Verifying
  <2> QED
    BY <1>5, <2>1 DEF Visit, SignInIInv, SignInTypeOK, AllSound, NotBegun
<1>6. ASSUME NEW v \in Visits, VisitFails(v)
      PROVE  SignInIInv' /\ UNCHANGED issued
  BY <1>6 DEF VisitFails, SignInIInv, SignInTypeOK, AllSound, NotBegun
<1>7. CASE (\E c \in Clients : RegisterClient(c)) \/ UNCHANGED signInVars
  <2>1. SignInIInv' /\ UNCHANGED issued
    BY <1>7 DEF RegisterClient, signInVars, SignInIInv, SignInTypeOK, AllSound, NotBegun
  <2> QED
    BY <1>2, <2>1
<1>8. CASE RestartServer
  <2>1. UNCHANGED <<issued, subject, spent, waited, begun, spoiled>>
        /\ entry' = [f \in Flows |-> NoEntry] /\ visit' = [v \in Visits |-> NoVisit]
    BY <1>8 DEF RestartServer
  <2>2. AllSound'
    BY <2>1, SoundWithout DEF SignInIInv, SignInTypeOK, AllSound
  <2>3. SignInTypeOK' /\ NotBegun'
    BY <2>1, NoEntryTyped DEF SignInIInv, SignInTypeOK, NotBegun
  <2> QED
    BY <1>2, <2>1, <2>2, <2>3 DEF SignInIInv
<1>9. CASE FiveMinutes
  BY <1>2, <1>9, MinutesKeep DEF FiveMinutes
<1> QED
  BY <1>1, <1>2, <1>3, <1>4, <1>5, <1>6, <1>7, <1>8, <1>9 DEF SignInNext

LEMMA SoundIsOneToken == SignInIInv => OneTokenEach
<1> SUFFICES ASSUME SignInIInv, NEW f \in Flows
             PROVE  /\ issued[f].tokens <= 1
                    /\ issued[f].tokens = 1 => issued[f].codes > 0
                    /\ Cardinality(subject[f]) <= 1
                    /\ "none" \notin subject[f]
                    /\ f \in spoiled => issued[f].tokens = 0
  BY DEF OneTokenEach
<1>1. entry[f] \in Entry /\ issued[f] \in [codes : Nat, tokens : Nat]
      /\ Sound(entry[f], issued[f], subject[f], spent[f], waited[f], f \in spoiled)
  BY DEF SignInIInv, SignInTypeOK, AllSound
<1>2. /\ issued[f].tokens <= 1 /\ (issued[f].tokens = 1 => issued[f].codes > 0)
      /\ subject[f] = {} \/ \E u \in Users : subject[f] = {u}
      /\ f \in spoiled => issued[f].tokens = 0
  BY <1>1 DEF Sound, NoneYet, OneAtMost
<1>3. Cardinality(subject[f]) <= 1
  <2>1. CASE subject[f] = {}
    BY <2>1, FS_EmptySet
  <2>2. ASSUME NEW u \in Users, subject[f] = {u} PROVE Cardinality(subject[f]) <= 1
    <3>1. Cardinality({u}) = 1
      BY FS_Singleton
    <3> QED
      BY <2>2, <3>1
  <2> QED
    BY <1>2, <2>1, <2>2
<1>4. "none" \notin subject[f]
  BY <1>2, SignInAssumption
<1> QED
  BY <1>2, <1>3, <1>4

\* For any clients, users and lives of requests and codes, however often a browser
\* completes, a client exchanges and the server restarts: one token for a request
\* at most, one use of an identifier, and no token after the time of the request and of
\* its codes up to the one it is for (complete_authorize, exchange_token).
THEOREM TokensAlwaysInTime == SignInSpec => TokensInTime
<1> DEFINE Timely == OneTokenEach' /\ HandsOut
<1>1. SignInIInv /\ [SignInNext]_signInVars => SignInIInv'
  BY SignInStep
<1>2. SignInIInv /\ [SignInNext]_signInVars => [Timely]_signInVars
  <2>1. SignInIInv' => OneTokenEach'
    BY SoundIsOneToken, PTL
  <2> QED
    BY <2>1, SignInStep
<1>3. TokensInTime <=> [][Timely]_signInVars
  BY PTL DEF TokensInTime, Timely, HandsOut
<1> QED
  BY <1>1, <1>2, <1>3, SignInStarts, PTL DEF SignInSpec

-----------------------------------------------------------------------------
(* authenticate, reset_password, PATCH /users/me                           *)

LockTimes == 0 .. Lockout + 1
RowOf == [count : Nat, lock : LockTimes, password : Passwords, history : Seq(Passwords)]
LoginOf == [kind : {"login"}, count : Nat, lock : Nat, right : BOOLEAN, took : {0, 1}]
ChangeOf == [kind : {"reset", "change"}, given : Passwords, history : Seq(Passwords)]
HookOf == [kind : {"hook"}, history : Seq(Passwords) \ {<<>>}]

LoginTypeOK ==
    /\ row \in RowOf
    /\ request \in [Requests -> {NoRequest} \union LoginOf \union ChangeOf \union HookOf]
    /\ misses \in Nat
    /\ quiet \in 0 .. Lockout
    /\ late \in Nat
    /\ resets \in Seq(Passwords)
    /\ crossed \in BOOLEAN

LEMMA LoginNumbers ==
    /\ IsFiniteSet(Requests) /\ Requests # {}
    /\ Threshold \in Nat /\ Threshold > 0 /\ Lockout \in Nat /\ Lockout > 0
    /\ Remembered \in Nat /\ Remembered > 0 /\ First \in Passwords
BY LoginAssumption

LEMMA NoRequestKind == NoRequest.kind = "idle" /\ NoRequest \notin LoginOf \union ChangeOf \union HookOf
BY DEF NoRequest, LoginOf, ChangeOf, HookOf

LEMMA CountsNat == \A n \in Nat : ToThreshold(n) \in Nat
BY LoginNumbers DEF ToThreshold

LEMMA AgesLess ==
    ASSUME NEW l \in Nat
    PROVE  LockAges(l) \in Nat /\ LockAges(l) <= l
BY DEF LockAges

LEMMA LastFewTyped ==
    ASSUME NEW s \in Seq(Passwords)
    PROVE  /\ LastFew(s) \in Seq(Passwords)
           /\ s # <<>> => LastFew(s) # <<>> /\ Last(LastFew(s)) = Last(s)
           /\ Len(LastFew(s)) <= Remembered
           /\ Len(s) <= Remembered => LastFew(s) = s
<1> DEFINE m == IF Len(s) > Remembered THEN Len(s) - Remembered + 1 ELSE 1
<1>1. Len(s) \in Nat
  BY LenProperties
<1>2. m \in 1 .. Len(s) + 1
  BY <1>1, LoginNumbers
<1>3. m <= Len(s) <=> s # <<>>
  BY <1>1, LoginNumbers, EmptySeq
<1>4. Len(s) - m + 1 <= Remembered /\ (Len(s) <= Remembered => m = 1)
  BY <1>1, LoginNumbers
<1> HIDE DEF m
<1> DEFINE few == SubSeq(s, m, Len(s))
<1>5. /\ few \in Seq(Passwords)
      /\ Len(few) = Len(s) - m + 1
      /\ \A i \in 1 .. Len(s) - m + 1 : few[i] = s[m + i - 1]
  BY <1>1, <1>2, SubSeqProperties
<1>6. Len(s) <= Remembered => few = s
  BY <1>4, SubSeqFull
<1> HIDE DEF few
<1>7. ASSUME s # <<>> PROVE few # <<>> /\ Last(few) = Last(s)
  <2>1. Len(few) \in 1 .. Len(s) - m + 1 /\ m + Len(few) - 1 = Len(s)
    BY <1>1, <1>2, <1>3, <1>5, <1>7
  <2>2. few[Len(few)] = s[Len(s)]
    BY <1>5, <2>1
  <2>3. few # <<>>
    <3> SUFFICES ASSUME few = <<>> PROVE FALSE
      OBVIOUS
    <3>1. Len(few) = 0
      BY EmptySeq
    <3> QED
      BY <2>1, <3>1
  <2> QED
    BY <2>2, <2>3 DEF Last
<1> QED
  BY <1>4, <1>5, <1>6, <1>7 DEF LastFew, m, few

LEMMA LoginStartsTyped == LoginInit => LoginTypeOK
<1> SUFFICES ASSUME LoginInit PROVE LoginTypeOK
  OBVIOUS
<1>1. <<>> \in Seq(Passwords) /\ 0 \in LockTimes /\ Lockout \in 0 .. Lockout
  BY LoginNumbers, EmptySeq DEF LockTimes
<1> QED
  BY <1>1, LoginNumbers DEF LoginInit, LoginTypeOK, RowOf

\* Where a request is begun the row stays, and the others do what they did.
LEMMA BeginTyped ==
    ASSUME LoginTypeOK, NEW c \in Requests, NEW r \in LoginOf \union ChangeOf, Begins(c, r)
    PROVE  LoginTypeOK'
<1>1. request' \in [Requests -> {NoRequest} \union LoginOf \union ChangeOf \union HookOf]
  BY DEF Begins, LoginTypeOK
<1>2. misses' \in Nat /\ quiet' \in 0 .. Lockout /\ resets' \in Seq(Passwords)
  <2>1. CASE crossed'
    <3>1. misses' = 0 /\ quiet' = Lockout /\ resets' = <<>>
      BY <2>1 DEF Begins
    <3>2. <<>> \in Seq(Passwords)
      BY EmptySeq
    <3> QED
      BY <3>1, <3>2, LoginNumbers
  <2>2. CASE ~crossed'
    BY <2>2 DEF Begins, LoginTypeOK
  <2> QED
    BY <2>1, <2>2
<1>3. crossed' \in BOOLEAN
  BY DEF Begins, LoginTypeOK
<1> QED
  BY <1>1, <1>2, <1>3 DEF Begins, LoginTypeOK

LEMMA LoginTypes == LoginTypeOK /\ [LoginNext]_loginVars => LoginTypeOK'
<1> SUFFICES ASSUME LoginTypeOK, [LoginNext]_loginVars PROVE LoginTypeOK'
  OBVIOUS
<1> USE LoginNumbers
<1>1. ASSUME NEW c \in Requests, NEW right \in BOOLEAN, ReadForLogin(c, right) PROVE LoginTypeOK'
  <2>1. [kind |-> "login", count |-> row.count, lock |-> row.lock, right |-> right, took |-> 0] \in LoginOf
    <3>1. row.count \in Nat /\ row.lock \in Nat
      BY DEF LoginTypeOK, RowOf, LockTimes
    <3> QED
      BY <3>1 DEF LoginOf
  <2> QED
    BY <1>1, <2>1, BeginTyped DEF ReadForLogin
<1>2. ASSUME NEW c \in Requests, NEW p \in Passwords, NEW kind \in {"reset", "change"},
             ReadForChange(c, kind, p)
      PROVE  LoginTypeOK'
  <2>1. [kind |-> kind, given |-> p, history |-> row.history] \in ChangeOf
    BY DEF LoginTypeOK, ChangeOf, RowOf
  <2> QED
    BY <1>2, <2>1, BeginTyped DEF ReadForChange
<1>3. ASSUME NEW c \in Requests, RefuseLocked(c) PROVE LoginTypeOK'
  BY <1>3 DEF RefuseLocked, Ends, LoginTypeOK
<1>4. ASSUME NEW c \in Requests, CountMiss(c) PROVE LoginTypeOK'
  <2> DEFINE count == request[c].count + 1
             lock == IF LocksAt(count) THEN Lockout + 1 ELSE row.lock
  <2>1. request[c] \in LoginOf
    BY <1>4, NoRequestKind DEF CountMiss, Judged, LoginTypeOK, ChangeOf, HookOf
  <2>2. count \in Nat /\ lock \in LockTimes
    BY <2>1 DEF LoginOf, LoginTypeOK, RowOf, LockTimes
  <2>3. row' = [row EXCEPT !.count = ToThreshold(count), !.lock = lock]
    BY <1>4 DEF CountMiss
  <2>4. row' \in RowOf
    BY <2>2, <2>3, CountsNat DEF LoginTypeOK, RowOf
  <2>5. misses' \in Nat
    BY <1>4, CountsNat DEF CountMiss, LoginTypeOK
  <2>6. quiet' \in 0 .. Lockout
    BY <1>4 DEF CountMiss
  <2>7. late' \in Nat
    BY <1>4 DEF CountMiss, LoginTypeOK
  <2>8. request' \in [Requests -> {NoRequest} \union LoginOf \union ChangeOf \union HookOf]
    BY <1>4 DEF CountMiss, Ends, LoginTypeOK
  <2> QED
    BY <1>4, <2>4, <2>5, <2>6, <2>7, <2>8 DEF CountMiss, LoginTypeOK
<1>5. ASSUME NEW c \in Requests, AdmitOwner(c) PROVE LoginTypeOK'
  <2>1. row' \in RowOf
    <3>1. 0 \in LockTimes /\ row.lock \in LockTimes
      BY DEF LoginTypeOK, RowOf, LockTimes
    <3> QED
      BY <1>5, <3>1 DEF AdmitOwner, LoginTypeOK, RowOf
  <2>2. misses' \in Nat /\ late' \in Nat
    BY <1>5 DEF AdmitOwner, LoginTypeOK
  <2>3. request' \in [Requests -> {NoRequest} \union LoginOf \union ChangeOf \union HookOf]
    BY <1>5 DEF AdmitOwner, Ends, LoginTypeOK
  <2> QED
    BY <1>5, <2>1, <2>2, <2>3 DEF AdmitOwner, LoginTypeOK
<1>6. ASSUME NEW c \in Requests, SetPassword(c) PROVE LoginTypeOK'
  <2>1. request[c] \in ChangeOf
    BY <1>6, NoRequestKind DEF SetPassword, LoginTypeOK, LoginOf, HookOf
  <2>2. request[c].given \in Passwords /\ request[c].history \in Seq(Passwords)
    BY <2>1 DEF ChangeOf
  <2>3. Pushed(request[c].history, request[c].given) \in Seq(Passwords) \ {<<>>}
    <3> DEFINE s == Append(request[c].history, request[c].given)
    <3>1. s \in Seq(Passwords) /\ s # <<>>
      BY <2>2, AppendProperties
    <3>2. LastFew(s) \in Seq(Passwords) /\ LastFew(s) # <<>>
      BY <3>1, LastFewTyped
    <3> QED
      BY <3>2 DEF Pushed
  <2>4. [kind |-> "hook", history |-> Pushed(request[c].history, request[c].given)] \in HookOf
    BY <2>3 DEF HookOf
  <2>5. request' \in [Requests -> {NoRequest} \union LoginOf \union ChangeOf \union HookOf]
    BY <1>6, <2>4 DEF SetPassword, LoginTypeOK
  <2>6. row' \in RowOf
    BY <1>6, <2>2 DEF SetPassword, LoginTypeOK, RowOf
  <2> QED
    BY <1>6, <2>5, <2>6 DEF SetPassword, LoginTypeOK
<1>7. ASSUME NEW c \in Requests, AfterReset(c) PROVE LoginTypeOK'
  <2>1. request[c] \in HookOf
    BY <1>7, NoRequestKind DEF AfterReset, LoginTypeOK, LoginOf, ChangeOf
  <2>2. request[c].history \in Seq(Passwords) /\ request[c].history # <<>>
    BY <2>1 DEF HookOf
  <2>3. row' \in RowOf
    <3>1. 0 \in LockTimes
      BY DEF LockTimes
    <3> QED
      BY <1>7, <2>2, <3>1 DEF AfterReset, LoginTypeOK, RowOf
  <2>4. Last(request[c].history) \in Passwords
    <3>1. Len(request[c].history) \in 1 .. Len(request[c].history)
      BY <2>2, EmptySeq
    <3> QED
      BY <2>2, <3>1, ElementOfSeq DEF Last
  <2>5. <<>> \in Seq(Passwords) /\ LastFew(Append(resets, Last(request[c].history))) \in Seq(Passwords)
    BY <2>4, EmptySeq, AppendProperties, LastFewTyped DEF LoginTypeOK
  <2> QED
    BY <1>7, <2>3, <2>5 DEF AfterReset, Ends, LoginTypeOK
<1>8. CASE Minute
  <2>1. row' \in RowOf
    <3>1. row.lock \in LockTimes /\ LockAges(row.lock) \in LockTimes
      BY DEF LoginTypeOK, RowOf, LockTimes, LockAges
    <3>2. row' = [row EXCEPT !.lock = LockAges(row.lock)]
      BY <1>8 DEF Minute
    <3> QED
      BY <3>1, <3>2 DEF LoginTypeOK, RowOf
  <2>2. quiet' \in 0 .. Lockout
    <3>1. quiet \in 0 .. Lockout /\ quiet' = IF quiet < Lockout THEN quiet + 1 ELSE quiet
      BY <1>8 DEF Minute, LoginTypeOK
    <3> QED
      BY <3>1
  <2>3. late' \in Nat
    BY <1>8 DEF Minute, LoginTypeOK
  <2>4. request' \in [Requests -> {NoRequest} \union LoginOf \union ChangeOf \union HookOf]
    <3> SUFFICES ASSUME NEW c \in Requests, request[c].kind = "login"
                 PROVE  [request[c] EXCEPT !.took = 1, !.lock = LockAges(request[c].lock)] \in LoginOf
      BY <1>8 DEF Minute, LoginTypeOK
    <3>1. request[c] \in LoginOf
      BY NoRequestKind DEF LoginTypeOK, ChangeOf, HookOf
    <3>2. LockAges(request[c].lock) \in Nat
      BY <3>1, AgesLess DEF LoginOf
    <3> QED
      BY <3>1, <3>2 DEF LoginOf
  <2> QED
    BY <1>8, <2>1, <2>2, <2>3, <2>4 DEF Minute, LoginTypeOK
<1>9. CASE UNCHANGED loginVars
  BY <1>9 DEF loginVars, LoginTypeOK
<1> QED
  BY <1>1, <1>2, <1>3, <1>4, <1>5, <1>6, <1>7, <1>8, <1>9 DEF LoginNext

\* A login that may still be judged: no lock, one that has run out, or one that
\* runs out in the one minute it may last.
MayJudge(c) ==
    /\ request[c].kind = "login"
    /\ request[c].lock <= 1 \/ (request[c].lock = 2 /\ request[c].took = 0)

\* Those of them that have not read the present lock in its last minute.
Behind == {c \in Requests : MayJudge(c) /\ ~(row.lock = 2 /\ request[c].lock = 2)}

\* Under a lock they have read the row before it was set, so not more than one
\* minute of it has passed; with those already judged they are not all requests.
StragglersInv ==
    IF row.lock > 1
    THEN /\ \A c \in Behind : row.lock >= Lockout + 1 - request[c].took
         /\ late + Cardinality(Behind) < Cardinality(Requests)
    ELSE late = 0

LEMMA SomeBehind ==
    ASSUME NEW S \in SUBSET Requests
    PROVE  /\ IsFiniteSet(S) /\ Cardinality(S) \in Nat
           /\ \A T \in SUBSET S : Cardinality(T) <= Cardinality(S)
           /\ \A c \in S : Cardinality(S \ {c}) = Cardinality(S) - 1
<1>1. IsFiniteSet(S)
  BY LoginNumbers, FS_Subset
<1>2. Cardinality(S) \in Nat
  BY <1>1, FS_CardinalityType
<1>3. \A T \in SUBSET S : Cardinality(T) <= Cardinality(S)
  BY <1>1, FS_Subset
<1>4. \A c \in S : Cardinality(S \ {c}) = Cardinality(S) - 1
  BY <1>1, FS_RemoveElement
<1> QED
  BY <1>1, <1>2, <1>3, <1>4

LEMMA LoginFields ==
    ASSUME LoginTypeOK, NEW c \in Requests, request[c].kind = "login"
    PROVE  request[c] \in LoginOf /\ request[c].lock \in Nat /\ request[c].took \in {0, 1}
<1>1. request[c] \in LoginOf
  BY NoRequestKind DEF LoginTypeOK, ChangeOf, HookOf
<1> QED
  BY <1>1 DEF LoginOf

LEMMA RowFields == LoginTypeOK => row.lock \in Nat /\ row.lock <= Lockout + 1 /\ row.count \in Nat /\ late \in Nat
BY LoginNumbers DEF LoginTypeOK, RowOf, LockTimes

\* The lock stays, and nobody falls behind it.
LEMMA BehindKept ==
    ASSUME LoginTypeOK, StragglersInv, row'.lock = row.lock, late' = late,
           row.lock > 1 => \A c \in Behind' : request'[c] = request[c]
    PROVE  StragglersInv'
<1>1. CASE row.lock > 1
  <2>1. Behind' \subseteq Behind
    BY <1>1 DEF Behind, MayJudge
  <2>2. Cardinality(Behind') <= Cardinality(Behind) /\ Cardinality(Behind') \in Nat
        /\ Cardinality(Behind) \in Nat /\ Cardinality(Requests) \in Nat
    BY <2>1, SomeBehind DEF Behind
  <2>3. late + Cardinality(Behind') < Cardinality(Requests)
    BY <1>1, <2>2, RowFields DEF StragglersInv
  <2>4. \A c \in Behind' : row.lock >= Lockout + 1 - request'[c].took
    BY <1>1, <2>1 DEF StragglersInv
  <2> QED
    BY <1>1, <2>3, <2>4 DEF StragglersInv
<1>2. CASE ~(row.lock > 1)
  BY <1>2 DEF StragglersInv
<1> QED
  BY <1>1, <1>2

LEMMA MissStraggles ==
    ASSUME Lockout > 2, LoginTypeOK, StragglersInv, NEW b \in Requests, CountMiss(b)
    PROVE  StragglersInv'
<1> DEFINE locks == LocksAt(request[b].count + 1)
<1>1. request[b] \in LoginOf /\ request[b].lock \in Nat /\ request[b].lock <= 1
      /\ row.lock \in Nat /\ row.lock <= Lockout + 1 /\ late \in Nat
  BY LoginFields, RowFields DEF CountMiss, Judged, IsLocked
<1>2. /\ row'.lock = IF locks THEN Lockout + 1 ELSE row.lock
      /\ late' = IF ~IsLocked(row) THEN 0 ELSE IF late < Cardinality(Requests) THEN late + 1 ELSE late
      /\ request'[b] = NoRequest
      /\ \A c \in Requests \ {b} : request'[c] = request[c]
  BY DEF CountMiss, Ends, LoginTypeOK, RowOf
<1> HIDE DEF locks
<1>3. Behind' \subseteq Requests \ {b}
  BY <1>2, NoRequestKind DEF Behind, MayJudge
<1>4. \A S \in SUBSET (Requests \ {b}) : Cardinality(S) < Cardinality(Requests)
  <2> SUFFICES ASSUME NEW S \in SUBSET (Requests \ {b}) PROVE Cardinality(S) < Cardinality(Requests)
    OBVIOUS
  <2>1. Cardinality(Requests \ {b}) = Cardinality(Requests) - 1 /\ Cardinality(Requests) \in Nat
    BY SomeBehind
  <2>2. Cardinality(S) <= Cardinality(Requests \ {b}) /\ Cardinality(S) \in Nat
    BY SomeBehind
  <2> QED
    BY <2>1, <2>2
<1>5. CASE row.lock <= 1
  <2>1. late' = 0
    BY <1>1, <1>2, <1>5 DEF IsLocked
  <2>2. CASE locks
    <3>1. row'.lock = Lockout + 1 /\ row'.lock > 1
      BY <1>2, <2>2, LoginNumbers
    <3>2. Cardinality(Behind') < Cardinality(Requests) /\ Cardinality(Behind') \in Nat
      BY <1>3, <1>4, SomeBehind
    <3>3. \A c \in Behind' : request'[c].took \in {0, 1}
      BY <1>2, <1>3, LoginFields DEF Behind, MayJudge
    <3>4. \A c \in Behind' : row'.lock >= Lockout + 1 - request'[c].took
      BY <3>1, <3>3, LoginNumbers
    <3> QED
      BY <2>1, <3>1, <3>2, <3>4 DEF StragglersInv
  <2>3. CASE ~locks
    <3>1. row'.lock = row.lock
      BY <1>2, <2>3
    <3> QED
      BY <1>1, <1>5, <2>1, <3>1 DEF StragglersInv
  <2> QED
    BY <2>2, <2>3
<1>6. CASE row.lock > 1
  <2>1. b \in Behind
    BY <1>1, <1>6 DEF CountMiss, Judged, Behind, MayJudge
  <2>2. row.lock >= Lockout
    <3>1. request[b].took \in {0, 1} /\ row.lock >= Lockout + 1 - request[b].took
      BY <1>1, <1>6, <2>1 DEF StragglersInv, LoginOf
    <3> QED
      BY <1>1, <3>1, LoginNumbers
  <2>3. row'.lock \in {row.lock, Lockout + 1} /\ row'.lock >= row.lock /\ row'.lock > 2 /\ row.lock > 2
    BY <1>1, <1>2, <2>2, LoginNumbers
  <2>4. Behind' = Behind \ {b}
    BY <1>2, <2>3, NoRequestKind DEF Behind, MayJudge
  <2>5. Cardinality(Behind') = Cardinality(Behind) - 1 /\ Cardinality(Behind) \in Nat
        /\ Cardinality(Behind') \in Nat /\ Cardinality(Requests) \in Nat
    <3>1. Behind \in SUBSET Requests /\ Behind' \in SUBSET Requests
      BY DEF Behind
    <3> QED
      BY <2>1, <2>4, <3>1, SomeBehind
  <2>6. late + Cardinality(Behind) < Cardinality(Requests)
    BY <1>6 DEF StragglersInv
  <2>7. late' <= late + 1 /\ late' \in Nat
    BY <1>1, <1>2, <1>6 DEF IsLocked
  <2>8. late' + Cardinality(Behind') < Cardinality(Requests)
    BY <1>1, <2>5, <2>6, <2>7
  <2>9. \A c \in Behind' : row'.lock >= Lockout + 1 - request'[c].took
    <3> SUFFICES ASSUME NEW c \in Behind' PROVE row'.lock >= Lockout + 1 - request'[c].took
      OBVIOUS
    <3>1. c \in Behind /\ c \in Requests /\ request'[c] = request[c] /\ request[c].kind = "login"
      BY <1>2, <2>4 DEF Behind, MayJudge
    <3>2. request[c].took \in {0, 1} /\ row.lock >= Lockout + 1 - request[c].took
      BY <1>6, <3>1, LoginFields DEF StragglersInv
    <3> QED
      BY <1>1, <2>3, <3>1, <3>2, LoginNumbers
  <2>10. row'.lock > 1
    BY <1>1, <2>3, LoginNumbers
  <2> QED
    BY <2>8, <2>9, <2>10 DEF StragglersInv
<1> QED
  BY <1>1, <1>5, <1>6

LEMMA MinuteStraggles ==
    ASSUME Lockout > 2, LoginTypeOK, StragglersInv, Minute
    PROVE  StragglersInv'
<1>1. row.lock \in Nat /\ row.lock <= Lockout + 1 /\ late \in Nat
  BY RowFields
<1>2. /\ row'.lock = LockAges(row.lock)
      /\ late' = IF IsLocked(row') THEN late ELSE 0
      /\ \A c \in Requests : request[c].kind = "login" =>
            /\ request[c].took = 0
            /\ request'[c].kind = "login" /\ request'[c].took = 1
            /\ request'[c].lock = LockAges(request[c].lock)
      /\ \A c \in Requests : request[c].kind # "login" => request'[c].kind # "login"
  <2>1. row'.lock = LockAges(row.lock)
    BY DEF Minute, LoginTypeOK, RowOf
  <2>2. \A c \in Requests : request[c].kind = "login" =>
            /\ request[c].took = 0
            /\ request'[c].kind = "login" /\ request'[c].took = 1
            /\ request'[c].lock = LockAges(request[c].lock)
    BY LoginFields DEF Minute, LoginOf
  <2> QED
    BY <2>1, <2>2 DEF Minute
<1>3. CASE row'.lock > 1
  <2>1. row.lock > 2 /\ row'.lock = row.lock - 1 /\ late' = late
    BY <1>1, <1>2, <1>3 DEF LockAges, IsLocked
  <2>2. \A c \in Behind' : c \in Behind /\ c \in Requests /\ request'[c].took = 1 /\ request[c].took = 0
    <3> SUFFICES ASSUME NEW c \in Behind'
                 PROVE  c \in Behind /\ c \in Requests /\ request'[c].took = 1 /\ request[c].took = 0
      OBVIOUS
    <3>1. c \in Requests /\ request[c].kind = "login"
      BY <1>2 DEF Behind, MayJudge
    <3>2. request[c].took = 0 /\ request'[c].took = 1 /\ request'[c].lock = LockAges(request[c].lock)
          /\ request[c].lock \in Nat
      BY <1>2, <3>1, LoginFields
    <3>3. request'[c].lock <= 1
      BY <3>2 DEF Behind, MayJudge
    <3>4. request[c].lock <= 2
      BY <3>2, <3>3 DEF LockAges
    <3>5. MayJudge(c)
      BY <3>1, <3>2, <3>4 DEF MayJudge
    <3> QED
      BY <2>1, <3>1, <3>2, <3>5 DEF Behind
  <2>3. Cardinality(Behind') <= Cardinality(Behind) /\ Cardinality(Behind') \in Nat
        /\ Cardinality(Behind) \in Nat /\ Cardinality(Requests) \in Nat
    <3>1. Behind \in SUBSET Requests /\ Behind' \in SUBSET Behind /\ Behind' \in SUBSET Requests
      BY <2>2 DEF Behind
    <3> QED
      BY <3>1, SomeBehind
  <2>4. late' + Cardinality(Behind') < Cardinality(Requests)
    BY <1>1, <2>1, <2>3 DEF StragglersInv
  <2>5. \A c \in Behind' : row'.lock >= Lockout + 1 - request'[c].took
    <3> SUFFICES ASSUME NEW c \in Behind' PROVE row'.lock >= Lockout + 1 - request'[c].took
      OBVIOUS
    <3>1. c \in Behind /\ request[c].took = 0 /\ request'[c].took = 1
      BY <2>2
    <3>2. row.lock >= Lockout + 1 - request[c].took
      <4>1. row.lock > 1
        BY <1>1, <2>1
      <4> QED
        BY <3>1, <4>1 DEF StragglersInv
    <3>3. row.lock >= Lockout + 1
      BY <1>1, <3>1, <3>2, LoginNumbers
    <3> QED
      BY <1>1, <2>1, <3>1, <3>3, LoginNumbers
  <2> QED
    BY <1>3, <2>4, <2>5 DEF StragglersInv
<1>4. CASE ~(row'.lock > 1)
  BY <1>2, <1>4 DEF StragglersInv, IsLocked
<1> QED
  BY <1>3, <1>4

LEMMA StragglersStep ==
    ASSUME Lockout > 2, LoginTypeOK, StragglersInv, [LoginNext]_loginVars
    PROVE  StragglersInv'
<1>1. ASSUME NEW c \in Requests, NEW right \in BOOLEAN, ReadForLogin(c, right) PROVE StragglersInv'
  <2>1. UNCHANGED <<row, late>> /\ request' = [request EXCEPT ![c] =
           [kind |-> "login", count |-> row.count, lock |-> row.lock, right |-> right, took |-> 0]]
    BY <1>1 DEF ReadForLogin, Begins
  <2>2. request'[c].lock = row.lock /\ \A d \in Requests \ {c} : request'[d] = request[d]
    BY <2>1 DEF LoginTypeOK
  <2>3. row.lock > 1 => c \notin Behind'
    BY <2>1, <2>2, RowFields DEF Behind, MayJudge
  <2>4. row.lock > 1 => \A d \in Behind' : request'[d] = request[d]
    BY <2>2, <2>3 DEF Behind
  <2> QED
    BY <2>1, <2>4, BehindKept
<1>2. ASSUME NEW c \in Requests, NEW p \in Passwords, NEW kind \in {"reset", "change"},
             ReadForChange(c, kind, p)
      PROVE  StragglersInv'
  <2>1. UNCHANGED <<row, late>> /\ request' = [request EXCEPT ![c] =
           [kind |-> kind, given |-> p, history |-> row.history]]
    BY <1>2 DEF ReadForChange, Begins
  <2>2. request'[c].kind # "login" /\ \A d \in Requests \ {c} : request'[d] = request[d]
    BY <2>1 DEF LoginTypeOK
  <2>3. \A d \in Behind' : request'[d] = request[d]
    BY <2>2 DEF Behind, MayJudge
  <2> QED
    BY <2>1, <2>3, BehindKept
<1>3. ASSUME NEW c \in Requests, RefuseLocked(c) PROVE StragglersInv'
  <2>1. UNCHANGED <<row, late>> /\ request' = [request EXCEPT ![c] = NoRequest]
    BY <1>3 DEF RefuseLocked, Ends
  <2>2. \A d \in Behind' : request'[d] = request[d]
    BY <2>1, NoRequestKind DEF Behind, MayJudge, LoginTypeOK
  <2> QED
    BY <2>1, <2>2, BehindKept
<1>4. ASSUME NEW c \in Requests, CountMiss(c) PROVE StragglersInv'
  BY <1>4, MissStraggles
<1>5. ASSUME NEW c \in Requests, AdmitOwner(c) PROVE StragglersInv'
  <2>1. request' = [request EXCEPT ![c] = NoRequest]
        /\ late' = (IF IsLocked(row') THEN late ELSE 0)
        /\ row'.lock \in {row.lock, 0}
    BY <1>5 DEF AdmitOwner, Ends, LoginTypeOK, RowOf
  <2>2. \A d \in Behind' : request'[d] = request[d]
    BY <2>1, NoRequestKind DEF Behind, MayJudge, LoginTypeOK
  <2>3. CASE row'.lock > 1
    <3>1. row'.lock = row.lock /\ late' = late
      BY <2>1, <2>3 DEF IsLocked
    <3> QED
      BY <2>2, <3>1, BehindKept
  <2>4. CASE ~(row'.lock > 1)
    BY <2>1, <2>4 DEF StragglersInv, IsLocked
  <2> QED
    BY <2>3, <2>4
<1>6. ASSUME NEW c \in Requests, SetPassword(c) PROVE StragglersInv'
  <2>1. row'.lock = row.lock /\ late' = late /\ request'[c].kind # "login"
        /\ \A d \in Requests \ {c} : request'[d] = request[d]
    BY <1>6, NoRequestKind DEF SetPassword, LoginTypeOK, RowOf
  <2>2. \A d \in Behind' : request'[d] = request[d]
    BY <2>1 DEF Behind, MayJudge
  <2> QED
    BY <2>1, <2>2, BehindKept
<1>7. ASSUME NEW c \in Requests, AfterReset(c) PROVE StragglersInv'
  <2>1. row'.lock = 0 /\ late' = 0
    BY <1>7 DEF AfterReset, LoginTypeOK, RowOf
  <2> QED
    BY <2>1 DEF StragglersInv
<1>8. CASE Minute
  BY <1>8, MinuteStraggles
<1>9. CASE UNCHANGED loginVars
  <2>1. UNCHANGED <<row, request, late>>
    BY <1>9 DEF loginVars
  <2> QED
    BY <2>1, BehindKept
<1> QED
  BY <1>1, <1>2, <1>3, <1>4, <1>5, <1>6, <1>7, <1>8, <1>9 DEF LoginNext

\* For any number of requests, threshold and lock that outlasts an attempt by a
\* minute: of wrong passwords under one lock only those of the requests that had
\* read the row before are compared (authenticate).
THEOREM FewStragglers == Lockout > 2 => (LoginSpec => []OnlyStragglers)
<1> SUFFICES ASSUME Lockout > 2 PROVE LoginSpec => []OnlyStragglers
  OBVIOUS
<1>1. LoginInit => LoginTypeOK /\ StragglersInv
  <2>1. LoginInit => StragglersInv
    BY DEF LoginInit, StragglersInv
  <2> QED
    BY <2>1, LoginStartsTyped
<1>2. (LoginTypeOK /\ StragglersInv) /\ [LoginNext]_loginVars => (LoginTypeOK /\ StragglersInv)'
  BY LoginTypes, StragglersStep
<1>3. LoginTypeOK /\ StragglersInv => OnlyStragglers
  <2> SUFFICES ASSUME LoginTypeOK, StragglersInv PROVE late < Cardinality(Requests)
    BY DEF OnlyStragglers
  <2>1. Cardinality(Requests) \in Nat /\ Cardinality(Requests) # 0
    BY LoginNumbers, SomeBehind, FS_EmptySet
  <2>2. Cardinality(Behind) \in Nat
    BY SomeBehind DEF Behind
  <2> QED
    BY <2>1, <2>2, RowFields DEF StragglersInv
<1> QED
  BY <1>1, <1>2, <1>3, PTL DEF LoginSpec

\* Until two requests have overlapped, at most one is under way.
Alone == ~crossed => \A c \in Requests, d \in Requests :
                        request[c] # NoRequest /\ request[d] # NoRequest => c = d

\* Then the counters tell the wrong passwords since they were cleared, a login has
\* read what the row still says, and after the threshold's the lock has what is
\* left of a whole one.
SpacedInv ==
    /\ Alone
    /\ ~crossed => /\ row.count = misses
                   /\ \A c \in Requests : request[c].kind = "login" =>
                         request[c].count = row.count /\ request[c].lock = row.lock
                   /\ misses = Threshold /\ quiet < Lockout => row.lock = Lockout + 1 - quiet

\* And the history of the row is the last resets; who sets a password has read it
\* and has been given another one.
RememberedInv ==
    /\ Alone
    /\ ~crossed => /\ row.history = resets
                   /\ Len(resets) <= Remembered
                   /\ \A c \in Requests :
                         /\ request[c].kind \in {"reset", "change"} =>
                               request[c].history = resets /\ request[c].given \notin ToSet(resets)
                         /\ request[c].kind = "hook" =>
                               request[c].history = LastFew(Append(resets, Last(request[c].history)))

LEMMA CrossedStays == LoginTypeOK /\ [LoginNext]_loginVars => (crossed => crossed')
BY DEF LoginTypeOK, LoginNext, loginVars, ReadForLogin, ReadForChange, Begins, RefuseLocked, CountMiss,
       AdmitOwner, SetPassword, AfterReset, Minute

\* Who begins without crossing is the only one.
LEMMA BeginsAlone ==
    ASSUME LoginTypeOK, NEW c \in Requests, NEW r, Begins(c, r), ~crossed'
    PROVE  /\ ~crossed /\ UNCHANGED <<row, misses, quiet, resets>>
           /\ request'[c] = r /\ \A d \in Requests \ {c} : request'[d] = NoRequest
BY DEF Begins, LoginTypeOK

\* Who ends leaves nobody.
LEMMA EndsAlone ==
    ASSUME LoginTypeOK, Alone, ~crossed, NEW c \in Requests, request[c] # NoRequest, Ends(c)
    PROVE  \A d \in Requests : request'[d] = NoRequest
BY DEF Alone, Ends, LoginTypeOK

LEMMA AloneStays == LoginTypeOK /\ Alone /\ [LoginNext]_loginVars => Alone'
<1> SUFFICES ASSUME LoginTypeOK, Alone, [LoginNext]_loginVars, ~crossed'
             PROVE  \A c \in Requests, d \in Requests :
                       request'[c] # NoRequest /\ request'[d] # NoRequest => c = d
  BY DEF Alone
<1>1. ~crossed
  BY CrossedStays
<1>2. ASSUME NEW b \in Requests, NEW r, Begins(b, r)
      PROVE  \A d \in Requests \ {b} : request'[d] = NoRequest
  BY <1>2, BeginsAlone
<1>3. ASSUME \A d \in Requests : request'[d] # NoRequest => request[d] # NoRequest
      PROVE  \A c \in Requests, d \in Requests :
                request'[c] # NoRequest /\ request'[d] # NoRequest => c = d
  BY <1>1, <1>3 DEF Alone
<1>4. ASSUME NEW b \in Requests, Ends(b)
      PROVE  \A d \in Requests : request'[d] # NoRequest => request[d] # NoRequest
  BY <1>4 DEF Ends, LoginTypeOK
<1>5. ASSUME NEW b \in Requests, SetPassword(b)
      PROVE  \A d \in Requests : request'[d] # NoRequest => request[d] # NoRequest
  BY <1>5, NoRequestKind DEF SetPassword, LoginTypeOK
<1>6. ASSUME Minute PROVE \A d \in Requests : request'[d] # NoRequest => request[d] # NoRequest
  BY <1>6, NoRequestKind DEF Minute, LoginTypeOK
<1>7. ASSUME UNCHANGED loginVars PROVE \A d \in Requests : request'[d] # NoRequest => request[d] # NoRequest
  BY <1>7 DEF loginVars
<1> QED
  BY <1>2, <1>3, <1>4, <1>5, <1>6, <1>7 DEF LoginNext, ReadForLogin, ReadForChange, RefuseLocked, CountMiss,
     AdmitOwner, AfterReset

LEMMA SpacedStep ==
    ASSUME LoginTypeOK, SpacedInv, [LoginNext]_loginVars
    PROVE  SpacedInv'
<1> DEFINE Spaced == /\ row.count = misses
                     /\ \A c \in Requests : request[c].kind = "login" =>
                           request[c].count = row.count /\ request[c].lock = row.lock
                     /\ misses = Threshold /\ quiet < Lockout => row.lock = Lockout + 1 - quiet
<1>1. Alone'
  BY AloneStays DEF SpacedInv
<1> SUFFICES ASSUME ~crossed' PROVE Spaced'
  BY <1>1 DEF SpacedInv
<1>2. ~crossed /\ Alone /\ Spaced
  BY CrossedStays DEF SpacedInv
<1>3. /\ row.lock \in Nat /\ row.lock <= Lockout + 1 /\ row.count \in Nat
      /\ misses \in Nat /\ quiet \in Nat /\ quiet <= Lockout
  BY RowFields, LoginNumbers DEF LoginTypeOK
<1>4. ASSUME \A d \in Requests : request'[d] = NoRequest,
             row'.count = row.count, row'.lock = row.lock, UNCHANGED <<misses, quiet>>
      PROVE  Spaced'
  BY <1>2, <1>4, NoRequestKind
<1>5. ASSUME \A d \in Requests : request'[d] = NoRequest, row'.count = 0, misses' = 0
      PROVE  Spaced'
  BY <1>5, NoRequestKind, LoginNumbers
<1>6. ASSUME NEW c \in Requests, NEW right \in BOOLEAN, ReadForLogin(c, right) PROVE Spaced'
  <2>1. UNCHANGED <<row, misses, quiet>> /\ request'[c].count = row.count /\ request'[c].lock = row.lock
        /\ \A d \in Requests \ {c} : request'[d] = NoRequest
    BY <1>6, BeginsAlone DEF ReadForLogin
  <2> QED
    BY <1>2, <2>1, NoRequestKind
<1>7. ASSUME NEW c \in Requests, NEW p \in Passwords, NEW kind \in {"reset", "change"},
             ReadForChange(c, kind, p)
      PROVE  Spaced'
  <2>1. UNCHANGED <<row, misses, quiet>> /\ request'[c].kind # "login"
        /\ \A d \in Requests \ {c} : request'[d] = NoRequest
    BY <1>7, BeginsAlone DEF ReadForChange
  <2> QED
    BY <1>2, <2>1, NoRequestKind
<1>8. ASSUME NEW c \in Requests, RefuseLocked(c) PROVE Spaced'
  <2>1. \A d \in Requests : request'[d] = NoRequest
    BY <1>2, <1>8, EndsAlone, NoRequestKind DEF RefuseLocked
  <2> QED
    BY <1>4, <1>8, <2>1 DEF RefuseLocked
<1>9. ASSUME NEW c \in Requests, CountMiss(c) PROVE Spaced'
  <2>1. \A d \in Requests : request'[d] = NoRequest
    BY <1>2, <1>9, EndsAlone, NoRequestKind DEF CountMiss, Judged
  <2>2. request[c].count = row.count /\ request[c].lock = row.lock
    BY <1>2, <1>9 DEF CountMiss, Judged
  <2>3. /\ row'.count = ToThreshold(row.count + 1)
        /\ row'.lock = IF row.count + 1 >= Threshold THEN Lockout + 1 ELSE row.lock
        /\ misses' = ToThreshold(misses + 1) /\ quiet' = 0
    BY <1>2, <1>9, <2>2 DEF CountMiss, LocksAt, LoginTypeOK, RowOf
  <2>4. misses' = Threshold => row'.lock = Lockout + 1
    BY <1>2, <1>3, <2>3, LoginNumbers DEF ToThreshold
  <2>5. row'.count = misses'
    BY <1>2, <2>3
  <2> QED
    BY <2>1, <2>3, <2>4, <2>5, NoRequestKind, LoginNumbers
<1>10. ASSUME NEW c \in Requests, AdmitOwner(c) PROVE Spaced'
  <2>1. \A d \in Requests : request'[d] = NoRequest
    BY <1>2, <1>10, EndsAlone, NoRequestKind DEF AdmitOwner, Judged
  <2>2. CASE request[c].count = 0
    BY <1>4, <1>10, <2>1, <2>2 DEF AdmitOwner
  <2>3. CASE request[c].count # 0
    <3>1. row'.count = 0 /\ misses' = 0
      BY <1>10, <2>3 DEF AdmitOwner, LoginTypeOK, RowOf
    <3> QED
      BY <1>5, <2>1, <3>1
  <2> QED
    BY <2>2, <2>3
<1>11. ASSUME NEW c \in Requests, SetPassword(c) PROVE Spaced'
  <2>1. row'.count = row.count /\ row'.lock = row.lock /\ UNCHANGED <<misses, quiet>>
        /\ request'[c].kind # "login" /\ \A d \in Requests \ {c} : request'[d] = request[d]
    BY <1>11, NoRequestKind DEF SetPassword, LoginTypeOK, RowOf
  <2> QED
    BY <1>2, <2>1
<1>12. ASSUME NEW c \in Requests, AfterReset(c) PROVE Spaced'
  <2>1. \A d \in Requests : request'[d] = NoRequest
    BY <1>2, <1>12, EndsAlone, NoRequestKind DEF AfterReset
  <2>2. row'.count = 0 /\ misses' = 0
    BY <1>12 DEF AfterReset, LoginTypeOK, RowOf
  <2> QED
    BY <1>5, <2>1, <2>2
<1>13. CASE Minute
  <2>1. /\ row'.count = row.count /\ row'.lock = LockAges(row.lock) /\ misses' = misses
        /\ quiet' = IF quiet < Lockout THEN quiet + 1 ELSE quiet
    BY <1>13 DEF Minute, LoginTypeOK, RowOf
  <2>2. \A c \in Requests : request'[c].kind = "login" =>
           request[c].kind = "login" /\ request'[c].count = request[c].count
           /\ request'[c].lock = LockAges(request[c].lock)
    BY <1>13, LoginFields DEF Minute, LoginOf
  <2>3. misses' = Threshold /\ quiet' < Lockout => row'.lock = Lockout + 1 - quiet'
    BY <1>2, <1>3, <2>1, LoginNumbers DEF LockAges
  <2> QED
    BY <1>2, <2>1, <2>2, <2>3
<1>14. CASE UNCHANGED loginVars
  BY <1>2, <1>14 DEF loginVars
<1> QED
  BY <1>6, <1>7, <1>8, <1>9, <1>10, <1>11, <1>12, <1>13, <1>14 DEF LoginNext

\* For any requests, threshold and lock: while no two requests overlap, after the
\* threshold's failure a wrong password is only compared when a whole lock has
\* passed since the one before (authenticate).
THEOREM GuessesAlwaysSpaced == LoginSpec => GuessesAreSpaced
<1> DEFINE Spacing == \A c \in Requests :
              ~crossed /\ Judged(c) /\ ~request[c].right /\ request'[c] = NoRequest /\ misses = Threshold
              => quiet = Lockout
<1>1. LoginInit => LoginTypeOK /\ SpacedInv
  <2>1. LoginInit => SpacedInv
    BY NoRequestKind, LoginNumbers DEF LoginInit, SpacedInv, Alone
  <2> QED
    BY <2>1, LoginStartsTyped
<1>2. (LoginTypeOK /\ SpacedInv) /\ [LoginNext]_loginVars => (LoginTypeOK /\ SpacedInv)'
  BY LoginTypes, SpacedStep
<1>3. LoginTypeOK /\ SpacedInv => Spacing
  <2> SUFFICES ASSUME LoginTypeOK, SpacedInv, NEW c \in Requests,
                      ~crossed, Judged(c), misses = Threshold
               PROVE  quiet = Lockout
    OBVIOUS
  <2>1. request[c].lock = row.lock /\ row.lock \in Nat /\ ~(row.lock > 1)
    BY RowFields DEF Judged, SpacedInv, IsLocked
  <2>2. quiet \in Nat /\ quiet <= Lockout
    BY LoginNumbers DEF LoginTypeOK
  <2>3. quiet < Lockout => row.lock = Lockout + 1 - quiet
    BY DEF SpacedInv
  <2> QED
    BY <2>1, <2>2, <2>3, LoginNumbers
<1>4. GuessesAreSpaced <=> [][Spacing]_loginVars
  BY PTL DEF GuessesAreSpaced, Spacing
<1> QED
  BY <1>1, <1>2, <1>3, <1>4, PTL DEF LoginSpec

LEMMA RememberedStep ==
    ASSUME LoginTypeOK, RememberedInv, [LoginNext]_loginVars
    PROVE  RememberedInv'
<1> DEFINE Reads(c) == /\ request[c].kind \in {"reset", "change"} =>
                             request[c].history = resets /\ request[c].given \notin ToSet(resets)
                       /\ request[c].kind = "hook" =>
                             request[c].history = LastFew(Append(resets, Last(request[c].history)))
           Kept == row.history = resets /\ Len(resets) <= Remembered
<1>1. Alone'
  BY AloneStays DEF RememberedInv
<1> SUFFICES ASSUME ~crossed' PROVE Kept' /\ \A c \in Requests : Reads(c)'
  BY <1>1 DEF RememberedInv
<1>2. ~crossed /\ Alone /\ Kept /\ \A c \in Requests : Reads(c)
  BY CrossedStays DEF RememberedInv
<1>3. resets \in Seq(Passwords)
  BY DEF LoginTypeOK
<1>4. ASSUME NEW c \in Requests, request'[c] = NoRequest PROVE Reads(c)'
  BY <1>4, NoRequestKind
<1>5. ASSUME NEW c \in Requests, request'[c] = request[c], resets' = resets PROVE Reads(c)'
  BY <1>2, <1>5
<1>6. ASSUME row'.history = row.history, resets' = resets PROVE Kept'
  BY <1>2, <1>6
<1>7. ASSUME NEW c \in Requests, NEW right \in BOOLEAN, ReadForLogin(c, right)
      PROVE  Kept' /\ \A d \in Requests : Reads(d)'
  <2>1. UNCHANGED <<row, resets>> /\ request'[c].kind = "login"
        /\ \A d \in Requests \ {c} : request'[d] = NoRequest
    BY <1>7, BeginsAlone DEF ReadForLogin
  <2> QED
    BY <1>4, <1>6, <2>1
<1>8. ASSUME NEW c \in Requests, NEW p \in Passwords, NEW kind \in {"reset", "change"},
             ReadForChange(c, kind, p)
      PROVE  Kept' /\ \A d \in Requests : Reads(d)'
  <2>1. UNCHANGED <<row, resets>>
        /\ request'[c] = [kind |-> kind, given |-> p, history |-> row.history]
        /\ \A d \in Requests \ {c} : request'[d] = NoRequest
    BY <1>8, BeginsAlone DEF ReadForChange
  <2>2. LastFew(row.history) = resets
    BY <1>2, <1>3, LastFewTyped
  <2>3. p \notin ToSet(resets)
    BY <1>8, <2>2 DEF ReadForChange, Reused
  <2>4. Reads(c)'
    BY <1>2, <2>1, <2>3
  <2> QED
    BY <1>4, <1>6, <2>1, <2>4
<1>9. ASSUME NEW c \in Requests, Ends(c), request[c] # NoRequest, row'.history = row.history, resets' = resets
      PROVE  Kept' /\ \A d \in Requests : Reads(d)'
  BY <1>2, <1>4, <1>6, <1>9, EndsAlone
<1>10. ASSUME NEW c \in Requests, RefuseLocked(c) \/ CountMiss(c) \/ AdmitOwner(c)
       PROVE  Kept' /\ \A d \in Requests : Reads(d)'
  <2>1. Ends(c) /\ request[c] # NoRequest /\ resets' = resets
    BY <1>10, NoRequestKind DEF RefuseLocked, CountMiss, AdmitOwner, Judged
  <2>2. row'.history = row.history
    BY <1>10 DEF RefuseLocked, CountMiss, AdmitOwner, LoginTypeOK, RowOf
  <2> QED
    BY <1>9, <2>1, <2>2
<1>11. ASSUME NEW c \in Requests, SetPassword(c)
       PROVE  Kept' /\ \A d \in Requests : Reads(d)'
  <2>1. row'.history = row.history /\ resets' = resets
        /\ (\A d \in Requests \ {c} : request'[d] = request[d])
        /\ request'[c] = IF request[c].kind = "change" THEN NoRequest
                         ELSE [kind |-> "hook", history |-> Pushed(request[c].history, request[c].given)]
    BY <1>11 DEF SetPassword, LoginTypeOK, RowOf
  <2>2. CASE request[c].kind = "reset"
    <3> DEFINE s == Append(resets, request[c].given)
    <3>1. request[c].given \in Passwords
      BY <2>2, NoRequestKind DEF LoginTypeOK, LoginOf, ChangeOf, HookOf
    <3>2. s \in Seq(Passwords) /\ s # <<>> /\ Len(s) = Len(resets) + 1 /\ s[Len(resets) + 1] = request[c].given
      BY <1>3, <3>1, AppendProperties
    <3>3. Last(LastFew(s)) = request[c].given
      BY <3>2, LastFewTyped DEF Last
    <3>4. request'[c] = [kind |-> "hook", history |-> LastFew(s)]
      <4>1. request[c].history = resets
        BY <1>2, <2>2
      <4>2. request'[c] = [kind |-> "hook", history |-> Pushed(request[c].history, request[c].given)]
        BY <2>1, <2>2
      <4> QED
        BY <4>1, <4>2 DEF Pushed
    <3>5. request'[c].kind = "hook" /\ request'[c].history = LastFew(s)
      BY <3>4
    <3> HIDE DEF s
    <3>6. request'[c].history = LastFew(Append(resets', Last(request'[c].history)))
      BY <2>1, <3>3, <3>5 DEF s
    <3>7. Reads(c)'
      BY <3>5, <3>6
    <3> QED
      BY <1>5, <1>6, <2>1, <3>7
  <2>3. CASE request[c].kind = "change"
    <3>1. request'[c] = NoRequest
      BY <2>1, <2>3
    <3>2. Kept'
      BY <1>6, <2>1
    <3>3. Reads(c)'
      BY <1>4, <3>1
    <3>4. \A d \in Requests \ {c} : Reads(d)'
      BY <1>5, <2>1
    <3> QED
      BY <3>2, <3>3, <3>4
  <2> QED
    BY <1>11, <2>2, <2>3 DEF SetPassword
<1>12. ASSUME NEW c \in Requests, AfterReset(c)
       PROVE  Kept' /\ \A d \in Requests : Reads(d)'
  <2>1. \A d \in Requests : request'[d] = NoRequest
    BY <1>2, <1>12, EndsAlone, NoRequestKind DEF AfterReset
  <2>2. row'.history = request[c].history /\ resets' = LastFew(Append(resets, Last(request[c].history)))
    BY <1>2, <1>12 DEF AfterReset, LoginTypeOK, RowOf
  <2>3. request[c].history = LastFew(Append(resets, Last(request[c].history)))
    BY <1>2, <1>12 DEF AfterReset
  <2>4. Last(request[c].history) \in Passwords
    <3>1. request[c].history \in Seq(Passwords) /\ request[c].history # <<>>
      BY <1>12, NoRequestKind DEF AfterReset, LoginTypeOK, LoginOf, ChangeOf, HookOf
    <3>2. Len(request[c].history) \in 1 .. Len(request[c].history)
      BY <3>1, EmptySeq
    <3> QED
      BY <3>1, <3>2, ElementOfSeq DEF Last
  <2>5. Append(resets, Last(request[c].history)) \in Seq(Passwords)
    BY <1>3, <2>4, AppendProperties
  <2>6. Len(resets') <= Remembered
    BY <2>2, <2>5, LastFewTyped
  <2> QED
    BY <1>4, <2>1, <2>2, <2>3, <2>6
<1>13. CASE Minute
  <2>1. row'.history = row.history /\ resets' = resets
    BY <1>13 DEF Minute, LoginTypeOK, RowOf
  <2>2. \A c \in Requests : request[c].kind = "login" => request'[c].kind = "login"
    BY <1>13, LoginFields DEF Minute, LoginOf
  <2>3. \A c \in Requests : request[c].kind # "login" => request'[c] = request[c]
    BY <1>13 DEF Minute
  <2> QED
    BY <1>5, <1>6, <2>1, <2>2, <2>3
<1>14. CASE UNCHANGED loginVars
  BY <1>5, <1>6, <1>14 DEF loginVars
<1> QED
  BY <1>7, <1>8, <1>10, <1>11, <1>12, <1>13, <1>14 DEF LoginNext

\* For any requests and passwords and any length of the history: while no two
\* requests overlap, a password one of the last Remembered resets set is not set
\* again (_check_password_history, on_after_reset_password).
THEOREM ResetsAlwaysRemembered == LoginSpec => ResetsAreRemembered
<1> DEFINE IsNew == ~crossed' /\ row'.password # row.password => row'.password \notin ToSet(resets)
<1>1. LoginInit => LoginTypeOK /\ RememberedInv
  <2>1. LoginInit => RememberedInv
    BY NoRequestKind, LoginNumbers, EmptySeq DEF LoginInit, RememberedInv, Alone
  <2> QED
    BY <2>1, LoginStartsTyped
<1>2. (LoginTypeOK /\ RememberedInv) /\ [LoginNext]_loginVars => (LoginTypeOK /\ RememberedInv)'
  BY LoginTypes, RememberedStep
<1>3. LoginTypeOK /\ RememberedInv /\ [LoginNext]_loginVars => IsNew
  <2> SUFFICES ASSUME LoginTypeOK, RememberedInv, LoginNext, ~crossed', row'.password # row.password
               PROVE  row'.password \notin ToSet(resets)
    BY DEF loginVars
  <2>1. ~crossed
    BY CrossedStays
  <2>2. PICK c \in Requests : SetPassword(c)
    BY DEF LoginNext, ReadForLogin, ReadForChange, Begins, RefuseLocked, CountMiss, AdmitOwner, AfterReset,
           Minute, LoginTypeOK, RowOf
  <2>3. row'.password = request[c].given
    BY <2>2 DEF SetPassword, LoginTypeOK, RowOf
  <2> QED
    BY <2>1, <2>2, <2>3 DEF SetPassword, RememberedInv
<1>4. ResetsAreRemembered <=> [][IsNew]_loginVars
  BY PTL DEF ResetsAreRemembered, IsNew
<1> QED
  BY <1>1, <1>2, <1>3, <1>4, PTL DEF LoginSpec

-----------------------------------------------------------------------------
(* check_auth_rate_limit                                                   *)

Under == {p \in Nat \X Nat : p[1] < p[2]}

\* A non-empty set of natural numbers has a least element.
LEMMA LeastOf ==
    ASSUME NEW T \in SUBSET Nat, T # {}
    PROVE  \E m \in T : \A k \in T : m <= k
<1>1. IsWellFoundedOn(Under, Nat)
  BY NatLessThanWellFounded DEF Under, OpToRel
<1>2. PICK m \in T : \A k \in T : <<k, m>> \notin Under
  BY <1>1, WFMin
<1>3. m \in Nat /\ \A k \in T : k \in Nat
  OBVIOUS
<1>4. \A k \in T : ~(k < m)
  BY <1>2, <1>3 DEF Under
<1> QED
  BY <1>3, <1>4

\* The first k are past the window, the others in it.
Parts(x, k) ==
    /\ k \in 0 .. Len(x)
    /\ \A n \in 1 .. k : ~Fresh(x[n])
    /\ \A n \in k + 1 .. Len(x) : Fresh(x[n])

Between(x, k, n) == SubSeq(x, k + 1, n)

LEMMA BetweenProperties ==
    ASSUME NEW x \in Seq(Nat), NEW n \in 0 .. Len(x), NEW k \in 0 .. n
    PROVE  /\ Between(x, k, n) \in Seq(Nat)
           /\ Len(Between(x, k, n)) = n - k
           /\ \A i \in 1 .. n - k : Between(x, k, n)[i] = x[k + i]
<1>1. Len(x) \in Nat /\ n \in Nat /\ k \in Nat /\ k <= n /\ n <= Len(x)
  BY LenProperties
<1>2. \A i \in 1 .. Len(x) : x[i] \in Nat
  BY ElementOfSeq
<1>3. k + 1 \in Int /\ n \in Int /\ \A i \in k + 1 .. n : i \in 1 .. Len(x)
  BY <1>1
<1>4. \A i \in k + 1 .. n : x[i] \in Nat
  BY <1>2, <1>3
<1>5. /\ Between(x, k, n) \in Seq(Nat)
      /\ Len(Between(x, k, n)) = IF k + 1 <= n THEN n - (k + 1) + 1 ELSE 0
      /\ \A i \in 1 .. n - (k + 1) + 1 : Between(x, k, n)[i] = x[k + 1 + i - 1]
  <2>1. PICK m \in Int : m = k + 1
    BY <1>3
  <2>2. \A i \in m .. n : x[i] \in Nat
    BY <1>4, <2>1
  <2>3. /\ SubSeq(x, m, n) \in Seq(Nat)
        /\ Len(SubSeq(x, m, n)) = IF m <= n THEN n - m + 1 ELSE 0
        /\ \A i \in 1 .. n - m + 1 : SubSeq(x, m, n)[i] = x[m + i - 1]
    BY <1>3, <2>2, SubSeqProperties
  <2> QED
    BY <2>1, <2>3 DEF Between
<1>6. n - (k + 1) + 1 = n - k /\ \A i \in 1 .. n - k : k + 1 + i - 1 = k + i
  BY <1>1
<1>7. Len(Between(x, k, n)) = n - k
  <2>1. PICK b \in Nat : b = Len(Between(x, k, n))
    BY <1>5, LenProperties
  <2>2. b = IF k + 1 <= n THEN n - (k + 1) + 1 ELSE 0
    BY <1>5, <2>1
  <2>3. b = n - k
    BY <1>1, <2>2
  <2> QED
    BY <2>1, <2>3
<1> QED
  BY <1>5, <1>6, <1>7

Rest(x, k) == Between(x, k, Len(x))

\* What is pruned of a list whose old entries come first are these.
LEMMA PrunedIsRest ==
    ASSUME NEW x \in Seq(Nat), NEW k, Parts(x, k)
    PROVE  Pruned(x) = Rest(x, k)
<1> DEFINE L == Len(x)
           g == [n \in 0 .. L |-> IF n <= k THEN <<>> ELSE Between(x, k, n)]
           h(f) == [n \in 0 .. L |-> IF n = 0 THEN <<>>
                       ELSE IF Fresh(x[n]) THEN Append(f[n - 1], x[n]) ELSE f[n - 1]]
           kept == CHOOSE f : f = h(f)
<1>1. L \in Nat /\ k \in Nat /\ k <= L /\ \A n \in 1 .. L : x[n] \in Nat
  BY LenProperties, ElementOfSeq DEF Parts
<1>2. g = h(g)
  <2> SUFFICES ASSUME NEW n \in 0 .. L
               PROVE  g[n] = IF n = 0 THEN <<>>
                             ELSE IF Fresh(x[n]) THEN Append(g[n - 1], x[n]) ELSE g[n - 1]
    OBVIOUS
  <2>1. CASE n = 0
    BY <1>1, <2>1
  <2>2. ASSUME n # 0
        PROVE  /\ n \in 1 .. L /\ n - 1 \in 0 .. L /\ x[n] \in Nat
               /\ g[n] = IF n <= k THEN <<>> ELSE Between(x, k, n)
               /\ g[n - 1] = IF n - 1 <= k THEN <<>> ELSE Between(x, k, n - 1)
    BY <1>1, <2>2
  <2> HIDE DEF g
  <2>3. CASE n # 0 /\ n <= k
    <3>1. ~Fresh(x[n]) /\ n - 1 <= k
      BY <1>1, <2>2, <2>3 DEF Parts
    <3> QED
      BY <2>2, <2>3, <3>1
  <2>4. CASE n = k + 1
    <3>1. n \in 1 .. L /\ Fresh(x[n]) /\ n - 1 <= k /\ ~(n <= k) /\ n # 0
      BY <1>1, <2>4 DEF Parts
    <3>2. n \in 0 .. L /\ k \in 0 .. n /\ n - k = 1 /\ k + 1 = n
      BY <1>1, <2>4
    <3>3. /\ Between(x, k, n) \in Seq(Nat) /\ Len(Between(x, k, n)) = 1
          /\ Between(x, k, n)[1] = x[n]
      <4>1. /\ Between(x, k, n) \in Seq(Nat) /\ Len(Between(x, k, n)) = n - k
            /\ \A i \in 1 .. n - k : Between(x, k, n)[i] = x[k + i]
        BY <3>2, BetweenProperties
      <4>2. 1 \in 1 .. n - k
        BY <3>2
      <4> QED
        BY <3>2, <4>1, <4>2
    <3>4. Between(x, k, n) = Append(<<>>, x[n])
      BY <2>2, <3>1, <3>3
    <3> QED
      BY <2>2, <3>1, <3>4
  <2>5. CASE n > k + 1
    <3>1. n \in 1 .. L /\ Fresh(x[n]) /\ ~(n - 1 <= k) /\ ~(n <= k) /\ n # 0
      BY <1>1, <2>5 DEF Parts
    <3>2. Between(x, k, n) = Append(Between(x, k, n - 1), x[n])
      <4>1. n \in 0 .. L /\ n - 1 \in 0 .. L /\ k \in 0 .. n /\ k \in 0 .. n - 1
        BY <1>1, <2>5, <3>1
      <4> DEFINE u == Between(x, k, n)
                 v == Between(x, k, n - 1)
      <4>2. u \in Seq(Nat) /\ Len(u) = n - k /\ \A i \in 1 .. n - k : u[i] = x[k + i]
        BY <4>1, BetweenProperties
      <4>3. /\ v \in Seq(Nat) /\ Len(v) = n - 1 - k
            /\ \A i \in 1 .. n - 1 - k : v[i] = x[k + i]
        BY <4>1, BetweenProperties
      <4> HIDE DEF u, v
      <4>4. x[n] \in Nat
        BY <2>2, <3>1
      <4>5. /\ Append(v, x[n]) \in Seq(Nat) /\ Len(Append(v, x[n])) = Len(v) + 1
            /\ \A i \in 1 .. Len(v) : Append(v, x[n])[i] = v[i]
            /\ Append(v, x[n])[Len(v) + 1] = x[n]
        BY <4>3, <4>4, AppendProperties
      <4>6. Len(u) = n - k /\ Len(v) = n - k - 1 /\ n - k \in Nat /\ n - k - 1 \in Nat
        BY <1>1, <2>5, <3>1, <4>2, <4>3
      <4>7. ASSUME NEW i \in 1 .. n - k PROVE u[i] = Append(v, x[n])[i]
        <5>1. CASE i = n - k
          <6>1. k + i = n /\ i = Len(v) + 1
            BY <1>1, <3>1, <4>6, <5>1
          <6> QED
            BY <4>2, <4>5, <4>6, <6>1
        <5>2. CASE i # n - k
          <6>1. i \in 1 .. Len(v) /\ i \in 1 .. Len(u)
            BY <1>1, <3>1, <4>6, <5>2
          <6> QED
            BY <1>1, <4>2, <4>3, <4>5, <4>6, <6>1
        <5> QED
          BY <5>1, <5>2
      <4>8. u = Append(v, x[n])
        BY <4>2, <4>5, <4>6, <4>7, SeqEqual
      <4> QED
        BY <4>8 DEF u, v
    <3> QED
      BY <2>2, <3>1, <3>2
  <2> QED
    BY <1>1, <2>1, <2>3, <2>4, <2>5
<1>3. kept = h(kept)
  BY <1>2
<1>4. Pruned(x) = kept[L]
  BY DEF Pruned
<1> DEFINE T == {n \in 0 .. L : kept[n] # g[n]}
<1>5. T = {}
  <2> SUFFICES ASSUME T # {} PROVE FALSE
    OBVIOUS
  <2>1. T \in SUBSET Nat
    BY <1>1
  <2>2. PICK m \in T : \A j \in T : m <= j
    BY <2>1, LeastOf
  <2> HIDE DEF kept, g
  <2>3. CASE m = 0
    BY <1>1, <1>2, <1>3, <2>2, <2>3
  <2>4. CASE m # 0
    <3>0. m \in 0 .. L /\ m \in Nat /\ m - 1 \in 0 .. L /\ ~(m <= m - 1)
      BY <1>1, <2>2, <2>4
    <3>1. m - 1 \in 0 .. L /\ m - 1 \notin T
      BY <2>2, <3>0, Zenon
    <3>2. kept[m - 1] = g[m - 1]
      BY <3>1
    <3>3. kept[m] = g[m]
      BY <1>1, <1>2, <1>3, <2>4, <3>0, <3>2
    <3> QED
      BY <2>2, <3>3
  <2> QED
    BY <2>3, <2>4
<1>6. kept[L] = g[L]
  <2>1. L \in 0 .. L
    BY <1>1
  <2> HIDE DEF kept, g, L
  <2> QED
    BY <1>5, <2>1
<1>7. g[L] = Rest(x, k)
  <2>1. g[L] = IF L <= k THEN <<>> ELSE Between(x, k, L)
    BY <1>1
  <2>2. CASE L <= k
    <3>1. L \in 0 .. L /\ k \in 0 .. L /\ L - k = 0
      BY <1>1, <2>2
    <3>2. Between(x, k, L) \in Seq(Nat) /\ Len(Between(x, k, L)) = 0
      BY <3>1, BetweenProperties
    <3>3. Between(x, k, L) = <<>>
      BY <3>2
    <3> QED
      BY <2>1, <2>2, <3>3 DEF Rest
  <2>3. CASE ~(L <= k)
    BY <2>1, <2>3 DEF Rest
  <2> QED
    BY <2>2, <2>3
<1> QED
  BY <1>4, <1>6, <1>7

\* Oldest first.
Aging(x) == \A n, m \in 1 .. Len(x) : n <= m => x[m] <= x[n]

\* The list x of a caller tells that y went through within the window.
Tells(x, y) ==
    /\ x \in Seq(Nat)
    /\ y \in Seq(Nat)
    /\ Aging(x)
    /\ \E k \in Nat : Parts(x, k) /\ y = Rest(x, k)

LEMMA TellsOf ==
    ASSUME NEW x, NEW y, Tells(x, y)
    PROVE  /\ Pruned(x) = y
           /\ \E k \in 0 .. Len(x) :
                 /\ Parts(x, k) /\ y = Rest(x, k) /\ Len(y) = Len(x) - k
                 /\ \A n \in 1 .. Len(y) : y[n] = x[k + n] /\ Fresh(y[n])
<1>1. PICK k \in Nat : Parts(x, k) /\ y = Rest(x, k)
  BY DEF Tells
<1>2. x \in Seq(Nat) /\ Len(x) \in Nat /\ k \in 0 .. Len(x)
  BY <1>1, LenProperties DEF Tells, Parts
<1>3. Pruned(x) = y
  BY <1>1, <1>2, PrunedIsRest
<1>4. Len(y) = Len(x) - k /\ \A n \in 1 .. Len(x) - k : y[n] = x[k + n]
  <2>1. Len(x) \in 0 .. Len(x) /\ k \in 0 .. Len(x)
    BY <1>2
  <2> QED
    BY <1>1, <1>2, <2>1, BetweenProperties DEF Rest
<1>5. \A n \in 1 .. Len(y) : k + n \in k + 1 .. Len(x)
  BY <1>2, <1>4
<1>6. \A n \in 1 .. Len(y) : y[n] = x[k + n] /\ Fresh(y[n])
  BY <1>1, <1>4, <1>5 DEF Parts
<1> QED
  BY <1>1, <1>2, <1>3, <1>4, <1>6

\* What went through tells it by itself, and so it does with another request.
LEMMA AllFresh ==
    ASSUME NEW y \in Seq(Nat), Aging(y), \A n \in 1 .. Len(y) : Fresh(y[n])
    PROVE  Tells(y, y)
<1>1. Len(y) \in Nat /\ 0 \in 0 .. Len(y) /\ Len(y) \in 0 .. Len(y)
  BY LenProperties
<1>2. /\ Rest(y, 0) \in Seq(Nat) /\ Len(Rest(y, 0)) = Len(y) - 0
      /\ \A n \in 1 .. Len(y) - 0 : Rest(y, 0)[n] = y[0 + n]
  BY <1>1, BetweenProperties DEF Rest
<1>3. \A n \in 1 .. Len(y) : Rest(y, 0)[n] = y[n]
  BY <1>1, <1>2
<1>4. Len(Rest(y, 0)) = Len(y)
  BY <1>1, <1>2
<1>5. Rest(y, 0) = y
  BY <1>2, <1>3, <1>4, SeqEqual
<1>6. Parts(y, 0)
  BY <1>1 DEF Parts
<1> QED
  BY <1>5, <1>6 DEF Tells

LEMMA WindowTells ==
    ASSUME NEW x, NEW y, Tells(x, y)
    PROVE  Tells(y, y)
<1>1. PICK k \in 0 .. Len(x) :
         Len(y) = Len(x) - k /\ \A n \in 1 .. Len(y) : y[n] = x[k + n] /\ Fresh(y[n])
  BY TellsOf
<1>2. x \in Seq(Nat) /\ y \in Seq(Nat) /\ Len(x) \in Nat /\ Len(y) \in Nat /\ Aging(x)
  BY LenProperties DEF Tells
<1>3. ASSUME NEW n \in 1 .. Len(y), NEW m \in 1 .. Len(y), n <= m PROVE y[m] <= y[n]
  <2>0. k \in Nat /\ n \in Nat /\ m \in Nat /\ n >= 1 /\ m <= Len(x) - k
    BY <1>1, <1>2
  <2>1. k + n \in 1 .. Len(x) /\ k + m \in 1 .. Len(x) /\ k + n <= k + m
    BY <1>2, <1>3, <2>0
  <2>2. x[k + m] <= x[k + n]
    BY <1>2, <2>1 DEF Aging
  <2> QED
    BY <1>1, <2>2
<1> QED
  BY <1>1, <1>2, <1>3, AllFresh DEF Aging

LEMMA OneMoreTells ==
    ASSUME NEW y, Tells(y, y)
    PROVE  Tells(Append(y, 0), Append(y, 0)) /\ Len(Append(y, 0)) = Len(y) + 1
<1> DEFINE z == Append(y, 0)
<1>1. y \in Seq(Nat) /\ Len(y) \in Nat /\ Aging(y) /\ \A n \in 1 .. Len(y) : y[n] \in Nat
  BY LenProperties, ElementOfSeq DEF Tells
<1>2. \A n \in 1 .. Len(y) : Fresh(y[n])
  BY TellsOf
<1>3. /\ z \in Seq(Nat) /\ Len(z) = Len(y) + 1
      /\ \A n \in 1 .. Len(y) : z[n] = y[n]
      /\ z[Len(y) + 1] = 0
  BY <1>1, AppendProperties
<1> HIDE DEF z
<1>4. Fresh(0)
  BY RateAssumption DEF Fresh
<1>5. ASSUME NEW n \in 1 .. Len(z) PROVE Fresh(z[n])
  <2>1. n = Len(y) + 1 \/ n \in 1 .. Len(y)
    BY <1>1, <1>3
  <2> QED
    BY <1>2, <1>3, <1>4, <2>1
<1>6. ASSUME NEW n \in 1 .. Len(z), NEW m \in 1 .. Len(z), n <= m PROVE z[m] <= z[n]
  <2>1. z[n] \in Nat
    BY <1>3, ElementOfSeq
  <2>2. CASE m = Len(y) + 1
    BY <1>3, <2>1, <2>2
  <2>3. CASE m # Len(y) + 1
    <3>1. m \in 1 .. Len(y) /\ n \in 1 .. Len(y)
      BY <1>1, <1>3, <1>6, <2>3
    <3> QED
      BY <1>1, <1>3, <1>6, <3>1 DEF Aging
  <2> QED
    BY <2>2, <2>3
<1>7. Aging(z)
  BY <1>6 DEF Aging
<1>8. Tells(z, z)
  BY <1>3, <1>5, <1>7, AllFresh
<1> QED
  BY <1>3, <1>8 DEF z

\* A list whose newest is past the window can be swept.
LEMMA SweptTells ==
    ASSUME NEW x, NEW y, Tells(x, y), Stale(x)
    PROVE  Tells(<<>>, y)
<1>1. PICK k \in 0 .. Len(x) :
         Parts(x, k) /\ Len(y) = Len(x) - k /\ \A n \in 1 .. Len(y) : y[n] = x[k + n] /\ Fresh(y[n])
  BY TellsOf
<1>2. x \in Seq(Nat) /\ y \in Seq(Nat) /\ Len(x) \in Nat /\ Len(y) \in Nat
  BY LenProperties DEF Tells
<1>3. Len(y) = 0
  <2>1. CASE x = <<>>
    BY <1>1, <1>2, <2>1
  <2>2. CASE x # <<>>
    <3>1. Len(x) > 0 /\ ~Fresh(x[Len(x)])
      BY <1>2, <2>2, EmptySeq DEF Stale, Last
    <3>2. ~(Len(x) \in k + 1 .. Len(x))
      BY <1>1, <3>1 DEF Parts
    <3> QED
      BY <1>1, <1>2, <3>1, <3>2
  <2> QED
    BY <2>1, <2>2
<1>4. y = <<>>
  BY <1>2, <1>3, EmptySeq
<1>5. <<>> \in Seq(Nat) /\ Aging(<<>>) /\ \A n \in 1 .. Len(<<>>) : Fresh(<<>>[n])
  <2>1. Len(<<>>) = 0 /\ 1 .. 0 = {}
    BY EmptySeq
  <2> QED
    BY <2>1, EmptySeq DEF Aging
<1> QED
  BY <1>4, <1>5, AllFresh

OneOlder(gone) == IF gone < Span THEN gone + 1 ELSE gone
Aged(x) == [n \in DOMAIN x |-> OneOlder(x[n])]

LEMMA AgedList ==
    ASSUME NEW x \in Seq(Nat)
    PROVE  /\ Aged(x) \in Seq(Nat) /\ Len(Aged(x)) = Len(x) /\ Len(x) \in Nat
           /\ \A n \in 1 .. Len(x) : Aged(x)[n] = OneOlder(x[n])
           /\ Aging(x) => Aging(Aged(x))
<1>1. Span \in Nat
  BY RateAssumption
<1>2. Len(x) \in Nat /\ DOMAIN x = 1 .. Len(x) /\ \A n \in 1 .. Len(x) : x[n] \in Nat
  BY LenProperties, ElementOfSeq
<1>3. \A n \in 1 .. Len(x) : OneOlder(x[n]) \in Nat
  BY <1>1, <1>2 DEF OneOlder
<1>4. Aged(x) \in [1 .. Len(x) -> Nat] /\ \A n \in 1 .. Len(x) : Aged(x)[n] = OneOlder(x[n])
  BY <1>2, <1>3 DEF Aged
<1>5. Aged(x) \in Seq(Nat) /\ Len(Aged(x)) = Len(x)
  BY <1>2, <1>4
<1>6. ASSUME Aging(x), NEW n \in 1 .. Len(x), NEW m \in 1 .. Len(x), n <= m
      PROVE  OneOlder(x[m]) <= OneOlder(x[n])
  <2>1. x[m] <= x[n] /\ x[m] \in Nat /\ x[n] \in Nat
    BY <1>2, <1>6 DEF Aging
  <2> QED
    BY <1>1, <2>1 DEF OneOlder
<1>7. Aging(x) => Aging(Aged(x))
  BY <1>4, <1>5, <1>6 DEF Aging
<1> QED
  BY <1>2, <1>4, <1>5, <1>7

\* A second later more of them, the oldest, are past the window.
LEMMA AgedParts ==
    ASSUME NEW x \in Seq(Nat), Aging(x)
    PROVE  \E k \in 0 .. Len(x) : Parts(x, k)
<1> DEFINE T == {n \in Nat : n < Len(x) /\ Fresh(x[n + 1])}
<1>1. Len(x) \in Nat /\ \A n \in 1 .. Len(x) : x[n] \in Nat
  BY LenProperties, ElementOfSeq
<1>2. CASE T = {}
  <2>1. \A n \in 1 .. Len(x) : ~Fresh(x[n])
    <3> SUFFICES ASSUME NEW n \in 1 .. Len(x), Fresh(x[n]) PROVE FALSE
      OBVIOUS
    <3>1. n - 1 \in Nat /\ n - 1 < Len(x) /\ n - 1 + 1 = n
      BY <1>1
    <3>2. n - 1 \in T
      BY <3>1
    <3> QED
      BY <1>2, <3>2
  <2>2. Len(x) \in 0 .. Len(x) /\ Len(x) + 1 .. Len(x) = {}
    BY <1>1
  <2>3. Parts(x, Len(x))
    BY <2>1, <2>2 DEF Parts
  <2> QED
    BY <2>2, <2>3
<1>3. CASE T # {}
  <2>1. PICK k \in T : \A j \in T : k <= j
    BY <1>3, LeastOf, T \in SUBSET Nat
  <2>2. k \in Nat /\ k < Len(x) /\ Fresh(x[k + 1])
    BY <2>1
  <2>3. ASSUME NEW n \in 1 .. k PROVE ~Fresh(x[n])
    <3>1. n - 1 \in Nat /\ n - 1 < Len(x) /\ n - 1 + 1 = n /\ ~(k <= n - 1)
      BY <1>1, <2>2
    <3>2. n - 1 \notin T
      BY <2>1, <3>1
    <3> QED
      BY <3>1, <3>2
  <2>4. ASSUME NEW n \in k + 1 .. Len(x) PROVE Fresh(x[n])
    <3>1. n \in 1 .. Len(x) /\ k + 1 \in 1 .. Len(x) /\ k + 1 <= n
      BY <1>1, <2>2
    <3>2. x[n] <= x[k + 1] /\ x[n] \in Nat /\ x[k + 1] \in Nat
      BY <1>1, <3>1 DEF Aging
    <3> QED
      BY <2>2, <3>2, RateAssumption DEF Fresh
  <2>5. k \in 0 .. Len(x)
    BY <1>1, <2>2
  <2> QED
    BY <2>3, <2>4, <2>5 DEF Parts
<1> QED
  BY <1>2, <1>3

LEMMA AgedTells ==
    ASSUME NEW x, NEW y, Tells(x, y)
    PROVE  /\ Tells(Aged(x), Pruned(Aged(y)))
           /\ Len(Pruned(Aged(y))) <= Len(y)
<1>1. PICK k \in 0 .. Len(x) :
         Parts(x, k) /\ Len(y) = Len(x) - k /\ \A n \in 1 .. Len(y) : y[n] = x[k + n]
  BY TellsOf
<1>2. x \in Seq(Nat) /\ y \in Seq(Nat) /\ Aging(x) /\ Aging(y)
  BY WindowTells DEF Tells
<1> DEFINE u == Aged(x)
           v == Aged(y)
<1>3. /\ u \in Seq(Nat) /\ Len(u) = Len(x) /\ Len(x) \in Nat /\ Aging(u)
      /\ \A n \in 1 .. Len(x) : u[n] = OneOlder(x[n])
  BY <1>2, AgedList
<1>4. /\ v \in Seq(Nat) /\ Len(v) = Len(y) /\ Len(y) \in Nat /\ Aging(v)
      /\ \A n \in 1 .. Len(y) : v[n] = OneOlder(y[n])
  BY <1>2, AgedList
<1> HIDE DEF u, v
<1>5. PICK j \in 0 .. Len(u) : Parts(u, j)
  BY <1>3, AgedParts
<1>6. PICK i \in 0 .. Len(v) : Parts(v, i)
  BY <1>4, AgedParts
<1>7. j \in Nat /\ i \in Nat /\ k \in Nat /\ j <= Len(x) /\ i <= Len(y) /\ k <= Len(x)
  BY <1>1, <1>3, <1>4, <1>5, <1>6
<1>8. \A n \in 1 .. Len(y) : k + n \in 1 .. Len(x) /\ v[n] = u[k + n]
  <2> SUFFICES ASSUME NEW n \in 1 .. Len(y) PROVE k + n \in 1 .. Len(x) /\ v[n] = u[k + n]
    OBVIOUS
  <2>1. k + n \in 1 .. Len(x)
    BY <1>1, <1>3, <1>7
  <2> QED
    BY <1>1, <1>3, <1>4, <2>1
<1>9. \A n \in 1 .. k : ~Fresh(u[n])
  <2> SUFFICES ASSUME NEW n \in 1 .. k PROVE ~Fresh(u[n])
    OBVIOUS
  <2>1. n \in 1 .. Len(x) /\ ~Fresh(x[n])
    BY <1>1, <1>3, <1>7 DEF Parts
  <2>2. u[n] = x[n]
    BY <1>3, <2>1 DEF Fresh, OneOlder
  <2> QED
    BY <2>1, <2>2
<1>10. j = k + i
  <2>1. ~(j < k + i)
    <3> SUFFICES ASSUME j < k + i PROVE FALSE
      OBVIOUS
    <3>1. j + 1 \in j + 1 .. Len(u) /\ j + 1 \in Nat /\ j + 1 <= k + i
      BY <1>1, <1>3, <1>7
    <3>2. Fresh(u[j + 1])
      BY <1>5, <3>1 DEF Parts
    <3>3. ~(j + 1 \in 1 .. k)
      BY <1>9, <3>2
    <3>4. j + 1 - k \in 1 .. i /\ j + 1 - k \in 1 .. Len(y) /\ k + (j + 1 - k) = j + 1
      BY <1>7, <3>1, <3>3, <1>4
    <3>5. ~Fresh(v[j + 1 - k])
      BY <1>6, <3>4 DEF Parts
    <3> QED
      BY <1>8, <3>2, <3>4, <3>5
  <2>2. ~(k + i < j)
    <3> SUFFICES ASSUME k + i < j PROVE FALSE
      OBVIOUS
    <3>1. i + 1 \in i + 1 .. Len(v) /\ i + 1 \in 1 .. Len(y) /\ k + (i + 1) \in 1 .. j
      BY <1>1, <1>3, <1>4, <1>7
    <3>2. Fresh(v[i + 1]) /\ ~Fresh(u[k + (i + 1)])
      BY <1>5, <1>6, <3>1 DEF Parts
    <3> QED
      BY <1>8, <3>1, <3>2
  <2> QED
    BY <1>7, <2>1, <2>2
<1>11. Pruned(v) = Rest(v, i)
  BY <1>4, <1>6, PrunedIsRest
<1>12. /\ Rest(v, i) \in Seq(Nat) /\ Len(Rest(v, i)) = Len(y) - i
       /\ \A n \in 1 .. Len(y) - i : Rest(v, i)[n] = v[i + n]
  <2>1. Len(v) \in 0 .. Len(v) /\ i \in 0 .. Len(v)
    BY <1>4, <1>7
  <2> QED
    BY <1>4, <2>1, BetweenProperties DEF Rest
<1>13. /\ Rest(u, j) \in Seq(Nat) /\ Len(Rest(u, j)) = Len(x) - j
       /\ \A n \in 1 .. Len(x) - j : Rest(u, j)[n] = u[j + n]
  <2>1. Len(u) \in 0 .. Len(u) /\ j \in 0 .. Len(u)
    BY <1>3, <1>7
  <2> QED
    BY <1>3, <2>1, BetweenProperties DEF Rest
<1>14. Len(x) - j = Len(y) - i
  BY <1>1, <1>3, <1>4, <1>7, <1>10
<1>15. ASSUME NEW n \in 1 .. Len(y) - i PROVE Rest(v, i)[n] = Rest(u, j)[n]
  <2>1. i + n \in 1 .. Len(y) /\ k + (i + n) = j + n
    BY <1>4, <1>7, <1>10
  <2>2. v[i + n] = u[j + n]
    BY <1>8, <2>1
  <2> QED
    BY <1>12, <1>13, <1>14, <2>2
<1>16. Rest(v, i) = Rest(u, j)
  BY <1>12, <1>13, <1>14, <1>15, SeqEqual
<1>17. Tells(u, Pruned(v))
  BY <1>3, <1>5, <1>7, <1>11, <1>12, <1>16 DEF Tells
<1>18. Len(Pruned(v)) <= Len(y)
  BY <1>4, <1>7, <1>11, <1>12
<1> QED
  BY <1>17, <1>18 DEF u, v

RateTypeOK ==
    /\ log \in [Callers -> Seq(Nat)]
    /\ calls \in Nat
    /\ passed \in [Callers -> Seq(Nat)]

\* The list of a caller tells what went through in the window, which is not too much.
InWindow(i) == Tells(log[i], passed[i]) /\ Len(passed[i]) <= Limit

RateIInv == RateTypeOK /\ \A i \in Callers : InWindow(i)

LEMMA RateStarts == RateInit => RateIInv
<1> SUFFICES ASSUME RateInit PROVE RateIInv
  OBVIOUS
<1>1. <<>> \in Seq(Nat) /\ Len(<<>>) = 0 /\ 1 .. 0 = {}
  BY EmptySeq
<1>2. Tells(<<>>, <<>>)
  BY <1>1, AllFresh DEF Aging
<1>3. RateTypeOK
  BY <1>1 DEF RateInit, RateTypeOK
<1>4. ASSUME NEW i \in Callers PROVE InWindow(i)
  BY <1>1, <1>2, RateAssumption DEF InWindow, RateInit
<1> QED
  BY <1>3, <1>4 DEF RateIInv

LEMMA LetThroughKeeps ==
    ASSUME RateIInv, NEW i \in Callers, LetThrough(i)
    PROVE  RateIInv'
<1> DEFINE noted == [log EXCEPT ![i] = Append(Pruned(log[i]), 0)]
           swept == [j \in Callers |-> IF Stale(noted[j]) THEN <<>> ELSE noted[j]]
<1>1. /\ log \in [Callers -> Seq(Nat)] /\ passed \in [Callers -> Seq(Nat)] /\ calls \in Nat
      /\ \A j \in Callers : Tells(log[j], passed[j]) /\ Len(passed[j]) <= Limit
  BY DEF RateIInv, RateTypeOK, InWindow
<1>2. /\ Len(Pruned(log[i])) < Limit
      /\ log' = swept \/ log' = noted
      /\ calls' \in Nat
      /\ passed' = [passed EXCEPT ![i] = Append(passed[i], 0)]
  BY <1>1 DEF LetThrough
<1>3. /\ Pruned(log[i]) = passed[i]
      /\ Tells(Append(passed[i], 0), Append(passed[i], 0))
      /\ Len(Append(passed[i], 0)) = Len(passed[i]) + 1
  <2>1. Tells(log[i], passed[i])
    BY <1>1
  <2>2. Tells(passed[i], passed[i])
    BY <2>1, WindowTells
  <2> QED
    BY <2>1, <2>2, TellsOf, OneMoreTells
<1>4. Limit \in Nat /\ Len(passed[i]) \in Nat
  BY <1>1, LenProperties, RateAssumption
<1>5. ASSUME NEW j \in Callers PROVE Tells(noted[j], passed'[j]) /\ Len(passed'[j]) <= Limit
  <2>1. CASE j = i
    BY <1>1, <1>2, <1>3, <1>4, <2>1
  <2>2. CASE j # i
    BY <1>1, <1>2, <2>2
  <2> QED
    BY <2>1, <2>2
<1> HIDE DEF noted
<1>6. ASSUME NEW j \in Callers PROVE Tells(swept[j], passed'[j])
  <2>1. swept[j] = IF Stale(noted[j]) THEN <<>> ELSE noted[j]
    OBVIOUS
  <2> QED
    BY <1>5, <2>1, SweptTells
<1>7. DOMAIN noted = Callers /\ DOMAIN swept = Callers /\ noted = [j \in Callers |-> noted[j]]
  BY <1>1 DEF noted
<1> HIDE DEF swept
<1>8. \A j \in Callers : Tells(log'[j], passed'[j])
  BY <1>2, <1>5, <1>6
<1>9. log' \in [Callers -> Seq(Nat)] /\ passed' \in [Callers -> Seq(Nat)]
  <2>1. \A j \in Callers : log'[j] \in Seq(Nat) /\ passed'[j] \in Seq(Nat)
    BY <1>8 DEF Tells
  <2>2. log' = [j \in Callers |-> log'[j]] /\ passed' = [j \in Callers |-> passed'[j]]
    BY <1>1, <1>2, <1>7 DEF swept
  <2> QED
    BY <2>1, <2>2
<1> QED
  BY <1>2, <1>5, <1>8, <1>9 DEF RateIInv, RateTypeOK, InWindow

LEMMA TurnAwayKeeps ==
    ASSUME RateIInv, NEW i \in Callers, TurnAway(i)
    PROVE  RateIInv'
<1>1. /\ log \in [Callers -> Seq(Nat)] /\ passed \in [Callers -> Seq(Nat)] /\ calls \in Nat
      /\ \A j \in Callers : Tells(log[j], passed[j]) /\ Len(passed[j]) <= Limit
  BY DEF RateIInv, RateTypeOK, InWindow
<1>2. log' = [log EXCEPT ![i] = Pruned(log[i])] /\ calls' = calls /\ passed' = passed
  BY DEF TurnAway
<1>3. Pruned(log[i]) = passed[i] /\ Tells(passed[i], passed[i])
  BY <1>1, TellsOf, WindowTells
<1>4. \A j \in Callers : Tells(log'[j], passed'[j])
  BY <1>1, <1>2, <1>3
<1>5. log' \in [Callers -> Seq(Nat)]
  BY <1>1, <1>2, <1>3
<1> QED
  BY <1>1, <1>2, <1>4, <1>5 DEF RateIInv, RateTypeOK, InWindow

LEMMA SecondKeeps == RateIInv /\ Second => RateIInv'
<1> SUFFICES ASSUME RateIInv, Second PROVE RateIInv'
  OBVIOUS
<1>1. /\ log \in [Callers -> Seq(Nat)] /\ passed \in [Callers -> Seq(Nat)] /\ calls \in Nat
      /\ \A j \in Callers : Tells(log[j], passed[j]) /\ Len(passed[j]) <= Limit
  BY DEF RateIInv, RateTypeOK, InWindow
<1>2. /\ log' = [j \in Callers |-> Aged(log[j])]
      /\ passed' = [j \in Callers |-> Pruned(Aged(passed[j]))]
      /\ calls' = calls
  BY DEF Second, Aged, OneOlder
<1>3. ASSUME NEW j \in Callers
      PROVE  Tells(log'[j], passed'[j]) /\ Len(passed'[j]) <= Limit
  <2>1. /\ Tells(Aged(log[j]), Pruned(Aged(passed[j])))
        /\ Len(Pruned(Aged(passed[j]))) <= Len(passed[j])
    BY <1>1, AgedTells
  <2>2. Pruned(Aged(passed[j])) \in Seq(Nat)
    BY <2>1 DEF Tells
  <2>3. /\ Len(Pruned(Aged(passed[j]))) \in Nat /\ Len(passed[j]) \in Nat /\ Limit \in Nat
        /\ Len(passed[j]) <= Limit
    BY <1>1, <2>2, LenProperties, RateAssumption
  <2> QED
    BY <1>2, <2>1, <2>3
<1>4. log' \in [Callers -> Seq(Nat)] /\ passed' \in [Callers -> Seq(Nat)]
  <2>1. \A j \in Callers : Aged(log[j]) \in Seq(Nat) /\ Pruned(Aged(passed[j])) \in Seq(Nat)
    BY <1>2, <1>3 DEF Tells
  <2> QED
    BY <1>2, <2>1
<1> QED
  BY <1>1, <1>2, <1>3, <1>4 DEF RateIInv, RateTypeOK, InWindow

\* For any limit, window and callers: no window lets more requests of a caller through
\* than the limit says, and none is refused while fewer went through, whatever
\* was pruned or swept (check_auth_rate_limit, _check_rate_limit).
THEOREM LimitAlwaysExact == RateSpec => []LimitIsExact
<1>1. RateIInv /\ [RateNext]_rateVars => RateIInv'
  <2>1. RateIInv /\ UNCHANGED rateVars => RateIInv'
    BY DEF RateIInv, RateTypeOK, InWindow, rateVars
  <2> QED
    BY <2>1, LetThroughKeeps, TurnAwayKeeps, SecondKeeps DEF RateNext
<1>2. RateIInv => LimitIsExact
  <2> SUFFICES ASSUME RateIInv, NEW i \in Callers
               PROVE  /\ Len(passed[i]) <= Limit
                      /\ Len(Pruned(log[i])) >= Limit => Len(passed[i]) >= Limit
    BY DEF LimitIsExact
  <2>1. Pruned(log[i]) = passed[i] /\ Len(passed[i]) <= Limit
    BY TellsOf DEF RateIInv, InWindow
  <2> QED
    BY <2>1
<1> QED
  BY <1>1, <1>2, RateStarts, PTL DEF RateSpec

-----------------------------------------------------------------------------
(* The API keys                                                            *)

LEMMA OlderBounds ==
    ASSUME NEW most \in Nat, NEW n \in 0 .. most
    PROVE  /\ Older(n, most) \in 0 .. most
           /\ Older(n, most) <= n + 1
           /\ Older(n, most) < most => Older(n, most) = n + 1
BY DEF Older

LEMMA WindowNat == Window \in Nat /\ Never \in Nat /\ Never = Window + 1 /\ CallTime <= Window
                   /\ Window = Ttl + CallTime - 1
BY CacheAssumption DEF Window, Never

LEMMA InitIndInv == Init => IndInv
<1> SUFFICES ASSUME Init PROVE IndInv
  OBVIOUS
<1>1. TypeOK
  BY CacheAssumption, WindowNat DEF Init, TypeOK
<1>2. CacheInv /\ AnswersAreRecent
  BY CacheAssumption DEF Init, CacheInv, AnswersAreRecent
<1> QED
  BY <1>1, <1>2 DEF IndInv

\* A commit makes one set the active one, and lets none fall behind.
LEMMA CommitKeeps ==
    ASSUME IndInv, NEW new \in SUBSET Keys, NEW change \in Keys \X {"create", "delete"},
           Commit(new, change), born' \in SUBSET Keys
    PROVE  IndInv'
<1>1. since' \in [SUBSET Keys -> 0 .. Never] /\ since'[new] = 0
  BY WindowNat DEF IndInv, TypeOK, Commit
<1>2. \A S \in SUBSET Keys : since'[S] <= since[S]
  BY WindowNat, <1>1 DEF IndInv, TypeOK, Commit
<1>3. TypeOK'
  BY <1>1 DEF IndInv, TypeOK, Commit
<1>4. CacheInv'
  <2>1. \A p \in Procs : age'[p] < Ttl => since'[cache'[p]] <= age'[p] + CallTime
    <3> SUFFICES ASSUME NEW p \in Procs, age[p] < Ttl
                 PROVE  since'[cache[p]] <= age[p] + CallTime
      BY DEF Commit
    <3>1. cache[p] \in SUBSET Keys /\ age[p] \in Nat /\ CallTime \in Nat
      BY CacheAssumption DEF IndInv, TypeOK
    <3>2. since[cache[p]] <= age[p] + CallTime
      BY DEF IndInv, CacheInv
    <3>3. since[cache[p]] \in Nat /\ since'[cache[p]] \in Nat /\ since'[cache[p]] <= since[cache[p]]
      BY <1>1, <1>2, <3>1, WindowNat DEF IndInv, TypeOK
    <3> QED
      BY <3>1, <3>2, <3>3
  <2>2. \A c \in Calls : pc'[c] \in {"read", "close"} => since'[got'[c]] <= took'[c]
    <3> SUFFICES ASSUME NEW c \in Calls, pc[c] \in {"read", "close"}
                 PROVE  since'[got[c]] <= took[c]
      BY DEF Commit
    <3>1. got[c] \in SUBSET Keys /\ took[c] \in Nat
      BY CacheAssumption DEF IndInv, TypeOK
    <3>2. since[got[c]] <= took[c]
      BY DEF IndInv, CacheInv
    <3>3. since[got[c]] \in Nat /\ since'[got[c]] \in Nat /\ since'[got[c]] <= since[got[c]]
      BY <1>1, <1>2, <3>1, WindowNat DEF IndInv, TypeOK
    <3> QED
      BY <3>1, <3>2, <3>3
  <2> QED
    BY <1>1, <2>1, <2>2 DEF CacheInv, Commit
<1>5. AnswersAreRecent'
  <2> SUFFICES ASSUME NEW c \in Calls, pc[c] = "answer" PROVE since'[got[c]] <= Window
    BY DEF AnswersAreRecent, Commit
  <2>1. got[c] \in SUBSET Keys
    BY DEF IndInv, TypeOK
  <2>2. since[got[c]] <= Window
    BY DEF IndInv, AnswersAreRecent
  <2>3. since[got[c]] \in Nat /\ since'[got[c]] \in Nat /\ since'[got[c]] <= since[got[c]]
    BY <1>1, <1>2, <2>1, WindowNat DEF IndInv, TypeOK
  <2> QED
    BY <2>2, <2>3, WindowNat
<1> QED
  BY <1>3, <1>4, <1>5 DEF IndInv

\* While time passes the copies, the checks and the sets age together.
LEMMA TickKeeps == ASSUME IndInv, Tick PROVE IndInv'
<1>1. age' \in [Procs -> 0 .. Ttl]
  BY CacheAssumption, OlderBounds DEF IndInv, TypeOK, Tick
<1>2. took' \in [Calls -> 0 .. CallTime]
  BY CacheAssumption DEF IndInv, TypeOK, Tick
<1>3. \A S \in SUBSET Keys : since'[S] \in 0 .. Never /\ since'[S] <= since[S] + 1
  <2> SUFFICES ASSUME NEW S \in SUBSET Keys
               PROVE  since'[S] \in 0 .. Never /\ since'[S] <= since[S] + 1
    OBVIOUS
  <2>1. since[S] \in 0 .. Never
    BY DEF IndInv, TypeOK
  <2>2. since'[S] = IF S = active THEN 0 ELSE Older(since[S], Never)
    BY DEF Tick
  <2>3. Older(since[S], Never) \in 0 .. Never /\ Older(since[S], Never) <= since[S] + 1
    BY <2>1, WindowNat, OlderBounds
  <2> QED
    BY <2>1, <2>2, <2>3, WindowNat
<1>4. since' \in [SUBSET Keys -> 0 .. Never]
  BY <1>3 DEF Tick
<1>5. TypeOK'
  BY <1>1, <1>2, <1>4 DEF IndInv, TypeOK, Tick
<1>6. CacheInv'
  <2>1. since'[active'] = 0
    BY DEF IndInv, TypeOK, Tick
  <2>2. ASSUME NEW p \in Procs, age'[p] < Ttl PROVE since'[cache'[p]] <= age'[p] + CallTime
    <3>1. age[p] \in 0 .. Ttl /\ age'[p] = Older(age[p], Ttl)
      BY DEF IndInv, TypeOK, Tick
    <3>2. age'[p] = age[p] + 1
      BY CacheAssumption, <2>2, <3>1, OlderBounds
    <3>3. cache[p] \in SUBSET Keys /\ cache'[p] = cache[p]
      BY DEF IndInv, TypeOK, Tick
    <3>4. since[cache[p]] <= age[p] + CallTime
      BY CacheAssumption, <2>2, <3>1, <3>2 DEF IndInv, CacheInv
    <3>5. since[cache[p]] \in Nat /\ since'[cache[p]] \in Nat
      BY <1>3, <3>3, WindowNat DEF IndInv, TypeOK
    <3> QED
      BY CacheAssumption, <1>3, <3>1, <3>2, <3>3, <3>4, <3>5
  <2>3. ASSUME NEW c \in Calls, pc'[c] \in {"read", "close"} PROVE since'[got'[c]] <= took'[c]
    <3>1. pc[c] \in {"read", "close"} /\ got'[c] = got[c] /\ got[c] \in SUBSET Keys
      BY <2>3 DEF IndInv, TypeOK, Tick
    <3>2. took'[c] = took[c] + 1 /\ took[c] \in Nat
      BY <3>1, CacheAssumption DEF IndInv, TypeOK, Tick, Running
    <3>3. since[got[c]] <= took[c]
      BY <3>1 DEF IndInv, CacheInv
    <3>4. since[got[c]] \in Nat /\ since'[got[c]] \in Nat
      BY <1>3, <3>1, WindowNat DEF IndInv, TypeOK
    <3> QED
      BY <1>3, <3>1, <3>2, <3>3, <3>4
  <2> QED
    BY <2>1, <2>2, <2>3 DEF CacheInv
<1>7. AnswersAreRecent'
  BY DEF AnswersAreRecent, Tick, Quiet
<1> QED
  BY <1>5, <1>6, <1>7 DEF IndInv

\* A step of a check; `since` stays.
LEMMA StepKeeps ==
    ASSUME IndInv, NEW c \in Calls, Hit(c) \/ Step(c) \/ LoadFails(c)
    PROVE  IndInv'
<1> USE CacheAssumption, WindowNat
<1>h. Home[c] \in Procs
  OBVIOUS
<1>1. CASE Hit(c)
  <2>1. TypeOK'
    BY <1>1, <1>h DEF IndInv, TypeOK, Hit, Moves, Gets
  <2>2. CacheInv'
    BY <1>1 DEF IndInv, TypeOK, CacheInv, Hit, Moves, Gets
  <2>3. since[cache[Home[c]]] <= Window
    <3>1. since[cache[Home[c]]] <= age[Home[c]] + CallTime /\ age[Home[c]] < Ttl
      BY <1>1, <1>h DEF IndInv, CacheInv, Hit
    <3>2. since[cache[Home[c]]] \in Nat /\ age[Home[c]] \in Nat
      BY <1>h DEF IndInv, TypeOK
    <3> QED
      BY <3>1, <3>2
  <2>4. AnswersAreRecent'
    BY <1>1, <2>3 DEF IndInv, TypeOK, AnswersAreRecent, Hit, Moves, Gets
  <2> QED
    BY <2>1, <2>2, <2>4 DEF IndInv
<1>2. CASE Miss(c)
  <2>1. TypeOK'
    BY <1>2 DEF IndInv, TypeOK, Miss, Moves
  <2>2. CacheInv' /\ AnswersAreRecent'
    BY <1>2 DEF IndInv, TypeOK, CacheInv, AnswersAreRecent, Miss, Moves
  <2> QED
    BY <2>1, <2>2 DEF IndInv
<1>3. CASE Select(c)
  <2>1. TypeOK'
    BY <1>3 DEF IndInv, TypeOK, Select, Moves, Gets
  <2>2. CacheInv'
    BY <1>3 DEF IndInv, TypeOK, CacheInv, Select, Moves, Gets
  <2>3. AnswersAreRecent'
    BY <1>3 DEF IndInv, TypeOK, AnswersAreRecent, Select, Moves, Gets
  <2> QED
    BY <2>1, <2>2, <2>3 DEF IndInv
<1>4. CASE Store(c)
  <2>1. TypeOK'
    BY <1>4, <1>h DEF IndInv, TypeOK, Store, Moves
  <2>2. since[got[c]] <= CallTime
    <3>1. since[got[c]] <= took[c] /\ took[c] <= CallTime
      BY <1>4 DEF IndInv, TypeOK, CacheInv, Store, Moves
    <3>2. since[got[c]] \in Nat /\ took[c] \in Nat
      BY DEF IndInv, TypeOK
    <3> QED
      BY <3>1, <3>2
  <2>3. \A p \in Procs : age'[p] < Ttl => since'[cache'[p]] <= age'[p] + CallTime
    BY <1>4, <1>h, <2>2 DEF IndInv, TypeOK, CacheInv, Store
  <2>4. CacheInv'
    BY <1>4, <2>3 DEF IndInv, TypeOK, CacheInv, Store, Moves
  <2>5. AnswersAreRecent'
    BY <1>4 DEF IndInv, TypeOK, AnswersAreRecent, Store, Moves
  <2> QED
    BY <2>1, <2>4, <2>5 DEF IndInv
<1>5. CASE Close(c)
  <2>1. TypeOK'
    BY <1>5 DEF IndInv, TypeOK, Close, Moves
  <2>2. CacheInv'
    BY <1>5 DEF IndInv, TypeOK, CacheInv, Close, Moves
  <2>3. since[got[c]] <= Window
    <3>1. since[got[c]] <= took[c] /\ took[c] <= CallTime
      BY <1>5 DEF IndInv, TypeOK, CacheInv, Close, Moves
    <3>2. since[got[c]] \in Nat /\ took[c] \in Nat
      BY DEF IndInv, TypeOK
    <3> QED
      BY <3>1, <3>2
  <2>4. AnswersAreRecent'
    BY <1>5, <2>3 DEF IndInv, TypeOK, AnswersAreRecent, Close, Moves
  <2> QED
    BY <2>1, <2>2, <2>4 DEF IndInv
<1>6. CASE Test(c)
  <2>1. TypeOK'
    BY <1>6 DEF IndInv, TypeOK, Test, Gets
  <2>2. CacheInv'
    BY <1>6 DEF IndInv, TypeOK, CacheInv, Test, Gets
  <2>3. AnswersAreRecent'
    BY <1>6 DEF IndInv, TypeOK, AnswersAreRecent, Test, Gets
  <2> QED
    BY <2>1, <2>2, <2>3 DEF IndInv
<1>7. CASE LoadFails(c)
  <2>1. TypeOK'
    BY <1>7 DEF IndInv, TypeOK, LoadFails, Moves, Gets
  <2>2. CacheInv'
    BY <1>7 DEF IndInv, TypeOK, CacheInv, LoadFails, Moves, Gets
  <2>3. AnswersAreRecent'
    BY <1>7 DEF IndInv, TypeOK, AnswersAreRecent, LoadFails, Moves, Gets
  <2> QED
    BY <2>1, <2>2, <2>3 DEF IndInv
<1> QED
  BY <1>1, <1>2, <1>3, <1>4, <1>5, <1>6, <1>7 DEF Step

\* A copy that is thrown away is behind nothing.
LEMMA DropKeeps ==
    ASSUME IndInv, (\E change \in pending : Invalidate(change)) \/ (\E p \in Procs : Restart(p))
    PROVE  IndInv'
<1> USE CacheAssumption
<1>1. ASSUME NEW change \in pending, Invalidate(change) PROVE IndInv'
  <2>1. TypeOK'
    BY <1>1 DEF IndInv, TypeOK, Invalidate, Drop
  <2>2. CacheInv'
    BY <1>1 DEF IndInv, TypeOK, CacheInv, Invalidate, Drop
  <2>3. AnswersAreRecent'
    BY <1>1 DEF IndInv, AnswersAreRecent, Invalidate
  <2> QED
    BY <2>1, <2>2, <2>3 DEF IndInv
<1>2. ASSUME NEW p \in Procs, Restart(p) PROVE IndInv'
  <2>1. TypeOK'
    BY <1>2 DEF IndInv, TypeOK, Restart, Drop
  <2>2. CacheInv'
    BY <1>2 DEF IndInv, TypeOK, CacheInv, Restart, Drop
  <2>3. AnswersAreRecent'
    BY <1>2 DEF IndInv, TypeOK, AnswersAreRecent, Restart
  <2> QED
    BY <2>1, <2>2, <2>3 DEF IndInv
<1> QED
  BY <1>1, <1>2

LEMMA NextKeeps == IndInv /\ [Next]_vars => IndInv'
<1> SUFFICES ASSUME IndInv, [Next]_vars PROVE IndInv'
  OBVIOUS
<1>1. ASSUME NEW k \in Keys, Create(k) PROVE IndInv'
  BY <1>1, CommitKeeps, active \union {k} \in SUBSET Keys DEF Create, IndInv, TypeOK
<1>2. ASSUME NEW k \in Keys, Delete(k) PROVE IndInv'
  BY <1>2, CommitKeeps, active \ {k} \in SUBSET Keys DEF Delete, IndInv, TypeOK
<1>3. ASSUME NEW k \in Keys, RefreshFails(k) PROVE IndInv'
  BY <1>3 DEF RefreshFails, IndInv, TypeOK, CacheInv, AnswersAreRecent
<1>4. CASE UNCHANGED vars
  BY <1>4 DEF vars, IndInv, TypeOK, CacheInv, AnswersAreRecent
<1> QED
  BY <1>1, <1>2, <1>3, <1>4, TickKeeps, StepKeeps, DropKeeps DEF Next

\* The inductive invariant: ages bound how far a copy is behind the table.
THEOREM AgesBound == Spec => []IndInv
BY InitIndInv, NextKeeps, PTL DEF Spec

\* A revoked key is refused, and a new one accepted, Ttl + CallTime after the
\* commit at the latest, in every process and however its checks overlap.
THEOREM RecentAnswers == Spec => []AnswersAreRecent
<1>1. IndInv => AnswersAreRecent
  BY DEF IndInv
<1> QED
  BY <1>1, AgesBound, PTL
=============================================================================
