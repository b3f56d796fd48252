------------------------------ MODULE McpSignIn ------------------------------
(***************************************************************************)
(* The authorization server of the MCP endpoint: a client registers, asks  *)
(* for authorization (a pending entry), a user who is signed in completes  *)
(* it in the browser (the entry is traded for a code), and the client      *)
(* exchanges the code for a token.  Pending entries and codes share one    *)
(* dictionary in memory, and a completion takes either: a code that is     *)
(* completed in its turn is traded for a new one.  Entries past their time *)
(* stay in it until a completion or an exchange sweeps it.  A restart      *)
(* forgets everything but the tokens, which are signed.                    *)
(*                                                                         *)
(* Pages are reloaded and requests repeated: any completion and any        *)
(* exchange may come any number of times, in any order.                    *)
(***************************************************************************)
EXTENDS Integers, FiniteSets

CONSTANTS
    Clients,
    Flows,         \* requests for authorization, each with its own identifiers
    Users,
    Visits,        \* coroutines of GET /complete
    PendingLife,   \* 10 minutes, in ticks
    CodeLife,      \* 5 minutes, in ticks
    MaxCodes       \* bound: codes of one request

ASSUME SignInAssumption ==
    PendingLife \in Nat /\ CodeLife \in Nat /\ MaxCodes \in Nat /\ "none" \notin Users

VARIABLES
    known,     \* SUBSET Clients: _clients
    entry,     \* [Flows -> entry of _auth_codes]; id: Pending, the number of its code,
               \* or Gone; left: ticks for which it is valid, 0 when it is past its time
    visit,     \* [Visits -> ...] a completion that verifies the session
    issued,    \* history: [Flows -> number of codes and tokens handed out]
    subject,   \* history: [Flows -> the users named in tokens]
    spent,     \* history: [Flows -> the identifiers that were taken out]
    waited,    \* history: [Flows -> ticks since the request], up to Ever
    begun,     \* history: requests made
    spoiled    \* history: requests with an exchange that was turned down

signInVars == <<known, entry, visit, issued, subject, spent, waited, begun, spoiled>>

Pending == 0
Gone == -1
NoEntry == [id |-> Gone, left |-> 0, user |-> "none"]
NoVisit == [at |-> "idle"]
Ever == PendingLife + MaxCodes * CodeLife + 2

SignInInit ==
    /\ known = {}
    /\ entry = [f \in Flows |-> NoEntry]
    /\ visit = [v \in Visits |-> NoVisit]
    /\ issued = [f \in Flows |-> [codes |-> 0, tokens |-> 0]]
    /\ subject = [f \in Flows |-> {}]
    /\ spent = [f \in Flows |-> {}]
    /\ waited = [f \in Flows |-> 0]
    /\ begun = {}
    /\ spoiled = {}

\* register_client
RegisterClient(c) ==
    /\ c \notin known
    /\ known' = known \union {c}
    /\ UNCHANGED <<entry, visit, issued, subject, spent, waited, begun, spoiled>>

\* build_authorize_redirect, past the limiter and the checks of one request;
\* an unknown client is turned away
Authorize(f, c) ==
    /\ f \notin begun
    /\ c \in known
    /\ entry' = [entry EXCEPT ![f] = [id |-> Pending, left |-> PendingLife + 1, user |-> "none"]]
    /\ begun' = begun \union {f}
    /\ UNCHANGED <<known, visit, issued, subject, spent, waited, spoiled>>

\* _clean_expired
Unswept(entries) == entries
Swept(entries) == [f \in Flows |-> IF entries[f].left = 0 THEN NoEntry ELSE entries[f]]

\* GET /complete, with the identifier the browser was sent to or with any code:
\* the session is verified, which awaits the database
Visit(v, f, id, u) ==
    /\ visit[v] = NoVisit
    /\ f \in begun
    /\ id <= issued[f].codes
    /\ visit' = [visit EXCEPT ![v] = [at |-> "verifying", flow |-> f, id |-> id, user |-> u]]
    /\ UNCHANGED <<known, entry, issued, subject, spent, waited, begun, spoiled>>

\* nobody is signed in: back to the login page
VisitFails(v) ==
    /\ visit[v] # NoVisit
    /\ visit' = [visit EXCEPT ![v] = NoVisit]
    /\ UNCHANGED <<known, entry, issued, subject, spent, waited, begun, spoiled>>

\* the entry of visit v is traded for a code of its user
Trade(v, live) ==
    LET f == visit[v].flow
        code == issued[f].codes + 1
    IN  /\ code <= MaxCodes
        /\ entry' = [live EXCEPT ![f] =
                        [id |-> code, left |-> CodeLife + 1, user |-> visit[v].user]]
        /\ issued' = [issued EXCEPT ![f].codes = code]
        /\ spent' = [spent EXCEPT ![f] = @ \union {visit[v].id}]

\* mutant: what is completed is not popped, so it may be completed again
CompleteKeeping(v) ==
    LET live == Swept(entry)
    IN  /\ visit[v] # NoVisit
        /\ visit' = [visit EXCEPT ![v] = NoVisit]
        /\ IF live[visit[v].flow].id # Gone THEN Trade(v, live)
           ELSE entry' = live /\ UNCHANGED <<issued, spent>>
        /\ UNCHANGED <<known, subject, waited, begun, spoiled>>

\* complete_authorize
Complete(v) ==
    LET live == Swept(entry)
    IN  /\ visit[v] # NoVisit
        /\ visit' = [visit EXCEPT ![v] = NoVisit]
        /\ IF live[visit[v].flow].id = visit[v].id THEN Trade(v, live)
           ELSE entry' = live /\ UNCHANGED <<issued, spent>>
        /\ UNCHANGED <<known, subject, waited, begun, spoiled>>

\* exchange_token, with an identifier and with the right verifier or not: what it
\* finds is popped before it is checked, and a pending entry is not authenticated
Exchange(f, id, right) ==
    LET live == Swept(entry)
        found == live[f].id = id
        good == found /\ id # Pending /\ right
    IN  /\ f \in begun
        /\ id <= issued[f].codes
        /\ entry' = IF found THEN [live EXCEPT ![f] = NoEntry] ELSE live
        /\ issued' = IF good THEN [issued EXCEPT ![f].tokens = @ + 1] ELSE issued
        /\ subject' = IF good THEN [subject EXCEPT ![f] = @ \union {live[f].user}] ELSE subject
        /\ spent' = IF found THEN [spent EXCEPT ![f] = @ \union {id}] ELSE spent
        /\ spoiled' = IF found /\ ~good THEN spoiled \union {f} ELSE spoiled
        /\ UNCHANGED <<known, visit, waited, begun>>

RestartServer ==
    /\ known # {}
    /\ known' = {}
    /\ entry' = [f \in Flows |-> NoEntry]
    /\ visit' = [v \in Visits |-> NoVisit]
    /\ UNCHANGED <<issued, subject, spent, waited, begun, spoiled>>

FiveMinutes ==
    /\ \E f \in begun : waited[f] < Ever
    /\ entry' = [f \in Flows |-> [entry[f] EXCEPT !.left = IF @ > 0 THEN @ - 1 ELSE 0]]
    /\ waited' = [f \in Flows |-> IF f \in begun /\ waited[f] < Ever THEN waited[f] + 1 ELSE waited[f]]
    /\ UNCHANGED <<known, visit, issued, subject, spent, begun, spoiled>>

SignInNext ==
    \/ \E c \in Clients : RegisterClient(c) \/ \E f \in Flows : Authorize(f, c)
    \/ \E v \in Visits : \/ \E f \in Flows, id \in 0 .. MaxCodes, u \in Users : Visit(v, f, id, u)
                         \/ VisitFails(v)
                         \/ Complete(v)
    \/ \E f \in Flows, id \in 0 .. MaxCodes, right \in BOOLEAN : Exchange(f, id, right)
    \/ RestartServer
    \/ FiveMinutes

SignInSpec == SignInInit /\ [][SignInNext]_signInVars

-----------------------------------------------------------------------------
\* However often a browser completes and a client exchanges, a request yields at
\* most one token, which names one who completed it; an exchange that is turned
\* down ends the request, so that a second try with the same code gets nothing
\* (complete_authorize and exchange_token pop first).
OneTokenEach ==
    \A f \in Flows :
        /\ issued[f].tokens <= 1
        /\ issued[f].tokens = 1 => issued[f].codes > 0
        /\ Cardinality(subject[f]) <= 1
        /\ "none" \notin subject[f]
        /\ f \in spoiled => issued[f].tokens = 0

\* An identifier is good for one code or one token, and a token is handed out within
\* the ten minutes of its request and the five of each code up to its own, although
\* nothing removes an entry when its time is over.
TokensInTime ==
    [][ /\ OneTokenEach'
        /\ \A f \in Flows : issued'[f] # issued[f] => spent'[f] # spent[f]
        /\ \A f \in Flows : issued'[f].tokens > issued[f].tokens
              => waited[f] <= PendingLife + issued[f].codes * CodeLife ]_signInVars
=============================================================================
