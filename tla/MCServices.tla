----------------------------- MODULE MCServices -----------------------------
(***************************************************************************)
(* Small instances of what lets callers in and of what answers them as     *)
(* time passes: API keys, accounts, the rate limit, the authorization      *)
(* server, the web client's session, the stream of an answer.  They share  *)
(* no state: a behaviour is one of one of them, chosen at the start, while *)
(* the others rest, so that one run goes through them all.                 *)
(***************************************************************************)
EXTENDS ApiKeyCache, AccountLogin, RateLimit, McpSignIn, SessionKeeper,
        AnswerStream, TLC

CONSTANTS a, ui, c1, c2

PartOfAnswer == {<<"part", "answer">>, <<"part", "part">>, <<"answer", "answer">>}

OneKey == {a}
OneUi == {ui}
TwoCalls == {c1, c2}
AllUi == (c1 :> ui) @@ (c2 :> ui)

VARIABLE service

accessVars == <<service, vars, loginVars, rateVars, signInVars, keeperVars, streamVars>>

AccessInit ==
    /\ service \in {"keys", "login", "rate", "signIn", "keeper", "stream"}
    /\ Init /\ LoginInit /\ RateInit /\ SignInInit /\ KeeperInit
    /\ StreamInit /\ (service # "stream" => mode = "normal" /\ client = "web" /\ ~carried)

BesideKeys == UNCHANGED <<service, loginVars, rateVars, signInVars, keeperVars, streamVars>>
BesideLogin == UNCHANGED <<service, vars, rateVars, signInVars, keeperVars, streamVars>>
BesideRate == UNCHANGED <<service, vars, loginVars, signInVars, keeperVars, streamVars>>
BesideSignIn == UNCHANGED <<service, vars, loginVars, rateVars, keeperVars, streamVars>>
BesideKeeper == UNCHANGED <<service, vars, loginVars, rateVars, signInVars, streamVars>>
BesideStream ==
    UNCHANGED <<service, vars, loginVars, rateVars, signInVars, keeperVars>>

\* Of requests that have crossed, locks are all that is promised: a behaviour with one
\* is followed up to its second reset.
AccessNext ==
    \/ service = "keys" /\ Next /\ BesideKeys
    \/ service = "login" /\ LoginNext /\ (crossed => Len(row'.history) < 2) /\ BesideLogin
    \/ service = "rate" /\ RateNext /\ BesideRate
    \/ service = "signIn" /\ SignInNext /\ BesideSignIn
    \/ service = "keeper" /\ KeeperNext /\ BesideKeeper
    \/ service = "stream" /\ StreamNext /\ BesideStream

\* The fairness that ApiKeyCache, AccountLogin and AnswerStream state, for their own.
AccessFairness ==
    /\ SF_accessVars(service = "keys" /\ Tick /\ BesideKeys)
    /\ \A c \in Calls : SF_accessVars(service = "keys" /\ Step(c) /\ BesideKeys)
    /\ WF_accessVars(service = "login" /\ Minute /\ BesideLogin)
    /\ \A c \in Requests : WF_accessVars(service = "login" /\ LoginEnds(c) /\ BesideLogin)
    /\ WF_accessVars(service = "stream" /\ StreamFair /\ BesideStream)

AccessSpec == AccessInit /\ [][AccessNext]_accessVars /\ AccessFairness

-----------------------------------------------------------------------------
\* Every stream is over some time, however the agent stops: the sentinel comes,
\* or the reader that was cancelled has awaited the agent
\* (_stream_deep_research, _stream_normal_research).
StreamsEnd == service = "stream" ~> reader = "over"
=============================================================================
