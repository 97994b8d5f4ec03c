------------------------------- MODULE MCApi -------------------------------
(***************************************************************************)
(* Constants and properties for three parts of the API that share neither  *)
(* state nor calls: the dependences, the runs of subscriptions, and the    *)
(* rows of the second factor.  No step of one depends on another, so each  *)
(* is explored by itself: only one of them leaves its initial state.       *)
(***************************************************************************)
EXTENDS MCDependenceQueue

CONSTANTS
    Subs, Places, Files, Nobody, MaxCalls, MaxRuns, MaxStops,   \* SubscriptionRuns
    NoValue, SetSize, MaxSets                           \* TotpLogin

ASSUME ApiAssumption ==
    /\ MaxCalls \in Nat /\ MaxRuns \in Nat /\ MaxStops \in Nat
    /\ Nobody \notin Subs \union Places \union (0..MaxCalls) /\ Files \subseteq Places
    /\ SetSize \in Nat /\ MaxSets \in Nat

VARIABLES
    row, place, status, call, lock, job_ids, live, found, fetch, copy, stops, dirty, refused,
    upset, cut,
    config, request, sets, token, spent

Subscription == INSTANCE SubscriptionRuns
Totp == INSTANCE TotpLogin

subscriptionVars ==
    <<row, place, status, call, lock, job_ids, live, found, fetch, copy, stops, dirty, refused,
      upset, cut>>
totpVars == <<config, request, sets, token, spent>>

\* No step tells one subscription from another.
ApiSymmetry == ClientSymmetry \union Permutations(Subs)

\* Which secret is stored decides nothing, as the users have those of all setups.
TotpView ==
    <<[config EXCEPT !["totp_secret_raw"] = (@ = NoValue)],
      [c \in Clients |-> [request[c] EXCEPT !.secret = 0]], sets, token, spent>>

\* What tells the states of the three apart, see QueueView.
ApiView == <<QueueView, subscriptionVars, TotpView>>

ApiInit == Init /\ Subscription!Init /\ Totp!Init

DependencesOnly ==
    Subscription!Init /\ Totp!Init /\ Next /\ UNCHANGED <<subscriptionVars, totpVars>>

SubscriptionOnly ==
    Init /\ Totp!Init /\ Subscription!Next /\ UNCHANGED <<vars, totpVars>>

TotpOnly ==
    Init /\ Subscription!Init /\ Totp!Next /\ UNCHANGED <<vars, subscriptionVars>>

ApiSpec ==
    /\ ApiInit
    /\ [][DependencesOnly \/ SubscriptionOnly \/ TotpOnly]_<<vars, subscriptionVars, totpVars>>

\* The types of the state of the three; a registry lists only live jobs.
ApiTypeOK == TypeOK /\ Subscription!TypeOK /\ Totp!TypeOK

\* See SubscriptionRuns: one job for each subscription that is enabled and can be scheduled.
OneJobEach == Subscription!OneJobEach

\* See SubscriptionRuns: a subscription says "running" only while a run is.
RunningIsRun == Subscription!RunningIsRun

\* See SubscriptionRuns: "success" means a complete clone or file.
SuccessIsWhole == Subscription!SuccessIsWhole

\* See TotpLogin: a used backup code comes back only with those who can bring it back.
SpentStaySpent == Totp!SpentStaySpent
=============================================================================
