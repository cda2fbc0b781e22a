------------------------------- MODULE ApiKeys -------------------------------
(***************************************************************************)
(* Keys and quotas of the data API (apps/analytics-web: lib/api/auth.ts,   *)
(* lib/keys-db.ts, scripts/manage-keys.ts).  Requests are served by one    *)
(* Node process: between two awaits a handler runs alone.  keys.db is a    *)
(* file that manage-keys changes meanwhile; the counters are memory of the *)
(* process and go with it.                                                 *)
(*                                                                         *)
(* Time is in milliseconds, Window of them in a day and Second in a        *)
(* second.  granted is a ghost: when the requests of a key were let in,    *)
(* under which start of the window.                                        *)
(***************************************************************************)
EXTENDS Integers, Sequences, FiniteSets

CONSTANTS
  Keys, Limit,        \* TIER_LIMITS of the key's tier
  Window, Second,
  None,
  MaxTime, MaxRequests, MaxRestarts   \* bounds

ASSUME ApiKeysAssumption ==
  /\ Limit \in [Keys -> Nat \ {0}]
  /\ Second \in Nat \ {0} /\ \E n \in 1 .. Window : Window = n * Second
  /\ MaxTime \in Nat /\ MaxRequests \in Nat /\ MaxRestarts \in Nat
  /\ None \notin [count : Nat, start : Nat] \union [at : Nat, reset : Nat]

VARIABLES
  now,
  row,        \* keys.db: "none", "active" or "revoked"
  counter,    \* COUNTERS: [count, start], or None
  open,       \* requests whose handler has not returned: [key, start, remaining]
  refused,    \* the last refusal of each key: [at, reset], or None
  granted,    \* for each key a sequence of [at, start]
  restarts

apiVars == <<now, row, counter, open, refused, granted, restarts>>

ApiInit ==
  /\ now = 0
  /\ row = [k \in Keys |-> "none"]
  /\ counter = [k \in Keys |-> None]
  /\ open = {}
  /\ refused = [k \in Keys |-> None]
  /\ granted = [k \in Keys |-> <<>>]
  /\ restarts = 0

Tick == now < MaxTime /\ now' = now + 1
        /\ UNCHANGED <<row, counter, open, refused, granted, restarts>>

-----------------------------------------------------------------------------
\* manage-keys create, revoke: a revoked row stays, and stays revoked.
Create(k) ==
  /\ row[k] = "none"
  /\ row' = [row EXCEPT ![k] = "active"]
  /\ UNCHANGED <<now, counter, open, refused, granted, restarts>>

Revoke(k) ==
  /\ row[k] = "active"
  /\ row' = [row EXCEPT ![k] = "revoked"]
  /\ UNCHANGED <<now, counter, open, refused, granted, restarts>>

-----------------------------------------------------------------------------
\* checkAndIncrement: the window begins with the first request after it.
Over(c) == c = None \/ now - c.start >= Window

\* Mutant: the new window keeps its old start.
CountedAnew(k) ==
  IF ~Over(counter[k]) THEN counter[k]
  ELSE [count |-> 0, start |-> IF counter[k] = None THEN now ELSE counter[k].start]
Counter(k) ==
  IF Over(counter[k]) THEN [count |-> 0, start |-> now] ELSE counter[k]

\* Mutant: rounded down.
FloorSec(c) == (c.start + Window - now) \div Second
ResetSec(c) == (c.start + Window - now + Second - 1) \div Second

\* Mutant: the counter moves when the handler has returned.
GrantCountsLater(k) ==
  /\ row[k] = "active" /\ Len(granted[k]) < MaxRequests
  /\ LET c == Counter(k) IN
     /\ c.count < Limit[k]
     /\ counter' = [counter EXCEPT ![k] = c]
     /\ open' = open \union {[key |-> k, start |-> c.start, n |-> Len(granted[k]),
                              remaining |-> Limit[k] - c.count - 1]}
     /\ granted' = [granted EXCEPT ![k] = Append(@, [at |-> now, start |-> c.start])]
  /\ UNCHANGED <<now, row, refused, restarts>>

\* withAuth, up to the call of the handler.  An unknown or a revoked key is
\* answered without a trace.
Grant(k) ==
  /\ row[k] = "active" /\ Len(granted[k]) < MaxRequests
  /\ LET c == Counter(k) IN
     /\ c.count < Limit[k]
     /\ counter' = [counter EXCEPT ![k] = [c EXCEPT !.count = @ + 1]]
     /\ open' = open \union {[key |-> k, start |-> c.start, n |-> Len(granted[k]),
                              remaining |-> Limit[k] - (c.count + 1)]}
     /\ granted' = [granted EXCEPT ![k] = Append(@, [at |-> now, start |-> c.start])]
  /\ UNCHANGED <<now, row, refused, restarts>>

\* 429, with Retry-After
Refuse(k) ==
  /\ row[k] = "active"
  /\ LET c == Counter(k) IN
     /\ c.count >= Limit[k]
     /\ counter' = [counter EXCEPT ![k] = c]
     /\ refused' = [refused EXCEPT ![k] = [at |-> now, reset |-> ResetSec(c)]]
  /\ UNCHANGED <<now, row, open, granted, restarts>>

\* The handler returns, in whatever order, and the headers are set.
Return ==
  /\ \E r \in open : open' = open \ {r}
  /\ UNCHANGED <<now, row, counter, refused, granted, restarts>>

\* The process is replaced: its counters and open requests are gone.
Restart ==
  /\ restarts < MaxRestarts
  /\ restarts' = restarts + 1
  /\ counter' = [k \in Keys |-> None]
  /\ open' = {}
  /\ refused' = [k \in Keys |-> None]
  /\ UNCHANGED <<now, row, granted>>

ApiNext ==
  \/ Tick \/ Return \/ Restart
  \/ \E k \in Keys : Create(k) \/ Revoke(k) \/ Grant(k) \/ Refuse(k)

ApiSpec == ApiInit /\ [][ApiNext]_apiVars

-----------------------------------------------------------------------------
\* In no stretch of a day, wherever it begins, are more requests of a key let in
\* than two days' budgets and one for each restart: the window is fixed by its
\* first request, so two of them meet in one day (auth.ts, checkAndIncrement).
InAnyDay ==
  \A k \in Keys : \A from \in 0 .. now :
    Cardinality({i \in DOMAIN granted[k] : granted[k][i].at \in from .. (from + Window - 1)})
      <= Limit[k] * (2 + restarts)

\* Requests that are served at the same time in one window are told different
\* numbers of remaining ones, and none a negative one (auth.ts, withAuth:
\* looking up, counting and building the numbers have no await between them).
RemainingIsDistinct ==
  \A r, s \in open :
    /\ r.remaining >= 0
    /\ r # s /\ r.key = s.key /\ r.start = s.start => r.remaining # s.remaining

\* A client that waits as long as a refusal told it is let in, if it is the
\* first to come and its key is not revoked (auth.ts, resetSec).
ResetIsEnough ==
  \A k \in Keys :
    refused[k] # None /\ now >= refused[k].at + refused[k].reset * Second =>
      \/ Counter(k).count < Limit[k]
      \/ counter[k].start > refused[k].at
=============================================================================
