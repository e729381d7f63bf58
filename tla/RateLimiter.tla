---------------------------- MODULE RateLimiter ----------------------------
(***************************************************************************)
(* How a request with an API key passes the middleware of /v1/approvals on *)
(* one of the replicas: the key is looked up, then counted in a fixed      *)
(* window, in PostgreSQL for all replicas or, outside production and while *)
(* the database does not answer, in a map of the replica.                  *)
(*                                                                         *)
(* Time is counted in windows.  Counters stop at one above the limit,      *)
(* where every further request is refused alike.                           *)
(***************************************************************************)
EXTENDS Naturals, FiniteSets

CONSTANTS
    Servers, Requests, Keys,
    Limit,         \* requests per window of the plan
    Keep,          \* from windowStart to expiresAt: 1 + max(1 h, 2 windows)
    MaxWindow      \* bound of the model

ASSUME LimiterAssumption ==
    Limit \in Nat \ {0} /\ Keep \in Nat \ {0} /\ MaxWindow \in Nat

VARIABLES
    production,  \* NODE_ENV
    key,         \* revokedAt of each API key
    req,         \* where each request is, on which replica, in which window
    bucket,      \* RateLimitBucket of each key and window: its count
    local,       \* fallbackBuckets of each replica, for the current window
    sweeps,      \* the `now` of cleanups under way
    admitted,    \* history: requests of a window the shared counter let through
    alone,       \* history: those of the current window each replica let through
    now

limiter == <<req, bucket, local, sweeps, admitted, alone>>
limiterVars == <<production, key, limiter, now>>

Windows == 0..MaxWindow
Nobody  == [stage |-> "none"]
Unused  == [r \in Servers |-> [k \in Keys |-> 0]]

LimiterInit ==
    /\ production \in BOOLEAN
    /\ key = [k \in Keys |-> "none"]
    /\ req = [q \in Requests |-> Nobody]
    /\ bucket = [k \in Keys |-> [w \in Windows |-> 0]]
    /\ local = Unused
    /\ sweeps = {}
    /\ admitted = [k \in Keys |-> [w \in Windows |-> 0]]
    /\ alone = Unused
    /\ now = 0

Capped(n) == IF n > Limit THEN Limit + 1 ELSE n

-----------------------------------------------------------------------------
(* API keys, managed from the dashboard of a verified account (Accounts).  *)

CreateKey(k) ==
    /\ key[k] = "none"
    /\ key' = [key EXCEPT ![k] = "live"]
    /\ UNCHANGED <<production, limiter, now>>

RevokeKey(k) ==
    /\ key[k] = "live"
    /\ key' = [key EXCEPT ![k] = "revoked"]
    /\ UNCHANGED <<production, limiter, now>>

-----------------------------------------------------------------------------
(* The middleware.                                                         *)

(* authMiddleware finds the key; consumeRateLimit takes the time as soon   *)
(* as it has.                                                              *)
Authenticate(q, r, k) ==
    /\ req[q] = Nobody /\ key[k] = "live"
    /\ req' = [req EXCEPT ![q] = [stage |-> "limit", replica |-> r, key |-> k, window |-> now]]
    /\ UNCHANGED <<production, key, bucket, local, sweeps, admitted, alone, now>>

Allowed(count) == count <= Limit

Enter(q, count) ==
    req' = [req EXCEPT ![q] = IF Allowed(count) THEN [@ EXCEPT !.stage = "handler"] ELSE Nobody]

(* The upsert that returns the count.  Every thousandth starts a cleanup;  *)
(* here any may, one at a time (a bound of the model).                     *)
CountRequest(q) ==
    LET k == req[q].key  w == req[q].window  count == bucket[k][w] + 1 IN
    /\ req[q].stage = "limit"
    /\ bucket' = [bucket EXCEPT ![k][w] = Capped(count)]
    /\ Enter(q, count)
    /\ admitted' = [admitted EXCEPT ![k][w] = IF Allowed(count) THEN Capped(@ + 1) ELSE @]
    /\ sweeps' \in {sweeps, IF sweeps = {} THEN {w} ELSE sweeps}
    /\ UNCHANGED <<production, key, local, alone, now>>

(* The query fails, its effect may stay.  Production answers 503.          *)
QueryFails(q) ==
    LET k == req[q].key  w == req[q].window IN
    /\ req[q].stage = "limit"
    /\ bucket' \in {bucket, [bucket EXCEPT ![k][w] = Capped(@ + 1)]}
    /\ req' = [req EXCEPT ![q] = IF production THEN Nobody ELSE [@ EXCEPT !.stage = "fallback"]]
    /\ UNCHANGED <<production, key, local, sweeps, admitted, alone, now>>

(* consumeFallbackBucket takes the time anew. *)
CountLocally(q) ==
    LET k == req[q].key  r == req[q].replica  count == local[r][k] + 1 IN
    /\ req[q].stage = "fallback"
    /\ local' = [local EXCEPT ![r][k] = Capped(count)]
    /\ Enter(q, count)
    /\ alone' = [alone EXCEPT ![r][k] = IF Allowed(count) THEN Capped(@ + 1) ELSE @]
    /\ UNCHANGED <<production, key, bucket, sweeps, admitted, now>>

(* deleteMany where expiresAt < now: expiresAt is where window w + Keep    *)
(* begins, and `now` is somewhere in the window `time`.                    *)
StaleAtOnce(w, time) == w < time   \* defect: a bucket lives as long as its window
Stale(w, time) == w + Keep <= time

Sweep(time) ==
    /\ bucket' = [k \in Keys |-> [w \in Windows |-> IF Stale(w, time) THEN 0 ELSE bucket[k][w]]]
    /\ sweeps' = sweeps \ {time}
    /\ UNCHANGED <<production, key, req, local, admitted, alone, now>>

Respond(q) ==
    /\ req[q].stage = "handler"
    /\ req' = [req EXCEPT ![q] = Nobody]
    /\ UNCHANGED <<production, key, bucket, local, sweeps, admitted, alone, now>>

(* No query takes as long as a bucket is kept.  What the maps hold of the  *)
(* window before is never read again.                                      *)
Tick ==
    /\ now < MaxWindow
    /\ \A q \in Requests : req[q].stage = "limit" => now + 1 < req[q].window + Keep
    /\ now' = now + 1
    /\ local' = Unused /\ alone' = Unused
    /\ UNCHANGED <<production, key, req, bucket, sweeps, admitted>>

(* The replica dies: its requests end, its map is gone. *)
Restart(r) ==
    /\ req' = [q \in Requests |->
                  IF req[q] # Nobody /\ req[q].replica = r THEN Nobody ELSE req[q]]
    /\ local' = [local EXCEPT ![r] = Unused[r]]
    /\ alone' = [alone EXCEPT ![r] = Unused[r]]
    /\ UNCHANGED <<production, key, bucket, sweeps, admitted, now>>

LimiterNext ==
    \/ Tick
    \/ \E k \in Keys : CreateKey(k) \/ RevokeKey(k)
    \/ \E t \in sweeps : Sweep(t)
    \/ \E r \in Servers : Restart(r)
    \/ \E q \in Requests : CountRequest(q) \/ QueryFails(q) \/ CountLocally(q) \/ Respond(q)
    \/ \E q \in Requests, r \in Servers, k \in Keys : Authenticate(q, r, k)

LimiterSpec == LimiterInit /\ [][LimiterNext]_limiterVars

-----------------------------------------------------------------------------
(* Properties.                                                             *)

Counts == 0..(Limit + 1)

LimiterTypeOK ==
    /\ production \in BOOLEAN /\ key \in [Keys -> {"none", "live", "revoked"}]
    /\ bucket \in [Keys -> [Windows -> Counts]] /\ admitted \in [Keys -> [Windows -> Counts]]
    /\ local \in [Servers -> [Keys -> Counts]] /\ alone \in [Servers -> [Keys -> Counts]]
    /\ sweeps \subseteq Windows /\ now \in Windows

(* No window lets more requests of a key through than the plan allows,     *)
(* however many replicas count at once, queries fail or buckets are swept  *)
(* while late queries arrive.  Outside production that holds of each       *)
(* replica's own map since its last start; in production nothing is let    *)
(* through that PostgreSQL did not count.                                  *)
WindowRespected ==
    /\ \A k \in Keys, w \in Windows : admitted[k][w] <= Limit
    /\ \A r \in Servers, k \in Keys : alone[r][k] <= (IF production THEN 0 ELSE Limit)
=============================================================================
