---------------------------- MODULE RateLimiter ----------------------------
(***************************************************************************)
(* The gateways' rate limiter: one client's token bucket, kept in Redis    *)
(* and shared by every gateway.                                            *)
(*                                                                         *)
(* A middleware reads its own machine's clock, then runs a Lua script that *)
(* Redis executes indivisibly with that reading as an argument; the key's  *)
(* TTL runs on Redis's clock.  Time is counted in the intervals in which   *)
(* one token is refilled.  tokens and ts keep their last values after the  *)
(* key is gone.                                                            *)
(***************************************************************************)
EXTENDS Integers

CONSTANTS
  Requests,    \* requests of one client that may be under way at once
  Gateways, GatewayOf, \* the gateway each of them reaches
  Skew,        \* how far each gateway's clock is ahead
  MaxSkew,
  BurstSize,   \* capacity
  Margin,      \* the "+ 1" of the TTL, and what ceil() adds to it
  MaxClock, MaxRestarts, MaxUnmetered, MaxRewound \* bounds

ASSUME LimiterAssumption ==
  /\ GatewayOf \in [Requests -> Gateways]
  /\ MaxSkew \in Nat /\ Skew \in [Gateways -> 0 .. MaxSkew]
  /\ BurstSize \in Nat /\ Margin \in Nat
  /\ {MaxClock, MaxRestarts, MaxUnmetered, MaxRewound} \subseteq Nat

VARIABLES
  clock,       \* Redis's clock
  present, expires, tokens, ts, \* the client's key
  requestPc, now,     \* each request's next step and its reading of the clock
  admitted,    \* requests let through
  unmetered,   \* ... because the script did not answer
  restarts,    \* times Redis came back without the key
  rewound      \* history: total by which readings were older than the bucket's

bucket == <<present, expires, tokens, ts>>
limiterVars == <<clock, bucket, requestPc, now, admitted, unmetered, restarts, rewound>>

LeastOf(a, b) == IF a <= b THEN a ELSE b
MostOf(a, b) == IF a >= b THEN a ELSE b

ShortTTL == 1 \* mutant: a bucket is forgotten before it would be full
\* EXPIRE key ceil(capacity / rate) + 1
IdleTTL == BurstSize + Margin

-----------------------------------------------------------------------------
(* The script.                                                              *)

Live == present /\ expires > clock
Known == IF Live THEN tokens ELSE BurstSize
Since(t) == IF Live THEN ts ELSE t

Refilled(t) == LeastOf(BurstSize, Known + MostOf(0, t - Since(t)))

\* The instant up to which the refills handed out so far are accounted for: a key
\* that expired was handed a full bucket.
AccountedUntil == IF present /\ ~Live THEN ts + IdleTTL ELSE ts

Script(t) ==
  LET full == Refilled(t) IN
  /\ rewound + MostOf(0, AccountedUntil - t) <= MaxRewound
  /\ rewound' = rewound + MostOf(0, AccountedUntil - t)
  /\ tokens' = IF full >= 1 THEN full - 1 ELSE full
  /\ ts' = t
  /\ present' = TRUE
  /\ expires' = clock + IdleTTL

Allowed(t) == Refilled(t) >= 1

-----------------------------------------------------------------------------
(* The middleware.                                                          *)

RequestGoto(r, step) == requestPc' = [requestPc EXCEPT ![r] = step]

\* time.Now(), evaluated before the script is sent.
ReadClock(r) ==
  /\ requestPc[r] = "idle"
  /\ now' = [now EXCEPT ![r] = clock + Skew[GatewayOf[r]]]
  /\ RequestGoto(r, "script")
  /\ UNCHANGED <<clock, bucket, admitted, unmetered, restarts, rewound>>

Admit(r) ==
  /\ requestPc[r] = "script"
  /\ Allowed(now[r])
  /\ Script(now[r])
  /\ admitted' = admitted + 1
  /\ RequestGoto(r, "idle")
  /\ UNCHANGED <<clock, now, unmetered, restarts>>

\* 429; the bucket is written all the same.
Refuse(r) ==
  /\ requestPc[r] = "script"
  /\ ~Allowed(now[r])
  /\ Script(now[r])
  /\ RequestGoto(r, "idle")
  /\ UNCHANGED <<clock, now, admitted, unmetered, restarts>>

\* The script ran and its answer is lost; the client library may send it again.
LoseAnswer(r) ==
  /\ requestPc[r] = "script"
  /\ Script(now[r])
  /\ UNCHANGED <<clock, requestPc, now, admitted, unmetered, restarts>>

\* err != nil: the request goes through.
LetThrough(r) ==
  /\ requestPc[r] = "script"
  /\ unmetered < MaxUnmetered
  /\ admitted' = admitted + 1
  /\ unmetered' = unmetered + 1
  /\ RequestGoto(r, "idle")
  /\ UNCHANGED <<clock, bucket, now, restarts, rewound>>

BucketLost ==
  /\ present
  /\ restarts < MaxRestarts
  /\ present' = FALSE
  /\ restarts' = restarts + 1
  /\ UNCHANGED <<clock, expires, tokens, ts, requestPc, now, admitted, unmetered, rewound>>

ClockTick ==
  /\ clock < MaxClock
  /\ clock' = clock + 1
  /\ UNCHANGED <<bucket, requestPc, now, admitted, unmetered, restarts, rewound>>

-----------------------------------------------------------------------------
LimiterInit ==
  /\ clock = 0
  /\ present = FALSE /\ expires = 0 /\ tokens = 0 /\ ts = 0
  /\ requestPc = [r \in Requests |-> "idle"]
  /\ now = [r \in Requests |-> 0]
  /\ admitted = 0 /\ unmetered = 0 /\ restarts = 0 /\ rewound = 0

LimiterNext ==
  \/ \E r \in Requests : ReadClock(r) \/ Admit(r) \/ Refuse(r) \/ LoseAnswer(r) \/ LetThrough(r)
  \/ BucketLost
  \/ ClockTick

LimiterSpec == LimiterInit /\ [][LimiterNext]_limiterVars

-----------------------------------------------------------------------------
(* Properties.                                                              *)

\* Types; the bucket never goes below zero or above the burst, and no reading of any
\* clock is from the future of the fastest one.
LimiterTypeOK ==
  /\ clock \in Nat
  /\ present \in BOOLEAN /\ expires \in Nat
  /\ tokens \in 0 .. BurstSize
  /\ ts \in 0 .. clock + MaxSkew
  /\ requestPc \in [Requests -> {"idle", "script"}]
  /\ now \in [Requests -> 0 .. clock + MaxSkew]
  /\ admitted \in Nat /\ unmetered \in Nat /\ restarts \in Nat /\ rewound \in Nat

\* What a client gets through all gateways together: the burst, one request per
\* interval, a burst for every time Redis forgot the bucket, the requests that were
\* not metered, and nothing else but what the script refilled twice because a
\* request came with an older reading of the clock than the bucket's.
BudgetExplained ==
  admitted <= BurstSize * (1 + restarts) + clock + MaxSkew + rewound + unmetered

\* "the limit is enforced across ALL API replicas" (ratelimit_redis.go:74) and
\* "stays global across gateway instances too" (server.go:62-63): with Redis up and
\* all clocks equal, the burst and one request per interval.
GlobalLimit ==
  (MaxSkew = 0 /\ restarts = 0 /\ unmetered = 0) => admitted <= BurstSize + clock
=============================================================================
