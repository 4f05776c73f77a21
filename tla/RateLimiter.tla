----------------------------- MODULE RateLimiter -----------------------------
(***************************************************************************)
(* chat/ratelimiter: a token bucket per client.  Allow looks the bucket up *)
(* under the read lock and, if there is none, makes one under the write    *)
(* lock without looking again; cleanUp deletes buckets that have not been  *)
(* used for maxInactive, also under requests that hold them.  Time is      *)
(* counted in ticks and tokens in whole tokens.                            *)
(***************************************************************************)
EXTENDS Naturals, Sequences, FiniteSets

CONSTANTS RlClients,
          RlRequests,      \* concurrent requests, each may be sent again
          RlMaxTokens, RlRate,
          RlMaxInactive,   \* maxInactive in ticks
          RlMaxTime,       \* bound on the clock
          RlMaxBuckets     \* bound on the buckets made

\* An idle bucket is full again before it is deleted, as with the constants of
\* http_server.go.
ASSUME RlAssumption ==
  /\ RlRate \in Nat /\ RlMaxTokens \in Nat /\ RlMaxInactive \in Nat
  /\ RlMaxTime \in Nat /\ RlMaxBuckets \in Nat
  /\ RlMaxTokens <= RlRate * RlMaxInactive

VARIABLES
  rlUp,        \* the server runs
  rlNow,       \* the clock
  rlMap,       \* limiters: the bucket of each client, or RlNone
  rlBucket,    \* every bucket made: its tokens and lastRefill
  rlReq,       \* where each request is, its client and the bucket it holds
  rlGranted,   \* history: when requests of each client were allowed
  rlShared     \* history: clients that took from a bucket not theirs any longer

rlVars == <<rlUp, rlNow, rlMap, rlBucket, rlReq, rlGranted, rlShared>>

RlNone == 0
RlIdle == [at |-> "idle", c |-> CHOOSE c \in RlClients : TRUE, b |-> RlNone]

RlInit(up) ==
  /\ rlUp \in up /\ rlNow = 0
  /\ rlMap = [c \in RlClients |-> RlNone] /\ rlBucket = <<>>
  /\ rlReq = [q \in RlRequests |-> RlIdle]
  /\ rlGranted = [c \in RlClients |-> <<>>] /\ rlShared = {}

RlTick ==
  /\ rlUp /\ rlNow < RlMaxTime /\ rlNow' = rlNow + 1
  /\ UNCHANGED <<rlUp, rlMap, rlBucket, rlReq, rlGranted, rlShared>>

RlTo(q, r) == rlReq' = [rlReq EXCEPT ![q] = r]

\* Allow: the look-up.
RlLookup(q, c) ==
  /\ rlUp /\ rlReq[q].at = "idle"
  /\ RlTo(q, [at |-> IF rlMap[c] = RlNone THEN "create" ELSE "take", c |-> c, b |-> rlMap[c]])
  /\ UNCHANGED <<rlUp, rlNow, rlMap, rlBucket, rlGranted, rlShared>>

\* A request without a client id ends the process.
RlFatal ==
  /\ rlUp /\ rlUp' = FALSE
  /\ UNCHANGED <<rlNow, rlMap, rlBucket, rlReq, rlGranted, rlShared>>

\* NewRateLimiter replaces a bucket another request may have made meanwhile.
RlCreate(q) ==
  LET b == Len(rlBucket) + 1 IN
  /\ rlUp /\ rlReq[q].at = "create" /\ b <= RlMaxBuckets
  /\ rlBucket' = Append(rlBucket, [tokens |-> RlMaxTokens, last |-> rlNow])
  /\ rlMap' = [rlMap EXCEPT ![rlReq[q].c] = b]
  /\ RlTo(q, [rlReq[q] EXCEPT !.at = "take", !.b = b])
  /\ rlShared' = IF rlMap[rlReq[q].c] # RlNone THEN rlShared \cup {rlReq[q].c} ELSE rlShared
  /\ UNCHANGED <<rlUp, rlNow, rlGranted>>

\* Mutant: refill does not stop at maxTokens.
RlRefillUncapped(t, since) == t + since * RlRate

RlRefill(t, since) ==
  IF t + since * RlRate > RlMaxTokens THEN RlMaxTokens ELSE t + since * RlRate

\* Allow of the bucket, under its own lock.
RlTake(q) ==
  LET b == rlReq[q].b
      c == rlReq[q].c
      t == RlRefill(rlBucket[b].tokens, rlNow - rlBucket[b].last) IN
  /\ rlUp /\ rlReq[q].at = "take"
  /\ rlBucket' = [rlBucket EXCEPT ![b] =
       [tokens |-> IF t >= 1 THEN t - 1 ELSE t, last |-> rlNow]]
  /\ rlGranted' = IF t >= 1 THEN [rlGranted EXCEPT ![c] = Append(@, rlNow)] ELSE rlGranted
  /\ rlShared' = IF rlMap[c] # b THEN rlShared \cup {c} ELSE rlShared
  /\ RlTo(q, RlIdle)
  /\ UNCHANGED <<rlUp, rlNow, rlMap>>

RlInactive(c) ==
  rlMap[c] # RlNone /\ rlNow - rlBucket[rlMap[c]].last >= RlMaxInactive

RlCleanUp ==
  /\ rlUp /\ \E c \in RlClients : RlInactive(c)
  /\ rlMap' = [c \in RlClients |-> IF RlInactive(c) THEN RlNone ELSE rlMap[c]]
  /\ UNCHANGED <<rlUp, rlNow, rlBucket, rlReq, rlGranted, rlShared>>

RlNext ==
  \/ RlTick \/ RlCleanUp \/ RlFatal
  \/ \E q \in RlRequests :
       RlCreate(q) \/ RlTake(q) \/ \E c \in RlClients : RlLookup(q, c)

RlSpec == RlInit({TRUE}) /\ [][RlNext]_rlVars
-----------------------------------------------------------------------------
\* How many requests of the client were allowed since w.
RlSince(c, w) == Cardinality({i \in DOMAIN rlGranted[c] : rlGranted[c][i] >= w})

\* In every window up to now a client gets at most its burst and its rate,
\* although it was idle before and although its bucket may be deleted and made
\* again, unless a second request replaced its bucket after the check, or one
\* took from a bucket that cleanUp had deleted.
\* (PerClientLimiter.Allow, RateLimiter.Allow, cleanUp)
RlWithinRate ==
  \A c \in RlClients \ rlShared : \A w \in 0..rlNow :
    RlSince(c, w) <= RlMaxTokens + RlRate * (rlNow - w)

=============================================================================
