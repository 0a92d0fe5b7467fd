---------------------------- MODULE RateLimiter ----------------------------
(***************************************************************************)
(* The token buckets of src/registry-rate-limit.ts, one limiter of the six     *)
(* that src/registry-server.ts asks before it routes a request. Tokens are      *)
(* counted in parts, of which a bucket gains the same number with every tick.    *)
(* The clock is the system's: it is set back now and then.                        *)
(***************************************************************************)
EXTENDS Integers, Sequences, SequencesExt, FiniteSetsExt

CONSTANTS
  Client,
  TOKEN,           \* parts of a token
  capacity,        \* tokens in a full bucket
  refillPerTick,   \* parts
  SECOND,          \* ticks
  maxClients,
  LastTick,        \* bound of the clock
  Setbacks         \* bound: how often the clock is set back

VARIABLES
  clock,
  buckets,   \* least recently seen first: [key, tokens, updatedAt]
  setbacks,
  granted,   \* granted[k], credit[k]: what k's bucket gave and what time it had to
  credit,    \* gain, since it was made
  promise    \* promise[k]: when a client that was turned down may come back, or -1

history == <<granted, credit, promise>>
vars == <<clock, buckets, setbacks, history>>

LimiterTypeOK ==
  /\ clock \in 0 .. LastTick /\ setbacks \in 0 .. Setbacks
  /\ Len(buckets) <= maxClients
  /\ \A i \in DOMAIN buckets :
       /\ buckets[i].key \in Client /\ buckets[i].tokens \in 0 .. capacity * TOKEN
       /\ \A j \in DOMAIN buckets : buckets[i].key = buckets[j].key => i = j

Init ==
  /\ clock = 0 /\ buckets = <<>> /\ setbacks = 0
  /\ granted = [k \in Client |-> 0]
  /\ credit = [k \in Client |-> 0]
  /\ promise = [k \in Client |-> -1]

-----------------------------------------------------------------------------

Tracked == {buckets[i].key : i \in DOMAIN buckets}
Bucket(k) == CHOOSE b \in ToSet(buckets) : b.key = k

\* What the bucket of k has now: a new one is full, time never takes away.
Refilled(k) ==
  IF k \notin Tracked THEN capacity * TOKEN
  ELSE LET elapsed == Max({0, clock - Bucket(k).updatedAt})
       IN  Min({capacity * TOKEN, Bucket(k).tokens + elapsed * refillPerTick})

\* In whole seconds, at least one.
RetryAfterSeconds(tokens) ==
  LET perSecond == SECOND * refillPerTick
  IN  Max({1, (TOKEN - tokens + perSecond - 1) \div perSecond})

\* Mutation: who is turned down keeps the time of its last request.
SeenOnlyIfAllowed(k, tokens) ==
  [key |-> k, tokens |-> tokens,
   updatedAt |-> IF Refilled(k) < TOKEN THEN Bucket(k).updatedAt ELSE clock]

Seen(k, tokens) == [key |-> k, tokens |-> tokens, updatedAt |-> clock]

\* The other buckets, in their order.
Without(k) ==
  IF k \notin Tracked THEN buckets
  ELSE RemoveAt(buckets, CHOOSE i \in DOMAIN buckets : buckets[i].key = k)

\* Mutation: no client is ever forgotten.
KeepAll(k, tokens) ==
  buckets' = Append(Without(k), Seen(k, tokens))

\* The bucket moves to the end; beyond maxClients the least recently seen goes.
Keep(k, tokens) ==
  LET all == Append(Without(k), Seen(k, tokens))
  IN  buckets' = IF Len(all) > maxClients THEN Tail(all) ELSE all

check(k) ==
  LET tokens  == Refilled(k)
      allowed == tokens >= TOKEN
      fresh   == k \notin Tracked
  IN  /\ Keep(k, IF allowed THEN tokens - TOKEN ELSE tokens)
      /\ granted' = [granted EXCEPT ![k] = (IF fresh THEN 0 ELSE @) + (IF allowed THEN 1 ELSE 0)]
      /\ credit' = [credit EXCEPT ![k] = IF fresh THEN 0 ELSE @]
      /\ promise' = [promise EXCEPT ![k] = IF allowed THEN -1
                                           ELSE clock + SECOND * RetryAfterSeconds(tokens)]
      /\ UNCHANGED <<clock, setbacks>>

Tick ==
  /\ clock < LastTick
  /\ clock' = clock + 1
  /\ credit' = [k \in Client |-> IF k \in Tracked THEN credit[k] + refillPerTick ELSE 0]
  /\ UNCHANGED <<buckets, setbacks, granted, promise>>

\* Nobody is told when the clock is set back, and no promise holds then.
SetBack(to) ==
  /\ to < clock /\ setbacks < Setbacks
  /\ clock' = to
  /\ setbacks' = setbacks + 1
  /\ promise' = [k \in Client |-> -1]
  /\ UNCHANGED <<buckets, granted, credit>>

Next ==
  \/ \E k \in Client : check(k)
  \/ Tick
  \/ \E to \in 0 .. LastTick : SetBack(to)

Spec == Init /\ [][Next]_vars

-----------------------------------------------------------------------------
(* Properties.                                                              *)

\* As long as a client is tracked it gets no more than a full bucket and what
\* the clock, whichever way it went, gained forward.
WithinAllowance ==
  \A k \in Tracked : granted[k] * TOKEN <= capacity * TOKEN + credit[k]

\* Whoever was turned down and waits as long as the answer said is let in.
WaitIsEnough ==
  \A k \in Client : promise[k] # -1 /\ clock >= promise[k] => Refilled(k) >= TOKEN

\* PublicRateLimiter: neither too much nor, after the wait, too little.
AllowanceKept == WithinAllowance /\ WaitIsEnough

=============================================================================
