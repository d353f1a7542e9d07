---------------------------- MODULE RateLimiter ----------------------------
(***************************************************************************)
(* internal/auth/ratelimit: the gateway's in-memory limiter.  A bucket is  *)
(* refilled lazily, when its key is next seen, and forgotten by a cleanup  *)
(* goroutine once it has been idle for two windows.  All of it runs under  *)
(* one mutex, so a call is one step.                                       *)
(*                                                                         *)
(* The code's float64 token is counted here in Window units, which makes   *)
(* the refill of one tick the integer Limit[k].  The age of an entry is    *)
(* kept up to 2 * Window + 1, the first age cleanup deletes: a positive    *)
(* limit has filled its bucket long before, and a limit of 0 never fills.  *)
(*                                                                         *)
(* spent and earned watch a stretch of time of at most MaxWatch ticks that *)
(* may start anywhere: what a key was granted and what it gained in it.    *)
(***************************************************************************)
EXTENDS Integers

CONSTANTS
    Keys,
    Limit,      \* KeyInfo.RateLimit; cmd/auth accepts 0, the gateway does not
    Window,     \* ticks per window
    MaxWatch    \* ticks a watched stretch lasts at most

ASSUME LimiterAssumption ==
    /\ Limit \in [Keys -> Nat]
    /\ Window \in Nat \ {0}
    /\ MaxWatch \in Nat

VARIABLES
    known,      \* the keys of the entries map
    tokens,     \* entry.tokens, in units
    age,        \* time since entry.lastCheck
    verdict,    \* history: what Allow last returned for the key
    watched,    \* history: ticks of the watched stretch so far
    spent,      \* history: units granted in it
    earned      \* history: units gained in it

vars == <<known, tokens, age, verdict, watched, spent, earned>>

Cap(k) == Limit[k] * Window

Init ==
    /\ known = {}
    /\ tokens = [k \in Keys |-> 0]
    /\ age = [k \in Keys |-> 0]
    /\ verdict = [k \in Keys |-> "none"]
    /\ watched = 0
    /\ spent = [k \in Keys |-> 0]
    /\ earned = [k \in Keys |-> 0]

-----------------------------------------------------------------------------
\* The refill of Allow: proportional to the time since lastCheck, up to limit.
Refilled(k) ==
    LET filled == tokens[k] + age[k] * Limit[k]
    IN  IF filled > Cap(k) THEN Cap(k) ELSE filled

\* Allow(key, limit) for a key without an entry: granted whatever the limit.
AllowFirst(k) ==
    /\ k \notin known
    /\ known' = known \union {k}
    /\ tokens' = [tokens EXCEPT ![k] = Cap(k) - Window]
    /\ age' = [age EXCEPT ![k] = 0]
    /\ verdict' = [verdict EXCEPT ![k] = "allow"]
    /\ spent' = [spent EXCEPT ![k] = @ + Window]
    /\ UNCHANGED <<watched, earned>>

\* Mutant of AllowKnown: a denial moves lastCheck and drops the refill.
AllowKnownForgets(k) ==
    /\ k \in known
    /\ age' = [age EXCEPT ![k] = 0]
    /\ \/ /\ Refilled(k) >= Window
          /\ tokens' = [tokens EXCEPT ![k] = Refilled(k) - Window]
          /\ verdict' = [verdict EXCEPT ![k] = "allow"]
          /\ spent' = [spent EXCEPT ![k] = @ + Window]
       \/ /\ Refilled(k) < Window
          /\ verdict' = [verdict EXCEPT ![k] = "deny"]
          /\ UNCHANGED <<tokens, spent>>
    /\ UNCHANGED <<known, watched, earned>>

\* Allow for a known key: the refill and lastCheck are kept by a denial too.
AllowKnown(k) ==
    /\ k \in known
    /\ age' = [age EXCEPT ![k] = 0]
    /\ \/ /\ Refilled(k) >= Window
          /\ tokens' = [tokens EXCEPT ![k] = Refilled(k) - Window]
          /\ verdict' = [verdict EXCEPT ![k] = "allow"]
          /\ spent' = [spent EXCEPT ![k] = @ + Window]
       \/ /\ Refilled(k) < Window
          /\ tokens' = [tokens EXCEPT ![k] = Refilled(k)]
          /\ verdict' = [verdict EXCEPT ![k] = "deny"]
          /\ UNCHANGED spent
    /\ UNCHANGED <<known, watched, earned>>

\* The keys of S leave the map.
Delete(S) ==
    /\ known' = known \ S
    /\ tokens' = [k \in Keys |-> IF k \in S THEN 0 ELSE tokens[k]]
    /\ age' = [k \in Keys |-> IF k \in S THEN 0 ELSE age[k]]

\* Reset(key).  The watched stretch starts anew for the key.
Reset(k) ==
    /\ Delete({k})
    /\ spent' = [spent EXCEPT ![k] = 0]
    /\ earned' = [earned EXCEPT ![k] = 0]
    /\ UNCHANGED <<verdict, watched>>

\* Mutant of Stale: every entry not used in this tick.
StaleAtOnce == {k \in known : age[k] > 0}

Stale == {k \in known : age[k] > 2 * Window}

\* One round of the cleanup goroutine, at any time.
Cleanup ==
    /\ Stale # {}
    /\ Delete(Stale)
    /\ UNCHANGED <<verdict, watched, spent, earned>>

Older(a) == IF a <= 2 * Window THEN a + 1 ELSE a

\* Time passes.  At MaxWatch the stretch ends and a new one begins.
Tick ==
    /\ age' = [k \in Keys |-> IF k \in known THEN Older(age[k]) ELSE 0]
    /\ watched' = IF watched < MaxWatch THEN watched + 1 ELSE 0
    /\ spent' = IF watched < MaxWatch THEN spent ELSE [k \in Keys |-> 0]
    /\ earned' = [k \in Keys |-> IF watched < MaxWatch THEN earned[k] + Limit[k] ELSE 0]
    /\ UNCHANGED <<known, tokens, verdict>>

\* A new stretch begins now.
Watch ==
    /\ watched' = 0
    /\ spent' = [k \in Keys |-> 0]
    /\ earned' = [k \in Keys |-> 0]
    /\ UNCHANGED <<known, tokens, age, verdict>>

Next ==
    \/ \E k \in Keys : AllowFirst(k) \/ AllowKnown(k) \/ Reset(k)
    \/ Cleanup
    \/ Tick
    \/ Watch

Spec == Init /\ [][Next]_vars

-----------------------------------------------------------------------------
\* The values of the variables; an entry holds no more than its cap, and only
\* a limit of 0 takes it below zero.
TypeOK ==
    /\ known \in SUBSET Keys
    /\ tokens \in [Keys -> Int]
    /\ age \in [Keys -> 0..(2 * Window + 1)]
    /\ verdict \in [Keys -> {"none", "allow", "deny"}]
    /\ watched \in 0..MaxWatch
    /\ spent \in [Keys -> Nat]
    /\ earned \in [Keys -> Nat]
    /\ \A k \in Keys : tokens[k] <= Cap(k) /\ (Limit[k] > 0 => tokens[k] >= 0)

\* In any stretch of time a key is granted at most its full bucket and what it
\* gained in that stretch, however its requests, cleanup and the lazy refill
\* interleave: a forgotten entry never gives tokens the key had not earned.
WindowBound ==
    \A k \in Keys : Limit[k] > 0 => spent[k] <= Cap(k) + earned[k]

\* A key whose limit is 0 gets through at most once in two windows: Allow
\* grants the first request without looking at the limit, and again after
\* cleanup has dropped the entry.
ZeroLimit ==
    \A k \in Keys : (Limit[k] = 0 /\ watched <= 2 * Window) => spent[k] <= Window

-----------------------------------------------------------------------------
\* The units a key could spend now; a key without an entry has a full bucket.
Level(k) == IF k \in known THEN Refilled(k) ELSE Cap(k)

LimitedKeys == {k \in Keys : Limit[k] > 0}

Bucket == INSTANCE TokenBucket
    WITH Keys <- LimitedKeys,
         Limit <- [k \in LimitedKeys |-> Limit[k]],
         level <- [k \in LimitedKeys |-> Level(k)],
         verdict <- [k \in LimitedKeys |-> verdict[k]]

\* The lazily refilled, periodically forgotten entries of the keys with a
\* positive limit answer every request as plain token buckets would.
ImplementsTokenBucket == Bucket!Spec
=============================================================================
