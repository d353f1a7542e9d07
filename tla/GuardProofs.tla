---------------------------- MODULE GuardProofs ----------------------------
(***************************************************************************)
(* Proofs about the two guards that keep requests from a service: the rate *)
(* limiter, for any keys, limits and window, and the circuit breaker, for  *)
(* any finite number of callers and any thresholds.                        *)
(***************************************************************************)
EXTENDS RateLimiter, CircuitBreaker, FiniteSetTheorems, TLAPS

\* What is left in the bucket and what was granted come from the full bucket
\* and the gains: WindowBound without the level is not inductive.
Balance(k) == spent[k] + Level(k) <= Cap(k) + earned[k]

LimiterInv == TypeOK /\ \A k \in LimitedKeys : Balance(k)

-----------------------------------------------------------------------------
\* Products that the refill and the cap are made of.
LEMMA Products ==
  ASSUME NEW a \in Nat, NEW l \in Nat, NEW w \in Nat
  PROVE  /\ a * l \in Nat
         /\ (a + 1) * l = a * l + l
         /\ l * w \in Nat
         /\ l > 0 => l * w >= w
         /\ a > 2 * w => a * l >= l * w
         /\ 0 * l = 0
  OBVIOUS

\* The level of a bucket lies between empty and full.
LEMMA LevelType ==
  ASSUME TypeOK, NEW k \in LimitedKeys
  PROVE  /\ k \in Keys /\ Limit[k] \in Nat \ {0}
         /\ Cap(k) \in Nat /\ Cap(k) >= Window
         /\ Level(k) \in 0..Cap(k)
<1>1. k \in Keys /\ Limit[k] \in Nat \ {0}
  BY LimiterAssumption DEF LimitedKeys
<1>2. age[k] \in Nat /\ tokens[k] \in Nat /\ tokens[k] <= Cap(k)
  BY <1>1, LimiterAssumption DEF TypeOK
<1>3. age[k] * Limit[k] \in Nat /\ Cap(k) \in Nat /\ Cap(k) >= Window
  BY <1>1, <1>2, LimiterAssumption, Products DEF Cap
<1> QED
  BY <1>1, <1>2, <1>3 DEF Level, Refilled

\* An entry that cleanup may delete has a full bucket.
LEMMA StaleIsFull ==
  ASSUME TypeOK, NEW k \in LimitedKeys, k \in known, age[k] > 2 * Window
  PROVE  Level(k) = Cap(k)
<1>1. age[k] \in Nat /\ tokens[k] \in Nat /\ Limit[k] \in Nat
  BY LevelType, LimiterAssumption DEF TypeOK
<1>2. age[k] * Limit[k] \in Nat /\ age[k] * Limit[k] >= Cap(k) /\ Cap(k) \in Nat
  BY <1>1, LimiterAssumption, Products DEF Cap
<1> QED
  BY <1>1, <1>2 DEF Level, Refilled

\* One tick adds Limit[k] units, up to the cap.
LEMMA TickLevel ==
  ASSUME TypeOK, Tick, NEW k \in LimitedKeys
  PROVE  Level(k)' = IF Level(k) + Limit[k] < Cap(k) THEN Level(k) + Limit[k] ELSE Cap(k)
<1>1. k \in Keys /\ Limit[k] \in Nat \ {0} /\ Cap(k) \in Nat /\ Level(k) \in 0..Cap(k)
  BY LevelType
<1>2. known' = known /\ tokens' = tokens
  BY DEF Tick
<1>3. CASE k \notin known
  BY <1>1, <1>2, <1>3 DEF Level, Cap
<1>4. CASE k \in known /\ age[k] <= 2 * Window
  <2>1. age'[k] = age[k] + 1
    BY <1>1, <1>4 DEF Tick, Older
  <2>2. age[k] \in Nat /\ tokens[k] \in Nat
    BY <1>1 DEF TypeOK
  <2>3. age'[k] * Limit[k] = age[k] * Limit[k] + Limit[k] /\ age[k] * Limit[k] \in Nat
    BY <1>1, <2>1, <2>2, LimiterAssumption, Products
  <2> QED
    BY <1>1, <1>2, <1>4, <2>2, <2>3 DEF Level, Refilled, Cap
<1>5. CASE k \in known /\ ~(age[k] <= 2 * Window)
  <2>1. age'[k] = age[k]
    BY <1>1, <1>5 DEF Tick, Older
  <2>2. age[k] > 2 * Window
    BY <1>1, <1>5, LimiterAssumption DEF TypeOK
  <2>3. Level(k) = Cap(k)
    BY <1>5, <2>2, StaleIsFull
  <2>4. Level(k)' = Level(k)
    BY <1>2, <2>1 DEF Level, Refilled, Cap
  <2> QED BY <1>1, <2>3, <2>4
<1> QED BY <1>3, <1>4, <1>5

\* An entry that is left alone keeps its level.
LEMMA SameLevel ==
  ASSUME NEW k, known' \intersect {k} = known \intersect {k},
         tokens'[k] = tokens[k], age'[k] = age[k]
  PROVE  Level(k)' = Level(k)
<1>1. k \in known' <=> k \in known
  OBVIOUS
<1> QED BY <1>1 DEF Level, Refilled, Cap

\* Allow takes one token when it grants and none when it denies, and touches
\* no other bucket.
LEMMA AllowLevel ==
  ASSUME TypeOK, NEW j \in Keys, AllowFirst(j) \/ AllowKnown(j), NEW k \in LimitedKeys
  PROVE  /\ k # j => Level(k)' = Level(k) /\ spent'[k] = spent[k] /\ verdict'[k] = verdict[k]
         /\ k = j => \/ /\ Level(k) >= Window /\ Level(k)' = Level(k) - Window
                        /\ spent'[k] = spent[k] + Window /\ verdict'[k] = "allow"
                     \/ /\ Level(k) < Window /\ Level(k)' = Level(k)
                        /\ spent'[k] = spent[k] /\ verdict'[k] = "deny"
<1>1. k \in Keys /\ Limit[k] \in Nat /\ Cap(k) \in Nat /\ Cap(k) >= Window
      /\ Level(k) \in 0..Cap(k)
  BY LevelType
<1>2. CASE k # j
  <2>1. known' \intersect {k} = known \intersect {k}
    BY <1>2 DEF AllowFirst, AllowKnown
  <2>2. tokens'[k] = tokens[k] /\ age'[k] = age[k]
    BY <1>1, <1>2 DEF AllowFirst, AllowKnown, TypeOK
  <2>3. spent'[k] = spent[k] /\ verdict'[k] = verdict[k]
    BY <1>1, <1>2 DEF AllowFirst, AllowKnown, TypeOK
  <2> QED BY <1>2, <2>1, <2>2, <2>3, SameLevel
<1>3. CASE k = j /\ AllowFirst(j)
  <2>1. k \notin known /\ k \in known' /\ tokens'[k] = Cap(k) - Window /\ age'[k] = 0
        /\ spent'[k] = spent[k] + Window /\ verdict'[k] = "allow"
    BY <1>1, <1>3 DEF AllowFirst, TypeOK
  <2>2. Level(k)' = Cap(k) - Window
    <3>1. age'[k] * Limit[k] = 0
      BY <1>1, <2>1, LimiterAssumption, Products
    <3> QED BY <1>1, <2>1, <3>1, LimiterAssumption DEF Level, Refilled, Cap
  <2>3. Level(k) = Cap(k)
    BY <2>1 DEF Level
  <2> QED BY <1>1, <1>3, <2>1, <2>2, <2>3
<1>4. CASE k = j /\ AllowKnown(j)
  <2>1. k \in known /\ k \in known' /\ age'[k] = 0 /\ Level(k) = Refilled(k)
    BY <1>1, <1>4 DEF AllowKnown, TypeOK, Level
  <2>2. age'[k] * Limit[k] = 0
    BY <1>1, <2>1, LimiterAssumption, Products
  <2>3. CASE Refilled(k) >= Window
    <3>1. tokens'[k] = Level(k) - Window /\ spent'[k] = spent[k] + Window
          /\ verdict'[k] = "allow"
      BY <1>1, <1>4, <2>1, <2>3, LimiterAssumption DEF AllowKnown, TypeOK
    <3>2. Level(k)' = Level(k) - Window
      BY <1>1, <2>1, <2>2, <3>1, LimiterAssumption DEF Level, Refilled, Cap
    <3> QED BY <1>4, <2>1, <2>3, <3>1, <3>2
  <2>4. CASE ~(Refilled(k) >= Window)
    <3>1. tokens'[k] = Level(k) /\ spent'[k] = spent[k] /\ verdict'[k] = "deny"
      BY <1>1, <1>4, <2>1, <2>4, LimiterAssumption DEF AllowKnown, TypeOK
    <3>2. Level(k)' = Level(k)
      BY <1>1, <2>1, <2>2, <3>1 DEF Level, Refilled, Cap
    <3> QED BY <1>1, <1>4, <2>1, <2>4, <3>1, <3>2, LimiterAssumption
  <2> QED BY <2>3, <2>4
<1> QED BY <1>2, <1>3, <1>4

\* Forgetting stale entries changes no level.
LEMMA CleanupLevel ==
  ASSUME TypeOK, Cleanup, NEW k \in LimitedKeys
  PROVE  Level(k)' = Level(k)
<1>1. k \in Keys
  BY LevelType
<1>2. CASE k \in Stale
  <2>1. Level(k) = Cap(k)
    BY <1>2, StaleIsFull DEF Stale
  <2>2. k \notin known'
    BY <1>2 DEF Cleanup, Delete
  <2> QED BY <2>1, <2>2 DEF Level, Cap
<1>3. CASE k \notin Stale
  <2>1. known' \intersect {k} = known \intersect {k}
    BY <1>3 DEF Cleanup, Delete
  <2>2. tokens'[k] = tokens[k] /\ age'[k] = age[k]
    BY <1>1, <1>3 DEF Cleanup, Delete
  <2> QED BY <2>1, <2>2, SameLevel
<1> QED BY <1>2, <1>3

\* Reset fills the bucket of its key and touches no other.
LEMMA ResetLevel ==
  ASSUME NEW j \in Keys, Reset(j), NEW k \in LimitedKeys
  PROVE  Level(k)' = IF k = j THEN Cap(k) ELSE Level(k)
<1>1. k \in Keys
  BY DEF LimitedKeys
<1>2. CASE k = j
  BY <1>2 DEF Reset, Delete, Level, Cap
<1>3. CASE k # j
  <2>1. known' \intersect {k} = known \intersect {k}
    BY <1>3 DEF Reset, Delete
  <2>2. tokens'[k] = tokens[k] /\ age'[k] = age[k]
    BY <1>1, <1>3 DEF Reset, Delete
  <2> QED BY <1>3, <2>1, <2>2, SameLevel
<1> QED BY <1>2, <1>3

-----------------------------------------------------------------------------
\* A new limiter satisfies the invariant.
LEMMA LimiterInit == Init => LimiterInv
<1> SUFFICES ASSUME Init PROVE LimiterInv
  OBVIOUS
<1>1. \A k \in Keys : Cap(k) \in Nat
  BY LimiterAssumption, Products DEF Cap
<1>2. TypeOK
  BY <1>1, LimiterAssumption DEF Init, TypeOK
<1>3. ASSUME NEW k \in LimitedKeys PROVE Balance(k)
  <2>1. k \in Keys /\ Level(k) = Cap(k)
    BY DEF Init, Level, LimitedKeys
  <2> QED BY <1>1, <2>1 DEF Init, Balance
<1> QED BY <1>2, <1>3 DEF LimiterInv

\* Every step keeps the types and the range of the tokens.
LEMMA LimiterTypeNext == TypeOK /\ [Next]_vars => TypeOK'
<1> SUFFICES ASSUME TypeOK, [Next]_vars PROVE TypeOK'
  OBVIOUS
<1> USE LimiterAssumption
<1>c. \A k \in Keys : Cap(k) \in Nat /\ (Limit[k] > 0 => Cap(k) >= Window) /\ Cap(k)' = Cap(k)
  BY Products DEF Cap
<1>1. ASSUME NEW j \in Keys, AllowFirst(j) PROVE TypeOK'
  <2>1. tokens' \in [Keys -> Int]
        /\ \A k \in Keys : tokens'[k] <= Cap(k) /\ (Limit[k] > 0 => tokens'[k] >= 0)
    BY <1>1, <1>c DEF AllowFirst, TypeOK
  <2>2. known' \in SUBSET Keys /\ age' \in [Keys -> 0..(2 * Window + 1)]
        /\ verdict' \in [Keys -> {"none", "allow", "deny"}]
        /\ spent' \in [Keys -> Nat] /\ watched' = watched /\ earned' = earned
    BY <1>1 DEF AllowFirst, TypeOK
  <2> QED BY <1>c, <2>1, <2>2 DEF TypeOK
<1>2. ASSUME NEW j \in Keys, AllowKnown(j) PROVE TypeOK'
  <2>1. Refilled(j) \in Int /\ Refilled(j) <= Cap(j) /\ (Limit[j] > 0 => Refilled(j) >= 0)
    <3>1. age[j] \in Nat /\ tokens[j] \in Int /\ (Limit[j] > 0 => tokens[j] >= 0)
          /\ Limit[j] \in Nat
      BY DEF TypeOK
    <3>2. age[j] * Limit[j] \in Nat
      BY <3>1, Products
    <3> QED BY <1>c, <3>1, <3>2 DEF Refilled
  <2>2. tokens' = [tokens EXCEPT ![j] = tokens'[j]]
        /\ tokens'[j] \in {Refilled(j), Refilled(j) - Window}
        /\ (tokens'[j] = Refilled(j) - Window => Refilled(j) >= Window \/ tokens'[j] = Refilled(j))
    BY <1>2 DEF AllowKnown, TypeOK
  <2>3. tokens' \in [Keys -> Int]
        /\ \A k \in Keys : tokens'[k] <= Cap(k) /\ (Limit[k] > 0 => tokens'[k] >= 0)
    BY <1>c, <2>1, <2>2 DEF TypeOK
  <2>4. age' \in [Keys -> 0..(2 * Window + 1)] /\ spent' \in [Keys -> Nat]
        /\ verdict' \in [Keys -> {"none", "allow", "deny"}]
        /\ known' = known /\ watched' = watched /\ earned' = earned
    BY <1>2 DEF AllowKnown, TypeOK
  <2> QED BY <1>c, <2>3, <2>4 DEF TypeOK
<1>3. ASSUME NEW S \in SUBSET Keys, Delete(S)
      PROVE  /\ known' \in SUBSET Keys /\ age' \in [Keys -> 0..(2 * Window + 1)]
             /\ tokens' \in [Keys -> Int]
             /\ \A k \in Keys : tokens'[k] <= Cap(k)' /\ (Limit[k] > 0 => tokens'[k] >= 0)
  BY <1>3, <1>c DEF Delete, TypeOK
<1>4. ASSUME NEW j \in Keys, Reset(j) PROVE TypeOK'
  <2>1. Delete({j})
    BY <1>4 DEF Reset
  <2>2. spent' \in [Keys -> Nat] /\ earned' \in [Keys -> Nat] /\ verdict' = verdict
        /\ watched' = watched
    BY <1>4 DEF Reset, TypeOK
  <2>3. /\ known' \in SUBSET Keys /\ age' \in [Keys -> 0..(2 * Window + 1)]
        /\ tokens' \in [Keys -> Int]
        /\ \A k \in Keys : tokens'[k] <= Cap(k)' /\ (Limit[k] > 0 => tokens'[k] >= 0)
    BY <1>3, <2>1
  <2> QED BY <2>2, <2>3 DEF TypeOK
<1>5. CASE Cleanup
  <2>1. Delete(Stale) /\ Stale \in SUBSET Keys
    BY <1>5 DEF Cleanup, Stale, TypeOK
  <2>2. UNCHANGED <<verdict, watched, spent, earned>>
    BY <1>5 DEF Cleanup
  <2>3. /\ known' \in SUBSET Keys /\ age' \in [Keys -> 0..(2 * Window + 1)]
        /\ tokens' \in [Keys -> Int]
        /\ \A k \in Keys : tokens'[k] <= Cap(k)' /\ (Limit[k] > 0 => tokens'[k] >= 0)
    BY <1>3, <2>1
  <2> QED BY <2>2, <2>3 DEF TypeOK
<1>6. CASE Tick
  <2>1. age' \in [Keys -> 0..(2 * Window + 1)]
    BY <1>6 DEF Tick, Older, TypeOK
  <2>2. watched' \in 0..MaxWatch /\ spent' \in [Keys -> Nat] /\ earned' \in [Keys -> Nat]
    BY <1>6 DEF Tick, TypeOK
  <2>3. UNCHANGED <<known, tokens, verdict>>
    BY <1>6 DEF Tick
  <2> QED BY <1>c, <2>1, <2>2, <2>3 DEF TypeOK
<1>7. CASE Watch \/ UNCHANGED vars
  <2>1. UNCHANGED <<known, tokens, age, verdict>> /\ watched' \in 0..MaxWatch
        /\ spent' \in [Keys -> Nat] /\ earned' \in [Keys -> Nat]
    BY <1>7 DEF Watch, vars, TypeOK
  <2> QED BY <1>c, <2>1 DEF TypeOK
<1> QED
  BY <1>1, <1>2, <1>4, <1>5, <1>6, <1>7 DEF Next

\* Every step keeps the balance.
LEMMA BalanceNext == LimiterInv /\ [Next]_vars => LimiterInv'
<1> SUFFICES ASSUME LimiterInv, [Next]_vars PROVE LimiterInv'
  OBVIOUS
<1>1. TypeOK /\ TypeOK'
  BY LimiterTypeNext DEF LimiterInv
<1>2. ASSUME NEW k \in LimitedKeys PROVE Balance(k)'
  <2> USE LimiterAssumption
  <2>1. /\ k \in Keys /\ Limit[k] \in Nat \ {0} /\ Cap(k) \in Nat /\ Level(k) \in 0..Cap(k)
        /\ spent[k] \in Nat /\ earned[k] \in Nat /\ Cap(k)' = Cap(k) /\ Window \in Nat
    BY <1>1, LevelType DEF TypeOK, Cap
  <2>2. spent[k] + Level(k) <= Cap(k) + earned[k]
    BY DEF LimiterInv, Balance
  <2>3. Level(k)' \in 0..Cap(k)
    <3>1. age'[k] \in Nat /\ tokens'[k] \in Nat
      BY <1>1, <2>1 DEF TypeOK
    <3>2. age'[k] * Limit[k] \in Nat
      BY <2>1, <3>1, Products
    <3> QED BY <2>1, <3>1, <3>2 DEF Level, Refilled
  <2>4. CASE \E j \in Keys : AllowFirst(j) \/ AllowKnown(j)
    <3>1. PICK j \in Keys : AllowFirst(j) \/ AllowKnown(j)
      BY <2>4
    <3>2. earned' = earned
      BY <3>1 DEF AllowFirst, AllowKnown
    <3>3. spent'[k] + Level(k)' <= Cap(k) + earned[k]
      BY <1>1, <2>1, <2>2, <3>1, AllowLevel
    <3> QED BY <2>1, <3>2, <3>3 DEF Balance
  <2>5. CASE \E j \in Keys : Reset(j)
    <3>1. PICK j \in Keys : Reset(j)
      BY <2>5
    <3>2. CASE k = j
      <4>1. spent'[k] = 0 /\ earned'[k] = 0
        BY <1>1, <2>1, <3>1, <3>2 DEF Reset, TypeOK
      <4> QED BY <2>1, <2>3, <4>1 DEF Balance
    <3>3. CASE k # j
      <4>1. spent'[k] = spent[k] /\ earned'[k] = earned[k]
        BY <1>1, <2>1, <3>1, <3>3 DEF Reset, TypeOK
      <4>2. Level(k)' = Level(k)
        BY <3>1, <3>3, ResetLevel
      <4> QED BY <2>1, <2>2, <4>1, <4>2 DEF Balance
    <3> QED BY <3>2, <3>3
  <2>6. CASE Cleanup
    <3>1. Level(k)' = Level(k) /\ spent' = spent /\ earned' = earned
      BY <1>1, <2>6, CleanupLevel DEF Cleanup
    <3> QED BY <2>1, <2>2, <3>1 DEF Balance
  <2>7. CASE Tick
    <3>1. CASE watched < MaxWatch
      <4>1. spent'[k] = spent[k] /\ earned'[k] = earned[k] + Limit[k]
        BY <2>1, <2>7, <3>1 DEF Tick
      <4>2. Level(k)' <= Level(k) + Limit[k]
        BY <1>1, <2>1, <2>7, TickLevel
      <4> QED BY <2>1, <2>2, <2>3, <4>1, <4>2 DEF Balance
    <3>2. CASE ~(watched < MaxWatch)
      <4>1. spent'[k] = 0 /\ earned'[k] = 0
        BY <2>1, <2>7, <3>2 DEF Tick
      <4> QED BY <2>1, <2>3, <4>1 DEF Balance
    <3> QED BY <3>1, <3>2
  <2>8. CASE Watch
    <3>1. spent'[k] = 0 /\ earned'[k] = 0
      BY <2>1, <2>8 DEF Watch
    <3> QED BY <2>1, <2>3, <3>1 DEF Balance
  <2>9. CASE UNCHANGED vars
    BY <2>2, <2>9 DEF vars, Balance, Level, Refilled, Cap
  <2> QED BY <2>4, <2>5, <2>6, <2>7, <2>8, <2>9 DEF Next
<1>3. LimitedKeys' = LimitedKeys
  BY DEF LimitedKeys
<1> QED BY <1>1, <1>2, <1>3 DEF LimiterInv

\* The limiter's types, and with them the range of every entry's tokens.
THEOREM LimiterTypeCorrect == Spec => []TypeOK
<1>1. Init => TypeOK
  BY LimiterInit DEF LimiterInv
<1> QED BY <1>1, LimiterTypeNext, PTL DEF Spec

\* In every stretch of time of any length a key with a positive limit is
\* granted at most its full bucket and its gains (Limiter.Allow and cleanup).
THEOREM GrantsAreBounded == Spec => []WindowBound
<1>1. Spec => []LimiterInv
  BY LimiterInit, BalanceNext, PTL DEF Spec
<1>2. LimiterInv => WindowBound
  <2> SUFFICES ASSUME LimiterInv, NEW k \in Keys, Limit[k] > 0
               PROVE  spent[k] <= Cap(k) + earned[k]
    BY DEF WindowBound
  <2>1. k \in LimitedKeys /\ TypeOK /\ Balance(k)
    BY DEF LimitedKeys, LimiterInv
  <2>2. Level(k) \in Nat /\ Cap(k) \in Nat /\ spent[k] \in Nat /\ earned[k] \in Nat
    BY <2>1, LevelType DEF TypeOK
  <2> QED BY <2>1, <2>2 DEF Balance
<1> QED BY <1>1, <1>2, PTL

-----------------------------------------------------------------------------
\* The instance's cap and level are the limiter's, for its keys.
LEMMA BucketFacts ==
  ASSUME NEW k \in LimitedKeys
  PROVE  /\ Bucket!Cap(k) = Cap(k)
         /\ [i \in LimitedKeys |-> Level(i)][k] = Level(k)
         /\ [i \in LimitedKeys |-> Limit[i]][k] = Limit[k]
  BY DEF Bucket!Cap, Cap

\* Every step of the limiter is a step of the token buckets or changes none.
LEMMA BucketStep ==
  TypeOK /\ [Next]_vars =>
    [Bucket!Next]_<<[k \in LimitedKeys |-> Level(k)], [k \in LimitedKeys |-> verdict[k]]>>
<1> DEFINE level == [k \in LimitedKeys |-> Level(k)]
           answer == [k \in LimitedKeys |-> verdict[k]]
<1> SUFFICES ASSUME TypeOK, [Next]_vars
             PROVE  Bucket!Next \/ UNCHANGED <<level, answer>>
  OBVIOUS
<1>0. /\ LimitedKeys' = LimitedKeys
      /\ level' = [k \in LimitedKeys |-> Level(k)']
      /\ answer' = [k \in LimitedKeys |-> verdict'[k]]
      /\ \A k \in LimitedKeys : level[k] = Level(k) /\ Level(k) \in Nat /\ Window \in Nat
  BY LevelType, LimiterAssumption DEF LimitedKeys
<1>1. ASSUME NEW j \in Keys, AllowFirst(j) \/ AllowKnown(j)
      PROVE  Bucket!Next \/ UNCHANGED <<level, answer>>
  <2>1. CASE j \notin LimitedKeys
    <3>1. \A k \in LimitedKeys : Level(k)' = Level(k) /\ verdict'[k] = verdict[k]
      BY <1>1, <2>1, AllowLevel
    <3> QED BY <1>0, <3>1
  <2>2. CASE j \in LimitedKeys
    <3>1. \A k \in LimitedKeys : k # j => Level(k)' = Level(k) /\ verdict'[k] = verdict[k]
      BY <1>1, AllowLevel
    <3>2. CASE Level(j) >= Window
      <4>1. Level(j)' = Level(j) - Window /\ verdict'[j] = "allow"
        BY <1>0, <1>1, <2>2, <3>2, AllowLevel
      <4>2. level' = [level EXCEPT ![j] = @ - Window]
            /\ answer' = [answer EXCEPT ![j] = "allow"]
        BY <1>0, <2>2, <3>1, <4>1
      <4>3. level[j] >= Window
        BY <1>0, <2>2, <3>2
      <4>4. Bucket!Request(j)
        BY <4>2, <4>3 DEF Bucket!Request
      <4> QED BY <2>2, <4>4 DEF Bucket!Next
    <3>3. CASE ~(Level(j) >= Window)
      <4>1. Level(j)' = Level(j) /\ verdict'[j] = "deny"
        BY <1>0, <1>1, <2>2, <3>3, AllowLevel
      <4>2. level' = level /\ answer' = [answer EXCEPT ![j] = "deny"]
        BY <1>0, <2>2, <3>1, <4>1
      <4>3. level[j] < Window
        BY <1>0, <2>2, <3>3
      <4>4. Bucket!Request(j)
        BY <4>2, <4>3 DEF Bucket!Request
      <4> QED BY <2>2, <4>4 DEF Bucket!Next
    <3> QED BY <3>2, <3>3
  <2> QED BY <2>1, <2>2
<1>2. ASSUME NEW j \in Keys, Reset(j) PROVE Bucket!Next \/ UNCHANGED <<level, answer>>
  <2>1. verdict' = verdict
    BY <1>2 DEF Reset
  <2>2. \A k \in LimitedKeys : Level(k)' = IF k = j THEN Cap(k) ELSE Level(k)
    BY <1>2, ResetLevel
  <2>3. CASE j \notin LimitedKeys
    BY <1>0, <2>1, <2>2, <2>3
  <2>4. CASE j \in LimitedKeys
    <3>1. level' = [level EXCEPT ![j] = Bucket!Cap(j)]
      BY <1>0, <2>2, <2>4, BucketFacts
    <3>2. Bucket!Restore(j)
      BY <1>0, <2>1, <3>1 DEF Bucket!Restore
    <3> QED BY <2>4, <3>2 DEF Bucket!Next
  <2> QED BY <2>3, <2>4
<1>3. CASE Cleanup
  <2>1. verdict' = verdict /\ \A k \in LimitedKeys : Level(k)' = Level(k)
    BY <1>3, CleanupLevel DEF Cleanup
  <2> QED BY <1>0, <2>1
<1>4. CASE Tick
  <2>1. verdict' = verdict
    BY <1>4 DEF Tick
  <2>2. \A k \in LimitedKeys : Level(k)' = Bucket!Filled(k, Level(k) + Limit[k])
    BY <1>4, TickLevel, BucketFacts DEF Bucket!Filled
  <2>3. level' = [k \in LimitedKeys |->
                    Bucket!Filled(k, level[k] + [i \in LimitedKeys |-> Limit[i]][k])]
    BY <1>0, <2>2, BucketFacts
  <2>4. Bucket!Refill
    BY <1>0, <2>1, <2>3 DEF Bucket!Refill
  <2> QED BY <2>4 DEF Bucket!Next
<1>5. CASE Watch \/ UNCHANGED vars
  <2>1. UNCHANGED <<known, tokens, age, verdict>>
    BY <1>5 DEF Watch, vars
  <2>2. \A k \in LimitedKeys : Level(k)' = Level(k)
    BY <2>1 DEF Level, Refilled, Cap
  <2> QED BY <1>0, <2>1, <2>2
<1> QED
  BY <1>1, <1>2, <1>3, <1>4, <1>5 DEF Next

\* Limiter.Allow, with its lazy refill, cleanup and Reset, implements one token
\* bucket per key with a positive limit.
THEOREM LimiterImplementsTokenBucket == Spec => ImplementsTokenBucket
<1>1. Init => Bucket!Init
  <2> SUFFICES ASSUME Init PROVE Bucket!Init
    OBVIOUS
  <2>1. \A k \in LimitedKeys : Level(k) = Bucket!Cap(k) /\ verdict[k] = "none"
    BY BucketFacts DEF Init, Level, LimitedKeys
  <2> QED BY <2>1 DEF Bucket!Init
<1> QED
  BY <1>1, BucketStep, LimiterTypeCorrect, PTL DEF Spec, ImplementsTokenBucket, Bucket!Spec

-----------------------------------------------------------------------------
\* A key of limit 0 that was let through in the watched stretch has an entry at
\* least as young as the stretch, so cleanup finds it only when the stretch is
\* longer than two windows.
LetInOnce(k) ==
    \/ watched > 2 * Window
    \/ spent[k] = 0
    \/ spent[k] = Window /\ k \in known /\ age[k] <= watched

ZeroKeys == {k \in Keys : Limit[k] = 0}

ZeroInv == TypeOK /\ \A k \in ZeroKeys : LetInOnce(k)

\* A known key of limit 0 never has a token.
LEMMA ZeroIsDenied ==
  ASSUME TypeOK, NEW k \in ZeroKeys
  PROVE  Refilled(k) < Window
<1>1. /\ k \in Keys /\ Limit[k] = 0 /\ age[k] \in Nat /\ tokens[k] \in Int
      /\ tokens[k] <= Cap(k) /\ Window \in Nat \ {0}
  BY LimiterAssumption DEF ZeroKeys, TypeOK
<1>2. age[k] * Limit[k] = 0 /\ Cap(k) = 0
  BY <1>1, LimiterAssumption DEF Cap
<1> QED BY <1>1, <1>2 DEF Refilled

\* No step lets such a key in a second time.
LEMMA ZeroNext == ZeroInv /\ [Next]_vars => ZeroInv'
<1> SUFFICES ASSUME ZeroInv, [Next]_vars, NEW k \in ZeroKeys PROVE LetInOnce(k)'
  BY LimiterTypeNext DEF ZeroInv
<1> USE LimiterAssumption
<1>1. /\ TypeOK /\ k \in Keys /\ watched \in Nat /\ spent[k] \in Nat /\ age[k] \in Nat
      /\ LetInOnce(k) /\ Window \in Nat \ {0}
  BY DEF ZeroInv, ZeroKeys, TypeOK
<1>2. ASSUME UNCHANGED watched, spent'[k] = spent[k], age'[k] = age[k], k \in known => k \in known'
      PROVE  LetInOnce(k)'
  BY <1>1, <1>2 DEF LetInOnce
<1>3. ASSUME NEW j \in Keys, AllowFirst(j) PROVE LetInOnce(k)'
  <2>1. CASE j # k
    BY <1>1, <1>2, <1>3, <2>1 DEF AllowFirst, TypeOK
  <2>2. CASE j = k
    <3>1. /\ k \notin known /\ k \in known' /\ age'[k] = 0 /\ watched' = watched
          /\ spent'[k] = spent[k] + Window
      BY <1>1, <1>3, <2>2 DEF AllowFirst, TypeOK
    <3> QED BY <1>1, <3>1 DEF LetInOnce
  <2> QED BY <2>1, <2>2
<1>4. ASSUME NEW j \in Keys, AllowKnown(j) PROVE LetInOnce(k)'
  <2>1. CASE j # k
    BY <1>1, <1>2, <1>4, <2>1 DEF AllowKnown, TypeOK
  <2>2. CASE j = k
    <3>1. Refilled(k) < Window /\ ~(Refilled(k) >= Window)
      <4>1. Refilled(k) \in Int
        <5>1. Limit[k] = 0 /\ tokens[k] \in Int /\ Cap(k) = 0 /\ age[k] * Limit[k] = 0
          BY <1>1 DEF ZeroKeys, TypeOK, Cap
        <5> QED BY <5>1 DEF Refilled
      <4> QED BY <1>1, <4>1, ZeroIsDenied
    <3>2. /\ k \in known /\ k \in known' /\ age'[k] = 0 /\ watched' = watched
          /\ spent'[k] = spent[k]
      BY <1>1, <1>4, <2>2, <3>1 DEF AllowKnown, TypeOK
    <3> QED BY <1>1, <3>2 DEF LetInOnce
  <2> QED BY <2>1, <2>2
<1>5. ASSUME NEW j \in Keys, Reset(j) PROVE LetInOnce(k)'
  <2>1. CASE j # k
    BY <1>1, <1>2, <1>5, <2>1 DEF Reset, Delete, TypeOK
  <2>2. CASE j = k
    BY <1>1, <1>5, <2>2 DEF Reset, TypeOK, LetInOnce
  <2> QED BY <2>1, <2>2
<1>6. CASE Cleanup
  <2>1. CASE k \notin Stale
    BY <1>1, <1>2, <1>6, <2>1 DEF Cleanup, Delete, TypeOK
  <2>2. CASE k \in Stale
    <3>1. age[k] > 2 * Window /\ watched' = watched /\ spent' = spent
      BY <1>6, <2>2 DEF Cleanup, Stale
    <3> QED BY <1>1, <3>1 DEF LetInOnce
  <2> QED BY <2>1, <2>2
<1>7. CASE Tick
  <2>1. CASE watched < MaxWatch
    <3>1. /\ watched' = watched + 1 /\ spent' = spent /\ known' = known
          /\ k \in known => age'[k] <= age[k] + 1 /\ age'[k] \in Nat
      BY <1>1, <1>7, <2>1 DEF Tick, Older, TypeOK
    <3> QED BY <1>1, <3>1 DEF LetInOnce
  <2>2. CASE ~(watched < MaxWatch)
    BY <1>1, <1>7, <2>2 DEF Tick, LetInOnce
  <2> QED BY <2>1, <2>2
<1>8. CASE Watch
  BY <1>1, <1>8 DEF Watch, LetInOnce
<1>9. CASE UNCHANGED vars
  BY <1>2, <1>9 DEF vars
<1> QED BY <1>3, <1>4, <1>5, <1>6, <1>7, <1>8, <1>9 DEF Next

\* A key whose limit is 0 is let through at most once in any two windows, for any
\* keys and any window: its first request, and again when cleanup has forgotten it.
THEOREM ZeroLimitHolds == Spec => []ZeroLimit
<1>1. Init => ZeroInv
  <2> SUFFICES ASSUME Init PROVE ZeroInv
    OBVIOUS
  <2>1. TypeOK
    BY LimiterInit DEF LimiterInv
  <2>2. \A k \in ZeroKeys : spent[k] = 0
    BY DEF Init, ZeroKeys
  <2> QED BY <2>1, <2>2 DEF ZeroInv, LetInOnce
<1>2. ZeroInv => ZeroLimit
  <2> SUFFICES ASSUME ZeroInv, NEW k \in Keys, Limit[k] = 0, watched <= 2 * Window
               PROVE  spent[k] <= Window
    BY DEF ZeroLimit
  <2>1. LetInOnce(k) /\ watched \in Nat /\ Window \in Nat
    BY LimiterAssumption DEF ZeroInv, ZeroKeys, TypeOK
  <2> QED BY <2>1 DEF LetInOnce
<1> QED BY <1>1, <1>2, ZeroNext, PTL DEF Spec

-----------------------------------------------------------------------------
\* Each probe after the first has been counted.
ProbesCounted == state = "half-open" => Cardinality(probing) <= halfOpenRequests + 1

BreakerInv ==
    /\ BreakerType
    /\ HalfOpenHasProbe
    /\ ProbesCounted
    /\ ClosedBelowThreshold

-----------------------------------------------------------------------------
\* The invariant holds of a new breaker.
LEMMA BreakerInvInit == BreakerInit => BreakerInv
<1> SUFFICES ASSUME BreakerInit PROVE BreakerInv
  OBVIOUS
<1>1. BreakerType
  BY BreakerAssumption DEF BreakerInit, BreakerType
<1> QED
  BY <1>1, BreakerAssumption DEF BreakerInit, BreakerInv, HalfOpenHasProbe, ProbesCounted,
     ClosedBelowThreshold

\* Every step keeps the types.
LEMMA BreakerTypeNext == BreakerType /\ [BreakerNext]_breakerVars => BreakerType'
<1> SUFFICES ASSUME BreakerType, [BreakerNext]_breakerVars PROVE BreakerType'
  OBVIOUS
<1> USE BreakerAssumption
<1>1. ASSUME NEW c \in Callers, BeforeRequest(c) PROVE BreakerType'
  <2>1. /\ state' \in {"closed", "open", "half-open"}
        /\ halfOpenRequests' \in 0..HalfOpenMaxRequests
        /\ running' \in SUBSET Callers /\ probing' \in SUBSET Callers
    BY <1>1 DEF BeforeRequest, BreakerType
  <2>2. UNCHANGED <<consecutiveFailures, sinceFailure, service, closedBy>>
    BY <1>1 DEF BeforeRequest
  <2> QED BY <2>1, <2>2 DEF BreakerType
<1>2. ASSUME NEW c \in Callers, OnSuccess(c) PROVE BreakerType'
  <2>1. /\ state' \in {"closed", "open", "half-open"}
        /\ consecutiveFailures' \in 0..FailureThreshold
        /\ halfOpenRequests' \in 0..HalfOpenMaxRequests
        /\ running' \in SUBSET Callers /\ probing' \in SUBSET Callers
    BY <1>2 DEF OnSuccess, BreakerType
  <2>2. closedBy' \in {"start", "probe", "earlier", "reset"}
    BY <1>2 DEF OnSuccess, BreakerType
  <2>3. UNCHANGED <<sinceFailure, service>>
    BY <1>2 DEF OnSuccess
  <2> QED BY <2>1, <2>2, <2>3 DEF BreakerType
<1>3. ASSUME NEW c \in Callers, OnFailure(c) PROVE BreakerType'
  <2>1. CountFailure \in 0..FailureThreshold
    BY DEF CountFailure, BreakerType
  <2>2. /\ state' \in {"closed", "open", "half-open"}
        /\ sinceFailure' = 0 /\ consecutiveFailures' = CountFailure
        /\ running' \in SUBSET Callers /\ probing' \in SUBSET Callers
    BY <1>3 DEF OnFailure, BreakerType
  <2>3. UNCHANGED <<halfOpenRequests, service, closedBy>>
    BY <1>3 DEF OnFailure
  <2> QED BY <2>1, <2>2, <2>3 DEF BreakerType
<1>4. CASE ResetCircuit
  BY <1>4 DEF ResetCircuit, BreakerType
<1>5. CASE Elapse
  BY <1>5 DEF Elapse, BreakerType
<1>6. CASE ServiceRecovers
  BY <1>6 DEF ServiceRecovers, BreakerType
<1>7. CASE UNCHANGED breakerVars
  BY <1>7 DEF breakerVars, BreakerType
<1> QED
  BY <1>1, <1>2, <1>3, <1>4, <1>5, <1>6, <1>7 DEF BreakerNext

\* Every step keeps the invariant.
LEMMA BreakerInvNext == BreakerInv /\ [BreakerNext]_breakerVars => BreakerInv'
<1> SUFFICES ASSUME BreakerInv, [BreakerNext]_breakerVars PROVE BreakerInv'
  OBVIOUS
<1> USE BreakerAssumption
<1>0. BreakerType /\ HalfOpenHasProbe /\ ProbesCounted /\ ClosedBelowThreshold
  BY DEF BreakerInv
<1>t. BreakerType'
  BY <1>0, BreakerTypeNext
<1>s. ASSUME state' # "half-open", ClosedBelowThreshold' PROVE BreakerInv'
  BY <1>t, <1>s DEF BreakerInv, HalfOpenHasProbe, ProbesCounted
<1>1. ASSUME NEW c \in Callers, BeforeRequest(c) PROVE BreakerInv'
  <2>1. HalfOpenHasProbe' /\ ClosedBelowThreshold'
    BY <1>0, <1>1 DEF BeforeRequest, HalfOpenHasProbe, ClosedBelowThreshold
  <2>2. CASE state = "closed"
    <3>1. state' = "closed"
      BY <1>1, <2>2 DEF BeforeRequest
    <3> QED BY <1>s, <2>1, <3>1
  <2>3. CASE state = "open"
    <3>1. probing' = {c} /\ halfOpenRequests' = 0
      BY <1>1, <2>3 DEF BeforeRequest
    <3>2. Cardinality({c}) = 1
      BY FS_Singleton
    <3>3. Cardinality(probing') <= halfOpenRequests' + 1
      BY <3>1, <3>2
    <3> QED BY <1>t, <2>1, <3>3 DEF BreakerInv, ProbesCounted
  <2>4. CASE state = "half-open"
    <3>0. halfOpenRequests \in Nat
      BY <1>0 DEF BreakerType
    <3>1. probing' = probing \union {c} /\ halfOpenRequests' = halfOpenRequests + 1
      BY <1>1, <2>4 DEF BeforeRequest
    <3>2. c \notin probing
      BY <1>0, <1>1, <2>4 DEF BeforeRequest, HalfOpenHasProbe
    <3>3. IsFiniteSet(probing)
      BY <1>0, FS_Subset DEF BreakerType
    <3>4. Cardinality(probing') = Cardinality(probing) + 1 /\ Cardinality(probing) \in Nat
      BY <3>1, <3>2, <3>3, FS_AddElement, FS_CardinalityType
    <3>5. Cardinality(probing) <= halfOpenRequests + 1
      BY <1>0, <2>4 DEF ProbesCounted
    <3>6. ProbesCounted'
      BY <3>0, <3>1, <3>4, <3>5 DEF ProbesCounted
    <3> QED BY <1>t, <2>1, <3>6 DEF BreakerInv
  <2> QED BY <1>0, <2>2, <2>3, <2>4 DEF BreakerType
<1>2. ASSUME NEW c \in Callers, OnSuccess(c) PROVE BreakerInv'
  <2>1. state' # "half-open" /\ (state' = "closed" => consecutiveFailures' = 0)
    BY <1>0, <1>2 DEF OnSuccess, BreakerType
  <2> QED
    BY <1>s, <2>1 DEF ClosedBelowThreshold
<1>3. ASSUME NEW c \in Callers, OnFailure(c) PROVE BreakerInv'
  <2>1. state' # "half-open" /\ (state' = "closed" => consecutiveFailures' < FailureThreshold)
    BY <1>3 DEF OnFailure
  <2> QED
    BY <1>s, <2>1 DEF ClosedBelowThreshold
<1>4. CASE ResetCircuit
  <2>1. state' = "closed" /\ consecutiveFailures' = 0
    BY <1>4 DEF ResetCircuit
  <2> QED BY <1>s, <2>1 DEF ClosedBelowThreshold
<1>5. CASE UNCHANGED <<state, consecutiveFailures, halfOpenRequests, running, probing>>
  BY <1>0, <1>t, <1>5 DEF BreakerInv, HalfOpenHasProbe, ProbesCounted, ClosedBelowThreshold
<1>6. CASE Elapse \/ ServiceRecovers \/ UNCHANGED breakerVars
  BY <1>5, <1>6 DEF Elapse, ServiceRecovers, breakerVars
<1> QED
  BY <1>1, <1>2, <1>3, <1>4, <1>6 DEF BreakerNext

\* The invariant holds in every reachable state.
THEOREM BreakerCorrect == BreakerSpec => []BreakerInv
<1> QED BY BreakerInvInit, BreakerInvNext, PTL DEF BreakerSpec

\* A half-open breaker is never stuck: one of its own probes is still running.
THEOREM NeverStuckHalfOpen == BreakerSpec => []HalfOpenHasProbe
<1>1. BreakerInv => HalfOpenHasProbe
  BY DEF BreakerInv
<1> QED BY BreakerCorrect, <1>1, PTL

\* Never more than HalfOpenMaxRequests + 1 probes run at a time.
THEOREM ProbesAreBounded == BreakerSpec => []ProbesBounded
<1>1. BreakerInv => ProbesBounded
  <2> SUFFICES ASSUME BreakerInv, state = "half-open"
               PROVE  Cardinality(probing) <= HalfOpenMaxRequests + 1
    BY DEF ProbesBounded
  <2>1. Cardinality(probing) \in Nat
    BY BreakerAssumption, FS_Subset, FS_CardinalityType DEF BreakerInv, BreakerType
  <2>2. halfOpenRequests \in 0..HalfOpenMaxRequests
    BY DEF BreakerInv, BreakerType
  <2>3. Cardinality(probing) <= halfOpenRequests + 1
    BY DEF BreakerInv, ProbesCounted
  <2> QED
    BY <2>1, <2>2, <2>3, BreakerAssumption
<1> QED BY BreakerCorrect, <1>1, PTL

\* A closed breaker is below its threshold.
THEOREM ClosedIsBelowThreshold == BreakerSpec => []ClosedBelowThreshold
<1>1. BreakerInv => ClosedBelowThreshold
  BY DEF BreakerInv
<1> QED BY BreakerCorrect, <1>1, PTL

\* A late success never ends the cool-down of an open breaker.
THEOREM LateSuccessKeepsOpen == BreakerSpec => NeverClosesFromOpen
<1>1. BreakerType /\ [BreakerNext]_breakerVars =>
        [state = "open" /\ state' = "closed" => closedBy' = "reset" /\ UNCHANGED running]_breakerVars
  <2> SUFFICES ASSUME BreakerType, BreakerNext, state = "open", state' = "closed"
               PROVE  closedBy' = "reset" /\ UNCHANGED running
    OBVIOUS
  <2> QED
    BY DEF BreakerNext, BeforeRequest, OnSuccess, OnFailure, ResetCircuit, Elapse, ServiceRecovers
<1>2. BreakerInv => BreakerType
  BY DEF BreakerInv
<1> QED BY BreakerCorrect, <1>1, <1>2, PTL DEF BreakerSpec, NeverClosesFromOpen
=============================================================================
