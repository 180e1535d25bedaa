------------------------ MODULE ResponseCacheProofs -------------------------
(***************************************************************************)
(* Theorems about RateLimiter, for any number of requests, any rate and    *)
(* burst, and any threshold of the reaper that LimiterAssumption allows, and *)
(* about ResponseCache, which runs inside it: the cache never shows an error *)
(* or an answer that is too old, for any time to live and any limits.      *)
(***************************************************************************)
EXTENDS ResponseCache, FiniteSetTheorems, TLAPS

-----------------------------------------------------------------------------
(* The rate limiter.                                                      *)

LimShape ==
  /\ entry \in Bucket \cup {0}
  /\ tokens \in [Bucket -> 0 .. Burst] /\ age \in [Bucket -> Nat]
  /\ pc \in [Requests -> {"idle", "seen", "allow"}]
  /\ mine \in [Requests -> Bucket \cup {0}]
  /\ reaping \in BOOLEAN /\ hit \in BOOLEAN
  /\ ideal \in Int /\ ideal <= Burst

\* Tokens that a bucket has won back since it was last used, at least.
Regained(n) == AtMost(Rate * n, Burst)

\* A request holds a bucket while it is being served, and has just used it when it
\* asks for a token; a bucket has what it has won back.
Places ==
  /\ \A r \in Requests : (pc[r] = "idle" <=> mine[r] = 0) /\ (pc[r] = "allow" => age[mine[r]] = 0)
  /\ \A b \in Bucket : tokens[b] >= Regained(age[b])

\* The reaper is about to delete an entry that was full; whatever has been taken from
\* it since, has been taken from the ideal bucket too.
ReapInv == reaping => entry # 0 /\ (age[entry] > Stale \/ age[entry] = 0) /\ ideal >= tokens[entry]

\* Nothing shows until the reaper deletes an entry in use.
Unnoticed ==
  ~hit => /\ \A r \in Requests : mine[r] \in {0, entry}
          /\ ideal = (IF entry = 0 THEN Burst ELSE tokens[entry])

\* A request that holds a bucket that is no longer, or not, in the map.
Old(r) == mine[r] # 0 /\ mine[r] # entry

\* There is one old bucket at a time, and while it is in use the entry is new.
OneOld ==
  /\ \A r, q \in Requests : Old(r) /\ Old(q) => mine[r] = mine[q]
  /\ \A r \in Requests : Old(r) => ~reaping /\ (entry # 0 => age[entry] = 0)

\* What the entry and the old bucket can still admit is at most one burst more than
\* the ideal bucket; the entry has to be idle long enough to make up for it.
Debt ==
  /\ entry = 0 => ideal >= 0
  /\ entry # 0 => ideal >= tokens[entry] - Burst /\ ideal >= AtMost(Rate * age[entry] - Burst, Burst)
  /\ \A r \in Requests : Old(r) =>
       ideal >= tokens[mine[r]] - (IF entry = 0 THEN 0 ELSE Burst - tokens[entry])

LimInv == LimShape /\ Places /\ ReapInv /\ Unnoticed /\ OneOld /\ Debt

-----------------------------------------------------------------------------
(* Arithmetic and buckets.                                                  *)

LEMMA Numbers == 0 \notin Bucket /\ Bucket \subseteq Nat
BY LimiterAssumption, FS_CardinalityType DEF Bucket

\* The size of a bucket is a positive number.
LEMMA BurstNat == Burst \in Nat /\ Burst >= 1
BY LimiterAssumption

\* Regained is bounded by the burst, and reaches it before an entry is stale.
LEMMA Regaining ==
  /\ Regained(0) = 0
  /\ \A n \in Nat : Regained(n) \in 0 .. Burst
  /\ \A n \in Nat : n > Stale => Regained(n) = Burst /\ Rate * n - Burst >= Burst
<1> USE LimiterAssumption DEF Regained, AtMost
<1>1. \A n \in Nat : Rate * n \in Nat
  OBVIOUS
<1>2. \A n \in Nat : n > Stale => Rate * n >= Rate * Stale
  OBVIOUS
<1>3. Rate * 0 = 0
  OBVIOUS
<1> QED BY <1>1, <1>2, <1>3

\* At time zero nothing has been regained.
LEMMA NoneYet == AtMost(Rate * 0 - Burst, Burst) = - Burst
BY LimiterAssumption DEF AtMost

\* Every request holds one bucket at most, and there is one more than requests.
LEMMA FreshBucket ==
  ASSUME LimShape, entry = 0, NEW r \in Requests, mine[r] = 0
  PROVE  New \in Bucket /\ New # 0 /\ \A q \in Requests : mine[q] # New
<1>1. Unused # {}
  <2> SUFFICES ASSUME Unused = {} PROVE FALSE
    OBVIOUS
  <2> DEFINE Held == {mine[q] : q \in Requests}
  <2>1. mine \in Surjection(Requests, Held)
    BY DEF LimShape, Surjection
  <2>2. IsFiniteSet(Held) /\ Cardinality(Held) <= Cardinality(Requests)
    BY <2>1, LimiterAssumption, FS_Surjection
  <2>3. Bucket \subseteq Held
    BY Numbers DEF Unused
  <2>4. Cardinality(Bucket) <= Cardinality(Held)
    BY <2>2, <2>3, FS_Subset
  <2>5. Cardinality(Requests) \in Nat
    BY LimiterAssumption, FS_CardinalityType
  <2>6. Cardinality(Bucket) = Cardinality(Requests) + 1
    BY <2>5, FS_Interval DEF Bucket
  <2>7. Cardinality(Held) \in Nat
    BY <2>2, FS_CardinalityType
  <2> HIDE DEF Held
  <2> QED BY <2>2, <2>4, <2>5, <2>6, <2>7
<1>2. New \in Unused
  BY <1>1 DEF New
<1> QED BY <1>2, Numbers DEF Unused

-----------------------------------------------------------------------------
(* The steps.                                                               *)

\* Initially nobody has a bucket.
LEMMA InitLim == Init => LimInv
<1> SUFFICES ASSUME Init PROVE LimInv
  OBVIOUS
<1> USE BurstNat, Numbers DEF Init
<1>1. LimShape
  <2>1. entry \in Bucket \cup {0}
    OBVIOUS
  <2>2. tokens \in [Bucket -> 0 .. Burst]
    OBVIOUS
  <2>3. age \in [Bucket -> Nat]
    OBVIOUS
  <2>4. pc \in [Requests -> {"idle", "seen", "allow"}]
    OBVIOUS
  <2>5. mine \in [Requests -> Bucket \cup {0}]
    OBVIOUS
  <2>6. ideal \in Int /\ ideal <= Burst
    OBVIOUS
  <2>7. reaping \in BOOLEAN /\ hit \in BOOLEAN
    OBVIOUS
  <2> QED BY ONLY <2>1, <2>2, <2>3, <2>4, <2>5, <2>6, <2>7 DEF LimShape
<1>2. Places
  <2>1. \A b \in Bucket : tokens[b] = Burst /\ age[b] = 0
    OBVIOUS
  <2>2. \A b \in Bucket : Regained(age[b]) = 0
    BY <2>1, Regaining
  <2>3. \A r \in Requests : pc[r] = "idle" /\ mine[r] = 0
    OBVIOUS
  <2> QED BY <2>1, <2>2, <2>3 DEF Places
<1>3. ReapInv /\ Unnoticed
  BY DEF ReapInv, Unnoticed
<1>4. OneOld /\ Debt
  BY DEF OneOld, Old, Debt
<1> QED BY <1>1, <1>2, <1>3, <1>4 DEF LimInv

\* The entry is there, or made with a full bucket.
LEMMA StoreLim ==
  ASSUME LimInv, NEW r \in Requests, LoadOrStore(r)
  PROVE  LimInv'
<1> USE LimiterAssumption, Numbers, Regaining
    DEF LimInv, LimShape, Places, ReapInv, Unnoticed, OneOld, Old, Debt
<1>1. CASE entry # 0
  <2>1. /\ pc[r] = "idle" /\ UNCHANGED <<entry, tokens, age, reaping, ideal, hit>>
        /\ mine' = [mine EXCEPT ![r] = entry] /\ pc' = [pc EXCEPT ![r] = "seen"]
    BY <1>1 DEF LoadOrStore
  <2> QED BY <1>1, <2>1
<1>2. CASE entry = 0
  <2> DEFINE b == New
  <2>1. /\ pc[r] = "idle" /\ UNCHANGED <<reaping, ideal, hit>>
        /\ entry' = b /\ mine' = [mine EXCEPT ![r] = b]
        /\ tokens' = [tokens EXCEPT ![b] = Burst] /\ age' = [age EXCEPT ![b] = 0]
        /\ pc' = [pc EXCEPT ![r] = "allow"]
    BY <1>2 DEF LoadOrStore
  <2>2. b \in Bucket /\ b # 0 /\ \A q \in Requests : mine[q] # b
    BY <1>2, <2>1, FreshBucket
  <2> HIDE DEF b
  <2>3. LimShape'
    BY <2>1, <2>2
  <2>4. Places'
    <3>1. ASSUME NEW q \in Requests
          PROVE  (pc[q] = "idle" <=> mine[q] = 0)' /\ (pc[q] = "allow" => age[mine[q]] = 0)'
      BY <2>1, <2>2
    <3>2. ASSUME NEW d \in Bucket PROVE (tokens[d] >= Regained(age[d]))'
      <4>1. CASE d = b
        BY <2>1, <2>2, <4>1 DEF Regained, AtMost
      <4>2. CASE d # b
        BY <2>1, <2>2, <4>2 DEF Regained
      <4> QED BY <4>1, <4>2
    <3> QED BY <3>1, <3>2
  <2>5. ReapInv' /\ Unnoticed' /\ OneOld'
    BY <1>2, <2>1, <2>2
  <2>6. Debt'
    BY <1>2, <2>1, <2>2 DEF AtMost
  <2> QED BY <2>3, <2>4, <2>5, <2>6
<1> QED BY <1>1, <1>2

\* Refreshing lastSeen spends nothing.
LEMMA SeenLim ==
  ASSUME LimInv, NEW r \in Requests, Seen(r)
  PROVE  LimInv'
<1> USE LimiterAssumption, Numbers, Regaining
    DEF LimInv, LimShape, Places, ReapInv, Unnoticed, OneOld, Old, Debt
<1>1. /\ pc[r] = "seen" /\ pc' = [pc EXCEPT ![r] = "allow"]
      /\ age' = [age EXCEPT ![mine[r]] = 0] /\ mine[r] \in Bucket
      /\ UNCHANGED <<entry, tokens, mine, reaping, ideal, hit>>
  BY DEF Seen
<1>2. LimShape' /\ ReapInv' /\ Unnoticed' /\ OneOld'
  BY <1>1
<1>3. Places'
  BY <1>1 DEF Regained, AtMost
<1>4. Debt'
  BY <1>1 DEF AtMost
<1> QED BY <1>2, <1>3, <1>4

\* A token is taken from the bucket in hand and from the ideal one.
LEMMA AllowLim ==
  ASSUME LimInv, NEW r \in Requests, Allow(r)
  PROVE  LimInv'
<1> USE BurstNat, Numbers DEF LimInv, LimShape
<1>1. /\ pc[r] = "allow" /\ pc' = [pc EXCEPT ![r] = "idle"] /\ mine' = [mine EXCEPT ![r] = 0]
      /\ mine[r] \in Bucket /\ age[mine[r]] = 0
      /\ UNCHANGED <<entry, age, reaping, hit>>
  BY DEF Allow, Places
<1>2. \A q \in Requests : mine'[q] = (IF q = r THEN 0 ELSE mine[q])
  BY <1>1
<1>3. \A q \in Requests : Old(q)' => Old(q) /\ q # r /\ mine'[q] = mine[q]
  BY <1>1, <1>2 DEF Old
<1>4. OneOld'
  BY <1>1, <1>3 DEF OneOld
<1>5. \A q \in Requests : (pc[q] = "idle" <=> mine[q] = 0)' /\ (pc[q] = "allow" => age[mine[q]] = 0)'
  BY <1>1, <1>2 DEF Places
<1>6. CASE UNCHANGED <<tokens, ideal>>
  <2>1. LimShape'
    BY <1>1, <1>6
  <2>2. Places'
    BY <1>1, <1>5, <1>6 DEF Places, Regained
  <2>3. ReapInv' /\ Unnoticed'
    BY <1>1, <1>2, <1>6 DEF ReapInv, Unnoticed
  <2>4. Debt'
    BY <1>1, <1>3, <1>6 DEF Debt
  <2> QED BY <1>4, <2>1, <2>2, <2>3, <2>4
<1>7. CASE /\ tokens[mine[r]] > 0 /\ ideal' = ideal - 1
           /\ tokens' = [tokens EXCEPT ![mine[r]] = tokens[mine[r]] - 1]
  <2>1. \A d \in Bucket : tokens'[d] = IF d = mine[r] THEN tokens[d] - 1 ELSE tokens[d]
    BY <1>7
  <2>2. /\ \A d \in Bucket : tokens[d] \in 0 .. Burst /\ tokens[d] \in Int
        /\ tokens[mine[r]] >= 1 /\ ideal \in Int /\ ideal' = ideal - 1
    <3>1. \A d \in Bucket : tokens[d] \in 0 .. Burst
      OBVIOUS
    <3>2. ideal \in Int
      OBVIOUS
    <3> QED BY ONLY <1>1, <1>7, <3>1, <3>2, BurstNat
  <2>3. LimShape'
    <3>1. tokens[mine[r]] - 1 \in 0 .. Burst
      BY ONLY <1>1, <2>2, BurstNat
    <3>2. tokens' \in [Bucket -> 0 .. Burst]
      BY <1>7, <3>1
    <3>3. ideal' \in Int /\ ideal' <= Burst
      BY ONLY <2>2, BurstNat, LimShape DEF LimShape
    <3>4. pc' \in [Requests -> {"idle", "seen", "allow"}] /\ mine' \in [Requests -> Bucket \cup {0}]
      BY <1>1
    <3> QED BY ONLY <1>1, <3>2, <3>3, <3>4, LimShape DEF LimShape
  <2>4. Places'
    <3>1. \A d \in Bucket : tokens[d] >= Regained(age[d])
      BY DEF Places
    <3>2. Regained(age[mine[r]]) = 0
      BY <1>1, Regaining
    <3>3. \A d \in Bucket : tokens'[d] >= Regained(age[d])
      BY ONLY <1>1, <2>1, <2>2, <3>1, <3>2
    <3>4. \A d \in Bucket : tokens'[d] >= Regained(age[d])'
      BY <1>1, <3>3 DEF Regained
    <3> QED BY ONLY <1>5, <3>4 DEF Places
  <2>5. ReapInv'
    <3>1. reaping => mine[r] = entry
      BY <1>1 DEF OneOld, Old
    <3> QED BY <1>1, <1>7, <2>1, <3>1 DEF ReapInv
  <2>6. Unnoticed'
    <3>1. ~hit => mine[r] = entry
      BY <1>1, Numbers DEF Unnoticed
    <3> QED BY <1>1, <1>2, <1>7, <2>1, <3>1 DEF Unnoticed
  <2>7. Debt'
    <3>1. entry # 0 => entry \in Bucket
      OBVIOUS
    <3>2. CASE mine[r] = entry
      <4>1. entry # 0 /\ age[entry] = 0
        BY <1>1, <3>2
      <4>2. ideal' >= tokens'[entry] - Burst /\ ideal' >= - Burst
        BY ONLY <2>1, <2>2, <3>1, <3>2, <4>1, BurstNat, Debt DEF Debt
      <4>3. ideal' >= AtMost(Rate * age[entry] - Burst, Burst)
        BY ONLY <4>1, <4>2, NoneYet
      <4>4. ASSUME NEW q \in Requests, Old(q)'
            PROVE  ideal' >= tokens'[mine'[q]] - (Burst - tokens'[entry])
        <5>1. Old(q) /\ mine'[q] = mine[q] /\ mine[q] # entry /\ mine[q] \in Bucket
          BY <1>3, <4>4 DEF Old
        <5>2. ideal >= tokens[mine[q]] - (Burst - tokens[entry])
          BY <4>1, <5>1 DEF Debt
        <5> QED BY ONLY <2>1, <2>2, <3>1, <3>2, <4>1, <5>1, <5>2, BurstNat
      <4> QED BY ONLY <1>1, <4>1, <4>2, <4>3, <4>4 DEF Debt
    <3>3. CASE mine[r] # entry
      <4>1. Old(r)
        BY <1>1, <3>3 DEF Old
      <4>2. ideal >= tokens[mine[r]] - (IF entry = 0 THEN 0 ELSE Burst - tokens[entry])
        BY <4>1 DEF Debt
      <4>3. entry # 0 => age[entry] = 0
        BY <4>1 DEF OneOld
      <4>4. entry # 0 => tokens'[entry] = tokens[entry]
        BY ONLY <2>1, <3>1, <3>3
      <4>5. entry = 0 => ideal' >= 0
        BY ONLY <1>1, <2>2, <4>2
      <4>6. entry # 0 => ideal' >= tokens'[entry] - Burst /\ ideal' >= - Burst
        BY ONLY <1>1, <2>2, <3>1, <4>2, <4>4, BurstNat
      <4>7. entry # 0 => ideal' >= AtMost(Rate * age[entry] - Burst, Burst)
        BY ONLY <4>3, <4>6, NoneYet
      <4>8. ASSUME NEW q \in Requests, Old(q)'
            PROVE  ideal' >= tokens'[mine'[q]] - (IF entry = 0 THEN 0 ELSE Burst - tokens'[entry])
        <5>1. mine'[q] = mine[r]
          BY <1>3, <4>1, <4>8 DEF OneOld
        <5>2. tokens'[mine[r]] = tokens[mine[r]] - 1
          BY ONLY <1>1, <2>1
        <5> QED BY ONLY <1>1, <2>2, <3>1, <4>2, <4>4, <5>1, <5>2, BurstNat
      <4> QED BY ONLY <1>1, <4>5, <4>6, <4>7, <4>8 DEF Debt
    <3> QED BY <3>2, <3>3
  <2> QED BY <1>4, <2>3, <2>4, <2>5, <2>6, <2>7
<1> QED BY <1>1, <1>6, <1>7 DEF Allow, Allowed

\* The reaper decides on an entry by its age alone.
LEMMA ExamineLim == LimInv /\ Examine => LimInv'
<1> SUFFICES ASSUME LimInv, Examine PROVE LimInv'
  OBVIOUS
<1> USE LimiterAssumption, Numbers, Regaining
    DEF LimInv, LimShape, Places, ReapInv, Unnoticed, OneOld, Old, Debt
<1>1. /\ entry # 0 /\ age[entry] > Stale /\ reaping' = TRUE
      /\ UNCHANGED <<entry, tokens, age, pc, mine, ideal, hit>>
  BY DEF Examine, IsStale
<1>2. ideal >= Burst
  BY <1>1 DEF AtMost
<1> QED BY <1>1, <1>2

\* The users of the entry are left with an old bucket, the only one.
LEMMA DeleteLim == LimInv /\ Delete => LimInv'
<1> SUFFICES ASSUME LimInv, Delete PROVE LimInv'
  OBVIOUS
<1> USE LimiterAssumption, Numbers, Regaining
    DEF LimInv, LimShape, Places, ReapInv, Unnoticed, OneOld, Old, Debt
<1>1. /\ reaping /\ reaping' = FALSE /\ entry' = 0
      /\ hit' = (hit \/ age[entry] = 0 \/ \E r \in Requests : mine[r] = entry)
      /\ UNCHANGED <<tokens, age, pc, mine, ideal>>
  BY DEF Delete, Deleted
<1>2. tokens[entry] >= 0 /\ (age[entry] > Stale => tokens[entry] = Burst)
  BY <1>1
<1>3. \A r \in Requests : mine[r] \in {0, entry}
  BY <1>1
<1>4. LimShape' /\ Places' /\ ReapInv'
  BY <1>1
<1>5. ideal >= tokens[entry]
  BY <1>1
<1>6. Unnoticed'
  BY <1>1, <1>2, <1>3, <1>5
<1>7. OneOld'
  BY <1>1, <1>3
<1>8. Debt'
  BY <1>1, <1>2, <1>3, <1>5
<1> QED BY <1>4, <1>6, <1>7, <1>8

\* Between requests nobody holds an old bucket.
LEMMA TickLim == LimInv /\ Tick => LimInv'
<1> SUFFICES ASSUME LimInv, Tick PROVE LimInv'
  OBVIOUS
<1> USE LimiterAssumption, Numbers
<1>1. /\ \A r \in Requests : mine[r] = 0
      /\ ~reaping /\ UNCHANGED <<entry, pc, mine, reaping, hit>>
      /\ tokens' = [b \in Bucket |-> AtMost(tokens[b] + Rate, Burst)]
      /\ ideal' = AtMost(ideal + Rate, Burst)
      /\ age' = [b \in Bucket |-> AtMost(age[b] + 1, Stale + 1)]
  BY DEF Tick, LimInv, Places, Refilled
<1>2. LimShape'
  BY <1>1 DEF LimInv, LimShape, AtMost
<1>3. \A b \in Bucket : /\ age[b] \in Nat /\ age'[b] \in Nat /\ age'[b] <= age[b] + 1
                        /\ tokens[b] \in 0 .. Burst
  BY <1>1 DEF LimInv, LimShape, AtMost
<1>4. \A n, m \in Nat : m <= n + 1 => Rate * m <= Rate * n + Rate
  OBVIOUS
<1>5. \A b \in Bucket : Rate * age'[b] <= Rate * age[b] + Rate /\ Rate * age[b] \in Nat
                        /\ Rate * age'[b] \in Nat
  BY <1>3, <1>4
<1>6. ASSUME NEW b \in Bucket PROVE tokens'[b] >= Regained(age'[b])
  <2>1. tokens[b] >= AtMost(Rate * age[b], Burst)
    BY DEF LimInv, Places, Regained
  <2>2. tokens'[b] = AtMost(tokens[b] + Rate, Burst)
    BY <1>1
  <2> QED BY <1>3, <1>5, <2>1, <2>2 DEF Regained, AtMost
<1>7. Places'
  BY <1>1, <1>6 DEF LimInv, Places, LimShape
<1>8. ReapInv' /\ Unnoticed' /\ OneOld'
  BY <1>1 DEF LimInv, LimShape, ReapInv, Unnoticed, OneOld, Old, AtMost
<1>9. Debt'
  <2>1. CASE entry = 0
    BY <1>1, <2>1 DEF LimInv, LimShape, Debt, Old, AtMost
  <2>2. CASE entry # 0
    <3>1. entry \in Bucket /\ ideal \in Int
      BY <2>2 DEF LimInv, LimShape
    <3>2. ideal >= tokens[entry] - Burst /\ ideal >= AtMost(Rate * age[entry] - Burst, Burst)
      BY <2>2 DEF LimInv, Debt
    <3>3. ideal' >= tokens'[entry] - Burst
      BY <1>1, <1>3, <3>1, <3>2 DEF AtMost
    <3>4. ideal' >= AtMost(Rate * age'[entry] - Burst, Burst)
      BY <1>1, <1>5, <3>1, <3>2 DEF AtMost
    <3> QED BY <1>1, <2>2, <3>3, <3>4 DEF Debt, Old
  <2> QED BY <2>1, <2>2
<1> QED BY <1>2, <1>7, <1>8, <1>9 DEF LimInv

\* Every step keeps the invariant.
LEMMA NextLim == LimInv /\ [Next]_vars => LimInv'
<1> SUFFICES ASSUME LimInv, [Next]_vars PROVE LimInv'
  OBVIOUS
<1>1. CASE UNCHANGED vars
  BY <1>1 DEF vars, LimInv, LimShape, Places, ReapInv, Unnoticed, OneOld, Old, Debt
<1> QED BY <1>1, StoreLim, SeenLim, AllowLim, ExamineLim, DeleteLim, TickLim DEF Next, Request

\* The invariant that the two theorems below rest on holds in every reachable state of
\* the limiter and its cleanup goroutine.
THEOREM LimiterInvariant == Spec => []LimInv
BY InitLim, NextLim, PTL DEF Spec


\* The ages of buckets stop at the tick after which they no longer matter.
AgeBound == age \in [Bucket -> 0 .. Stale + 1]

LEMMA NextAge == AgeBound /\ [Next]_vars => AgeBound'
<1> SUFFICES ASSUME AgeBound, [Next]_vars PROVE AgeBound'
  OBVIOUS
<1> USE DEF AgeBound
<1>1. Stale \in Nat
  BY LimiterAssumption
<1>2. CASE Tick
  BY <1>1, <1>2 DEF Tick, AtMost
<1>3. CASE age' = age \/ \E b : age' = [age EXCEPT ![b] = 0]
  BY <1>1, <1>3
<1> QED BY <1>2, <1>3 DEF Next, Request, LoadOrStore, Seen, Allow, Examine, Delete, vars

\* The types: no bucket holds more than a burst or less than nothing, and the pool of
\* buckets is never used up by the requests that still hold old ones.
THEOREM TypeCorrect == Spec => []TypeOK
<1>1. LimInv /\ AgeBound => TypeOK
  BY DEF LimInv, LimShape, AgeBound, TypeOK
<1>2. Init => AgeBound
  BY LimiterAssumption DEF Init, AgeBound
<1> QED BY <1>1, <1>2, LimiterInvariant, NextAge, PTL DEF Spec

\* A bucket is missed by nobody unless it was deleted in use.
THEOREM ReapingAlwaysInvisible == Spec => []ReapingIsInvisible
<1>1. LimInv => ReapingIsInvisible
  BY DEF LimInv, Unnoticed, ReapingIsInvisible
<1> QED BY <1>1, LimiterInvariant, PTL

\* An address is never admitted more than one burst beyond its due.
THEOREM NeverMoreThanTwice == Spec => []AtMostTwice
<1>1. LimInv => AtMostTwice
  BY LimiterAssumption DEF LimInv, LimShape, Debt, AtMostTwice
<1> QED BY <1>1, LimiterInvariant, PTL

-----------------------------------------------------------------------------
(* The response cache.                                                    *)

CacheShape ==
  /\ version \in Version /\ since \in [Version -> Nat]
  /\ cached \in Version \cup {None} /\ left \in 0 .. TTL
  /\ stage \in [Requests -> {"out", "lookup", "handler", "set"}]
  /\ answer \in [Requests -> Version \cup {None, Failure}]
  /\ took \in [Requests -> Nat]

\* What the tables hold now has not been replaced.
Current == \A v \in Version : v >= version => since[v] = 0

\* An answer has been out of date no longer than its request has had it, and
\* neither the handler nor the goroutine has it longer than it may.
Held(r) ==
  /\ stage[r] = "handler" =>
       /\ answer[r] \in Version \cup {Failure} /\ took[r] <= HandlerLimit
       /\ answer[r] \in Version => since[answer[r]] <= took[r]
  /\ stage[r] = "set" =>
       /\ answer[r] \in Version /\ took[r] <= SetLimit
       /\ since[answer[r]] <= HandlerLimit + took[r]

\* Nor the cache.
Kept ==
  cached # None =>
    /\ cached \in Version /\ left >= 1
    /\ since[cached] <= HandlerLimit + SetLimit + (TTL - left)

CacheInv == CacheShape /\ Current /\ (\A r \in Requests : Held(r)) /\ Kept

LEMMA InitCache == WebInit => CacheInv
BY CacheAssumption
DEF WebInit, CacheInv, CacheShape, Version, Current, Held, Kept

\* A refused or admitted request does not touch the cache.
LEMMA LimitedCache ==
  ASSUME CacheInv, NEW r \in Requests, Limited(r)
  PROVE  CacheInv'
<1>1. /\ UNCHANGED <<version, since, cached, left, answer>>
      /\ \/ UNCHANGED <<stage, took>>
         \/ stage' = [stage EXCEPT ![r] = "lookup"] /\ took' = [took EXCEPT ![r] = 0]
  BY DEF Limited, Enter
<1> QED BY <1>1 DEF CacheInv, CacheShape, Current, Held, Kept

LEMMA ServeCache ==
  ASSUME CacheInv, NEW r \in Requests, Serve(r)
  PROVE  CacheInv'
<1> USE CacheAssumption DEF CacheInv, CacheShape, Current, Held, Kept, Enter, Holds
<1>1. CASE Lookup(r)
  <2>1. CASE Enter(r, "lookup", "out") /\ UNCHANGED answer
    BY <1>1, <2>1 DEF Lookup
  <2>2. CASE Enter(r, "lookup", "handler") /\ \E a \in {version, Failure} : Holds(r, a)
    <3>1. PICK a \in {version, Failure} : Holds(r, a)
      BY <2>2
    <3>2. a \in Version => since[a] = 0
      <4>1. Failure \notin Version
        BY DEF Version
      <4>2. since[version] = 0
        BY DEF Version
      <4> QED BY <3>1, <4>1, <4>2
    <3>3. /\ UNCHANGED <<version, since, cached, left>>
          /\ stage[r] = "lookup" /\ stage' = [stage EXCEPT ![r] = "handler"]
          /\ took' = [took EXCEPT ![r] = 0] /\ answer' = [answer EXCEPT ![r] = a]
      BY <1>1, <2>2, <3>1 DEF Lookup
    <3>4. CacheShape'
      BY <3>1, <3>3
    <3>5. ASSUME NEW q \in Requests PROVE Held(q)'
      <4>1. CASE q = r
        BY <3>1, <3>2, <3>3, <4>1
      <4>2. CASE q # r
        BY <3>3, <4>2
      <4> QED BY <4>1, <4>2
    <3> QED BY <3>3, <3>4, <3>5
  <2> QED BY <1>1, <2>1, <2>2 DEF Lookup
<1>2. CASE Answered(r)
  <2>1. CASE Enter(r, "handler", "set") /\ Successful(r) /\ UNCHANGED answer
    <3>1. /\ UNCHANGED <<version, since, cached, left>>
          /\ answer[r] \in Version /\ since[answer[r]] <= HandlerLimit
      BY <1>2, <2>1 DEF Answered, Successful
    <3> QED BY <2>1, <3>1
  <2>2. CASE Enter(r, "handler", "out") /\ Holds(r, None)
    BY <1>2, <2>2 DEF Answered
  <2> QED BY <1>2, <2>1, <2>2 DEF Answered
<1>3. CASE SetInCache(r)
  <2>1. /\ stage[r] = "set" /\ stage' = [stage EXCEPT ![r] = "out"]
        /\ took' = [took EXCEPT ![r] = 0] /\ answer' = [answer EXCEPT ![r] = None]
        /\ UNCHANGED <<version, since>>
        /\ (cached' = answer[r] /\ left' = TTL) \/ UNCHANGED <<cached, left>>
    BY <1>3 DEF SetInCache
  <2>2. answer[r] \in Version /\ since[answer[r]] <= HandlerLimit + SetLimit
    BY <2>1
  <2> QED BY <2>1, <2>2
<1> QED BY <1>1, <1>2, <1>3 DEF Serve

LEMMA WriteCache == CacheInv /\ Write => CacheInv'
BY CacheAssumption DEF Write, CacheInv, CacheShape, Version, Current, Held, Kept

LEMMA TickCache == CacheInv /\ WebTick => CacheInv'
<1> SUFFICES ASSUME CacheInv, WebTick PROVE CacheInv'
  OBVIOUS
<1> USE CacheAssumption
<1>1. /\ UNCHANGED <<version, stage, answer>>
      /\ since' = [v \in Version |-> IF v < version THEN AtMost(since[v] + 1, Oldest) ELSE 0]
      /\ took' = [r \in Requests |->
                    IF stage[r] \in {"handler", "set"} THEN AtMost(took[r] + 1, Oldest) ELSE 0]
      /\ left' = IF left = 0 THEN 0 ELSE left - 1
      /\ cached' = IF left <= 1 THEN None ELSE cached
      /\ \A r \in Requests : Deadline(r)
  BY DEF WebTick, Ages
<1>2. Oldest \in Nat /\ HandlerLimit <= Oldest /\ SetLimit <= Oldest
  BY DEF Oldest
<1>3. CacheShape'
  BY <1>1, <1>2 DEF CacheInv, CacheShape, AtMost
<1>4. \A v \in Version : since'[v] <= since[v] + 1
  BY <1>1, <1>2 DEF CacheInv, CacheShape, AtMost
<1>5. Current'
  BY <1>1 DEF CacheInv, CacheShape, Current, Version
<1>6. ASSUME NEW r \in Requests
      PROVE  Held(r)'
  <2>1. Held(r) /\ Deadline(r) /\ took[r] \in Nat
    BY <1>1 DEF CacheInv, CacheShape
  <2>2. CASE stage[r] = "handler"
    <3>1. took'[r] = took[r] + 1 /\ took[r] + 1 <= HandlerLimit
      BY <1>1, <1>2, <2>1, <2>2 DEF Deadline, AtMost
    <3>2. answer[r] \in Version => since'[answer[r]] <= took'[r]
      BY <1>3, <1>4, <2>1, <2>2, <3>1 DEF Held, CacheInv, CacheShape
    <3> QED BY <1>1, <2>1, <2>2, <3>1, <3>2 DEF Held
  <2>3. CASE stage[r] = "set"
    <3>1. took'[r] = took[r] + 1 /\ took[r] + 1 <= SetLimit
      BY <1>1, <1>2, <2>1, <2>3 DEF Deadline, AtMost
    <3>2. since'[answer[r]] <= HandlerLimit + took'[r]
      BY <1>3, <1>4, <2>1, <2>3, <3>1 DEF Held, CacheInv, CacheShape
    <3> QED BY <1>1, <2>1, <2>3, <3>1, <3>2 DEF Held
  <2> QED BY <1>1, <2>2, <2>3 DEF Held
<1>7. Kept'
  <2> SUFFICES ASSUME cached' # None
               PROVE  cached' \in Version /\ left' >= 1
                      /\ since'[cached'] <= HandlerLimit + SetLimit + (TTL - left')
    BY DEF Kept
  <2>1. cached' = cached /\ left \in Nat /\ left' = left - 1 /\ left > 1
    BY <1>1 DEF CacheInv, CacheShape
  <2>2. cached \in Version /\ since[cached] <= HandlerLimit + SetLimit + (TTL - left)
    BY <2>1 DEF CacheInv, Kept
  <2>3. since[cached] \in Nat /\ since'[cached] \in Nat
    BY <1>3, <2>2 DEF CacheInv, CacheShape
  <2> QED BY <1>4, <2>1, <2>2, <2>3
<1> QED BY <1>3, <1>5, <1>6, <1>7 DEF CacheInv

LEMMA NextCache == CacheInv /\ [WebNext]_webVars => CacheInv'
<1> SUFFICES ASSUME CacheInv, [WebNext]_webVars PROVE CacheInv'
  OBVIOUS
<1>1. CASE UNCHANGED cacheVars
  BY <1>1 DEF cacheVars, CacheInv, CacheShape, Current, Held, Kept
<1> QED BY <1>1, LimitedCache, ServeCache, WriteCache, TickCache DEF WebNext, Reap, webVars

LEMMA CacheRecent == CacheInv => HitsAreRecent
BY CacheAssumption DEF CacheInv, CacheShape, Kept, HitsAreRecent, Oldest

\* However many requests answer, store and read at once, and in whatever order
\* their goroutines reach Valkey, a hit was replaced less than HandlerLimit,
\* SetLimit and TTL together ago.
THEOREM HitsAlwaysRecent == WebSpec => []HitsAreRecent
BY InitCache, NextCache, CacheRecent, PTL DEF WebSpec


\* How long a version has been replaced is counted as far as it matters.
SinceBound == since \in [Version -> 0 .. Oldest]

LEMMA NextSince == SinceBound /\ [WebNext]_webVars => SinceBound'
<1> SUFFICES ASSUME SinceBound, [WebNext]_webVars PROVE SinceBound'
  OBVIOUS
<1> USE DEF SinceBound
<1>1. Oldest \in Nat
  BY CacheAssumption DEF Oldest
<1>2. CASE WebTick
  BY <1>1, <1>2 DEF WebTick, AtMost
<1>3. CASE since' = since
  BY <1>3
<1> QED BY <1>2, <1>3 DEF WebNext, Limited, Serve, Lookup, Answered, SetInCache, Reap, Write,
                          webVars, cacheVars

\* The types of what stands in front of the handlers: in the cache is a version of the
\* tables or nothing, never the answer of a handler that failed.
THEOREM WebTypeCorrect == WebSpec => []WebTypeOK
<1>1. CacheInv /\ SinceBound => WebTypeOK
  BY DEF CacheInv, CacheShape, SinceBound, WebTypeOK
<1>2. WebInit => SinceBound
  BY CacheAssumption DEF WebInit, SinceBound, Oldest
<1> QED BY <1>1, <1>2, InitCache, NextCache, NextSince, PTL DEF WebSpec

-----------------------------------------------------------------------------
(* The limiter in front of the cache.                                       *)

LEMMA LimiterStep == [WebNext]_webVars => [Next]_vars
<1> SUFFICES ASSUME [WebNext]_webVars PROVE [Next]_vars
  OBVIOUS
<1>1. ASSUME NEW r \in Requests, Limited(r) PROVE Next
  BY <1>1 DEF Limited, Next, Request
<1>2. ASSUME NEW r \in Requests, Serve(r) PROVE UNCHANGED vars
  BY <1>2 DEF Serve, Lookup, Answered, SetInCache
<1>3. Reap => Next
  BY DEF Reap, Next
<1>4. Write => UNCHANGED vars
  BY DEF Write
<1>5. WebTick => Next
  BY DEF WebTick, Next
<1>6. UNCHANGED webVars => UNCHANGED vars
  BY DEF webVars
<1> QED BY <1>1, <1>2, <1>3, <1>4, <1>5, <1>6 DEF WebNext

\* The middleware chain runs the limiter and nothing but it: what the cache does with
\* a request that was let through takes no step the limiter would not take.
THEOREM LimiterImplemented == WebSpec => Spec
<1>1. WebInit => Init
  BY DEF WebInit
<1> QED BY <1>1, LimiterStep, PTL DEF WebSpec, Spec

\* So reaping that deletes no bucket in use is invisible in front of the cache, too.
THEOREM WebReapingInvisible == WebSpec => []ReapingIsInvisible
BY LimiterImplemented, ReapingAlwaysInvisible, PTL

\* And nobody gets more than one burst on top of its due there either, however the
\* reaper runs.
THEOREM WebAtMostTwice == WebSpec => []AtMostTwice
BY LimiterImplemented, NeverMoreThanTwice, PTL
=============================================================================
