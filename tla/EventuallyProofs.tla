-------------------------- MODULE EventuallyProofs --------------------------
(***************************************************************************)
(* Proofs about the parts of the node, and of the tools around it, that a  *)
(* program waits for.                                                      *)
(*                                                                         *)
(* RateLimiter: its types, the bound on a flood and the distance of        *)
(* notices, for any number of peers and tasks, any rate, burst and table.  *)
(*                                                                         *)
(* PluginService: its types, that workers only use an open node and clear  *)
(* the cache alone, and that name-card work is waited for with a reason,   *)
(* for any number of sessions and jobs.                                    *)
(*                                                                         *)
(* NativeCalls: the program is handed the events and texts of the node and *)
(* gives the node back once, for any events, slots, buffers and threads.   *)
(*                                                                         *)
(* Calls: a call ends with the last link, and the program is told, for any *)
(* number of calls, connections and frames.                                *)
(*                                                                         *)
(* SharedFiles: a plugin prepares a file for a reason and lists what the   *)
(* node offers, within its limits, for any number of channels, contents,   *)
(* files and sessions.                                                     *)
(*                                                                         *)
(* FriendPresence: its types, and that a friend is shown online over a     *)
(* link only; that the list settles is checked, not proved.                *)
(*                                                                         *)
(* All of it holds of the parts side by side, as they are checked.         *)
(***************************************************************************)
EXTENDS MCEventually, EventDeliveryProofs

-----------------------------------------------------------------------------
(* The rate limiter                                                        *)

(* A reading of the clock is a number, and at most MaxDelay old.           *)
LEMMA ReadingTyped ==
    ASSUME LimiterTypeOK, NEW c \in Callers, call[c] # NoCall
    PROVE  /\ call[c].peer \in LimitedPeers
           /\ call[c].now \in Nat
           /\ call[c].now <= clock /\ clock <= call[c].now + MaxDelay
BY DEF LimiterTypeOK, Calls

(* What is in a bucket is within the burst, and no more than it was and    *)
(* what the rate gives.                                                    *)
LEMMA RefilledBounds ==
    ASSUME LimiterTypeOK, NEW p \in LimitedPeers, NEW now \in Nat
    PROVE  /\ Since(now, last[p]) \in Nat
           /\ Since(now, last[p]) * Rate \in Nat
           /\ Refilled(p, now) \in 0 .. Burst
           /\ Refilled(p, now) <= tokens[p] + Since(now, last[p]) * Rate
<1>1. last[p] \in Nat /\ tokens[p] \in 0 .. Burst BY DEF LimiterTypeOK
<1>2. Since(now, last[p]) \in Nat BY <1>1 DEF Since
<1>3. \A r, d \in Nat : d * r \in Nat OBVIOUS
<1>4. Since(now, last[p]) * Rate \in Nat BY <1>2, <1>3, LimitsAssumption
<1>5. Burst \in Nat BY LimitsAssumption
<1> QED BY <1>1, <1>2, <1>4, <1>5 DEF Refilled, Least

(* The table never keeps more than it may with the peer that is asked      *)
(* about, and only peers it had.                                           *)
LEMMA KeepsBounded ==
    ASSUME LimiterTypeOK, NEW p \in LimitedPeers, NEW now \in Nat, NEW staying \in Keeps(p, now)
    PROVE  /\ staying \subseteq tracked
           /\ staying \cup {p} \subseteq LimitedPeers /\ Cardinality(staying \cup {p}) <= MaxTracked
           /\ p \in staying <=> p \in tracked
<1> DEFINE busy == {q \in tracked : Refilled(q, now) < Burst}
<1>1. IsFiniteSet(tracked) /\ Cardinality(tracked) \in Nat /\ tracked \subseteq LimitedPeers
         /\ Cardinality(tracked) <= MaxTracked /\ MaxTracked \in Nat \ {0}
    BY FS_Subset, FS_CardinalityType, LimitsAssumption DEF LimiterTypeOK
<1>2. CASE p \in tracked
    <2>1. staying = tracked BY <1>2 DEF Keeps
    <2>2. staying \cup {p} = tracked BY <1>2, <2>1
    <2> QED BY <1>1, <2>1, <2>2, <1>2
<1>3. CASE p \notin tracked /\ Cardinality(tracked) < MaxTracked
    <2>1. staying = tracked BY <1>1, <1>3 DEF Keeps
    <2>2. Cardinality(staying \cup {p}) = Cardinality(tracked) + 1 BY <1>1, <1>3, <2>1, FS_AddElement
    <2> QED BY <1>1, <1>3, <2>1, <2>2
<1>4. CASE p \notin tracked /\ Cardinality(tracked) >= MaxTracked
    <2>1. staying \in IF Cardinality(busy) >= MaxTracked THEN {busy \ {q} : q \in busy} ELSE {busy}
        BY <1>4 DEF Keeps, ForgetFull
    <2>2. busy \subseteq tracked OBVIOUS
    <2>3. IsFiniteSet(busy) /\ Cardinality(busy) <= Cardinality(tracked) /\ Cardinality(busy) \in Nat
        BY <1>1, <2>2, FS_Subset, FS_CardinalityType
    <2>4. staying \subseteq tracked /\ IsFiniteSet(staying) /\ Cardinality(staying) < MaxTracked /\ Cardinality(staying) \in Nat
        <3>1. CASE Cardinality(busy) >= MaxTracked
            <4> HIDE DEF busy
            <4>1. PICK q \in busy : staying = busy \ {q} BY <2>1, <3>1
            <4>2. IsFiniteSet(busy \ {q}) /\ Cardinality(busy \ {q}) = Cardinality(busy) - 1
                BY <2>3, <4>1, FS_RemoveElement
            <4> QED BY <1>1, <2>2, <2>3, <3>1, <4>1, <4>2, FS_CardinalityType
        <3>2. CASE ~(Cardinality(busy) >= MaxTracked)
            <4> HIDE DEF busy
            <4> QED BY <1>1, <2>1, <2>2, <2>3, <3>2
        <3> QED BY <3>1, <3>2
    <2>5. p \notin staying BY <1>4, <2>4
    <2>6. Cardinality(staying \cup {p}) = Cardinality(staying) + 1 BY <2>4, <2>5, FS_AddElement
    <2> QED BY <1>1, <1>4, <2>4, <2>5, <2>6
<1> QED BY <1>1, <1>2, <1>3, <1>4

-----------------------------------------------------------------------------
(* Types.                                                                  *)

(* What is left in the bucket of a peer after it was asked about.          *)
LEMMA AvailableTyped ==
    ASSUME LimiterTypeOK, NEW p \in LimitedPeers, NEW now \in Nat
    PROVE  /\ Available(p, now) \in 0 .. Burst
           /\ Available(p, now) >= Token => Available(p, now) - Token \in 0 .. Burst
BY RefilledBounds, LimitsAssumption DEF Available

(* The buckets and their history keep their types when a peer is asked     *)
(* about.                                                                  *)
LEMMA BucketTyped ==
    ASSUME LimiterTypeOK, NEW p \in LimitedPeers, NEW now \in Nat, now <= clock, clock' = clock,
           NEW staying \in Keeps(p, now), NEW left \in 0 .. Burst, Bucket(p, now, staying, left)
    PROVE  /\ tracked' \subseteq LimitedPeers /\ Cardinality(tracked') <= MaxTracked
           /\ tokens' \in [LimitedPeers -> 0 .. Burst] /\ last' \in [LimitedPeers -> Nat]
           /\ credited' \in [LimitedPeers -> Nat] /\ \A q \in LimitedPeers : credited'[q] <= clock'
           /\ regained' \in [LimitedPeers -> Nat] /\ evicted' \in [LimitedPeers -> Nat]
<1>1. Since(credited[p], now) \in Nat BY DEF LimiterTypeOK, Since
<1>2. tracked' \subseteq LimitedPeers /\ Cardinality(tracked') <= MaxTracked
    BY KeepsBounded DEF Bucket
<1>3. tokens' \in [LimitedPeers -> 0 .. Burst] /\ last' \in [LimitedPeers -> Nat]
    BY DEF Bucket, LimiterTypeOK
<1>4. credited' \in [LimitedPeers -> Nat] /\ \A q \in LimitedPeers : credited'[q] <= clock'
    BY DEF Bucket, LimiterTypeOK
<1>5. regained' \in [LimitedPeers -> Nat] BY <1>1 DEF Bucket, LimiterTypeOK
<1>6. evicted' \in [LimitedPeers -> Nat] BY DEF Bucket, LimiterTypeOK
<1> QED BY <1>2, <1>3, <1>4, <1>5, <1>6

(* A call that has ended is none, and the others are as they were.         *)
LEMMA CallOver ==
    ASSUME LimiterTypeOK, NEW c \in Callers, call' = [call EXCEPT ![c] = NoCall], clock' = clock
    PROVE  /\ call' \in [Callers -> Calls]
           /\ \A d \in Callers : call'[d] # NoCall => call'[d].now <= clock' /\ clock' <= call'[d].now + MaxDelay
BY DEF LimiterTypeOK, Calls

LEMMA InitTyped == LimiterInit => LimiterTypeOK
<1> SUFFICES ASSUME LimiterInit PROVE LimiterTypeOK OBVIOUS
<1>1. Cardinality({}) = 0 BY FS_EmptySet
<1>2. 0 \in 0 .. Burst BY LimitsAssumption
<1> QED BY <1>1, <1>2, LimitsAssumption DEF LimiterInit, LimiterTypeOK, Calls

LEMMA StepTyped == LimiterTypeOK /\ [LimiterNext]_limiterVars => LimiterTypeOK'
<1> SUFFICES ASSUME LimiterTypeOK, [LimiterNext]_limiterVars PROVE LimiterTypeOK' OBVIOUS
<1>1. CASE UNCHANGED limiterVars BY <1>1 DEF limiterVars, LimiterTypeOK, Calls
<1>2. CASE Tick
    <2>1. \A c \in Callers : call[c] # NoCall => call[c] \in [peer : LimitedPeers, now : Nat]
        BY DEF LimiterTypeOK, Calls
    <2>2. \A c \in Callers : call'[c] # NoCall => call'[c].now <= clock' /\ clock' <= call'[c].now + MaxDelay
        BY <1>2, <2>1, LimitsAssumption DEF Tick, LimiterTypeOK
    <2> QED BY <1>2, <2>2, LimitsAssumption DEF Tick, LimiterTypeOK, Calls
<1>3. CASE CountFromNow BY <1>3 DEF CountFromNow, LimiterTypeOK, Calls
<1>4. ASSUME NEW c \in Callers, NEW p \in LimitedPeers, Ask(c, p) PROVE LimiterTypeOK'
    <2>1. call' \in [Callers -> Calls]
        BY <1>4 DEF Ask, LimiterTypeOK, Calls
    <2>2. \A d \in Callers : call'[d] # NoCall => call'[d].now <= clock' /\ clock' <= call'[d].now + MaxDelay
        BY <1>4, LimitsAssumption DEF Ask, LimiterTypeOK, Calls
    <2> QED BY <1>4, <2>1, <2>2 DEF Ask, LimiterTypeOK
<1>5. ASSUME NEW c \in Callers, call[c] # NoCall,
             Allow(c) \/ RefuseWarn(c) \/ RefuseQuiet(c)
      PROVE  LimiterTypeOK'
    <2> DEFINE p == call[c].peer  now == call[c].now
    <2>1. p \in LimitedPeers /\ now \in Nat /\ now <= clock BY <1>5, ReadingTyped
    <2>2. clock' = clock /\ from' = from /\ call' = [call EXCEPT ![c] = NoCall]
        BY <1>5 DEF Allow, RefuseWarn, RefuseQuiet, Refuse
    <2>3. PICK staying \in Keeps(p, now), left \in 0 .. Burst : Bucket(p, now, staying, left)
        <3> HIDE DEF p, now
        <3>1. Available(p, now) \in 0 .. Burst /\ (Available(p, now) >= Token => Available(p, now) - Token \in 0 .. Burst)
            BY <2>1, AvailableTyped
        <3> QED BY <1>5, <3>1 DEF Allow, RefuseWarn, RefuseQuiet, Refuse, p, now
    <2>4. /\ tracked' \subseteq LimitedPeers /\ Cardinality(tracked') <= MaxTracked
          /\ tokens' \in [LimitedPeers -> 0 .. Burst] /\ last' \in [LimitedPeers -> Nat]
          /\ credited' \in [LimitedPeers -> Nat] /\ \A q \in LimitedPeers : credited'[q] <= clock'
          /\ regained' \in [LimitedPeers -> Nat] /\ evicted' \in [LimitedPeers -> Nat]
        <3> HIDE DEF p, now
        <3> QED BY <2>1, <2>2, <2>3, BucketTyped
    <2>5. accepted' \in [LimitedPeers -> Nat]
        BY <1>5, <2>1, LimitsAssumption DEF Allow, RefuseWarn, RefuseQuiet, Refuse, LimiterTypeOK
    <2>6. warned' \subseteq LimitedPeers /\ warnedAt' \in [LimitedPeers -> Nat] /\ noticed' \in [LimitedPeers -> Nat \cup {-1}]
        BY <1>5, <2>1 DEF Allow, RefuseWarn, RefuseQuiet, Recent, LimiterTypeOK
    <2> HIDE DEF p, now
    <2>7. /\ call' \in [Callers -> Calls]
          /\ \A d \in Callers : call'[d] # NoCall => call'[d].now <= clock' /\ clock' <= call'[d].now + MaxDelay
        BY <2>2, CallOver
    <2> QED BY <2>2, <2>4, <2>5, <2>6, <2>7 DEF LimiterTypeOK
<1> QED BY <1>1, <1>2, <1>3, <1>4, <1>5 DEF LimiterNext, Allow, RefuseWarn, RefuseQuiet

(* The variables have their types, and the table stays within its limit.   *)
THEOREM LimiterTyped == LimiterSpec => []LimiterTypeOK
BY InitTyped, StepTyped, PTL DEF LimiterSpec

-----------------------------------------------------------------------------
(* The flood.  FloodBounded speaks of what was accepted alone; the next    *)
(* frame spends what is in the bucket, so the invariant bounds both        *)
(* together.  A bucket that was not touched since the moment counted from  *)
(* has let nothing through since, and fills up to the burst, no further.   *)

Elapsed(p) == Since(credited[p] + MaxDelay, from) + regained[p]

Accounts(p) ==
    /\ p \in tracked => /\ last[p] = credited[p]
                       /\ accepted[p] + tokens[p] <= Burst * (1 + evicted[p]) + Rate * Elapsed(p)
    /\ p \notin tracked => accepted[p] <= Burst * evicted[p] + Rate * Elapsed(p)
    /\ credited[p] + MaxDelay < from => accepted[p] = 0

FloodInv == LimiterTypeOK /\ \A p \in LimitedPeers : Accounts(p)

(* Products of natural numbers: what the proofs below need of them.        *)
LEMMA Products ==
    ASSUME NEW k \in Nat, NEW x \in Nat, NEW y \in Nat
    PROVE  k * x \in Nat /\ k * (x + y) = k * x + k * y /\ (x <= y => k * x <= k * y) /\ k * 1 = k
OBVIOUS

LEMMA FloodImplied == FloodInv => FloodBounded
<1> SUFFICES ASSUME FloodInv, NEW p \in LimitedPeers
             PROVE  accepted[p] <= Burst * (1 + evicted[p]) + Rate * (clock - from + MaxDelay + regained[p])
    BY DEF FloodBounded
<1>1. /\ clock \in Nat /\ from \in 0 .. clock /\ credited[p] \in Nat /\ credited[p] <= clock
      /\ regained[p] \in Nat /\ evicted[p] \in Nat /\ tokens[p] \in 0 .. Burst
      /\ Burst \in Nat /\ Rate \in Nat /\ MaxDelay \in Nat /\ accepted[p] \in Nat
    BY LimitsAssumption DEF FloodInv, LimiterTypeOK
<1> DEFINE whole == clock - from + MaxDelay + regained[p]
<1>2. Elapsed(p) \in Nat /\ whole \in Nat /\ Elapsed(p) <= whole BY <1>1 DEF Elapsed, Since
<1> HIDE DEF whole
<1>3. Rate * Elapsed(p) \in Nat /\ Rate * whole \in Nat /\ Rate * Elapsed(p) <= Rate * whole
    BY <1>1, <1>2, Products
<1>4. Burst * (1 + evicted[p]) = Burst + Burst * evicted[p] /\ Burst * evicted[p] \in Nat
    BY <1>1, Products
<1>5. accepted[p] <= Burst * (1 + evicted[p]) + Rate * Elapsed(p)
    BY <1>1, <1>3, <1>4 DEF FloodInv, Accounts
<1>6. accepted[p] <= Burst * (1 + evicted[p]) + Rate * whole
    BY <1>1, <1>3, <1>4, <1>5
<1> QED BY <1>6 DEF whole

(* What was accepted and what is in the bucket, at this reading of the     *)
(* clock, are within what a reading of the clock accounts for.             *)
LEMMA AvailableAccounted ==
    ASSUME FloodInv, NEW p \in LimitedPeers, NEW now \in Nat, now <= clock, clock <= now + MaxDelay
    PROVE  accepted[p] + Available(p, now)
             <= Burst * (1 + evicted[p])
                + Rate * (Since(now + MaxDelay, from) + (regained[p] + Since(credited[p], now)))
<1>1. /\ clock \in Nat /\ from \in 0 .. clock /\ credited[p] \in Nat /\ credited[p] <= clock
      /\ regained[p] \in Nat /\ evicted[p] \in Nat /\ tokens[p] \in 0 .. Burst /\ last[p] \in Nat
      /\ Burst \in Nat /\ Rate \in Nat /\ MaxDelay \in Nat /\ accepted[p] \in Nat
      /\ LimiterTypeOK /\ Accounts(p)
    BY LimitsAssumption DEF FloodInv, LimiterTypeOK
<1> DEFINE after == Since(now + MaxDelay, from) + (regained[p] + Since(credited[p], now))
<1>2. Elapsed(p) \in Nat /\ after \in Nat /\ Since(now, last[p]) \in Nat BY <1>1 DEF Elapsed, Since
<1>3. Burst * (1 + evicted[p]) = Burst + Burst * evicted[p] /\ Burst * evicted[p] \in Nat
    BY <1>1, Products
<1>4. Available(p, now) \in 0 .. Burst BY <1>1, AvailableTyped
<1>5. Rate * after \in Nat BY <1>1, <1>2, Products
<1>6. CASE credited[p] + MaxDelay < from
    <2>1. accepted[p] = 0 BY <1>1, <1>6 DEF Accounts
    <2> HIDE DEF after
    <2>2. accepted[p] + Available(p, now) <= Burst * (1 + evicted[p]) + Rate * after
        BY <1>1, <1>3, <1>4, <1>5, <2>1
    <2> QED BY <2>2 DEF after
<1>7. CASE ~(credited[p] + MaxDelay < from) /\ p \in tracked
    <2>1. last[p] = credited[p] /\ Elapsed(p) + Since(now, last[p]) <= after
        BY <1>1, <1>7 DEF Accounts, Elapsed, Since
    <2> HIDE DEF after
    <2>2. Rate * Elapsed(p) + Rate * Since(now, last[p]) <= Rate * after
        <3>1. Rate * (Elapsed(p) + Since(now, last[p])) = Rate * Elapsed(p) + Rate * Since(now, last[p])
            BY <1>1, <1>2, Products
        <3>2. Rate * (Elapsed(p) + Since(now, last[p])) <= Rate * after
            <4>1. Elapsed(p) + Since(now, last[p]) \in Nat BY <1>2
            <4> QED BY <1>1, <1>2, <2>1, <4>1, Products
        <3> QED BY <3>1, <3>2
    <2>3. Available(p, now) <= tokens[p] + Rate * Since(now, last[p])
        <3>1. Since(now, last[p]) * Rate = Rate * Since(now, last[p]) BY <1>1, <1>2
        <3> QED BY <1>1, <1>7, <3>1, RefilledBounds DEF Available
    <2>4. accepted[p] + tokens[p] <= Burst * (1 + evicted[p]) + Rate * Elapsed(p)
        BY <1>1, <1>7 DEF Accounts
    <2>5. Rate * Elapsed(p) \in Nat /\ Rate * Since(now, last[p]) \in Nat BY <1>1, <1>2, Products
    <2>6. accepted[p] + Available(p, now) <= Burst * (1 + evicted[p]) + Rate * after
        BY <1>1, <1>3, <1>4, <1>5, <2>2, <2>3, <2>4, <2>5
    <2> QED BY <2>6 DEF after
<1>8. CASE ~(credited[p] + MaxDelay < from) /\ p \notin tracked
    <2>1. Elapsed(p) <= after BY <1>1, <1>8 DEF Elapsed, Since
    <2> HIDE DEF after
    <2>2. Rate * Elapsed(p) <= Rate * after /\ Rate * Elapsed(p) \in Nat BY <1>1, <1>2, <2>1, Products
    <2>3. accepted[p] <= Burst * evicted[p] + Rate * Elapsed(p) BY <1>1, <1>8 DEF Accounts
    <2>4. accepted[p] + Available(p, now) <= Burst * (1 + evicted[p]) + Rate * after
        BY <1>1, <1>3, <1>4, <1>5, <2>2, <2>3
    <2> QED BY <2>4 DEF after
<1> QED BY <1>6, <1>7, <1>8

(* The accounts of the peer that is asked about: what it spends was in its *)
(* bucket.                                                                 *)
LEMMA AskedAccounted ==
    ASSUME FloodInv, NEW p \in LimitedPeers, NEW now \in Nat, now <= clock, clock <= now + MaxDelay,
           NEW staying \in Keeps(p, now), NEW left \in 0 .. Burst, Bucket(p, now, staying, left),
           from' = from, accepted'[p] \in Nat, accepted'[p] + left = accepted[p] + Available(p, now)
    PROVE  Accounts(p)'
<1>1. LimiterTypeOK /\ MaxDelay \in Nat /\ Burst \in Nat BY LimitsAssumption DEF FloodInv
<1>2. tracked' = staying \cup {p} /\ tokens'[p] = left /\ last'[p] = now /\ credited'[p] = now
      /\ regained'[p] = regained[p] + Since(credited[p], now)
    BY <1>1 DEF Bucket, LimiterTypeOK
<1>3. evicted'[p] = evicted[p] BY <1>1, KeepsBounded DEF Bucket
<1>4. ~(credited'[p] + MaxDelay < from') BY <1>1, <1>2 DEF LimiterTypeOK
<1>5. Elapsed(p)' = Since(now + MaxDelay, from) + (regained[p] + Since(credited[p], now))
    BY <1>2 DEF Elapsed
<1>6. accepted[p] + Available(p, now) <= Burst * (1 + evicted[p]) + Rate * Elapsed(p)'
    BY <1>5, AvailableAccounted
<1> QED BY <1>2, <1>3, <1>4, <1>6 DEF Accounts

(* The accounts of the others: a bucket that was forgotten full gives back *)
(* a burst, any other costs one.                                           *)
LEMMA OthersAccounted ==
    ASSUME FloodInv, NEW p \in LimitedPeers, NEW now \in Nat, now <= clock, clock <= now + MaxDelay,
           NEW staying \in Keeps(p, now), NEW left \in 0 .. Burst, Bucket(p, now, staying, left),
           from' = from, NEW q \in LimitedPeers, q # p, accepted'[q] = accepted[q]
    PROVE  Accounts(q)'
<1>1. /\ clock \in Nat /\ from \in 0 .. clock /\ credited[q] \in Nat /\ credited[q] <= clock
      /\ regained[q] \in Nat /\ evicted[q] \in Nat /\ tokens[q] \in 0 .. Burst /\ last[q] \in Nat
      /\ Burst \in Nat /\ Rate \in Nat /\ MaxDelay \in Nat /\ accepted[q] \in Nat
      /\ LimiterTypeOK /\ Accounts(q) /\ staying \subseteq tracked
    BY LimitsAssumption, KeepsBounded DEF FloodInv, LimiterTypeOK
<1>2. tracked' = staying \cup {p} /\ tokens'[q] = tokens[q] /\ last'[q] = last[q] /\ regained'[q] = regained[q]
    BY <1>1 DEF Bucket, LimiterTypeOK
<1>3. evicted'[q] = IF q \in tracked \ staying /\ Refilled(q, now) < Burst THEN evicted[q] + 1 ELSE evicted[q]
    BY DEF Bucket
<1>4. credited'[q] = IF q \in tracked \ staying /\ now > credited[q] THEN now ELSE credited[q]
    BY DEF Bucket
<1>5. CASE q \notin tracked \/ q \in staying
    <2>1. credited'[q] = credited[q] /\ evicted'[q] = evicted[q] BY <1>4, <1>3, <1>5
    <2>2. q \in tracked' <=> q \in tracked BY <1>1, <1>2, <1>5
    <2>3. Elapsed(q)' = Elapsed(q) BY <1>2, <2>1 DEF Elapsed
    <2> QED BY <1>1, <1>2, <2>1, <2>2, <2>3 DEF Accounts
<1>6. CASE q \in tracked \ staying
    <2>1. q \notin tracked' /\ credited'[q] = (IF now > credited[q] THEN now ELSE credited[q])
        BY <1>2, <1>4, <1>6
    <2>2. Elapsed(q) \in Nat /\ Elapsed(q)' \in Nat /\ Elapsed(q) <= Elapsed(q)'
        BY <1>1, <1>2, <2>1 DEF Elapsed, Since
    <2>3. credited'[q] + MaxDelay < from' => accepted'[q] = 0
        BY <1>1, <2>1 DEF Accounts
    <2>4. Burst * (1 + evicted[q]) = Burst + Burst * evicted[q] /\ Burst * evicted[q] \in Nat
        BY <1>1, Products
    <2>5. Rate * Elapsed(q) <= Rate * Elapsed(q)' /\ Rate * Elapsed(q) \in Nat /\ Rate * Elapsed(q)' \in Nat
        BY <1>1, <2>2, Products
    <2>6. CASE Refilled(q, now) < Burst
        <3>1. evicted'[q] = 1 + evicted[q] BY <1>1, <1>3, <1>6, <2>6
        <3>2. accepted[q] + tokens[q] <= Burst * (1 + evicted[q]) + Rate * Elapsed(q)
            BY <1>1, <1>6 DEF Accounts
        <3>3. accepted[q] <= Burst * (1 + evicted[q]) + Rate * Elapsed(q)'
            BY <1>1, <2>4, <2>5, <3>2
        <3> QED BY <2>1, <2>3, <3>1, <3>3 DEF Accounts
    <2>7. CASE ~(Refilled(q, now) < Burst)
        <3>1. evicted'[q] = evicted[q] BY <1>3, <2>7
        <3>2. Available(q, now) >= Burst
            BY <1>1, <1>6, <2>7, RefilledBounds DEF Available
        <3>3. Elapsed(q)' = Since(now + MaxDelay, from) + (regained[q] + Since(credited[q], now))
            BY <1>1, <1>2, <2>1 DEF Elapsed, Since
        <3>4. accepted[q] + Available(q, now) <= Burst * (1 + evicted[q]) + Rate * Elapsed(q)'
            BY <3>3, AvailableAccounted
        <3>5. Available(q, now) \in 0 .. Burst BY <1>1, AvailableTyped
        <3>6. accepted[q] <= Burst * evicted[q] + Rate * Elapsed(q)'
            BY <1>1, <2>4, <2>5, <3>2, <3>4, <3>5
        <3> QED BY <2>1, <2>3, <3>1, <3>6 DEF Accounts
    <2> QED BY <2>6, <2>7
<1> QED BY <1>5, <1>6

LEMMA FloodInit == LimiterInit => FloodInv
<1> SUFFICES ASSUME LimiterInit, NEW p \in LimitedPeers PROVE Accounts(p)
    BY InitTyped DEF FloodInv
<1>1. accepted[p] = 0 /\ evicted[p] = 0 /\ tracked = {} /\ Elapsed(p) \in Nat
    BY LimitsAssumption DEF LimiterInit, Elapsed, Since
<1>2. Rate * Elapsed(p) \in Nat /\ Burst * 0 = 0 BY <1>1, LimitsAssumption, Products
<1> QED BY <1>1, <1>2 DEF Accounts

LEMMA FloodStep == FloodInv /\ [LimiterNext]_limiterVars => FloodInv'
<1> SUFFICES ASSUME FloodInv, [LimiterNext]_limiterVars PROVE FloodInv' OBVIOUS
<1>0. LimiterTypeOK /\ LimiterTypeOK' BY StepTyped DEF FloodInv
<1>1. CASE UNCHANGED limiterVars
    BY <1>0, <1>1 DEF limiterVars, FloodInv, Accounts, Elapsed
<1>2. CASE Tick BY <1>0, <1>2 DEF Tick, FloodInv, Accounts, Elapsed
<1>3. CASE CountFromNow
    <2> SUFFICES ASSUME NEW p \in LimitedPeers PROVE Accounts(p)' BY <1>0 DEF FloodInv
    <2>1. /\ accepted'[p] = 0 /\ evicted'[p] = 0 /\ tokens'[p] = tokens[p] /\ last'[p] = last[p]
          /\ credited'[p] = credited[p] /\ tracked' = tracked /\ tokens[p] \in 0 .. Burst
          /\ Burst \in Nat /\ Rate \in Nat
        BY <1>0, <1>3, LimitsAssumption DEF CountFromNow, LimiterTypeOK
    <2>2. Elapsed(p)' \in Nat BY <1>0, LimitsAssumption DEF Elapsed, Since, LimiterTypeOK
    <2>3. Rate * Elapsed(p)' \in Nat /\ Burst * 0 = 0 /\ Burst * (1 + 0) = Burst
        BY <2>1, <2>2, Products
    <2>4. p \in tracked => last[p] = credited[p] BY DEF FloodInv, Accounts
    <2> QED BY <2>1, <2>2, <2>3, <2>4 DEF Accounts
<1>4. ASSUME NEW c \in Callers, NEW p \in LimitedPeers, Ask(c, p) PROVE FloodInv'
    BY <1>0, <1>4 DEF Ask, FloodInv, Accounts, Elapsed
<1>5. ASSUME NEW c \in Callers, call[c] # NoCall, Allow(c) \/ RefuseWarn(c) \/ RefuseQuiet(c)
      PROVE  FloodInv'
    <2> DEFINE p == call[c].peer  now == call[c].now
    <2>1. p \in LimitedPeers /\ now \in Nat /\ now <= clock /\ clock <= now + MaxDelay
        BY <1>0, <1>5, ReadingTyped
    <2> HIDE DEF p, now
    <2>2. Available(p, now) \in 0 .. Burst /\ (Available(p, now) >= Token => Available(p, now) - Token \in 0 .. Burst)
        BY <1>0, <2>1, AvailableTyped
    <2>3. \E staying \in Keeps(p, now), left \in 0 .. Burst :
             /\ Bucket(p, now, staying, left) /\ accepted'[p] + left = accepted[p] + Available(p, now)
             /\ \A q \in LimitedPeers : q # p => accepted'[q] = accepted[q]
        <3>1. CASE Allow(c)
            <4>1. /\ Available(p, now) >= Token /\ accepted' = [accepted EXCEPT ![p] = @ + Token]
                  /\ \E staying \in Keeps(p, now) : Bucket(p, now, staying, Available(p, now) - Token)
                BY <3>1 DEF Allow, p, now
            <4>2. accepted'[p] = accepted[p] + Token /\ accepted[p] \in Nat /\ Token \in Nat
                  /\ \A q \in LimitedPeers : q # p => accepted'[q] = accepted[q]
                BY <1>0, <2>1, <4>1, LimitsAssumption DEF LimiterTypeOK
            <4>3. accepted'[p] + (Available(p, now) - Token) = accepted[p] + Available(p, now)
                BY <2>2, <4>2
            <4> QED BY <2>2, <4>1, <4>2, <4>3
        <3>2. CASE RefuseWarn(c) \/ RefuseQuiet(c)
            <4>1. accepted' = accepted /\ \E staying \in Keeps(p, now) : Bucket(p, now, staying, Available(p, now))
                BY <3>2 DEF RefuseWarn, RefuseQuiet, Refuse, p, now
            <4> QED BY <2>2, <4>1
        <3> QED BY <1>5, <3>1, <3>2
    <2>4. from' = from BY <1>5 DEF Allow, RefuseWarn, RefuseQuiet, Refuse
    <2>5. \A q \in LimitedPeers : accepted'[q] \in Nat BY <1>0 DEF LimiterTypeOK
    <2>6. \A q \in LimitedPeers : Accounts(q)'
        BY <2>1, <2>3, <2>4, <2>5, AskedAccounted, OthersAccounted
    <2> QED BY <1>0, <2>6 DEF FloodInv
<1> QED BY <1>1, <1>2, <1>3, <1>4, <1>5 DEF LimiterNext, Allow, RefuseWarn, RefuseQuiet

(* A flood is bounded, from any moment on.                                 *)
THEOREM FloodsBounded == LimiterSpec => []FloodBounded
BY FloodInit, FloodStep, FloodImplied, PTL DEF LimiterSpec

-----------------------------------------------------------------------------
(* Notices.  One that is no longer remembered is at least NOTICE_EVERY old *)
(* by the clock, for the reading it was forgotten at is not ahead of it.   *)

NoticeRemembered ==
    \A p \in LimitedPeers :
        /\ p \in warned => noticed[p] = warnedAt[p]
        /\ noticed[p] <= clock
        /\ p \notin warned /\ noticed[p] # -1 => noticed[p] + NoticeEvery <= clock

NoticeInv == LimiterTypeOK /\ NoticeRemembered
Apart ==
    \A p \in LimitedPeers :
        noticed[p] # -1 /\ noticed'[p] # noticed[p] => noticed'[p] + MaxDelay >= noticed[p] + NoticeEvery

LEMMA NoticeStep == NoticeInv /\ [LimiterNext]_limiterVars => NoticeInv' /\ Apart
<1> SUFFICES ASSUME NoticeInv, [LimiterNext]_limiterVars PROVE NoticeInv' /\ Apart OBVIOUS
<1>0. LimiterTypeOK /\ LimiterTypeOK' /\ NoticeRemembered BY StepTyped DEF NoticeInv
<1>1. CASE UNCHANGED limiterVars BY <1>0, <1>1 DEF limiterVars, NoticeInv, NoticeRemembered, Apart
<1>2. CASE Tick BY <1>0, <1>2, LimitsAssumption DEF Tick, NoticeInv, NoticeRemembered, Apart, LimiterTypeOK
<1>3. CASE CountFromNow BY <1>0, <1>3 DEF CountFromNow, NoticeInv, NoticeRemembered, Apart
<1>4. CASE \E c \in Callers, p \in LimitedPeers : Ask(c, p)
    BY <1>0, <1>4 DEF Ask, NoticeInv, NoticeRemembered, Apart
<1>5. CASE \E c \in Callers : Allow(c) BY <1>0, <1>5 DEF Allow, NoticeInv, NoticeRemembered, Apart
<1>6. ASSUME NEW c \in Callers, RefuseQuiet(c) PROVE NoticeInv' /\ Apart
    <2>1. call[c].now \in Nat /\ call[c].now <= clock BY <1>0, <1>6, ReadingTyped DEF RefuseQuiet
    <2>2. warned' = Recent(call[c].now) /\ clock' = clock /\ warnedAt' = warnedAt /\ noticed' = noticed
        BY <1>6 DEF RefuseQuiet, Refuse
    <2> QED BY <1>0, <2>1, <2>2, LimitsAssumption DEF NoticeInv, NoticeRemembered, Apart, Recent, Since, LimiterTypeOK
<1>7. ASSUME NEW c \in Callers, RefuseWarn(c) PROVE NoticeInv' /\ Apart
    <2> DEFINE p == call[c].peer  now == call[c].now
    <2>1. p \in LimitedPeers /\ now \in Nat /\ now <= clock /\ clock <= now + MaxDelay
        BY <1>0, <1>7, ReadingTyped DEF RefuseWarn
    <2>2. /\ Due(p, now) /\ warned' = Recent(now) \cup {p} /\ clock' = clock
          /\ warnedAt' = [warnedAt EXCEPT ![p] = now] /\ noticed' = [noticed EXCEPT ![p] = now]
        BY <1>7 DEF RefuseWarn, Refuse
    <2> HIDE DEF p, now
    <2>3. NoticeInv'
        BY <1>0, <2>1, <2>2, LimitsAssumption DEF NoticeInv, NoticeRemembered, Recent, Since, LimiterTypeOK
    <2>4. Apart
        <3>1. \A q \in LimitedPeers : q # p => noticed'[q] = noticed[q] BY <1>0, <2>2 DEF LimiterTypeOK
        <3>2. noticed[p] # -1 => now + MaxDelay >= noticed[p] + NoticeEvery
            BY <1>0, <2>1, <2>2, LimitsAssumption DEF NoticeRemembered, Due, Recent, Since, LimiterTypeOK
        <3>3. noticed'[p] = now BY <1>0, <2>1, <2>2 DEF LimiterTypeOK
        <3> QED BY <3>1, <3>2, <3>3 DEF Apart
    <2> QED BY <2>3, <2>4
<1> QED BY <1>1, <1>2, <1>3, <1>4, <1>5, <1>6, <1>7 DEF LimiterNext

(* Two notices about a peer are as far apart as they should be.            *)
THEOREM NoticesKeptApart == LimiterSpec => NoticesApart
<1>1. LimiterInit => NoticeInv
    BY InitTyped, LimitsAssumption DEF NoticeInv, NoticeRemembered, LimiterInit
<1>2. NoticeInv /\ [LimiterNext]_limiterVars => [Apart]_limiterVars BY NoticeStep
<1>3. NoticesApart <=> [][Apart]_limiterVars BY DEF NoticesApart, Apart
<1> QED BY <1>1, <1>2, <1>3, NoticeStep, PTL DEF LimiterSpec

-----------------------------------------------------------------------------
(* The plugin's service, its nodes and its background tasks.               *)

(* Who is behind the gate.                                                 *)
InGate(t) ==
    \/ t.kind \in {"open", "close", "stop", "clear"} /\ t.at = "in"
    \/ t.kind = "prepare" /\ t.at \in {"in", "called"}

(* One task at a time, or the unload, is behind the gate.                  *)
Gated ==
    /\ \A t \in background : InGate(t) => gate = {t.kind}
    /\ \A t, u \in background : InGate(t) /\ InGate(u) => t = u
    /\ unload = "closing" => gate = {"dispose"}

(* A task has an open node in hand.                                        *)
Holds(t) == t.kind \in {"open", "close", "stop"} /\ t.at \in {"check", "wait", "in"}
IsOpen(g) == nodes[g] \in {"open", "closing"}
OpenedAt(i) == onFramework[i].does = "Opened"

(* A node that is open is in the hands of one task, or its answer is       *)
(* queued, or it is the service's; and no other is open.                   *)
OneOpen == \A g, k \in Generations : IsOpen(g) /\ IsOpen(k) => g = k
Opening ==
    /\ \A g \in Generations : g > generation => nodes[g] = "none"
    /\ \A t \in background : t.kind = "open" =>
          /\ t.gen \in Generations /\ t.gen <= generation /\ t.node = t.gen /\ t.work = NoWork
          /\ t.at = "opening" => nodes[t.node] = "none"
    /\ \A t \in background : t.at \in {"opening", "check"} => t.kind = "open"
InHand ==
    /\ \A t \in background : Holds(t) =>
          /\ t.node \in Generations
          /\ nodes[t.node] = IF t.at = "in" THEN "closing" ELSE "open"
    /\ \A i \in DOMAIN onFramework : OpenedAt(i) =>
          onFramework[i].gen \in Generations /\ nodes[onFramework[i].gen] = "open"
    /\ node # NoNode =>
          /\ unload # "gone"
          /\ nodes[node] = IF unload = "closing" THEN "closing" ELSE "open"
OneHolder ==
    /\ \A t, u \in background : Holds(t) /\ Holds(u) => t = u
    /\ \A i, j \in DOMAIN onFramework : OpenedAt(i) /\ OpenedAt(j) => i = j
    /\ \A t \in background, i \in DOMAIN onFramework : ~(Holds(t) /\ OpenedAt(i))
    /\ node # NoNode => /\ \A t \in background : ~Holds(t)
                        /\ \A i \in DOMAIN onFramework : ~OpenedAt(i)
SomeHolder ==
    \A g \in Generations : IsOpen(g) =>
        \/ node = g
        \/ \E t \in background : Holds(t) /\ t.node = g
        \/ \E i \in DOMAIN onFramework : OpenedAt(i) /\ onFramework[i].gen = g

(* A worker of this session is for the service's node, and one that called *)
(* it keeps it open.                                                       *)
Working ==
    \A t \in background : t.kind = "prepare" =>
        /\ t.gen <= generation /\ t.node # NoNode
        /\ t.gen = generation => t.node = node /\ unload = "live"
        /\ t.at \in {"in", "called"} => nodes[t.node] = "open"

(* The cache is deleted by one task, while there is nothing else.          *)
Clearing ==
    /\ \A t, u \in background : t.kind = "clear" /\ u.kind = "clear" => t = u
    /\ \A i, j \in DOMAIN onFramework :
          onFramework[i].does = "CacheCleared" /\ onFramework[j].does = "CacheCleared" => i = j
    /\ \A t \in background, i \in DOMAIN onFramework :
          ~(t.kind = "clear" /\ onFramework[i].does = "CacheCleared")
    /\ \A t \in background : t.kind = "clear" => cacheBusy
    /\ \A i \in DOMAIN onFramework : onFramework[i].does = "CacheCleared" => cacheBusy
    /\ cacheBusy =>
          /\ node = NoNode /\ \A t \in background : t.kind = "clear"
          /\ \A i \in DOMAIN onFramework : onFramework[i].does = "CacheCleared"
          /\ \A g \in Generations : ~IsOpen(g)

PluginInv ==
    /\ PluginTypeOK /\ Gated /\ OneOpen /\ Opening /\ InHand /\ OneHolder /\ SomeHolder
    /\ Working /\ Clearing

-----------------------------------------------------------------------------
(* Tasks and answers                                                       *)

(* A task that moves is the same at another place.                         *)
LEMMA MoveIs ==
  ASSUME PluginTypeOK, NEW t \in background, NEW at \in {"check", "wait", "in", "called", "out"},
         MovesTo(t, at)
  PROVE  \E m \in Task :
            /\ background' = (background \ {t}) \cup {m}
            /\ m.at = at /\ m.kind = t.kind /\ m.gen = t.gen /\ m.node = t.node /\ m.work = t.work
<1> DEFINE m == [t EXCEPT !.at = at]
<1>1. t \in Task
  BY DEF PluginTypeOK
<1>2. m \in Task /\ m.at = at /\ m.kind = t.kind /\ m.gen = t.gen /\ m.node = t.node /\ m.work = t.work
  BY <1>1 DEF Task
<1>3. background' = (background \ {t}) \cup {m}
  BY DEF MovesTo
<1> HIDE DEF m
<1> QED
  BY <1>2, <1>3

(* A call moves the task too, and may give it a job.                       *)
LEMMA CallIs ==
  ASSUME PluginTypeOK, NEW t \in background, WorkerCalls(t)
  PROVE  \E m \in Task :
            /\ background' = (background \ {t}) \cup {m}
            /\ m.at = "called" /\ m.kind = t.kind /\ m.gen = t.gen /\ m.node = t.node
<1>1. t \in Task
  BY DEF PluginTypeOK
<1>2. CASE MovesTo(t, "called")
  BY <1>2, MoveIs
<1>3. ASSUME NEW h \in Jobs, background' = (background \ {t}) \cup {[t EXCEPT !.at = "called", !.work = h]}
      PROVE  \E m \in Task :
               /\ background' = (background \ {t}) \cup {m}
               /\ m.at = "called" /\ m.kind = t.kind /\ m.gen = t.gen /\ m.node = t.node
  <2> DEFINE m == [t EXCEPT !.at = "called", !.work = h]
  <2>1. m \in Task /\ m.at = "called" /\ m.kind = t.kind /\ m.gen = t.gen /\ m.node = t.node
    BY <1>1 DEF Task
  <2> HIDE DEF m
  <2>2. background' = (background \ {t}) \cup {m}
    BY <1>3 DEF m
  <2> QED
    BY <2>1, <2>2
<1> QED
  BY <1>2, <1>3 DEF WorkerCalls

(* A new task is one.                                                      *)
LEMMA NewIs ==
  ASSUME NEW kind \in {"open", "close", "stop", "prepare", "clear"}, NEW gen \in 0 .. MaxGeneration,
         NEW n \in 0 .. MaxGeneration, NEW at \in {"opening", "wait"}
  PROVE  /\ NewTask(kind, gen, n, at) \in Task
         /\ NewTask(kind, gen, n, at).kind = kind /\ NewTask(kind, gen, n, at).gen = gen
         /\ NewTask(kind, gen, n, at).node = n /\ NewTask(kind, gen, n, at).at = at
         /\ NewTask(kind, gen, n, at).work = NoWork
BY DEF NewTask, Task

(* An answer is the last of the queue...                                   *)
LEMMA AnswerIs ==
  ASSUME PluginTypeOK, NEW t \in background,
         NEW does \in {"Opened", "Fail", "Stopped", "NamePrepared", "CacheCleared"}, Answers(does, t)
  PROVE  /\ onFramework' \in Seq(Answer)
         /\ \E n : /\ n \notin DOMAIN onFramework /\ DOMAIN onFramework' = DOMAIN onFramework \cup {n}
                  /\ onFramework'[n].does = does /\ onFramework'[n].gen = t.gen
                  /\ \A i \in DOMAIN onFramework : onFramework'[i] = onFramework[i]
<1> DEFINE a == [does |-> does, gen |-> t.gen, node |-> t.node, work |-> t.work]
<1>1. onFramework \in Seq(Answer) /\ t \in Task
  BY DEF PluginTypeOK
<1>2. a \in Answer /\ a.does = does /\ a.gen = t.gen
  BY <1>1 DEF Task, Answer
<1>3. onFramework' = Append(onFramework, a)
  BY DEF Answers
<1> HIDE DEF a
<1>4. /\ Len(onFramework) \in Nat /\ DOMAIN onFramework = 1 .. Len(onFramework)
      /\ DOMAIN onFramework' = 1 .. (Len(onFramework) + 1)
      /\ onFramework'[Len(onFramework) + 1] = a
      /\ \A i \in DOMAIN onFramework : onFramework'[i] = onFramework[i]
  BY <1>1, <1>2, <1>3
<1>5. onFramework' \in Seq(Answer)
  BY <1>1, <1>2, <1>3
<1>6. /\ Len(onFramework) + 1 \notin DOMAIN onFramework
      /\ DOMAIN onFramework' = DOMAIN onFramework \cup {Len(onFramework) + 1}
  BY <1>4
<1> QED
  BY <1>2, <1>4, <1>5, <1>6

(* ...and the first one leaves it.                                         *)
LEMMA TakenIs ==
  ASSUME PluginTypeOK, onFramework # <<>>, Taken
  PROVE  /\ onFramework' \in Seq(Answer)
         /\ 1 \in DOMAIN onFramework /\ Head(onFramework) = onFramework[1] /\ onFramework[1] \in Answer
         /\ \A i \in DOMAIN onFramework' : /\ i \in Int /\ i + 1 \in DOMAIN onFramework /\ i + 1 # 1
                                           /\ onFramework'[i] = onFramework[i + 1]
         /\ \A i \in DOMAIN onFramework : \/ i = 1
                                          \/ /\ i - 1 \in DOMAIN onFramework'
                                             /\ onFramework'[i - 1] = onFramework[i]
<1>1. onFramework \in Seq(Answer)
  BY DEF PluginTypeOK
<1>2. /\ Len(onFramework) \in Nat /\ DOMAIN onFramework = 1 .. Len(onFramework)
      /\ Len(onFramework) >= 1
  BY <1>1
<1>3. /\ onFramework' \in Seq(Answer) /\ DOMAIN onFramework' = 1 .. (Len(onFramework) - 1)
      /\ \A i \in 1 .. (Len(onFramework) - 1) : onFramework'[i] = onFramework[i + 1]
  BY <1>1, <1>2 DEF Taken
<1> QED
  BY <1>1, <1>2, <1>3

LEMMA PluginShapes ==
  ASSUME PluginTypeOK
  PROVE  /\ background \subseteq Task /\ nodes \in [Generations -> {"none", "open", "closing", "closed"}]
         /\ generation \in Nat /\ generation \in 0 .. MaxGeneration /\ node \in 0 .. MaxGeneration
         /\ MaxGeneration \in Nat
         /\ \A g \in 0 .. MaxGeneration : g # NoNode => g \in Generations
         /\ Generations \subseteq Nat \ {NoNode}
         /\ \A t \in background : /\ t.gen \in 0 .. MaxGeneration /\ t.gen \in Nat
                                 /\ t.node \in 0 .. MaxGeneration
BY PluginBoundsAssumption DEF PluginTypeOK, Generations, NoNode, Task

LEMMA BackgroundTyped ==
  ASSUME PluginInv, [PluginNext]_pluginVars
  PROVE  background' \subseteq Task
<1>a. PluginTypeOK /\ Opening /\ InHand
  BY DEF PluginInv
<1>1. CASE UNCHANGED <<background>>
  BY <1>1, <1>a DEF PluginTypeOK
<1>2. CASE Start
  <2>1. generation + 1 \in 0 .. MaxGeneration
    BY <1>2, <1>a, PluginShapes DEF Start, NoNode
  <2>2. NewTask("open", generation + 1, generation + 1, "opening") \in Task
    BY <2>1, NewIs
  <2> QED
    BY <1>2, <1>a, <2>2, PluginShapes DEF Start
<1>3. CASE Stop
  <2>1. generation + 1 \in 0 .. MaxGeneration /\ node \in 0 .. MaxGeneration
    BY <1>3, <1>a, PluginShapes DEF Stop, NoNode
  <2>2. NewTask("stop", generation + 1, node, "wait") \in Task
    BY <2>1, NewIs
  <2> QED
    BY <1>3, <1>a, <2>2, PluginShapes DEF Stop
<1>4. CASE PrepareNostr
  <2>1. generation \in 0 .. MaxGeneration /\ node \in 0 .. MaxGeneration
    BY <1>4, <1>a, PluginShapes DEF PrepareNostr, NoNode
  <2>2. NewTask("prepare", generation, node, "wait") \in Task
    BY <2>1, NewIs
  <2> QED
    BY <1>4, <1>a, <2>2, PluginShapes DEF PrepareNostr
<1>5. CASE ClearSharedFileCache
  <2>1. generation \in 0 .. MaxGeneration /\ NoNode \in 0 .. MaxGeneration
    BY <1>5, <1>a, PluginShapes DEF ClearSharedFileCache, NoNode
  <2>2. NewTask("clear", generation, NoNode, "wait") \in Task
    BY <2>1, NewIs
  <2> QED
    BY <1>5, <1>a, <2>2, PluginShapes DEF ClearSharedFileCache
<1>6. CASE Opened
  <2>1. Head(onFramework).gen \in 0 .. MaxGeneration
    BY <1>6, <1>a, TakenIs DEF Opened, Delivered, Answer
  <2>2. NewTask("close", Head(onFramework).gen, Head(onFramework).gen, "wait") \in Task
    BY <2>1, NewIs
  <2> QED
    BY <1>6, <1>a, <2>2, PluginShapes DEF Opened
<1>7. ASSUME NEW t \in background, OpenSucceeds(t) PROVE background' \subseteq Task
  BY <1>7, <1>a, MoveIs, PluginShapes DEF OpenSucceeds
<1>8. ASSUME NEW t \in background, OpenFails(t) PROVE background' \subseteq Task
  BY <1>8, <1>a, PluginShapes DEF OpenFails, Ends, Answers, NoNode
<1>9. ASSUME NEW t \in background, OpenChecks(t) PROVE background' \subseteq Task
  <2>1. CASE MovesTo(t, "wait")
    BY <1>a, <2>1, MoveIs, PluginShapes
  <2>2. CASE Ends(t)
    BY <1>a, <2>2, PluginShapes DEF Ends
  <2> QED
    BY <1>9, <2>1, <2>2 DEF OpenChecks
<1>10. ASSUME NEW t \in background, CloseStarts(t) PROVE background' \subseteq Task
  BY <1>10, <1>a, MoveIs, PluginShapes DEF CloseStarts
<1>11. ASSUME NEW t \in background, CloseEnds(t) PROVE background' \subseteq Task
  <2>1. CASE MovesTo(t, "out")
    BY <1>a, <2>1, MoveIs, PluginShapes
  <2>2. CASE Ends(t)
    BY <1>a, <2>2, PluginShapes DEF Ends
  <2> QED
    BY <1>11, <2>1, <2>2 DEF CloseEnds
<1>12. ASSUME NEW t \in background, StopAnswers(t) PROVE background' \subseteq Task
  BY <1>12, <1>a, PluginShapes DEF StopAnswers, Ends, Answers, NoNode
<1>13. ASSUME NEW t \in background, WorkerEnters(t) PROVE background' \subseteq Task
  <2>1. CASE MovesTo(t, "in")
    BY <1>a, <2>1, MoveIs, PluginShapes
  <2>2. CASE Ends(t)
    BY <1>a, <2>2, PluginShapes DEF Ends
  <2> QED
    BY <1>13, <2>1, <2>2 DEF WorkerEnters
<1>14. ASSUME NEW t \in background, WorkerCalls(t) PROVE background' \subseteq Task
  BY <1>14, <1>a, CallIs, PluginShapes
<1>15. ASSUME NEW t \in background, WorkerLeaves(t) PROVE background' \subseteq Task
  BY <1>15, <1>a, MoveIs, PluginShapes DEF WorkerLeaves
<1>16. ASSUME NEW t \in background, WorkerAnswers(t) PROVE background' \subseteq Task
  BY <1>16, <1>a, PluginShapes DEF WorkerAnswers, Ends, Answers, NoNode
<1>17. ASSUME NEW t \in background, ClearStarts(t) PROVE background' \subseteq Task
  BY <1>17, <1>a, MoveIs, PluginShapes DEF ClearStarts
<1>18. ASSUME NEW t \in background, ClearEnds(t) PROVE background' \subseteq Task
  BY <1>18, <1>a, PluginShapes DEF ClearEnds, Ends, Answers, NoNode
<1>19. ASSUME \/ Fail \/ Stopped \/ NamePrepared \/ CacheCleared \/ DisposeBegins \/ DisposeWaited \/ DisposeEnds
                \/ (\E h \in Jobs : PollDone(h))
                \/ (\E g \in Generations, h \in Jobs : JobEnds(g, h)) PROVE UNCHANGED <<background>>
  BY <1>19
     DEF Fail, Stopped, NamePrepared, CacheCleared, PollDone, JobEnds, DisposeBegins, DisposeWaited,
         DisposeEnds
<1>20. CASE UNCHANGED pluginVars
  BY <1>1, <1>20 DEF pluginVars
<1> QED
  BY <1>1, <1>2, <1>3, <1>4, <1>5, <1>6, <1>7, <1>8, <1>9, <1>10, <1>11, <1>12, <1>13, <1>14, <1>15,
     <1>16, <1>17, <1>18, <1>19, <1>20
     DEF PluginNext, FrameworkStep, BackgroundStep

LEMMA QueueTyped ==
  ASSUME PluginInv, [PluginNext]_pluginVars
  PROVE  onFramework' \in Seq(Answer)
<1>a. PluginTypeOK /\ Opening /\ InHand
  BY DEF PluginInv
<1>1. CASE UNCHANGED <<onFramework>>
  BY <1>1, <1>a DEF PluginTypeOK
<1>2. CASE Opened
  BY <1>2, <1>a, TakenIs DEF Opened, Delivered
<1>3. CASE Fail
  BY <1>3, <1>a, TakenIs DEF Fail, Delivered
<1>4. CASE Stopped
  BY <1>4, <1>a, TakenIs DEF Stopped, Delivered
<1>5. CASE NamePrepared
  BY <1>5, <1>a, TakenIs DEF NamePrepared, Delivered
<1>6. CASE CacheCleared
  BY <1>6, <1>a, TakenIs DEF CacheCleared, Delivered
<1>7. ASSUME NEW t \in background, OpenFails(t) PROVE onFramework' \in Seq(Answer)
  BY <1>7, <1>a, AnswerIs DEF OpenFails, PluginTypeOK
<1>8. ASSUME NEW t \in background, OpenChecks(t) PROVE onFramework' \in Seq(Answer)
  BY <1>8, <1>a, AnswerIs DEF OpenChecks, PluginTypeOK
<1>9. ASSUME NEW t \in background, StopAnswers(t) PROVE onFramework' \in Seq(Answer)
  BY <1>9, <1>a, AnswerIs DEF StopAnswers, PluginTypeOK
<1>10. ASSUME NEW t \in background, WorkerAnswers(t) PROVE onFramework' \in Seq(Answer)
  BY <1>10, <1>a, AnswerIs DEF WorkerAnswers, PluginTypeOK
<1>11. ASSUME NEW t \in background, ClearEnds(t) PROVE onFramework' \in Seq(Answer)
  BY <1>11, <1>a, AnswerIs DEF ClearEnds, PluginTypeOK
<1>12. ASSUME \/ Start \/ Stop \/ PrepareNostr \/ ClearSharedFileCache \/ DisposeBegins \/ DisposeWaited \/ DisposeEnds
                \/ (\E h \in Jobs : PollDone(h))
                \/ (\E t \in background : OpenSucceeds(t) \/ CloseStarts(t) \/ CloseEnds(t)
                                          \/ WorkerEnters(t) \/ WorkerCalls(t) \/ WorkerLeaves(t)
                                          \/ ClearStarts(t))
                \/ (\E g \in Generations, h \in Jobs : JobEnds(g, h))
      PROVE  UNCHANGED <<onFramework>>
  BY <1>12
     DEF Start, Stop, PrepareNostr, ClearSharedFileCache, PollDone, OpenSucceeds, CloseStarts,
         CloseEnds, WorkerEnters, WorkerCalls, WorkerLeaves, ClearStarts, JobEnds, DisposeBegins,
         DisposeWaited, DisposeEnds
<1>13. CASE UNCHANGED pluginVars
  BY <1>1, <1>13 DEF pluginVars
<1> QED
  BY <1>1, <1>2, <1>3, <1>4, <1>5, <1>6, <1>7, <1>8, <1>9, <1>10, <1>11, <1>12, <1>13
     DEF PluginNext, FrameworkStep, BackgroundStep

LEMMA NodesTyped ==
  ASSUME PluginInv, [PluginNext]_pluginVars
  PROVE  nodes' \in [Generations -> {"none", "open", "closing", "closed"}]
<1>a. PluginTypeOK /\ Opening /\ InHand
  BY DEF PluginInv
<1>1. CASE UNCHANGED <<nodes>>
  BY <1>1, <1>a DEF PluginTypeOK
<1>2. ASSUME NEW t \in background, OpenSucceeds(t)
      PROVE  nodes' \in [Generations -> {"none", "open", "closing", "closed"}]
  BY <1>2, <1>a, PluginShapes DEF OpenSucceeds, MovesTo, NoNode
<1>3. ASSUME NEW t \in background, CloseStarts(t)
      PROVE  nodes' \in [Generations -> {"none", "open", "closing", "closed"}]
  BY <1>3, <1>a, PluginShapes DEF CloseStarts, MovesTo, GateForClose, NoNode
<1>4. ASSUME NEW t \in background, CloseEnds(t)
      PROVE  nodes' \in [Generations -> {"none", "open", "closing", "closed"}]
  BY <1>4, <1>a, PluginShapes DEF CloseEnds, MovesTo, Ends, NoNode
<1>5. CASE DisposeWaited
  BY <1>5, <1>a, PluginShapes DEF DisposeWaited, GateForClose, NoNode
<1>6. CASE DisposeEnds
  BY <1>6, <1>a, PluginShapes DEF DisposeEnds, NoNode
<1>7. ASSUME \/ Start \/ Stop \/ PrepareNostr \/ ClearSharedFileCache \/ Opened \/ Fail \/ Stopped \/ NamePrepared \/ CacheCleared \/ DisposeBegins
                \/ (\E h \in Jobs : PollDone(h))
                \/ (\E t \in background : OpenFails(t) \/ OpenChecks(t) \/ StopAnswers(t)
                                          \/ WorkerEnters(t) \/ WorkerCalls(t) \/ WorkerLeaves(t)
                                          \/ WorkerAnswers(t) \/ ClearStarts(t) \/ ClearEnds(t))
                \/ (\E g \in Generations, h \in Jobs : JobEnds(g, h)) PROVE UNCHANGED <<nodes>>
  BY <1>7
     DEF Start, Stop, PrepareNostr, ClearSharedFileCache, Opened, Fail, Stopped, NamePrepared,
         CacheCleared, PollDone, OpenFails, OpenChecks, StopAnswers, WorkerEnters, WorkerCalls,
         WorkerLeaves, WorkerAnswers, ClearStarts, ClearEnds, JobEnds, DisposeBegins
<1>8. CASE UNCHANGED pluginVars
  BY <1>1, <1>8 DEF pluginVars
<1> QED
  BY <1>1, <1>2, <1>3, <1>4, <1>5, <1>6, <1>7, <1>8 DEF PluginNext, FrameworkStep, BackgroundStep

LEMMA OperationTyped ==
  ASSUME PluginInv, [PluginNext]_pluginVars
  PROVE  operation' \in [preparing : BOOLEAN, work : Jobs \cup {NoWork}, early : SUBSET Jobs]
<1>a. PluginTypeOK /\ Opening /\ InHand
  BY DEF PluginInv
<1>1. CASE UNCHANGED <<operation>>
  BY <1>1, <1>a DEF PluginTypeOK
<1>2. CASE Stop
  BY <1>2 DEF Stop, Idle
<1>3. CASE PrepareNostr
  BY <1>3 DEF PrepareNostr, Idle
<1>4. CASE NamePrepared
  <2>1. onFramework # <<>> /\ Head(onFramework).work \in Jobs \cup {NoWork}
    BY <1>4, <1>a, TakenIs DEF NamePrepared, Delivered, Answer
  <2>2. \A w \in Jobs \cup {NoWork} :
           [Idle EXCEPT !.work = w] \in [preparing : BOOLEAN, work : Jobs \cup {NoWork}, early : SUBSET Jobs]
    BY DEF Idle
  <2>3. \/ UNCHANGED operation
        \/ \E w \in {NoWork, Head(onFramework).work} : operation' = [Idle EXCEPT !.work = w]
    BY <1>4 DEF NamePrepared
  <2> QED
    BY <1>a, <2>1, <2>2, <2>3 DEF PluginTypeOK
<1>5. ASSUME NEW h \in Jobs, PollDone(h)
      PROVE  operation' \in [preparing : BOOLEAN, work : Jobs \cup {NoWork}, early : SUBSET Jobs]
  BY <1>5, <1>a, PluginShapes DEF PollDone, PluginTypeOK, Framework, Completed, NoNode, NoWork
<1>6. ASSUME \/ Start \/ ClearSharedFileCache \/ Opened \/ Fail \/ Stopped \/ CacheCleared \/ DisposeBegins \/ DisposeWaited \/ DisposeEnds
                \/ (\E t \in background : OpenSucceeds(t) \/ OpenFails(t) \/ OpenChecks(t)
                                          \/ CloseStarts(t) \/ CloseEnds(t) \/ StopAnswers(t)
                                          \/ WorkerEnters(t) \/ WorkerCalls(t) \/ WorkerLeaves(t)
                                          \/ WorkerAnswers(t) \/ ClearStarts(t) \/ ClearEnds(t))
                \/ (\E g \in Generations, h \in Jobs : JobEnds(g, h)) PROVE UNCHANGED <<operation>>
  BY <1>6
     DEF Start, ClearSharedFileCache, Opened, Fail, Stopped, CacheCleared, OpenSucceeds, OpenFails,
         OpenChecks, CloseStarts, CloseEnds, StopAnswers, WorkerEnters, WorkerCalls, WorkerLeaves,
         WorkerAnswers, ClearStarts, ClearEnds, JobEnds, DisposeBegins, DisposeWaited, DisposeEnds
<1>7. CASE UNCHANGED pluginVars
  BY <1>1, <1>7 DEF pluginVars
<1> QED
  BY <1>1, <1>2, <1>3, <1>4, <1>5, <1>6, <1>7 DEF PluginNext, FrameworkStep, BackgroundStep

LEMMA WorkTyped ==
  ASSUME PluginInv, [PluginNext]_pluginVars
  PROVE  work' \in [Generations -> [Jobs -> {"none", "running", "done", "polled", "lost"}]]
<1>a. PluginTypeOK /\ Opening /\ InHand
  BY DEF PluginInv
<1>1. CASE UNCHANGED <<work>>
  BY <1>1, <1>a DEF PluginTypeOK
<1>2. ASSUME NEW h \in Jobs, PollDone(h)
      PROVE  work' \in [Generations -> [Jobs -> {"none", "running", "done", "polled", "lost"}]]
  <2>1. node \in Generations
    BY <1>2, <1>a, PluginShapes DEF PollDone
  <2> QED
    BY <1>2, <1>a, <2>1 DEF PollDone, PluginTypeOK
<1>3. ASSUME NEW t \in background, WorkerCalls(t)
      PROVE  work' \in [Generations -> [Jobs -> {"none", "running", "done", "polled", "lost"}]]
  <2>1. CASE UNCHANGED work
    BY <1>a, <2>1 DEF PluginTypeOK
  <2>2. ASSUME NEW h \in Jobs, work' = [work EXCEPT ![t.node][h] = "running"]
        PROVE  work' \in [Generations -> [Jobs -> {"none", "running", "done", "polled", "lost"}]]
    BY <1>a, <2>2 DEF PluginTypeOK
  <2> QED
    BY <1>3, <2>1, <2>2 DEF WorkerCalls
<1>4. ASSUME NEW g \in Generations, NEW h \in Jobs, JobEnds(g, h)
      PROVE  work' \in [Generations -> [Jobs -> {"none", "running", "done", "polled", "lost"}]]
  BY <1>4, <1>a DEF JobEnds, PluginTypeOK
<1>5. ASSUME \/ Start \/ Stop \/ PrepareNostr \/ ClearSharedFileCache \/ Opened \/ Fail \/ Stopped \/ NamePrepared \/ CacheCleared \/ DisposeBegins \/ DisposeWaited \/ DisposeEnds
                \/ (\E t \in background : OpenSucceeds(t) \/ OpenFails(t) \/ OpenChecks(t)
                                          \/ CloseStarts(t) \/ CloseEnds(t) \/ StopAnswers(t)
                                          \/ WorkerEnters(t) \/ WorkerLeaves(t)
                                          \/ WorkerAnswers(t) \/ ClearStarts(t) \/ ClearEnds(t))
      PROVE  UNCHANGED <<work>>
  BY <1>5
     DEF Start, Stop, PrepareNostr, ClearSharedFileCache, Opened, Fail, Stopped, NamePrepared,
         CacheCleared, OpenSucceeds, OpenFails, OpenChecks, CloseStarts, CloseEnds, StopAnswers,
         WorkerEnters, WorkerLeaves, WorkerAnswers, ClearStarts, ClearEnds, DisposeBegins,
         DisposeWaited, DisposeEnds
<1>6. CASE UNCHANGED pluginVars
  BY <1>1, <1>6 DEF pluginVars
<1> QED
  BY <1>1, <1>2, <1>3, <1>4, <1>5, <1>6 DEF PluginNext, FrameworkStep, BackgroundStep

(* The parts of PluginTypeOK that are proved together.                     *)
PluginRest ==
    /\ service \in {"Off", "Starting", "On", "Failed", "Stopping"}
    /\ generation \in 0 .. MaxGeneration /\ node \in 0 .. MaxGeneration
    /\ gate \subseteq {"open", "close", "stop", "prepare", "clear", "dispose"}
    /\ cacheBusy \in BOOLEAN /\ overtaken \in BOOLEAN
    /\ unload \in {"live", "waiting", "closing", "gone"}

LEMMA RestTyped ==
  ASSUME PluginInv, [PluginNext]_pluginVars
  PROVE  PluginRest'
<1>a. PluginTypeOK /\ Opening /\ InHand
  BY DEF PluginInv
<1>1. CASE UNCHANGED <<service, generation, node, gate, cacheBusy, unload, overtaken>>
  BY <1>1, <1>a DEF PluginRest, PluginTypeOK
<1>2. CASE Start
  BY <1>2, <1>a, PluginShapes
     DEF Start, PluginRest, PluginTypeOK, Framework, NewTask, NoNode, NoWork
<1>3. CASE Stop
  BY <1>3, <1>a, PluginShapes DEF Stop, PluginRest, PluginTypeOK, Framework, NewTask, NoNode, NoWork
<1>4. CASE ClearSharedFileCache
  BY <1>4, <1>a, PluginShapes
     DEF ClearSharedFileCache, PluginRest, PluginTypeOK, Framework, NewTask, NoNode, NoWork,
         CanClearSharedCache
<1>5. CASE Opened
  <2>1. Head(onFramework).gen \in 0 .. MaxGeneration
    BY <1>5, <1>a, TakenIs DEF Opened, Delivered, Answer
  <2> QED
    BY <1>5, <1>a, <2>1 DEF Opened, PluginTypeOK, PluginRest
<1>6. CASE Fail
  BY <1>6, <1>a, PluginShapes
     DEF Fail, PluginRest, PluginTypeOK, Framework, Delivered, Taken, NoNode, NoWork
<1>7. CASE Stopped
  BY <1>7, <1>a, PluginShapes
     DEF Stopped, PluginRest, PluginTypeOK, Framework, Delivered, Taken, NoNode, NoWork
<1>8. CASE CacheCleared
  BY <1>8, <1>a, PluginShapes
     DEF CacheCleared, PluginRest, PluginTypeOK, Framework, Delivered, Taken, NoNode, NoWork
<1>9. ASSUME NEW t \in background, CloseStarts(t) PROVE PluginRest'
  BY <1>9, <1>a, PluginShapes
     DEF CloseStarts, PluginRest, PluginTypeOK, MovesTo, GateForClose, NoNode, NoWork
<1>10. ASSUME NEW t \in background, CloseEnds(t) PROVE PluginRest'
  BY <1>10, <1>a, PluginShapes
     DEF CloseEnds, PluginRest, PluginTypeOK, MovesTo, Ends, NoNode, NoWork
<1>11. ASSUME NEW t \in background, WorkerEnters(t) PROVE PluginRest'
  BY <1>11, <1>a, PluginShapes
     DEF WorkerEnters, PluginRest, PluginTypeOK, MovesTo, Ends, NoNode, NoWork
<1>12. ASSUME NEW t \in background, WorkerLeaves(t) PROVE PluginRest'
  BY <1>12, <1>a, PluginShapes DEF WorkerLeaves, PluginRest, PluginTypeOK, MovesTo, NoNode, NoWork
<1>13. ASSUME NEW t \in background, ClearStarts(t) PROVE PluginRest'
  BY <1>13, <1>a, PluginShapes DEF ClearStarts, PluginRest, PluginTypeOK, MovesTo, NoNode, NoWork
<1>14. ASSUME NEW t \in background, ClearEnds(t) PROVE PluginRest'
  BY <1>14, <1>a, PluginShapes
     DEF ClearEnds, PluginRest, PluginTypeOK, Ends, Answers, NoNode, NoWork
<1>15. CASE DisposeBegins
  BY <1>15, <1>a, PluginShapes DEF DisposeBegins, PluginRest, PluginTypeOK, NoNode, NoWork
<1>16. CASE DisposeWaited
  BY <1>16, <1>a, PluginShapes
     DEF DisposeWaited, PluginRest, PluginTypeOK, GateForClose, NoNode, NoWork
<1>17. CASE DisposeEnds
  BY <1>17, <1>a, PluginShapes DEF DisposeEnds, PluginRest, PluginTypeOK, NoNode, NoWork
<1>18. ASSUME \/ PrepareNostr \/ NamePrepared
                \/ (\E h \in Jobs : PollDone(h))
                \/ (\E t \in background : OpenSucceeds(t) \/ OpenFails(t) \/ OpenChecks(t)
                                          \/ StopAnswers(t) \/ WorkerCalls(t) \/ WorkerAnswers(t))
                \/ (\E g \in Generations, h \in Jobs : JobEnds(g, h))
      PROVE  UNCHANGED <<service, generation, node, gate, cacheBusy, unload, overtaken>>
  BY <1>18
     DEF PrepareNostr, NamePrepared, PollDone, OpenSucceeds, OpenFails, OpenChecks, StopAnswers,
         WorkerCalls, WorkerAnswers, JobEnds
<1>19. CASE UNCHANGED pluginVars
  BY <1>1, <1>19 DEF pluginVars
<1> QED
  BY <1>1, <1>2, <1>3, <1>4, <1>5, <1>6, <1>7, <1>8, <1>9, <1>10, <1>11, <1>12, <1>13, <1>14, <1>15,
     <1>16, <1>17, <1>18, <1>19
     DEF PluginNext, FrameworkStep, BackgroundStep

LEMMA PluginTypeStep ==
  ASSUME PluginInv, [PluginNext]_pluginVars
  PROVE  PluginTypeOK'
BY BackgroundTyped, QueueTyped, NodesTyped, OperationTyped, WorkTyped, RestTyped
   DEF PluginTypeOK, PluginRest

-----------------------------------------------------------------------------
(* The steps                                                               *)

LEMMA GatedStep ==
  ASSUME PluginInv, [PluginNext]_pluginVars
  PROVE  Gated'
<1>a. PluginTypeOK /\ Gated
  BY DEF PluginInv
<1>1. CASE UNCHANGED <<background, gate, unload>>
  BY <1>1, <1>a DEF Gated, InGate
<1>2. CASE Start
  <2>1. generation + 1 \in 0 .. MaxGeneration
    BY <1>2, <1>a, PluginShapes DEF Start, NoNode
  <2>2. PICK m \in Task : /\ background' = background \cup {m} /\ m.kind = "open" /\ m.gen = generation + 1
                          /\ m.node = generation + 1 /\ m.at = "opening" /\ m.work = NoWork
    BY <1>2, <2>1, NewIs DEF Start
  <2> QED
    BY <1>2, <1>a, PluginShapes, <2>1, <2>2 DEF Start, Gated, InGate, NoNode, Framework
<1>3. CASE Stop
  <2>1. CASE node = NoNode
    BY <1>3, <1>a, PluginShapes, <2>1 DEF Stop, Gated, InGate, NoNode, Framework
  <2>2. CASE node # NoNode
    <3>1. generation + 1 \in 0 .. MaxGeneration /\ node \in 0 .. MaxGeneration
      BY <1>3, <1>a, PluginShapes DEF Stop
    <3>2. PICK m \in Task : /\ background' = background \cup {m} /\ m.kind = "stop" /\ m.gen = generation + 1
                            /\ m.node = node /\ m.at = "wait" /\ m.work = NoWork
      BY <1>3, <2>2, <3>1, NewIs DEF Stop
    <3> QED
      BY <1>3, <1>a, PluginShapes, <2>2, <3>1, <3>2 DEF Stop, Gated, InGate, NoNode, Framework
  <2> QED
    BY <2>1, <2>2
<1>4. CASE PrepareNostr
  <2>1. generation \in 0 .. MaxGeneration /\ node \in 0 .. MaxGeneration
    BY <1>4, <1>a, PluginShapes DEF PrepareNostr, NoNode
  <2>2. PICK m \in Task : /\ background' = background \cup {m} /\ m.kind = "prepare" /\ m.gen = generation
                          /\ m.node = node /\ m.at = "wait" /\ m.work = NoWork
    BY <1>4, <2>1, NewIs DEF PrepareNostr
  <2> QED
    BY <1>4, <1>a, PluginShapes, <2>1, <2>2 DEF PrepareNostr, Gated, InGate, NoNode, Framework
<1>5. CASE ClearSharedFileCache
  <2>1. generation \in 0 .. MaxGeneration /\ NoNode \in 0 .. MaxGeneration
    BY <1>5, <1>a, PluginShapes DEF ClearSharedFileCache, NoNode
  <2>2. PICK m \in Task : /\ background' = background \cup {m} /\ m.kind = "clear" /\ m.gen = generation
                          /\ m.node = NoNode /\ m.at = "wait" /\ m.work = NoWork
    BY <1>5, <2>1, NewIs DEF ClearSharedFileCache
  <2> QED
    BY <1>5, <1>a, PluginShapes, <2>1, <2>2
       DEF ClearSharedFileCache, Gated, InGate, NoNode, Framework, CanClearSharedCache
<1>6. CASE Opened
  <2>1. /\ 1 \in DOMAIN onFramework /\ Head(onFramework) = onFramework[1] /\ onFramework[1] \in Answer
        /\ \A i \in DOMAIN onFramework' : /\ i \in Int /\ i + 1 \in DOMAIN onFramework /\ i + 1 # 1
                                          /\ onFramework'[i] = onFramework[i + 1]
        /\ \A i \in DOMAIN onFramework : \/ i = 1
                                         \/ /\ i - 1 \in DOMAIN onFramework'
                                            /\ onFramework'[i - 1] = onFramework[i]
    BY <1>6, <1>a, TakenIs DEF Opened, Delivered
  <2>2. CASE background' = background /\ node' = onFramework[1].gen
                /\ onFramework[1].gen = generation /\ service = "Starting"
    BY <1>6, <1>a, PluginShapes, <2>1, <2>2 DEF Opened, Gated, InGate, NoNode, Framework, Delivered
  <2>3. CASE \E m \in Task : /\ background' = background \cup {m} /\ m.kind = "close" /\ m.gen = onFramework[1].gen
                             /\ m.node = onFramework[1].gen /\ m.at = "wait" /\ m.work = NoWork /\ node' = node
    BY <1>6, <1>a, PluginShapes, <2>1, <2>3 DEF Opened, Gated, InGate, NoNode, Framework, Delivered
  <2>4. onFramework[1].gen \in 0 .. MaxGeneration
    BY <2>1 DEF Answer
  <2> QED
    BY <1>6, <2>1, <2>2, <2>3, <2>4, NewIs DEF Opened
<1>7. ASSUME NEW t \in background, OpenSucceeds(t) PROVE Gated'
  <2>1. PICK m \in Task : /\ background' = (background \ {t}) \cup {m} /\ m.at = "check" /\ m.kind = t.kind
                          /\ m.gen = t.gen /\ m.node = t.node /\ m.work = t.work
    BY <1>7, <1>a, MoveIs DEF OpenSucceeds
  <2> QED
    BY <1>7, <1>a, PluginShapes, <2>1 DEF OpenSucceeds, Gated, InGate, NoNode
<1>8. ASSUME NEW t \in background, OpenFails(t) PROVE Gated'
  <2>1. background' = background \ {t}
    BY <1>8 DEF OpenFails, Ends
  <2>2. PICK n : /\ n \notin DOMAIN onFramework /\ DOMAIN onFramework' = DOMAIN onFramework \cup {n}
                 /\ onFramework'[n].does = "Fail" /\ onFramework'[n].gen = t.gen
                 /\ \A i \in DOMAIN onFramework : onFramework'[i] = onFramework[i]
    BY <1>8, <1>a, AnswerIs DEF OpenFails
  <2> QED
    BY <1>8, <1>a, PluginShapes, <2>1, <2>2 DEF OpenFails, Gated, InGate, NoNode
<1>9. ASSUME NEW t \in background, OpenChecks(t) PROVE Gated'
  <2>1. CASE MovesTo(t, "wait") /\ UNCHANGED onFramework
    <3>1. PICK m \in Task : /\ background' = (background \ {t}) \cup {m} /\ m.at = "wait" /\ m.kind = t.kind
                            /\ m.gen = t.gen /\ m.node = t.node /\ m.work = t.work
      BY <1>a, <2>1, MoveIs
    <3> QED
      BY <1>9, <1>a, PluginShapes, <2>1, <3>1 DEF OpenChecks, Gated, InGate, NoNode
  <2>2. CASE Ends(t) /\ Answers("Opened", t)
    <3>1. background' = background \ {t}
      BY <2>2 DEF Ends
    <3>2. PICK n : /\ n \notin DOMAIN onFramework /\ DOMAIN onFramework' = DOMAIN onFramework \cup {n}
                 /\ onFramework'[n].does = "Opened" /\ onFramework'[n].gen = t.gen
                 /\ \A i \in DOMAIN onFramework : onFramework'[i] = onFramework[i]
      BY <1>a, <2>2, AnswerIs
    <3> QED
      BY <1>9, <1>a, PluginShapes, <3>1, <3>2 DEF OpenChecks, Gated, InGate, NoNode
  <2> QED
    BY <1>9, <2>1, <2>2 DEF OpenChecks
<1>10. ASSUME NEW t \in background, CloseStarts(t) PROVE Gated'
  <2>1. PICK m \in Task : /\ background' = (background \ {t}) \cup {m} /\ m.at = "in" /\ m.kind = t.kind
                          /\ m.gen = t.gen /\ m.node = t.node /\ m.work = t.work
    BY <1>10, <1>a, MoveIs DEF CloseStarts
  <2> QED
    BY <1>10, <1>a, PluginShapes, <2>1 DEF CloseStarts, Gated, InGate, GateForClose, NoNode
<1>11. ASSUME NEW t \in background, CloseEnds(t) PROVE Gated'
  <2>1. CASE MovesTo(t, "out") /\ t.kind = "stop"
    <3>1. PICK m \in Task : /\ background' = (background \ {t}) \cup {m} /\ m.at = "out" /\ m.kind = t.kind
                            /\ m.gen = t.gen /\ m.node = t.node /\ m.work = t.work
      BY <1>a, <2>1, MoveIs
    <3> QED
      BY <1>11, <1>a, PluginShapes, <2>1, <3>1 DEF CloseEnds, Gated, InGate, NoNode
  <2>2. CASE Ends(t) /\ t.kind # "stop"
    <3>1. background' = background \ {t}
      BY <2>2 DEF Ends
    <3> QED
      BY <1>11, <1>a, PluginShapes, <2>2, <3>1 DEF CloseEnds, Gated, InGate, NoNode
  <2> QED
    BY <1>11, <2>1, <2>2 DEF CloseEnds
<1>12. ASSUME NEW t \in background, StopAnswers(t) PROVE Gated'
  <2>1. background' = background \ {t}
    BY <1>12 DEF StopAnswers, Ends
  <2>2. PICK n : /\ n \notin DOMAIN onFramework /\ DOMAIN onFramework' = DOMAIN onFramework \cup {n}
                 /\ onFramework'[n].does = "Stopped" /\ onFramework'[n].gen = t.gen
                 /\ \A i \in DOMAIN onFramework : onFramework'[i] = onFramework[i]
    BY <1>12, <1>a, AnswerIs DEF StopAnswers
  <2> QED
    BY <1>12, <1>a, PluginShapes, <2>1, <2>2 DEF StopAnswers, Gated, InGate, NoNode
<1>13. ASSUME NEW t \in background, WorkerEnters(t) PROVE Gated'
  <2>1. CASE MovesTo(t, "in") /\ gate' = {"prepare"} /\ t.gen = generation
    <3>1. PICK m \in Task : /\ background' = (background \ {t}) \cup {m} /\ m.at = "in" /\ m.kind = t.kind
                            /\ m.gen = t.gen /\ m.node = t.node /\ m.work = t.work
      BY <1>a, <2>1, MoveIs
    <3> QED
      BY <1>13, <1>a, PluginShapes, <2>1, <3>1 DEF WorkerEnters, Gated, InGate, NoNode
  <2>2. CASE Ends(t) /\ t.gen # generation /\ UNCHANGED gate
    <3>1. background' = background \ {t}
      BY <2>2 DEF Ends
    <3> QED
      BY <1>13, <1>a, PluginShapes, <2>2, <3>1 DEF WorkerEnters, Gated, InGate, NoNode
  <2> QED
    BY <1>13, <2>1, <2>2 DEF WorkerEnters
<1>14. ASSUME NEW t \in background, WorkerCalls(t) PROVE Gated'
  <2>1. PICK m \in Task : /\ background' = (background \ {t}) \cup {m} /\ m.at = "called"
                          /\ m.kind = t.kind /\ m.gen = t.gen /\ m.node = t.node
    BY <1>14, <1>a, CallIs
  <2>2. /\ t.kind = "prepare" /\ t.at = "in"
        /\ UNCHANGED <<service, generation, node, nodes, gate, onFramework, cacheBusy, unload>>
    BY <1>14 DEF WorkerCalls
  <2> QED
    BY <1>a, PluginShapes, <2>1, <2>2 DEF Gated, InGate
<1>15. ASSUME NEW t \in background, WorkerLeaves(t) PROVE Gated'
  <2>1. PICK m \in Task : /\ background' = (background \ {t}) \cup {m} /\ m.at = "out" /\ m.kind = t.kind
                          /\ m.gen = t.gen /\ m.node = t.node /\ m.work = t.work
    BY <1>15, <1>a, MoveIs DEF WorkerLeaves
  <2> QED
    BY <1>15, <1>a, PluginShapes, <2>1 DEF WorkerLeaves, Gated, InGate, NoNode
<1>16. ASSUME NEW t \in background, WorkerAnswers(t) PROVE Gated'
  <2>1. background' = background \ {t}
    BY <1>16 DEF WorkerAnswers, Ends
  <2>2. PICK n : /\ n \notin DOMAIN onFramework /\ DOMAIN onFramework' = DOMAIN onFramework \cup {n}
                 /\ onFramework'[n].does = "NamePrepared" /\ onFramework'[n].gen = t.gen
                 /\ \A i \in DOMAIN onFramework : onFramework'[i] = onFramework[i]
    BY <1>16, <1>a, AnswerIs DEF WorkerAnswers
  <2> QED
    BY <1>16, <1>a, PluginShapes, <2>1, <2>2 DEF WorkerAnswers, Gated, InGate, NoNode
<1>17. ASSUME NEW t \in background, ClearStarts(t) PROVE Gated'
  <2>1. PICK m \in Task : /\ background' = (background \ {t}) \cup {m} /\ m.at = "in" /\ m.kind = t.kind
                          /\ m.gen = t.gen /\ m.node = t.node /\ m.work = t.work
    BY <1>17, <1>a, MoveIs DEF ClearStarts
  <2> QED
    BY <1>17, <1>a, PluginShapes, <2>1 DEF ClearStarts, Gated, InGate, NoNode
<1>18. ASSUME NEW t \in background, ClearEnds(t) PROVE Gated'
  <2>1. background' = background \ {t}
    BY <1>18 DEF ClearEnds, Ends
  <2>2. PICK n : /\ n \notin DOMAIN onFramework /\ DOMAIN onFramework' = DOMAIN onFramework \cup {n}
                 /\ onFramework'[n].does = "CacheCleared" /\ onFramework'[n].gen = t.gen
                 /\ \A i \in DOMAIN onFramework : onFramework'[i] = onFramework[i]
    BY <1>18, <1>a, AnswerIs DEF ClearEnds
  <2> QED
    BY <1>18, <1>a, PluginShapes, <2>1, <2>2 DEF ClearEnds, Gated, InGate, NoNode
<1>19. CASE DisposeBegins
  BY <1>19, <1>a, PluginShapes DEF DisposeBegins, Gated, InGate, NoNode
<1>20. CASE DisposeWaited
  BY <1>20, <1>a, PluginShapes DEF DisposeWaited, Gated, InGate, GateForClose, NoNode
<1>21. CASE DisposeEnds
  BY <1>21, <1>a, PluginShapes DEF DisposeEnds, Gated, InGate, NoNode
<1>22. ASSUME \/ Fail \/ Stopped \/ NamePrepared \/ CacheCleared
                \/ (\E h \in Jobs : PollDone(h))
                \/ (\E g \in Generations, h \in Jobs : JobEnds(g, h))
      PROVE  UNCHANGED <<background, gate, unload>>
  BY <1>22 DEF Fail, Stopped, NamePrepared, CacheCleared, PollDone, JobEnds
<1>23. CASE UNCHANGED pluginVars
  BY <1>1, <1>23 DEF pluginVars
<1> QED
  BY <1>1, <1>2, <1>3, <1>4, <1>5, <1>6, <1>7, <1>8, <1>9, <1>10, <1>11, <1>12, <1>13, <1>14, <1>15,
     <1>16, <1>17, <1>18, <1>19, <1>20, <1>21, <1>22, <1>23
     DEF PluginNext, FrameworkStep, BackgroundStep

LEMMA OpenStep ==
  ASSUME PluginInv, [PluginNext]_pluginVars
  PROVE  OneOpen'
<1>a. PluginTypeOK /\ Gated /\ OneOpen /\ Opening /\ InHand /\ OneHolder
  BY DEF PluginInv
<1>1. CASE UNCHANGED <<nodes>>
  BY <1>1, <1>a DEF OneOpen, IsOpen, InHand, Holds
<1>2. ASSUME NEW t \in background, OpenSucceeds(t) PROVE OneOpen'
  <2>1. PICK m \in Task : /\ background' = (background \ {t}) \cup {m} /\ m.at = "check" /\ m.kind = t.kind
                          /\ m.gen = t.gen /\ m.node = t.node /\ m.work = t.work
    BY <1>2, <1>a, MoveIs DEF OpenSucceeds
  <2> QED
    BY <1>2, <1>a, PluginShapes, <2>1 DEF OpenSucceeds, OneOpen, IsOpen, InHand, Holds, NoNode
<1>3. ASSUME NEW t \in background, CloseStarts(t) PROVE OneOpen'
  <2>1. PICK m \in Task : /\ background' = (background \ {t}) \cup {m} /\ m.at = "in" /\ m.kind = t.kind
                          /\ m.gen = t.gen /\ m.node = t.node /\ m.work = t.work
    BY <1>3, <1>a, MoveIs DEF CloseStarts
  <2> QED
    BY <1>3, <1>a, PluginShapes, <2>1
       DEF CloseStarts, OneOpen, IsOpen, InHand, Holds, NoNode, GateForClose
<1>4. ASSUME NEW t \in background, CloseEnds(t) PROVE OneOpen'
  <2>1. CASE MovesTo(t, "out") /\ t.kind = "stop"
    <3>1. PICK m \in Task : /\ background' = (background \ {t}) \cup {m} /\ m.at = "out" /\ m.kind = t.kind
                            /\ m.gen = t.gen /\ m.node = t.node /\ m.work = t.work
      BY <1>a, <2>1, MoveIs
    <3> QED
      BY <1>4, <1>a, PluginShapes, <2>1, <3>1 DEF CloseEnds, OneOpen, IsOpen, InHand, Holds, NoNode
  <2>2. CASE Ends(t) /\ t.kind # "stop"
    <3>1. background' = background \ {t}
      BY <2>2 DEF Ends
    <3> QED
      BY <1>4, <1>a, PluginShapes, <2>2, <3>1 DEF CloseEnds, OneOpen, IsOpen, InHand, Holds, NoNode
  <2> QED
    BY <1>4, <2>1, <2>2 DEF CloseEnds
<1>5. CASE DisposeWaited
  BY <1>5, <1>a, PluginShapes
     DEF DisposeWaited, OneOpen, IsOpen, InHand, Holds, NoNode, GateForClose
<1>6. CASE DisposeEnds
  BY <1>6, <1>a, PluginShapes DEF DisposeEnds, OneOpen, IsOpen, InHand, Holds, NoNode
<1>7. ASSUME \/ Start \/ Stop \/ PrepareNostr \/ ClearSharedFileCache \/ Opened \/ Fail \/ Stopped \/ NamePrepared \/ CacheCleared \/ DisposeBegins
                \/ (\E h \in Jobs : PollDone(h))
                \/ (\E t \in background : OpenFails(t) \/ OpenChecks(t) \/ StopAnswers(t)
                                          \/ WorkerEnters(t) \/ WorkerCalls(t) \/ WorkerLeaves(t)
                                          \/ WorkerAnswers(t) \/ ClearStarts(t) \/ ClearEnds(t))
                \/ (\E g \in Generations, h \in Jobs : JobEnds(g, h)) PROVE UNCHANGED <<nodes>>
  BY <1>7
     DEF Start, Stop, PrepareNostr, ClearSharedFileCache, Opened, Fail, Stopped, NamePrepared,
         CacheCleared, PollDone, OpenFails, OpenChecks, StopAnswers, WorkerEnters, WorkerCalls,
         WorkerLeaves, WorkerAnswers, ClearStarts, ClearEnds, JobEnds, DisposeBegins
<1>8. CASE UNCHANGED pluginVars
  BY <1>1, <1>8 DEF pluginVars
<1> QED
  BY <1>1, <1>2, <1>3, <1>4, <1>5, <1>6, <1>7, <1>8 DEF PluginNext, FrameworkStep, BackgroundStep

LEMMA OpeningStep ==
  ASSUME PluginInv, [PluginNext]_pluginVars
  PROVE  Opening'
<1>a. PluginTypeOK /\ Opening /\ InHand
  BY DEF PluginInv
<1>1. CASE UNCHANGED <<background, nodes, generation>>
  BY <1>1, <1>a DEF Opening, InHand, Holds, Generations
<1>2. CASE Start
  <2>1. generation + 1 \in 0 .. MaxGeneration
    BY <1>2, <1>a, PluginShapes DEF Start, NoNode
  <2>2. PICK m \in Task : /\ background' = background \cup {m} /\ m.kind = "open" /\ m.gen = generation + 1
                          /\ m.node = generation + 1 /\ m.at = "opening" /\ m.work = NoWork
    BY <1>2, <2>1, NewIs DEF Start
  <2> QED
    BY <1>2, <1>a, PluginShapes, <2>1, <2>2
       DEF Start, Opening, InHand, Holds, Generations, NoNode, Framework
<1>3. CASE Stop
  <2>1. CASE node = NoNode
    BY <1>3, <1>a, PluginShapes, <2>1
       DEF Stop, Opening, InHand, Holds, Generations, NoNode, Framework
  <2>2. CASE node # NoNode
    <3>1. generation + 1 \in 0 .. MaxGeneration /\ node \in 0 .. MaxGeneration
      BY <1>3, <1>a, PluginShapes DEF Stop
    <3>2. PICK m \in Task : /\ background' = background \cup {m} /\ m.kind = "stop" /\ m.gen = generation + 1
                            /\ m.node = node /\ m.at = "wait" /\ m.work = NoWork
      BY <1>3, <2>2, <3>1, NewIs DEF Stop
    <3> QED
      BY <1>3, <1>a, PluginShapes, <2>2, <3>1, <3>2
         DEF Stop, Opening, InHand, Holds, Generations, NoNode, Framework
  <2> QED
    BY <2>1, <2>2
<1>4. CASE PrepareNostr
  <2>1. generation \in 0 .. MaxGeneration /\ node \in 0 .. MaxGeneration
    BY <1>4, <1>a, PluginShapes DEF PrepareNostr, NoNode
  <2>2. PICK m \in Task : /\ background' = background \cup {m} /\ m.kind = "prepare" /\ m.gen = generation
                          /\ m.node = node /\ m.at = "wait" /\ m.work = NoWork
    BY <1>4, <2>1, NewIs DEF PrepareNostr
  <2> QED
    BY <1>4, <1>a, PluginShapes, <2>1, <2>2
       DEF PrepareNostr, Opening, InHand, Holds, Generations, NoNode, Framework
<1>5. CASE ClearSharedFileCache
  <2>1. generation \in 0 .. MaxGeneration /\ NoNode \in 0 .. MaxGeneration
    BY <1>5, <1>a, PluginShapes DEF ClearSharedFileCache, NoNode
  <2>2. PICK m \in Task : /\ background' = background \cup {m} /\ m.kind = "clear" /\ m.gen = generation
                          /\ m.node = NoNode /\ m.at = "wait" /\ m.work = NoWork
    BY <1>5, <2>1, NewIs DEF ClearSharedFileCache
  <2> QED
    BY <1>5, <1>a, PluginShapes, <2>1, <2>2
       DEF ClearSharedFileCache, Opening, InHand, Holds, Generations, NoNode, Framework,
           CanClearSharedCache
<1>6. CASE Opened
  <2>1. /\ 1 \in DOMAIN onFramework /\ Head(onFramework) = onFramework[1] /\ onFramework[1] \in Answer
        /\ \A i \in DOMAIN onFramework' : /\ i \in Int /\ i + 1 \in DOMAIN onFramework /\ i + 1 # 1
                                          /\ onFramework'[i] = onFramework[i + 1]
        /\ \A i \in DOMAIN onFramework : \/ i = 1
                                         \/ /\ i - 1 \in DOMAIN onFramework'
                                            /\ onFramework'[i - 1] = onFramework[i]
    BY <1>6, <1>a, TakenIs DEF Opened, Delivered
  <2>2. CASE background' = background /\ node' = onFramework[1].gen
                /\ onFramework[1].gen = generation /\ service = "Starting"
    BY <1>6, <1>a, PluginShapes, <2>1, <2>2
       DEF Opened, Opening, InHand, Holds, Generations, NoNode, Framework, Delivered
  <2>3. CASE \E m \in Task : /\ background' = background \cup {m} /\ m.kind = "close" /\ m.gen = onFramework[1].gen
                             /\ m.node = onFramework[1].gen /\ m.at = "wait" /\ m.work = NoWork /\ node' = node
    BY <1>6, <1>a, PluginShapes, <2>1, <2>3
       DEF Opened, Opening, InHand, Holds, Generations, NoNode, Framework, Delivered
  <2>4. onFramework[1].gen \in 0 .. MaxGeneration
    BY <2>1 DEF Answer
  <2> QED
    BY <1>6, <2>1, <2>2, <2>3, <2>4, NewIs DEF Opened
<1>7. ASSUME NEW t \in background, OpenSucceeds(t) PROVE Opening'
  <2>1. PICK m \in Task : /\ background' = (background \ {t}) \cup {m} /\ m.at = "check" /\ m.kind = t.kind
                          /\ m.gen = t.gen /\ m.node = t.node /\ m.work = t.work
    BY <1>7, <1>a, MoveIs DEF OpenSucceeds
  <2>2. \A u \in background : u.kind = "open" /\ u.at = "opening" /\ u.node = t.node => u = t
    BY <1>7, <1>a DEF OpenSucceeds, Opening, PluginTypeOK, Task
  <2>3. t.kind = "open" /\ t.node = t.gen /\ t.gen \in Generations /\ t.gen <= generation
    BY <1>7, <1>a DEF OpenSucceeds, Opening
  <2>4. /\ nodes' = [nodes EXCEPT ![t.node] = "open"] /\ generation' = generation
        /\ \A g \in Generations : g # t.node => nodes'[g] = nodes[g]
    BY <1>7, <1>a DEF OpenSucceeds, PluginTypeOK
  <2>5. \A u \in background' : u = m \/ (u \in background /\ u # t)
    BY <2>1
  <2>6. \A u \in background' : u.at \in {"opening", "check"} => u.kind = "open"
    BY <1>a, <2>1, <2>3, <2>5 DEF Opening
  <2>7. \A u \in background' : u.kind = "open" =>
           /\ u.gen \in Generations /\ u.gen <= generation' /\ u.node = u.gen /\ u.work = NoWork
           /\ u.at = "opening" => nodes'[u.node] = "none"
    <3> TAKE u \in background'
    <3>1. CASE u = m
      BY <1>a, <2>1, <2>3, <2>4, <3>1 DEF Opening
    <3>2. CASE u \in background /\ u # t
      BY <1>a, <2>2, <2>4, <3>2 DEF Opening
    <3> QED
      BY <2>5, <3>1, <3>2
  <2>8. \A g \in Generations : g > generation' => nodes'[g] = "none"
    BY <1>a, <2>3, <2>4, PluginShapes DEF Opening
  <2> QED
    BY <2>6, <2>7, <2>8 DEF Opening
<1>8. ASSUME NEW t \in background, OpenFails(t) PROVE Opening'
  <2>1. background' = background \ {t}
    BY <1>8 DEF OpenFails, Ends
  <2>2. PICK n : /\ n \notin DOMAIN onFramework /\ DOMAIN onFramework' = DOMAIN onFramework \cup {n}
                 /\ onFramework'[n].does = "Fail" /\ onFramework'[n].gen = t.gen
                 /\ \A i \in DOMAIN onFramework : onFramework'[i] = onFramework[i]
    BY <1>8, <1>a, AnswerIs DEF OpenFails
  <2> QED
    BY <1>8, <1>a, PluginShapes, <2>1, <2>2
       DEF OpenFails, Opening, InHand, Holds, Generations, NoNode
<1>9. ASSUME NEW t \in background, OpenChecks(t) PROVE Opening'
  <2>1. CASE MovesTo(t, "wait") /\ UNCHANGED onFramework
    <3>1. PICK m \in Task : /\ background' = (background \ {t}) \cup {m} /\ m.at = "wait" /\ m.kind = t.kind
                            /\ m.gen = t.gen /\ m.node = t.node /\ m.work = t.work
      BY <1>a, <2>1, MoveIs
    <3> QED
      BY <1>9, <1>a, PluginShapes, <2>1, <3>1
         DEF OpenChecks, Opening, InHand, Holds, Generations, NoNode
  <2>2. CASE Ends(t) /\ Answers("Opened", t)
    <3>1. background' = background \ {t}
      BY <2>2 DEF Ends
    <3>2. PICK n : /\ n \notin DOMAIN onFramework /\ DOMAIN onFramework' = DOMAIN onFramework \cup {n}
                 /\ onFramework'[n].does = "Opened" /\ onFramework'[n].gen = t.gen
                 /\ \A i \in DOMAIN onFramework : onFramework'[i] = onFramework[i]
      BY <1>a, <2>2, AnswerIs
    <3> QED
      BY <1>9, <1>a, PluginShapes, <3>1, <3>2
         DEF OpenChecks, Opening, InHand, Holds, Generations, NoNode
  <2> QED
    BY <1>9, <2>1, <2>2 DEF OpenChecks
<1>10. ASSUME NEW t \in background, CloseStarts(t) PROVE Opening'
  <2>1. PICK m \in Task : /\ background' = (background \ {t}) \cup {m} /\ m.at = "in" /\ m.kind = t.kind
                          /\ m.gen = t.gen /\ m.node = t.node /\ m.work = t.work
    BY <1>10, <1>a, MoveIs DEF CloseStarts
  <2> QED
    BY <1>10, <1>a, PluginShapes, <2>1
       DEF CloseStarts, Opening, InHand, Holds, Generations, NoNode, GateForClose
<1>11. ASSUME NEW t \in background, CloseEnds(t) PROVE Opening'
  <2>1. CASE MovesTo(t, "out") /\ t.kind = "stop"
    <3>1. PICK m \in Task : /\ background' = (background \ {t}) \cup {m} /\ m.at = "out" /\ m.kind = t.kind
                            /\ m.gen = t.gen /\ m.node = t.node /\ m.work = t.work
      BY <1>a, <2>1, MoveIs
    <3> QED
      BY <1>11, <1>a, PluginShapes, <2>1, <3>1
         DEF CloseEnds, Opening, InHand, Holds, Generations, NoNode
  <2>2. CASE Ends(t) /\ t.kind # "stop"
    <3>1. background' = background \ {t}
      BY <2>2 DEF Ends
    <3> QED
      BY <1>11, <1>a, PluginShapes, <2>2, <3>1
         DEF CloseEnds, Opening, InHand, Holds, Generations, NoNode
  <2> QED
    BY <1>11, <2>1, <2>2 DEF CloseEnds
<1>12. ASSUME NEW t \in background, StopAnswers(t) PROVE Opening'
  <2>1. background' = background \ {t}
    BY <1>12 DEF StopAnswers, Ends
  <2>2. PICK n : /\ n \notin DOMAIN onFramework /\ DOMAIN onFramework' = DOMAIN onFramework \cup {n}
                 /\ onFramework'[n].does = "Stopped" /\ onFramework'[n].gen = t.gen
                 /\ \A i \in DOMAIN onFramework : onFramework'[i] = onFramework[i]
    BY <1>12, <1>a, AnswerIs DEF StopAnswers
  <2> QED
    BY <1>12, <1>a, PluginShapes, <2>1, <2>2
       DEF StopAnswers, Opening, InHand, Holds, Generations, NoNode
<1>13. ASSUME NEW t \in background, WorkerEnters(t) PROVE Opening'
  <2>1. CASE MovesTo(t, "in") /\ gate' = {"prepare"} /\ t.gen = generation
    <3>1. PICK m \in Task : /\ background' = (background \ {t}) \cup {m} /\ m.at = "in" /\ m.kind = t.kind
                            /\ m.gen = t.gen /\ m.node = t.node /\ m.work = t.work
      BY <1>a, <2>1, MoveIs
    <3> QED
      BY <1>13, <1>a, PluginShapes, <2>1, <3>1
         DEF WorkerEnters, Opening, InHand, Holds, Generations, NoNode
  <2>2. CASE Ends(t) /\ t.gen # generation /\ UNCHANGED gate
    <3>1. background' = background \ {t}
      BY <2>2 DEF Ends
    <3> QED
      BY <1>13, <1>a, PluginShapes, <2>2, <3>1
         DEF WorkerEnters, Opening, InHand, Holds, Generations, NoNode
  <2> QED
    BY <1>13, <2>1, <2>2 DEF WorkerEnters
<1>14. ASSUME NEW t \in background, WorkerCalls(t) PROVE Opening'
  <2>1. PICK m \in Task : /\ background' = (background \ {t}) \cup {m} /\ m.at = "called"
                          /\ m.kind = t.kind /\ m.gen = t.gen /\ m.node = t.node
    BY <1>14, <1>a, CallIs
  <2>2. /\ t.kind = "prepare" /\ t.at = "in"
        /\ UNCHANGED <<service, generation, node, nodes, gate, onFramework, cacheBusy, unload>>
    BY <1>14 DEF WorkerCalls
  <2> QED
    BY <1>a, PluginShapes, <2>1, <2>2 DEF Opening, InHand, Holds, Generations
<1>15. ASSUME NEW t \in background, WorkerLeaves(t) PROVE Opening'
  <2>1. PICK m \in Task : /\ background' = (background \ {t}) \cup {m} /\ m.at = "out" /\ m.kind = t.kind
                          /\ m.gen = t.gen /\ m.node = t.node /\ m.work = t.work
    BY <1>15, <1>a, MoveIs DEF WorkerLeaves
  <2> QED
    BY <1>15, <1>a, PluginShapes, <2>1 DEF WorkerLeaves, Opening, InHand, Holds, Generations, NoNode
<1>16. ASSUME NEW t \in background, WorkerAnswers(t) PROVE Opening'
  <2>1. background' = background \ {t}
    BY <1>16 DEF WorkerAnswers, Ends
  <2>2. PICK n : /\ n \notin DOMAIN onFramework /\ DOMAIN onFramework' = DOMAIN onFramework \cup {n}
                 /\ onFramework'[n].does = "NamePrepared" /\ onFramework'[n].gen = t.gen
                 /\ \A i \in DOMAIN onFramework : onFramework'[i] = onFramework[i]
    BY <1>16, <1>a, AnswerIs DEF WorkerAnswers
  <2> QED
    BY <1>16, <1>a, PluginShapes, <2>1, <2>2
       DEF WorkerAnswers, Opening, InHand, Holds, Generations, NoNode
<1>17. ASSUME NEW t \in background, ClearStarts(t) PROVE Opening'
  <2>1. PICK m \in Task : /\ background' = (background \ {t}) \cup {m} /\ m.at = "in" /\ m.kind = t.kind
                          /\ m.gen = t.gen /\ m.node = t.node /\ m.work = t.work
    BY <1>17, <1>a, MoveIs DEF ClearStarts
  <2> QED
    BY <1>17, <1>a, PluginShapes, <2>1 DEF ClearStarts, Opening, InHand, Holds, Generations, NoNode
<1>18. ASSUME NEW t \in background, ClearEnds(t) PROVE Opening'
  <2>1. background' = background \ {t}
    BY <1>18 DEF ClearEnds, Ends
  <2>2. PICK n : /\ n \notin DOMAIN onFramework /\ DOMAIN onFramework' = DOMAIN onFramework \cup {n}
                 /\ onFramework'[n].does = "CacheCleared" /\ onFramework'[n].gen = t.gen
                 /\ \A i \in DOMAIN onFramework : onFramework'[i] = onFramework[i]
    BY <1>18, <1>a, AnswerIs DEF ClearEnds
  <2> QED
    BY <1>18, <1>a, PluginShapes, <2>1, <2>2
       DEF ClearEnds, Opening, InHand, Holds, Generations, NoNode
<1>19. CASE DisposeBegins
  BY <1>19, <1>a, PluginShapes DEF DisposeBegins, Opening, InHand, Holds, Generations, NoNode
<1>20. CASE DisposeWaited
  BY <1>20, <1>a, PluginShapes
     DEF DisposeWaited, Opening, InHand, Holds, Generations, NoNode, GateForClose
<1>21. CASE DisposeEnds
  BY <1>21, <1>a, PluginShapes DEF DisposeEnds, Opening, InHand, Holds, Generations, NoNode
<1>22. ASSUME \/ Fail \/ Stopped \/ NamePrepared \/ CacheCleared
                \/ (\E h \in Jobs : PollDone(h))
                \/ (\E g \in Generations, h \in Jobs : JobEnds(g, h))
      PROVE  UNCHANGED <<background, nodes, generation>>
  BY <1>22 DEF Fail, Stopped, NamePrepared, CacheCleared, PollDone, JobEnds
<1>23. CASE UNCHANGED pluginVars
  BY <1>1, <1>23 DEF pluginVars
<1> QED
  BY <1>1, <1>2, <1>3, <1>4, <1>5, <1>6, <1>7, <1>8, <1>9, <1>10, <1>11, <1>12, <1>13, <1>14, <1>15,
     <1>16, <1>17, <1>18, <1>19, <1>20, <1>21, <1>22, <1>23
     DEF PluginNext, FrameworkStep, BackgroundStep

LEMMA InHandStep ==
  ASSUME PluginInv, [PluginNext]_pluginVars
  PROVE  InHand'
<1>a. PluginTypeOK /\ Gated /\ OneOpen /\ Opening /\ InHand /\ OneHolder
  BY DEF PluginInv
<1>1. CASE UNCHANGED <<background, nodes, onFramework, node, unload>>
  BY <1>1, <1>a DEF Opening, InHand, OneHolder, OneOpen, IsOpen, Holds, OpenedAt, Generations
<1>2. CASE Start
  <2>1. generation + 1 \in 0 .. MaxGeneration
    BY <1>2, <1>a, PluginShapes DEF Start, NoNode
  <2>2. PICK m \in Task : /\ background' = background \cup {m} /\ m.kind = "open" /\ m.gen = generation + 1
                          /\ m.node = generation + 1 /\ m.at = "opening" /\ m.work = NoWork
    BY <1>2, <2>1, NewIs DEF Start
  <2> QED
    BY <1>2, <1>a, PluginShapes, <2>1, <2>2
       DEF Start, Opening, InHand, OneHolder, OneOpen, IsOpen, Holds, OpenedAt, Generations, NoNode,
           Framework
<1>3. CASE Stop
  <2>1. CASE node = NoNode
    BY <1>3, <1>a, PluginShapes, <2>1
       DEF Stop, Opening, InHand, OneHolder, OneOpen, IsOpen, Holds, OpenedAt, Generations, NoNode,
           Framework
  <2>2. CASE node # NoNode
    <3>1. generation + 1 \in 0 .. MaxGeneration /\ node \in 0 .. MaxGeneration
      BY <1>3, <1>a, PluginShapes DEF Stop
    <3>2. PICK m \in Task : /\ background' = background \cup {m} /\ m.kind = "stop" /\ m.gen = generation + 1
                            /\ m.node = node /\ m.at = "wait" /\ m.work = NoWork
      BY <1>3, <2>2, <3>1, NewIs DEF Stop
    <3> QED
      BY <1>3, <1>a, PluginShapes, <2>2, <3>1, <3>2
         DEF Stop, Opening, InHand, OneHolder, OneOpen, IsOpen, Holds, OpenedAt, Generations,
             NoNode, Framework
  <2> QED
    BY <2>1, <2>2
<1>4. CASE PrepareNostr
  <2>1. generation \in 0 .. MaxGeneration /\ node \in 0 .. MaxGeneration
    BY <1>4, <1>a, PluginShapes DEF PrepareNostr, NoNode
  <2>2. PICK m \in Task : /\ background' = background \cup {m} /\ m.kind = "prepare" /\ m.gen = generation
                          /\ m.node = node /\ m.at = "wait" /\ m.work = NoWork
    BY <1>4, <2>1, NewIs DEF PrepareNostr
  <2> QED
    BY <1>4, <1>a, PluginShapes, <2>1, <2>2
       DEF PrepareNostr, Opening, InHand, OneHolder, OneOpen, IsOpen, Holds, OpenedAt, Generations,
           NoNode, Framework
<1>5. CASE ClearSharedFileCache
  <2>1. generation \in 0 .. MaxGeneration /\ NoNode \in 0 .. MaxGeneration
    BY <1>5, <1>a, PluginShapes DEF ClearSharedFileCache, NoNode
  <2>2. PICK m \in Task : /\ background' = background \cup {m} /\ m.kind = "clear" /\ m.gen = generation
                          /\ m.node = NoNode /\ m.at = "wait" /\ m.work = NoWork
    BY <1>5, <2>1, NewIs DEF ClearSharedFileCache
  <2> QED
    BY <1>5, <1>a, PluginShapes, <2>1, <2>2
       DEF ClearSharedFileCache, Opening, InHand, OneHolder, OneOpen, IsOpen, Holds, OpenedAt,
           Generations, NoNode, Framework, CanClearSharedCache
<1>6. CASE Opened
  <2>1. /\ 1 \in DOMAIN onFramework /\ Head(onFramework) = onFramework[1] /\ onFramework[1] \in Answer
        /\ \A i \in DOMAIN onFramework' : /\ i \in Int /\ i + 1 \in DOMAIN onFramework /\ i + 1 # 1
                                          /\ onFramework'[i] = onFramework[i + 1]
        /\ \A i \in DOMAIN onFramework : \/ i = 1
                                         \/ /\ i - 1 \in DOMAIN onFramework'
                                            /\ onFramework'[i - 1] = onFramework[i]
    BY <1>6, <1>a, TakenIs DEF Opened, Delivered
  <2>2. CASE background' = background /\ node' = onFramework[1].gen
                /\ onFramework[1].gen = generation /\ service = "Starting"
    BY <1>6, <1>a, PluginShapes, <2>1, <2>2
       DEF Opened, Opening, InHand, OneHolder, OneOpen, IsOpen, Holds, OpenedAt, Generations,
           NoNode, Framework, Delivered
  <2>3. CASE \E m \in Task : /\ background' = background \cup {m} /\ m.kind = "close" /\ m.gen = onFramework[1].gen
                             /\ m.node = onFramework[1].gen /\ m.at = "wait" /\ m.work = NoWork /\ node' = node
    BY <1>6, <1>a, PluginShapes, <2>1, <2>3
       DEF Opened, Opening, InHand, OneHolder, OneOpen, IsOpen, Holds, OpenedAt, Generations,
           NoNode, Framework, Delivered
  <2>4. onFramework[1].gen \in 0 .. MaxGeneration
    BY <2>1 DEF Answer
  <2> QED
    BY <1>6, <2>1, <2>2, <2>3, <2>4, NewIs DEF Opened
<1>7. CASE Fail
  <2>1. /\ 1 \in DOMAIN onFramework /\ Head(onFramework) = onFramework[1] /\ onFramework[1] \in Answer
        /\ \A i \in DOMAIN onFramework' : /\ i \in Int /\ i + 1 \in DOMAIN onFramework /\ i + 1 # 1
                                          /\ onFramework'[i] = onFramework[i + 1]
        /\ \A i \in DOMAIN onFramework : \/ i = 1
                                         \/ /\ i - 1 \in DOMAIN onFramework'
                                            /\ onFramework'[i - 1] = onFramework[i]
    BY <1>7, <1>a, TakenIs DEF Fail, Delivered
  <2> QED
    BY <1>7, <1>a, PluginShapes, <2>1
       DEF Fail, Opening, InHand, OneHolder, OneOpen, IsOpen, Holds, OpenedAt, Generations, NoNode,
           Delivered, Framework
<1>8. CASE Stopped
  <2>1. /\ 1 \in DOMAIN onFramework /\ Head(onFramework) = onFramework[1] /\ onFramework[1] \in Answer
        /\ \A i \in DOMAIN onFramework' : /\ i \in Int /\ i + 1 \in DOMAIN onFramework /\ i + 1 # 1
                                          /\ onFramework'[i] = onFramework[i + 1]
        /\ \A i \in DOMAIN onFramework : \/ i = 1
                                         \/ /\ i - 1 \in DOMAIN onFramework'
                                            /\ onFramework'[i - 1] = onFramework[i]
    BY <1>8, <1>a, TakenIs DEF Stopped, Delivered
  <2> QED
    BY <1>8, <1>a, PluginShapes, <2>1
       DEF Stopped, Opening, InHand, OneHolder, OneOpen, IsOpen, Holds, OpenedAt, Generations,
           NoNode, Delivered, Framework
<1>9. CASE NamePrepared
  <2>1. /\ 1 \in DOMAIN onFramework /\ Head(onFramework) = onFramework[1] /\ onFramework[1] \in Answer
        /\ \A i \in DOMAIN onFramework' : /\ i \in Int /\ i + 1 \in DOMAIN onFramework /\ i + 1 # 1
                                          /\ onFramework'[i] = onFramework[i + 1]
        /\ \A i \in DOMAIN onFramework : \/ i = 1
                                         \/ /\ i - 1 \in DOMAIN onFramework'
                                            /\ onFramework'[i - 1] = onFramework[i]
    BY <1>9, <1>a, TakenIs DEF NamePrepared, Delivered
  <2> QED
    BY <1>9, <1>a, PluginShapes, <2>1
       DEF NamePrepared, Opening, InHand, OneHolder, OneOpen, IsOpen, Holds, OpenedAt, Generations,
           NoNode, Delivered, Framework
<1>10. CASE CacheCleared
  <2>1. /\ 1 \in DOMAIN onFramework /\ Head(onFramework) = onFramework[1] /\ onFramework[1] \in Answer
        /\ \A i \in DOMAIN onFramework' : /\ i \in Int /\ i + 1 \in DOMAIN onFramework /\ i + 1 # 1
                                          /\ onFramework'[i] = onFramework[i + 1]
        /\ \A i \in DOMAIN onFramework : \/ i = 1
                                         \/ /\ i - 1 \in DOMAIN onFramework'
                                            /\ onFramework'[i - 1] = onFramework[i]
    BY <1>10, <1>a, TakenIs DEF CacheCleared, Delivered
  <2> QED
    BY <1>10, <1>a, PluginShapes, <2>1
       DEF CacheCleared, Opening, InHand, OneHolder, OneOpen, IsOpen, Holds, OpenedAt, Generations,
           NoNode, Delivered, Framework
<1>11. ASSUME NEW t \in background, OpenSucceeds(t) PROVE InHand'
  <2>1. PICK m \in Task : /\ background' = (background \ {t}) \cup {m} /\ m.at = "check" /\ m.kind = t.kind
                          /\ m.gen = t.gen /\ m.node = t.node /\ m.work = t.work
    BY <1>11, <1>a, MoveIs DEF OpenSucceeds
  <2> QED
    BY <1>11, <1>a, PluginShapes, <2>1
       DEF OpenSucceeds, Opening, InHand, OneHolder, OneOpen, IsOpen, Holds, OpenedAt, Generations,
           NoNode
<1>12. ASSUME NEW t \in background, OpenFails(t) PROVE InHand'
  <2>1. background' = background \ {t}
    BY <1>12 DEF OpenFails, Ends
  <2>2. PICK n : /\ n \notin DOMAIN onFramework /\ DOMAIN onFramework' = DOMAIN onFramework \cup {n}
                 /\ onFramework'[n].does = "Fail" /\ onFramework'[n].gen = t.gen
                 /\ \A i \in DOMAIN onFramework : onFramework'[i] = onFramework[i]
    BY <1>12, <1>a, AnswerIs DEF OpenFails
  <2> QED
    BY <1>12, <1>a, PluginShapes, <2>1, <2>2
       DEF OpenFails, Opening, InHand, OneHolder, OneOpen, IsOpen, Holds, OpenedAt, Generations,
           NoNode
<1>13. ASSUME NEW t \in background, OpenChecks(t) PROVE InHand'
  <2>1. CASE MovesTo(t, "wait") /\ UNCHANGED onFramework
    <3>1. PICK m \in Task : /\ background' = (background \ {t}) \cup {m} /\ m.at = "wait" /\ m.kind = t.kind
                            /\ m.gen = t.gen /\ m.node = t.node /\ m.work = t.work
      BY <1>a, <2>1, MoveIs
    <3> QED
      BY <1>13, <1>a, PluginShapes, <2>1, <3>1
         DEF OpenChecks, Opening, InHand, OneHolder, OneOpen, IsOpen, Holds, OpenedAt, Generations,
             NoNode
  <2>2. CASE Ends(t) /\ Answers("Opened", t)
    <3>1. background' = background \ {t}
      BY <2>2 DEF Ends
    <3>2. PICK n : /\ n \notin DOMAIN onFramework /\ DOMAIN onFramework' = DOMAIN onFramework \cup {n}
                 /\ onFramework'[n].does = "Opened" /\ onFramework'[n].gen = t.gen
                 /\ \A i \in DOMAIN onFramework : onFramework'[i] = onFramework[i]
      BY <1>a, <2>2, AnswerIs
    <3> QED
      BY <1>13, <1>a, PluginShapes, <3>1, <3>2
         DEF OpenChecks, Opening, InHand, OneHolder, OneOpen, IsOpen, Holds, OpenedAt, Generations,
             NoNode
  <2> QED
    BY <1>13, <2>1, <2>2 DEF OpenChecks
<1>14. ASSUME NEW t \in background, CloseStarts(t) PROVE InHand'
  <2>1. PICK m \in Task : /\ background' = (background \ {t}) \cup {m} /\ m.at = "in" /\ m.kind = t.kind
                          /\ m.gen = t.gen /\ m.node = t.node /\ m.work = t.work
    BY <1>14, <1>a, MoveIs DEF CloseStarts
  <2> QED
    BY <1>14, <1>a, PluginShapes, <2>1
       DEF CloseStarts, Opening, InHand, OneHolder, OneOpen, IsOpen, Holds, OpenedAt, Generations,
           NoNode, GateForClose
<1>15. ASSUME NEW t \in background, CloseEnds(t) PROVE InHand'
  <2>1. CASE MovesTo(t, "out") /\ t.kind = "stop"
    <3>1. PICK m \in Task : /\ background' = (background \ {t}) \cup {m} /\ m.at = "out" /\ m.kind = t.kind
                            /\ m.gen = t.gen /\ m.node = t.node /\ m.work = t.work
      BY <1>a, <2>1, MoveIs
    <3> QED
      BY <1>15, <1>a, PluginShapes, <2>1, <3>1
         DEF CloseEnds, Opening, InHand, OneHolder, OneOpen, IsOpen, Holds, OpenedAt, Generations,
             NoNode
  <2>2. CASE Ends(t) /\ t.kind # "stop"
    <3>1. background' = background \ {t}
      BY <2>2 DEF Ends
    <3> QED
      BY <1>15, <1>a, PluginShapes, <2>2, <3>1
         DEF CloseEnds, Opening, InHand, OneHolder, OneOpen, IsOpen, Holds, OpenedAt, Generations,
             NoNode
  <2> QED
    BY <1>15, <2>1, <2>2 DEF CloseEnds
<1>16. ASSUME NEW t \in background, StopAnswers(t) PROVE InHand'
  <2>1. background' = background \ {t}
    BY <1>16 DEF StopAnswers, Ends
  <2>2. PICK n : /\ n \notin DOMAIN onFramework /\ DOMAIN onFramework' = DOMAIN onFramework \cup {n}
                 /\ onFramework'[n].does = "Stopped" /\ onFramework'[n].gen = t.gen
                 /\ \A i \in DOMAIN onFramework : onFramework'[i] = onFramework[i]
    BY <1>16, <1>a, AnswerIs DEF StopAnswers
  <2> QED
    BY <1>16, <1>a, PluginShapes, <2>1, <2>2
       DEF StopAnswers, Opening, InHand, OneHolder, OneOpen, IsOpen, Holds, OpenedAt, Generations,
           NoNode
<1>17. ASSUME NEW t \in background, WorkerEnters(t) PROVE InHand'
  <2>1. CASE MovesTo(t, "in") /\ gate' = {"prepare"} /\ t.gen = generation
    <3>1. PICK m \in Task : /\ background' = (background \ {t}) \cup {m} /\ m.at = "in" /\ m.kind = t.kind
                            /\ m.gen = t.gen /\ m.node = t.node /\ m.work = t.work
      BY <1>a, <2>1, MoveIs
    <3> QED
      BY <1>17, <1>a, PluginShapes, <2>1, <3>1
         DEF WorkerEnters, Opening, InHand, OneHolder, OneOpen, IsOpen, Holds, OpenedAt,
             Generations, NoNode
  <2>2. CASE Ends(t) /\ t.gen # generation /\ UNCHANGED gate
    <3>1. background' = background \ {t}
      BY <2>2 DEF Ends
    <3> QED
      BY <1>17, <1>a, PluginShapes, <2>2, <3>1
         DEF WorkerEnters, Opening, InHand, OneHolder, OneOpen, IsOpen, Holds, OpenedAt,
             Generations, NoNode
  <2> QED
    BY <1>17, <2>1, <2>2 DEF WorkerEnters
<1>18. ASSUME NEW t \in background, WorkerCalls(t) PROVE InHand'
  <2>1. PICK m \in Task : /\ background' = (background \ {t}) \cup {m} /\ m.at = "called"
                          /\ m.kind = t.kind /\ m.gen = t.gen /\ m.node = t.node
    BY <1>18, <1>a, CallIs
  <2>2. /\ t.kind = "prepare" /\ t.at = "in"
        /\ UNCHANGED <<service, generation, node, nodes, gate, onFramework, cacheBusy, unload>>
    BY <1>18 DEF WorkerCalls
  <2> QED
    BY <1>a, PluginShapes, <2>1, <2>2
       DEF Opening, InHand, OneHolder, OneOpen, IsOpen, Holds, OpenedAt, Generations
<1>19. ASSUME NEW t \in background, WorkerLeaves(t) PROVE InHand'
  <2>1. PICK m \in Task : /\ background' = (background \ {t}) \cup {m} /\ m.at = "out" /\ m.kind = t.kind
                          /\ m.gen = t.gen /\ m.node = t.node /\ m.work = t.work
    BY <1>19, <1>a, MoveIs DEF WorkerLeaves
  <2> QED
    BY <1>19, <1>a, PluginShapes, <2>1
       DEF WorkerLeaves, Opening, InHand, OneHolder, OneOpen, IsOpen, Holds, OpenedAt, Generations,
           NoNode
<1>20. ASSUME NEW t \in background, WorkerAnswers(t) PROVE InHand'
  <2>1. background' = background \ {t}
    BY <1>20 DEF WorkerAnswers, Ends
  <2>2. PICK n : /\ n \notin DOMAIN onFramework /\ DOMAIN onFramework' = DOMAIN onFramework \cup {n}
                 /\ onFramework'[n].does = "NamePrepared" /\ onFramework'[n].gen = t.gen
                 /\ \A i \in DOMAIN onFramework : onFramework'[i] = onFramework[i]
    BY <1>20, <1>a, AnswerIs DEF WorkerAnswers
  <2> QED
    BY <1>20, <1>a, PluginShapes, <2>1, <2>2
       DEF WorkerAnswers, Opening, InHand, OneHolder, OneOpen, IsOpen, Holds, OpenedAt, Generations,
           NoNode
<1>21. ASSUME NEW t \in background, ClearStarts(t) PROVE InHand'
  <2>1. PICK m \in Task : /\ background' = (background \ {t}) \cup {m} /\ m.at = "in" /\ m.kind = t.kind
                          /\ m.gen = t.gen /\ m.node = t.node /\ m.work = t.work
    BY <1>21, <1>a, MoveIs DEF ClearStarts
  <2> QED
    BY <1>21, <1>a, PluginShapes, <2>1
       DEF ClearStarts, Opening, InHand, OneHolder, OneOpen, IsOpen, Holds, OpenedAt, Generations,
           NoNode
<1>22. ASSUME NEW t \in background, ClearEnds(t) PROVE InHand'
  <2>1. background' = background \ {t}
    BY <1>22 DEF ClearEnds, Ends
  <2>2. PICK n : /\ n \notin DOMAIN onFramework /\ DOMAIN onFramework' = DOMAIN onFramework \cup {n}
                 /\ onFramework'[n].does = "CacheCleared" /\ onFramework'[n].gen = t.gen
                 /\ \A i \in DOMAIN onFramework : onFramework'[i] = onFramework[i]
    BY <1>22, <1>a, AnswerIs DEF ClearEnds
  <2> QED
    BY <1>22, <1>a, PluginShapes, <2>1, <2>2
       DEF ClearEnds, Opening, InHand, OneHolder, OneOpen, IsOpen, Holds, OpenedAt, Generations,
           NoNode
<1>23. CASE DisposeBegins
  BY <1>23, <1>a, PluginShapes
     DEF DisposeBegins, Opening, InHand, OneHolder, OneOpen, IsOpen, Holds, OpenedAt, Generations,
         NoNode
<1>24. CASE DisposeWaited
  BY <1>24, <1>a, PluginShapes
     DEF DisposeWaited, Opening, InHand, OneHolder, OneOpen, IsOpen, Holds, OpenedAt, Generations,
         NoNode, GateForClose
<1>25. CASE DisposeEnds
  BY <1>25, <1>a, PluginShapes
     DEF DisposeEnds, Opening, InHand, OneHolder, OneOpen, IsOpen, Holds, OpenedAt, Generations,
         NoNode
<1>26. ASSUME \/ (\E h \in Jobs : PollDone(h))
                \/ (\E g \in Generations, h \in Jobs : JobEnds(g, h))
      PROVE  UNCHANGED <<background, nodes, onFramework, node, unload>>
  BY <1>26 DEF PollDone, JobEnds
<1>27. CASE UNCHANGED pluginVars
  BY <1>1, <1>27 DEF pluginVars
<1> QED
  BY <1>1, <1>2, <1>3, <1>4, <1>5, <1>6, <1>7, <1>8, <1>9, <1>10, <1>11, <1>12, <1>13, <1>14, <1>15,
     <1>16, <1>17, <1>18, <1>19, <1>20, <1>21, <1>22, <1>23, <1>24, <1>25, <1>26, <1>27
     DEF PluginNext, FrameworkStep, BackgroundStep

LEMMA OneHolderStep ==
  ASSUME PluginInv, [PluginNext]_pluginVars
  PROVE  OneHolder'
<1>a. PluginTypeOK /\ OneOpen /\ Opening /\ InHand /\ OneHolder
  BY DEF PluginInv
<1>1. CASE UNCHANGED <<background, onFramework, node>>
  BY <1>1, <1>a DEF Opening, InHand, OneHolder, OneOpen, IsOpen, Holds, OpenedAt
<1>2. CASE Start
  <2>1. generation + 1 \in 0 .. MaxGeneration
    BY <1>2, <1>a, PluginShapes DEF Start, NoNode
  <2>2. PICK m \in Task : /\ background' = background \cup {m} /\ m.kind = "open" /\ m.gen = generation + 1
                          /\ m.node = generation + 1 /\ m.at = "opening" /\ m.work = NoWork
    BY <1>2, <2>1, NewIs DEF Start
  <2> QED
    BY <1>2, <1>a, PluginShapes, <2>1, <2>2
       DEF Start, Opening, InHand, OneHolder, OneOpen, IsOpen, Holds, OpenedAt, NoNode, Framework
<1>3. CASE Stop
  <2>1. CASE node = NoNode
    BY <1>3, <1>a, PluginShapes, <2>1
       DEF Stop, Opening, InHand, OneHolder, OneOpen, IsOpen, Holds, OpenedAt, NoNode, Framework
  <2>2. CASE node # NoNode
    <3>1. generation + 1 \in 0 .. MaxGeneration /\ node \in 0 .. MaxGeneration
      BY <1>3, <1>a, PluginShapes DEF Stop
    <3>2. PICK m \in Task : /\ background' = background \cup {m} /\ m.kind = "stop" /\ m.gen = generation + 1
                            /\ m.node = node /\ m.at = "wait" /\ m.work = NoWork
      BY <1>3, <2>2, <3>1, NewIs DEF Stop
    <3> QED
      BY <1>3, <1>a, PluginShapes, <2>2, <3>1, <3>2
         DEF Stop, Opening, InHand, OneHolder, OneOpen, IsOpen, Holds, OpenedAt, NoNode, Framework
  <2> QED
    BY <2>1, <2>2
<1>4. CASE PrepareNostr
  <2>1. generation \in 0 .. MaxGeneration /\ node \in 0 .. MaxGeneration
    BY <1>4, <1>a, PluginShapes DEF PrepareNostr, NoNode
  <2>2. PICK m \in Task : /\ background' = background \cup {m} /\ m.kind = "prepare" /\ m.gen = generation
                          /\ m.node = node /\ m.at = "wait" /\ m.work = NoWork
    BY <1>4, <2>1, NewIs DEF PrepareNostr
  <2> QED
    BY <1>4, <1>a, PluginShapes, <2>1, <2>2
       DEF PrepareNostr, Opening, InHand, OneHolder, OneOpen, IsOpen, Holds, OpenedAt, NoNode,
           Framework
<1>5. CASE ClearSharedFileCache
  <2>1. generation \in 0 .. MaxGeneration /\ NoNode \in 0 .. MaxGeneration
    BY <1>5, <1>a, PluginShapes DEF ClearSharedFileCache, NoNode
  <2>2. PICK m \in Task : /\ background' = background \cup {m} /\ m.kind = "clear" /\ m.gen = generation
                          /\ m.node = NoNode /\ m.at = "wait" /\ m.work = NoWork
    BY <1>5, <2>1, NewIs DEF ClearSharedFileCache
  <2> QED
    BY <1>5, <1>a, PluginShapes, <2>1, <2>2
       DEF ClearSharedFileCache, Opening, InHand, OneHolder, OneOpen, IsOpen, Holds, OpenedAt,
           NoNode, Framework, CanClearSharedCache
<1>6. CASE Opened
  <2>1. /\ 1 \in DOMAIN onFramework /\ Head(onFramework) = onFramework[1] /\ onFramework[1] \in Answer
        /\ \A i \in DOMAIN onFramework' : /\ i \in Int /\ i + 1 \in DOMAIN onFramework /\ i + 1 # 1
                                          /\ onFramework'[i] = onFramework[i + 1]
        /\ \A i \in DOMAIN onFramework : \/ i = 1
                                         \/ /\ i - 1 \in DOMAIN onFramework'
                                            /\ onFramework'[i - 1] = onFramework[i]
    BY <1>6, <1>a, TakenIs DEF Opened, Delivered
  <2>2. CASE background' = background /\ node' = onFramework[1].gen
                /\ onFramework[1].gen = generation /\ service = "Starting"
    BY <1>6, <1>a, PluginShapes, <2>1, <2>2
       DEF Opened, Opening, InHand, OneHolder, OneOpen, IsOpen, Holds, OpenedAt, NoNode, Framework,
           Delivered
  <2>3. CASE \E m \in Task : /\ background' = background \cup {m} /\ m.kind = "close" /\ m.gen = onFramework[1].gen
                             /\ m.node = onFramework[1].gen /\ m.at = "wait" /\ m.work = NoWork /\ node' = node
    BY <1>6, <1>a, PluginShapes, <2>1, <2>3
       DEF Opened, Opening, InHand, OneHolder, OneOpen, IsOpen, Holds, OpenedAt, NoNode, Framework,
           Delivered
  <2>4. onFramework[1].gen \in 0 .. MaxGeneration
    BY <2>1 DEF Answer
  <2> QED
    BY <1>6, <2>1, <2>2, <2>3, <2>4, NewIs DEF Opened
<1>7. CASE Fail
  <2>1. /\ 1 \in DOMAIN onFramework /\ Head(onFramework) = onFramework[1] /\ onFramework[1] \in Answer
        /\ \A i \in DOMAIN onFramework' : /\ i \in Int /\ i + 1 \in DOMAIN onFramework /\ i + 1 # 1
                                          /\ onFramework'[i] = onFramework[i + 1]
        /\ \A i \in DOMAIN onFramework : \/ i = 1
                                         \/ /\ i - 1 \in DOMAIN onFramework'
                                            /\ onFramework'[i - 1] = onFramework[i]
    BY <1>7, <1>a, TakenIs DEF Fail, Delivered
  <2> QED
    BY <1>7, <1>a, PluginShapes, <2>1
       DEF Fail, Opening, InHand, OneHolder, OneOpen, IsOpen, Holds, OpenedAt, NoNode, Delivered,
           Framework
<1>8. CASE Stopped
  <2>1. /\ 1 \in DOMAIN onFramework /\ Head(onFramework) = onFramework[1] /\ onFramework[1] \in Answer
        /\ \A i \in DOMAIN onFramework' : /\ i \in Int /\ i + 1 \in DOMAIN onFramework /\ i + 1 # 1
                                          /\ onFramework'[i] = onFramework[i + 1]
        /\ \A i \in DOMAIN onFramework : \/ i = 1
                                         \/ /\ i - 1 \in DOMAIN onFramework'
                                            /\ onFramework'[i - 1] = onFramework[i]
    BY <1>8, <1>a, TakenIs DEF Stopped, Delivered
  <2> QED
    BY <1>8, <1>a, PluginShapes, <2>1
       DEF Stopped, Opening, InHand, OneHolder, OneOpen, IsOpen, Holds, OpenedAt, NoNode, Delivered,
           Framework
<1>9. CASE NamePrepared
  <2>1. /\ 1 \in DOMAIN onFramework /\ Head(onFramework) = onFramework[1] /\ onFramework[1] \in Answer
        /\ \A i \in DOMAIN onFramework' : /\ i \in Int /\ i + 1 \in DOMAIN onFramework /\ i + 1 # 1
                                          /\ onFramework'[i] = onFramework[i + 1]
        /\ \A i \in DOMAIN onFramework : \/ i = 1
                                         \/ /\ i - 1 \in DOMAIN onFramework'
                                            /\ onFramework'[i - 1] = onFramework[i]
    BY <1>9, <1>a, TakenIs DEF NamePrepared, Delivered
  <2> QED
    BY <1>9, <1>a, PluginShapes, <2>1
       DEF NamePrepared, Opening, InHand, OneHolder, OneOpen, IsOpen, Holds, OpenedAt, NoNode,
           Delivered, Framework
<1>10. CASE CacheCleared
  <2>1. /\ 1 \in DOMAIN onFramework /\ Head(onFramework) = onFramework[1] /\ onFramework[1] \in Answer
        /\ \A i \in DOMAIN onFramework' : /\ i \in Int /\ i + 1 \in DOMAIN onFramework /\ i + 1 # 1
                                          /\ onFramework'[i] = onFramework[i + 1]
        /\ \A i \in DOMAIN onFramework : \/ i = 1
                                         \/ /\ i - 1 \in DOMAIN onFramework'
                                            /\ onFramework'[i - 1] = onFramework[i]
    BY <1>10, <1>a, TakenIs DEF CacheCleared, Delivered
  <2> QED
    BY <1>10, <1>a, PluginShapes, <2>1
       DEF CacheCleared, Opening, InHand, OneHolder, OneOpen, IsOpen, Holds, OpenedAt, NoNode,
           Delivered, Framework
<1>11. ASSUME NEW t \in background, OpenSucceeds(t) PROVE OneHolder'
  <2>1. PICK m \in Task : /\ background' = (background \ {t}) \cup {m} /\ m.at = "check" /\ m.kind = t.kind
                          /\ m.gen = t.gen /\ m.node = t.node /\ m.work = t.work
    BY <1>11, <1>a, MoveIs DEF OpenSucceeds
  <2> QED
    BY <1>11, <1>a, PluginShapes, <2>1
       DEF OpenSucceeds, Opening, InHand, OneHolder, OneOpen, IsOpen, Holds, OpenedAt, NoNode
<1>12. ASSUME NEW t \in background, OpenFails(t) PROVE OneHolder'
  <2>1. background' = background \ {t}
    BY <1>12 DEF OpenFails, Ends
  <2>2. PICK n : /\ n \notin DOMAIN onFramework /\ DOMAIN onFramework' = DOMAIN onFramework \cup {n}
                 /\ onFramework'[n].does = "Fail" /\ onFramework'[n].gen = t.gen
                 /\ \A i \in DOMAIN onFramework : onFramework'[i] = onFramework[i]
    BY <1>12, <1>a, AnswerIs DEF OpenFails
  <2> QED
    BY <1>12, <1>a, PluginShapes, <2>1, <2>2
       DEF OpenFails, Opening, InHand, OneHolder, OneOpen, IsOpen, Holds, OpenedAt, NoNode
<1>13. ASSUME NEW t \in background, OpenChecks(t) PROVE OneHolder'
  <2>1. CASE MovesTo(t, "wait") /\ UNCHANGED onFramework
    <3>1. PICK m \in Task : /\ background' = (background \ {t}) \cup {m} /\ m.at = "wait" /\ m.kind = t.kind
                            /\ m.gen = t.gen /\ m.node = t.node /\ m.work = t.work
      BY <1>a, <2>1, MoveIs
    <3> QED
      BY <1>13, <1>a, PluginShapes, <2>1, <3>1
         DEF OpenChecks, Opening, InHand, OneHolder, OneOpen, IsOpen, Holds, OpenedAt, NoNode
  <2>2. CASE Ends(t) /\ Answers("Opened", t)
    <3>1. background' = background \ {t}
      BY <2>2 DEF Ends
    <3>2. PICK n : /\ n \notin DOMAIN onFramework /\ DOMAIN onFramework' = DOMAIN onFramework \cup {n}
                 /\ onFramework'[n].does = "Opened" /\ onFramework'[n].gen = t.gen
                 /\ \A i \in DOMAIN onFramework : onFramework'[i] = onFramework[i]
      BY <1>a, <2>2, AnswerIs
    <3> QED
      BY <1>13, <1>a, PluginShapes, <3>1, <3>2
         DEF OpenChecks, Opening, InHand, OneHolder, OneOpen, IsOpen, Holds, OpenedAt, NoNode
  <2> QED
    BY <1>13, <2>1, <2>2 DEF OpenChecks
<1>14. ASSUME NEW t \in background, CloseStarts(t) PROVE OneHolder'
  <2>1. PICK m \in Task : /\ background' = (background \ {t}) \cup {m} /\ m.at = "in" /\ m.kind = t.kind
                          /\ m.gen = t.gen /\ m.node = t.node /\ m.work = t.work
    BY <1>14, <1>a, MoveIs DEF CloseStarts
  <2> QED
    BY <1>14, <1>a, PluginShapes, <2>1
       DEF CloseStarts, Opening, InHand, OneHolder, OneOpen, IsOpen, Holds, OpenedAt, NoNode,
           GateForClose
<1>15. ASSUME NEW t \in background, CloseEnds(t) PROVE OneHolder'
  <2>1. CASE MovesTo(t, "out") /\ t.kind = "stop"
    <3>1. PICK m \in Task : /\ background' = (background \ {t}) \cup {m} /\ m.at = "out" /\ m.kind = t.kind
                            /\ m.gen = t.gen /\ m.node = t.node /\ m.work = t.work
      BY <1>a, <2>1, MoveIs
    <3> QED
      BY <1>15, <1>a, PluginShapes, <2>1, <3>1
         DEF CloseEnds, Opening, InHand, OneHolder, OneOpen, IsOpen, Holds, OpenedAt, NoNode
  <2>2. CASE Ends(t) /\ t.kind # "stop"
    <3>1. background' = background \ {t}
      BY <2>2 DEF Ends
    <3> QED
      BY <1>15, <1>a, PluginShapes, <2>2, <3>1
         DEF CloseEnds, Opening, InHand, OneHolder, OneOpen, IsOpen, Holds, OpenedAt, NoNode
  <2> QED
    BY <1>15, <2>1, <2>2 DEF CloseEnds
<1>16. ASSUME NEW t \in background, StopAnswers(t) PROVE OneHolder'
  <2>1. background' = background \ {t}
    BY <1>16 DEF StopAnswers, Ends
  <2>2. PICK n : /\ n \notin DOMAIN onFramework /\ DOMAIN onFramework' = DOMAIN onFramework \cup {n}
                 /\ onFramework'[n].does = "Stopped" /\ onFramework'[n].gen = t.gen
                 /\ \A i \in DOMAIN onFramework : onFramework'[i] = onFramework[i]
    BY <1>16, <1>a, AnswerIs DEF StopAnswers
  <2> QED
    BY <1>16, <1>a, PluginShapes, <2>1, <2>2
       DEF StopAnswers, Opening, InHand, OneHolder, OneOpen, IsOpen, Holds, OpenedAt, NoNode
<1>17. ASSUME NEW t \in background, WorkerEnters(t) PROVE OneHolder'
  <2>1. CASE MovesTo(t, "in") /\ gate' = {"prepare"} /\ t.gen = generation
    <3>1. PICK m \in Task : /\ background' = (background \ {t}) \cup {m} /\ m.at = "in" /\ m.kind = t.kind
                            /\ m.gen = t.gen /\ m.node = t.node /\ m.work = t.work
      BY <1>a, <2>1, MoveIs
    <3> QED
      BY <1>17, <1>a, PluginShapes, <2>1, <3>1
         DEF WorkerEnters, Opening, InHand, OneHolder, OneOpen, IsOpen, Holds, OpenedAt, NoNode
  <2>2. CASE Ends(t) /\ t.gen # generation /\ UNCHANGED gate
    <3>1. background' = background \ {t}
      BY <2>2 DEF Ends
    <3> QED
      BY <1>17, <1>a, PluginShapes, <2>2, <3>1
         DEF WorkerEnters, Opening, InHand, OneHolder, OneOpen, IsOpen, Holds, OpenedAt, NoNode
  <2> QED
    BY <1>17, <2>1, <2>2 DEF WorkerEnters
<1>18. ASSUME NEW t \in background, WorkerCalls(t) PROVE OneHolder'
  <2>1. PICK m \in Task : /\ background' = (background \ {t}) \cup {m} /\ m.at = "called"
                          /\ m.kind = t.kind /\ m.gen = t.gen /\ m.node = t.node
    BY <1>18, <1>a, CallIs
  <2>2. /\ t.kind = "prepare" /\ t.at = "in"
        /\ UNCHANGED <<service, generation, node, nodes, gate, onFramework, cacheBusy, unload>>
    BY <1>18 DEF WorkerCalls
  <2> QED
    BY <1>a, PluginShapes, <2>1, <2>2
       DEF Opening, InHand, OneHolder, OneOpen, IsOpen, Holds, OpenedAt
<1>19. ASSUME NEW t \in background, WorkerLeaves(t) PROVE OneHolder'
  <2>1. PICK m \in Task : /\ background' = (background \ {t}) \cup {m} /\ m.at = "out" /\ m.kind = t.kind
                          /\ m.gen = t.gen /\ m.node = t.node /\ m.work = t.work
    BY <1>19, <1>a, MoveIs DEF WorkerLeaves
  <2> QED
    BY <1>19, <1>a, PluginShapes, <2>1
       DEF WorkerLeaves, Opening, InHand, OneHolder, OneOpen, IsOpen, Holds, OpenedAt, NoNode
<1>20. ASSUME NEW t \in background, WorkerAnswers(t) PROVE OneHolder'
  <2>1. background' = background \ {t}
    BY <1>20 DEF WorkerAnswers, Ends
  <2>2. PICK n : /\ n \notin DOMAIN onFramework /\ DOMAIN onFramework' = DOMAIN onFramework \cup {n}
                 /\ onFramework'[n].does = "NamePrepared" /\ onFramework'[n].gen = t.gen
                 /\ \A i \in DOMAIN onFramework : onFramework'[i] = onFramework[i]
    BY <1>20, <1>a, AnswerIs DEF WorkerAnswers
  <2> QED
    BY <1>20, <1>a, PluginShapes, <2>1, <2>2
       DEF WorkerAnswers, Opening, InHand, OneHolder, OneOpen, IsOpen, Holds, OpenedAt, NoNode
<1>21. ASSUME NEW t \in background, ClearStarts(t) PROVE OneHolder'
  <2>1. PICK m \in Task : /\ background' = (background \ {t}) \cup {m} /\ m.at = "in" /\ m.kind = t.kind
                          /\ m.gen = t.gen /\ m.node = t.node /\ m.work = t.work
    BY <1>21, <1>a, MoveIs DEF ClearStarts
  <2> QED
    BY <1>21, <1>a, PluginShapes, <2>1
       DEF ClearStarts, Opening, InHand, OneHolder, OneOpen, IsOpen, Holds, OpenedAt, NoNode
<1>22. ASSUME NEW t \in background, ClearEnds(t) PROVE OneHolder'
  <2>1. background' = background \ {t}
    BY <1>22 DEF ClearEnds, Ends
  <2>2. PICK n : /\ n \notin DOMAIN onFramework /\ DOMAIN onFramework' = DOMAIN onFramework \cup {n}
                 /\ onFramework'[n].does = "CacheCleared" /\ onFramework'[n].gen = t.gen
                 /\ \A i \in DOMAIN onFramework : onFramework'[i] = onFramework[i]
    BY <1>22, <1>a, AnswerIs DEF ClearEnds
  <2> QED
    BY <1>22, <1>a, PluginShapes, <2>1, <2>2
       DEF ClearEnds, Opening, InHand, OneHolder, OneOpen, IsOpen, Holds, OpenedAt, NoNode
<1>23. CASE DisposeEnds
  BY <1>23, <1>a, PluginShapes
     DEF DisposeEnds, Opening, InHand, OneHolder, OneOpen, IsOpen, Holds, OpenedAt, NoNode
<1>24. ASSUME \/ (\E h \in Jobs : PollDone(h))
                \/ (\E g \in Generations, h \in Jobs : JobEnds(g, h))
                \/ DisposeBegins \/ DisposeWaited PROVE UNCHANGED <<background, onFramework, node>>
  BY <1>24 DEF PollDone, JobEnds, DisposeBegins, DisposeWaited
<1>25. CASE UNCHANGED pluginVars
  BY <1>1, <1>25 DEF pluginVars
<1> QED
  BY <1>1, <1>2, <1>3, <1>4, <1>5, <1>6, <1>7, <1>8, <1>9, <1>10, <1>11, <1>12, <1>13, <1>14, <1>15,
     <1>16, <1>17, <1>18, <1>19, <1>20, <1>21, <1>22, <1>23, <1>24, <1>25
     DEF PluginNext, FrameworkStep, BackgroundStep

LEMMA SomeHolderStep ==
  ASSUME PluginInv, [PluginNext]_pluginVars
  PROVE  SomeHolder'
<1>a. PluginTypeOK /\ OneOpen /\ Opening /\ InHand /\ OneHolder /\ SomeHolder
  BY DEF PluginInv
<1>1. CASE UNCHANGED <<background, nodes, onFramework, node>>
  BY <1>1, <1>a DEF Opening, InHand, OneHolder, SomeHolder, IsOpen, Holds, OpenedAt
<1>2. CASE Start
  <2>1. generation + 1 \in 0 .. MaxGeneration
    BY <1>2, <1>a, PluginShapes DEF Start, NoNode
  <2>2. PICK m \in Task : /\ background' = background \cup {m} /\ m.kind = "open" /\ m.gen = generation + 1
                          /\ m.node = generation + 1 /\ m.at = "opening" /\ m.work = NoWork
    BY <1>2, <2>1, NewIs DEF Start
  <2> QED
    BY <1>2, <1>a, PluginShapes, <2>1, <2>2
       DEF Start, Opening, InHand, OneHolder, SomeHolder, IsOpen, Holds, OpenedAt, NoNode, Framework
<1>3. CASE Stop
  <2>1. CASE node = NoNode
    BY <1>3, <1>a, PluginShapes, <2>1
       DEF Stop, Opening, InHand, OneHolder, SomeHolder, IsOpen, Holds, OpenedAt, NoNode, Framework
  <2>2. CASE node # NoNode
    <3>1. generation + 1 \in 0 .. MaxGeneration /\ node \in 0 .. MaxGeneration
      BY <1>3, <1>a, PluginShapes DEF Stop
    <3>2. PICK m \in Task : /\ background' = background \cup {m} /\ m.kind = "stop" /\ m.gen = generation + 1
                            /\ m.node = node /\ m.at = "wait" /\ m.work = NoWork
      BY <1>3, <2>2, <3>1, NewIs DEF Stop
    <3> QED
      BY <1>3, <1>a, PluginShapes, <2>2, <3>1, <3>2
         DEF Stop, Opening, InHand, OneHolder, SomeHolder, IsOpen, Holds, OpenedAt, NoNode,
             Framework
  <2> QED
    BY <2>1, <2>2
<1>4. CASE PrepareNostr
  <2>1. generation \in 0 .. MaxGeneration /\ node \in 0 .. MaxGeneration
    BY <1>4, <1>a, PluginShapes DEF PrepareNostr, NoNode
  <2>2. PICK m \in Task : /\ background' = background \cup {m} /\ m.kind = "prepare" /\ m.gen = generation
                          /\ m.node = node /\ m.at = "wait" /\ m.work = NoWork
    BY <1>4, <2>1, NewIs DEF PrepareNostr
  <2> QED
    BY <1>4, <1>a, PluginShapes, <2>1, <2>2
       DEF PrepareNostr, Opening, InHand, OneHolder, SomeHolder, IsOpen, Holds, OpenedAt, NoNode,
           Framework
<1>5. CASE ClearSharedFileCache
  <2>1. generation \in 0 .. MaxGeneration /\ NoNode \in 0 .. MaxGeneration
    BY <1>5, <1>a, PluginShapes DEF ClearSharedFileCache, NoNode
  <2>2. PICK m \in Task : /\ background' = background \cup {m} /\ m.kind = "clear" /\ m.gen = generation
                          /\ m.node = NoNode /\ m.at = "wait" /\ m.work = NoWork
    BY <1>5, <2>1, NewIs DEF ClearSharedFileCache
  <2> QED
    BY <1>5, <1>a, PluginShapes, <2>1, <2>2
       DEF ClearSharedFileCache, Opening, InHand, OneHolder, SomeHolder, IsOpen, Holds, OpenedAt,
           NoNode, Framework, CanClearSharedCache
<1>6. CASE Opened
  <2>1. /\ 1 \in DOMAIN onFramework /\ Head(onFramework) = onFramework[1] /\ onFramework[1] \in Answer
        /\ \A i \in DOMAIN onFramework' : /\ i \in Int /\ i + 1 \in DOMAIN onFramework /\ i + 1 # 1
                                          /\ onFramework'[i] = onFramework[i + 1]
        /\ \A i \in DOMAIN onFramework : \/ i = 1
                                         \/ /\ i - 1 \in DOMAIN onFramework'
                                            /\ onFramework'[i - 1] = onFramework[i]
    BY <1>6, <1>a, TakenIs DEF Opened, Delivered
  <2>2. CASE background' = background /\ node' = onFramework[1].gen
                /\ onFramework[1].gen = generation /\ service = "Starting"
    BY <1>6, <1>a, PluginShapes, <2>1, <2>2
       DEF Opened, Opening, InHand, OneHolder, SomeHolder, IsOpen, Holds, OpenedAt, NoNode,
           Framework, Delivered
  <2>3. CASE \E m \in Task : /\ background' = background \cup {m} /\ m.kind = "close" /\ m.gen = onFramework[1].gen
                             /\ m.node = onFramework[1].gen /\ m.at = "wait" /\ m.work = NoWork /\ node' = node
    BY <1>6, <1>a, PluginShapes, <2>1, <2>3
       DEF Opened, Opening, InHand, OneHolder, SomeHolder, IsOpen, Holds, OpenedAt, NoNode,
           Framework, Delivered
  <2>4. onFramework[1].gen \in 0 .. MaxGeneration
    BY <2>1 DEF Answer
  <2> QED
    BY <1>6, <2>1, <2>2, <2>3, <2>4, NewIs DEF Opened
<1>7. CASE Fail
  <2>1. /\ 1 \in DOMAIN onFramework /\ Head(onFramework) = onFramework[1] /\ onFramework[1] \in Answer
        /\ \A i \in DOMAIN onFramework' : /\ i \in Int /\ i + 1 \in DOMAIN onFramework /\ i + 1 # 1
                                          /\ onFramework'[i] = onFramework[i + 1]
        /\ \A i \in DOMAIN onFramework : \/ i = 1
                                         \/ /\ i - 1 \in DOMAIN onFramework'
                                            /\ onFramework'[i - 1] = onFramework[i]
    BY <1>7, <1>a, TakenIs DEF Fail, Delivered
  <2> QED
    BY <1>7, <1>a, PluginShapes, <2>1
       DEF Fail, Opening, InHand, OneHolder, SomeHolder, IsOpen, Holds, OpenedAt, NoNode, Delivered,
           Framework
<1>8. CASE Stopped
  <2>1. /\ 1 \in DOMAIN onFramework /\ Head(onFramework) = onFramework[1] /\ onFramework[1] \in Answer
        /\ \A i \in DOMAIN onFramework' : /\ i \in Int /\ i + 1 \in DOMAIN onFramework /\ i + 1 # 1
                                          /\ onFramework'[i] = onFramework[i + 1]
        /\ \A i \in DOMAIN onFramework : \/ i = 1
                                         \/ /\ i - 1 \in DOMAIN onFramework'
                                            /\ onFramework'[i - 1] = onFramework[i]
    BY <1>8, <1>a, TakenIs DEF Stopped, Delivered
  <2> QED
    BY <1>8, <1>a, PluginShapes, <2>1
       DEF Stopped, Opening, InHand, OneHolder, SomeHolder, IsOpen, Holds, OpenedAt, NoNode,
           Delivered, Framework
<1>9. CASE NamePrepared
  <2>1. /\ 1 \in DOMAIN onFramework /\ Head(onFramework) = onFramework[1] /\ onFramework[1] \in Answer
        /\ \A i \in DOMAIN onFramework' : /\ i \in Int /\ i + 1 \in DOMAIN onFramework /\ i + 1 # 1
                                          /\ onFramework'[i] = onFramework[i + 1]
        /\ \A i \in DOMAIN onFramework : \/ i = 1
                                         \/ /\ i - 1 \in DOMAIN onFramework'
                                            /\ onFramework'[i - 1] = onFramework[i]
    BY <1>9, <1>a, TakenIs DEF NamePrepared, Delivered
  <2> QED
    BY <1>9, <1>a, PluginShapes, <2>1
       DEF NamePrepared, Opening, InHand, OneHolder, SomeHolder, IsOpen, Holds, OpenedAt, NoNode,
           Delivered, Framework
<1>10. CASE CacheCleared
  <2>1. /\ 1 \in DOMAIN onFramework /\ Head(onFramework) = onFramework[1] /\ onFramework[1] \in Answer
        /\ \A i \in DOMAIN onFramework' : /\ i \in Int /\ i + 1 \in DOMAIN onFramework /\ i + 1 # 1
                                          /\ onFramework'[i] = onFramework[i + 1]
        /\ \A i \in DOMAIN onFramework : \/ i = 1
                                         \/ /\ i - 1 \in DOMAIN onFramework'
                                            /\ onFramework'[i - 1] = onFramework[i]
    BY <1>10, <1>a, TakenIs DEF CacheCleared, Delivered
  <2> QED
    BY <1>10, <1>a, PluginShapes, <2>1
       DEF CacheCleared, Opening, InHand, OneHolder, SomeHolder, IsOpen, Holds, OpenedAt, NoNode,
           Delivered, Framework
<1>11. ASSUME NEW t \in background, OpenSucceeds(t) PROVE SomeHolder'
  <2>1. PICK m \in Task : /\ background' = (background \ {t}) \cup {m} /\ m.at = "check" /\ m.kind = t.kind
                          /\ m.gen = t.gen /\ m.node = t.node /\ m.work = t.work
    BY <1>11, <1>a, MoveIs DEF OpenSucceeds
  <2> QED
    BY <1>11, <1>a, PluginShapes, <2>1
       DEF OpenSucceeds, Opening, InHand, OneHolder, SomeHolder, IsOpen, Holds, OpenedAt, NoNode
<1>12. ASSUME NEW t \in background, OpenFails(t) PROVE SomeHolder'
  <2>1. background' = background \ {t}
    BY <1>12 DEF OpenFails, Ends
  <2>2. PICK n : /\ n \notin DOMAIN onFramework /\ DOMAIN onFramework' = DOMAIN onFramework \cup {n}
                 /\ onFramework'[n].does = "Fail" /\ onFramework'[n].gen = t.gen
                 /\ \A i \in DOMAIN onFramework : onFramework'[i] = onFramework[i]
    BY <1>12, <1>a, AnswerIs DEF OpenFails
  <2> QED
    BY <1>12, <1>a, PluginShapes, <2>1, <2>2
       DEF OpenFails, Opening, InHand, OneHolder, SomeHolder, IsOpen, Holds, OpenedAt, NoNode
<1>13. ASSUME NEW t \in background, OpenChecks(t) PROVE SomeHolder'
  <2>1. CASE MovesTo(t, "wait") /\ UNCHANGED onFramework
    <3>1. PICK m \in Task : /\ background' = (background \ {t}) \cup {m} /\ m.at = "wait" /\ m.kind = t.kind
                            /\ m.gen = t.gen /\ m.node = t.node /\ m.work = t.work
      BY <1>a, <2>1, MoveIs
    <3> QED
      BY <1>13, <1>a, PluginShapes, <2>1, <3>1
         DEF OpenChecks, Opening, InHand, OneHolder, SomeHolder, IsOpen, Holds, OpenedAt, NoNode
  <2>2. CASE Ends(t) /\ Answers("Opened", t)
    <3>1. background' = background \ {t}
      BY <2>2 DEF Ends
    <3>2. PICK n : /\ n \notin DOMAIN onFramework /\ DOMAIN onFramework' = DOMAIN onFramework \cup {n}
                 /\ onFramework'[n].does = "Opened" /\ onFramework'[n].gen = t.gen
                 /\ \A i \in DOMAIN onFramework : onFramework'[i] = onFramework[i]
      BY <1>a, <2>2, AnswerIs
    <3> QED
      BY <1>13, <1>a, PluginShapes, <3>1, <3>2
         DEF OpenChecks, Opening, InHand, OneHolder, SomeHolder, IsOpen, Holds, OpenedAt, NoNode
  <2> QED
    BY <1>13, <2>1, <2>2 DEF OpenChecks
<1>14. ASSUME NEW t \in background, CloseStarts(t) PROVE SomeHolder'
  <2>1. PICK m \in Task : /\ background' = (background \ {t}) \cup {m} /\ m.at = "in" /\ m.kind = t.kind
                          /\ m.gen = t.gen /\ m.node = t.node /\ m.work = t.work
    BY <1>14, <1>a, MoveIs DEF CloseStarts
  <2> QED
    BY <1>14, <1>a, PluginShapes, <2>1
       DEF CloseStarts, Opening, InHand, OneHolder, SomeHolder, IsOpen, Holds, OpenedAt, NoNode,
           GateForClose
<1>15. ASSUME NEW t \in background, CloseEnds(t) PROVE SomeHolder'
  <2>1. CASE MovesTo(t, "out") /\ t.kind = "stop"
    <3>1. PICK m \in Task : /\ background' = (background \ {t}) \cup {m} /\ m.at = "out" /\ m.kind = t.kind
                            /\ m.gen = t.gen /\ m.node = t.node /\ m.work = t.work
      BY <1>a, <2>1, MoveIs
    <3> QED
      BY <1>15, <1>a, PluginShapes, <2>1, <3>1
         DEF CloseEnds, Opening, InHand, OneHolder, SomeHolder, IsOpen, Holds, OpenedAt, NoNode
  <2>2. CASE Ends(t) /\ t.kind # "stop"
    <3>1. background' = background \ {t}
      BY <2>2 DEF Ends
    <3> QED
      BY <1>15, <1>a, PluginShapes, <2>2, <3>1
         DEF CloseEnds, Opening, InHand, OneHolder, SomeHolder, IsOpen, Holds, OpenedAt, NoNode
  <2> QED
    BY <1>15, <2>1, <2>2 DEF CloseEnds
<1>16. ASSUME NEW t \in background, StopAnswers(t) PROVE SomeHolder'
  <2>1. background' = background \ {t}
    BY <1>16 DEF StopAnswers, Ends
  <2>2. PICK n : /\ n \notin DOMAIN onFramework /\ DOMAIN onFramework' = DOMAIN onFramework \cup {n}
                 /\ onFramework'[n].does = "Stopped" /\ onFramework'[n].gen = t.gen
                 /\ \A i \in DOMAIN onFramework : onFramework'[i] = onFramework[i]
    BY <1>16, <1>a, AnswerIs DEF StopAnswers
  <2> QED
    BY <1>16, <1>a, PluginShapes, <2>1, <2>2
       DEF StopAnswers, Opening, InHand, OneHolder, SomeHolder, IsOpen, Holds, OpenedAt, NoNode
<1>17. ASSUME NEW t \in background, WorkerEnters(t) PROVE SomeHolder'
  <2>1. CASE MovesTo(t, "in") /\ gate' = {"prepare"} /\ t.gen = generation
    <3>1. PICK m \in Task : /\ background' = (background \ {t}) \cup {m} /\ m.at = "in" /\ m.kind = t.kind
                            /\ m.gen = t.gen /\ m.node = t.node /\ m.work = t.work
      BY <1>a, <2>1, MoveIs
    <3> QED
      BY <1>17, <1>a, PluginShapes, <2>1, <3>1
         DEF WorkerEnters, Opening, InHand, OneHolder, SomeHolder, IsOpen, Holds, OpenedAt, NoNode
  <2>2. CASE Ends(t) /\ t.gen # generation /\ UNCHANGED gate
    <3>1. background' = background \ {t}
      BY <2>2 DEF Ends
    <3> QED
      BY <1>17, <1>a, PluginShapes, <2>2, <3>1
         DEF WorkerEnters, Opening, InHand, OneHolder, SomeHolder, IsOpen, Holds, OpenedAt, NoNode
  <2> QED
    BY <1>17, <2>1, <2>2 DEF WorkerEnters
<1>18. ASSUME NEW t \in background, WorkerCalls(t) PROVE SomeHolder'
  <2>1. PICK m \in Task : /\ background' = (background \ {t}) \cup {m} /\ m.at = "called"
                          /\ m.kind = t.kind /\ m.gen = t.gen /\ m.node = t.node
    BY <1>18, <1>a, CallIs
  <2>2. /\ t.kind = "prepare" /\ t.at = "in"
        /\ UNCHANGED <<service, generation, node, nodes, gate, onFramework, cacheBusy, unload>>
    BY <1>18 DEF WorkerCalls
  <2> QED
    BY <1>a, PluginShapes, <2>1, <2>2
       DEF Opening, InHand, OneHolder, SomeHolder, IsOpen, Holds, OpenedAt
<1>19. ASSUME NEW t \in background, WorkerLeaves(t) PROVE SomeHolder'
  <2>1. PICK m \in Task : /\ background' = (background \ {t}) \cup {m} /\ m.at = "out" /\ m.kind = t.kind
                          /\ m.gen = t.gen /\ m.node = t.node /\ m.work = t.work
    BY <1>19, <1>a, MoveIs DEF WorkerLeaves
  <2> QED
    BY <1>19, <1>a, PluginShapes, <2>1
       DEF WorkerLeaves, Opening, InHand, OneHolder, SomeHolder, IsOpen, Holds, OpenedAt, NoNode
<1>20. ASSUME NEW t \in background, WorkerAnswers(t) PROVE SomeHolder'
  <2>1. background' = background \ {t}
    BY <1>20 DEF WorkerAnswers, Ends
  <2>2. PICK n : /\ n \notin DOMAIN onFramework /\ DOMAIN onFramework' = DOMAIN onFramework \cup {n}
                 /\ onFramework'[n].does = "NamePrepared" /\ onFramework'[n].gen = t.gen
                 /\ \A i \in DOMAIN onFramework : onFramework'[i] = onFramework[i]
    BY <1>20, <1>a, AnswerIs DEF WorkerAnswers
  <2> QED
    BY <1>20, <1>a, PluginShapes, <2>1, <2>2
       DEF WorkerAnswers, Opening, InHand, OneHolder, SomeHolder, IsOpen, Holds, OpenedAt, NoNode
<1>21. ASSUME NEW t \in background, ClearStarts(t) PROVE SomeHolder'
  <2>1. PICK m \in Task : /\ background' = (background \ {t}) \cup {m} /\ m.at = "in" /\ m.kind = t.kind
                          /\ m.gen = t.gen /\ m.node = t.node /\ m.work = t.work
    BY <1>21, <1>a, MoveIs DEF ClearStarts
  <2> QED
    BY <1>21, <1>a, PluginShapes, <2>1
       DEF ClearStarts, Opening, InHand, OneHolder, SomeHolder, IsOpen, Holds, OpenedAt, NoNode
<1>22. ASSUME NEW t \in background, ClearEnds(t) PROVE SomeHolder'
  <2>1. background' = background \ {t}
    BY <1>22 DEF ClearEnds, Ends
  <2>2. PICK n : /\ n \notin DOMAIN onFramework /\ DOMAIN onFramework' = DOMAIN onFramework \cup {n}
                 /\ onFramework'[n].does = "CacheCleared" /\ onFramework'[n].gen = t.gen
                 /\ \A i \in DOMAIN onFramework : onFramework'[i] = onFramework[i]
    BY <1>22, <1>a, AnswerIs DEF ClearEnds
  <2> QED
    BY <1>22, <1>a, PluginShapes, <2>1, <2>2
       DEF ClearEnds, Opening, InHand, OneHolder, SomeHolder, IsOpen, Holds, OpenedAt, NoNode
<1>23. CASE DisposeWaited
  BY <1>23, <1>a, PluginShapes
     DEF DisposeWaited, Opening, InHand, OneHolder, SomeHolder, IsOpen, Holds, OpenedAt, NoNode,
         GateForClose
<1>24. CASE DisposeEnds
  BY <1>24, <1>a, PluginShapes
     DEF DisposeEnds, Opening, InHand, OneHolder, SomeHolder, IsOpen, Holds, OpenedAt, NoNode
<1>25. ASSUME \/ (\E h \in Jobs : PollDone(h))
                \/ (\E g \in Generations, h \in Jobs : JobEnds(g, h))
                \/ DisposeBegins PROVE UNCHANGED <<background, nodes, onFramework, node>>
  BY <1>25 DEF PollDone, JobEnds, DisposeBegins
<1>26. CASE UNCHANGED pluginVars
  BY <1>1, <1>26 DEF pluginVars
<1> QED
  BY <1>1, <1>2, <1>3, <1>4, <1>5, <1>6, <1>7, <1>8, <1>9, <1>10, <1>11, <1>12, <1>13, <1>14, <1>15,
     <1>16, <1>17, <1>18, <1>19, <1>20, <1>21, <1>22, <1>23, <1>24, <1>25, <1>26
     DEF PluginNext, FrameworkStep, BackgroundStep

LEMMA WorkingStep ==
  ASSUME PluginInv, [PluginNext]_pluginVars
  PROVE  Working'
<1>a. PluginTypeOK /\ Gated /\ InHand /\ OneHolder /\ Opening /\ Working
  BY DEF PluginInv
<1>1. CASE UNCHANGED <<background, nodes, node, generation, unload>>
  BY <1>1, <1>a DEF Working, InHand, OneHolder, Opening, Gated, InGate, OpenedAt
<1>2. CASE Start
  <2>1. generation + 1 \in 0 .. MaxGeneration
    BY <1>2, <1>a, PluginShapes DEF Start, NoNode
  <2>2. PICK m \in Task : /\ background' = background \cup {m} /\ m.kind = "open" /\ m.gen = generation + 1
                          /\ m.node = generation + 1 /\ m.at = "opening" /\ m.work = NoWork
    BY <1>2, <2>1, NewIs DEF Start
  <2> QED
    BY <1>2, <1>a, PluginShapes, <2>1, <2>2
       DEF Start, Working, InHand, OneHolder, Opening, Gated, InGate, OpenedAt, NoNode, Framework
<1>3. CASE Stop
  <2>1. CASE node = NoNode
    BY <1>3, <1>a, PluginShapes, <2>1
       DEF Stop, Working, InHand, OneHolder, Opening, Gated, InGate, OpenedAt, NoNode, Framework
  <2>2. CASE node # NoNode
    <3>1. generation + 1 \in 0 .. MaxGeneration /\ node \in 0 .. MaxGeneration
      BY <1>3, <1>a, PluginShapes DEF Stop
    <3>2. PICK m \in Task : /\ background' = background \cup {m} /\ m.kind = "stop" /\ m.gen = generation + 1
                            /\ m.node = node /\ m.at = "wait" /\ m.work = NoWork
      BY <1>3, <2>2, <3>1, NewIs DEF Stop
    <3> QED
      BY <1>3, <1>a, PluginShapes, <2>2, <3>1, <3>2
         DEF Stop, Working, InHand, OneHolder, Opening, Gated, InGate, OpenedAt, NoNode, Framework
  <2> QED
    BY <2>1, <2>2
<1>4. CASE PrepareNostr
  <2>1. generation \in 0 .. MaxGeneration /\ node \in 0 .. MaxGeneration
    BY <1>4, <1>a, PluginShapes DEF PrepareNostr, NoNode
  <2>2. PICK m \in Task : /\ background' = background \cup {m} /\ m.kind = "prepare" /\ m.gen = generation
                          /\ m.node = node /\ m.at = "wait" /\ m.work = NoWork
    BY <1>4, <2>1, NewIs DEF PrepareNostr
  <2> QED
    BY <1>4, <1>a, PluginShapes, <2>1, <2>2
       DEF PrepareNostr, Working, InHand, OneHolder, Opening, Gated, InGate, OpenedAt, NoNode,
           Framework
<1>5. CASE ClearSharedFileCache
  <2>1. generation \in 0 .. MaxGeneration /\ NoNode \in 0 .. MaxGeneration
    BY <1>5, <1>a, PluginShapes DEF ClearSharedFileCache, NoNode
  <2>2. PICK m \in Task : /\ background' = background \cup {m} /\ m.kind = "clear" /\ m.gen = generation
                          /\ m.node = NoNode /\ m.at = "wait" /\ m.work = NoWork
    BY <1>5, <2>1, NewIs DEF ClearSharedFileCache
  <2> QED
    BY <1>5, <1>a, PluginShapes, <2>1, <2>2
       DEF ClearSharedFileCache, Working, InHand, OneHolder, Opening, Gated, InGate, OpenedAt,
           NoNode, Framework, CanClearSharedCache
<1>6. CASE Opened
  <2>1. /\ 1 \in DOMAIN onFramework /\ Head(onFramework) = onFramework[1] /\ onFramework[1] \in Answer
        /\ \A i \in DOMAIN onFramework' : /\ i \in Int /\ i + 1 \in DOMAIN onFramework /\ i + 1 # 1
                                          /\ onFramework'[i] = onFramework[i + 1]
        /\ \A i \in DOMAIN onFramework : \/ i = 1
                                         \/ /\ i - 1 \in DOMAIN onFramework'
                                            /\ onFramework'[i - 1] = onFramework[i]
    BY <1>6, <1>a, TakenIs DEF Opened, Delivered
  <2>2. CASE background' = background /\ node' = onFramework[1].gen
                /\ onFramework[1].gen = generation /\ service = "Starting"
    BY <1>6, <1>a, PluginShapes, <2>1, <2>2
       DEF Opened, Working, InHand, OneHolder, Opening, Gated, InGate, OpenedAt, NoNode, Framework,
           Delivered
  <2>3. CASE \E m \in Task : /\ background' = background \cup {m} /\ m.kind = "close" /\ m.gen = onFramework[1].gen
                             /\ m.node = onFramework[1].gen /\ m.at = "wait" /\ m.work = NoWork /\ node' = node
    BY <1>6, <1>a, PluginShapes, <2>1, <2>3
       DEF Opened, Working, InHand, OneHolder, Opening, Gated, InGate, OpenedAt, NoNode, Framework,
           Delivered
  <2>4. onFramework[1].gen \in 0 .. MaxGeneration
    BY <2>1 DEF Answer
  <2> QED
    BY <1>6, <2>1, <2>2, <2>3, <2>4, NewIs DEF Opened
<1>7. ASSUME NEW t \in background, OpenSucceeds(t) PROVE Working'
  <2>1. PICK m \in Task : /\ background' = (background \ {t}) \cup {m} /\ m.at = "check" /\ m.kind = t.kind
                          /\ m.gen = t.gen /\ m.node = t.node /\ m.work = t.work
    BY <1>7, <1>a, MoveIs DEF OpenSucceeds
  <2> QED
    BY <1>7, <1>a, PluginShapes, <2>1
       DEF OpenSucceeds, Working, InHand, OneHolder, Opening, Gated, InGate, OpenedAt, NoNode
<1>8. ASSUME NEW t \in background, OpenFails(t) PROVE Working'
  <2>1. background' = background \ {t}
    BY <1>8 DEF OpenFails, Ends
  <2>2. PICK n : /\ n \notin DOMAIN onFramework /\ DOMAIN onFramework' = DOMAIN onFramework \cup {n}
                 /\ onFramework'[n].does = "Fail" /\ onFramework'[n].gen = t.gen
                 /\ \A i \in DOMAIN onFramework : onFramework'[i] = onFramework[i]
    BY <1>8, <1>a, AnswerIs DEF OpenFails
  <2> QED
    BY <1>8, <1>a, PluginShapes, <2>1, <2>2
       DEF OpenFails, Working, InHand, OneHolder, Opening, Gated, InGate, OpenedAt, NoNode
<1>9. ASSUME NEW t \in background, OpenChecks(t) PROVE Working'
  <2>1. CASE MovesTo(t, "wait") /\ UNCHANGED onFramework
    <3>1. PICK m \in Task : /\ background' = (background \ {t}) \cup {m} /\ m.at = "wait" /\ m.kind = t.kind
                            /\ m.gen = t.gen /\ m.node = t.node /\ m.work = t.work
      BY <1>a, <2>1, MoveIs
    <3> QED
      BY <1>9, <1>a, PluginShapes, <2>1, <3>1
         DEF OpenChecks, Working, InHand, OneHolder, Opening, Gated, InGate, OpenedAt, NoNode
  <2>2. CASE Ends(t) /\ Answers("Opened", t)
    <3>1. background' = background \ {t}
      BY <2>2 DEF Ends
    <3>2. PICK n : /\ n \notin DOMAIN onFramework /\ DOMAIN onFramework' = DOMAIN onFramework \cup {n}
                 /\ onFramework'[n].does = "Opened" /\ onFramework'[n].gen = t.gen
                 /\ \A i \in DOMAIN onFramework : onFramework'[i] = onFramework[i]
      BY <1>a, <2>2, AnswerIs
    <3> QED
      BY <1>9, <1>a, PluginShapes, <3>1, <3>2
         DEF OpenChecks, Working, InHand, OneHolder, Opening, Gated, InGate, OpenedAt, NoNode
  <2> QED
    BY <1>9, <2>1, <2>2 DEF OpenChecks
<1>10. ASSUME NEW t \in background, CloseStarts(t) PROVE Working'
  <2>1. PICK m \in Task : /\ background' = (background \ {t}) \cup {m} /\ m.at = "in" /\ m.kind = t.kind
                          /\ m.gen = t.gen /\ m.node = t.node /\ m.work = t.work
    BY <1>10, <1>a, MoveIs DEF CloseStarts
  <2> QED
    BY <1>10, <1>a, PluginShapes, <2>1
       DEF CloseStarts, Working, InHand, OneHolder, Opening, Gated, InGate, OpenedAt, NoNode,
           GateForClose
<1>11. ASSUME NEW t \in background, CloseEnds(t) PROVE Working'
  <2>1. CASE MovesTo(t, "out") /\ t.kind = "stop"
    <3>1. PICK m \in Task : /\ background' = (background \ {t}) \cup {m} /\ m.at = "out" /\ m.kind = t.kind
                            /\ m.gen = t.gen /\ m.node = t.node /\ m.work = t.work
      BY <1>a, <2>1, MoveIs
    <3> QED
      BY <1>11, <1>a, PluginShapes, <2>1, <3>1
         DEF CloseEnds, Working, InHand, OneHolder, Opening, Gated, InGate, OpenedAt, NoNode
  <2>2. CASE Ends(t) /\ t.kind # "stop"
    <3>1. background' = background \ {t}
      BY <2>2 DEF Ends
    <3> QED
      BY <1>11, <1>a, PluginShapes, <2>2, <3>1
         DEF CloseEnds, Working, InHand, OneHolder, Opening, Gated, InGate, OpenedAt, NoNode
  <2> QED
    BY <1>11, <2>1, <2>2 DEF CloseEnds
<1>12. ASSUME NEW t \in background, StopAnswers(t) PROVE Working'
  <2>1. background' = background \ {t}
    BY <1>12 DEF StopAnswers, Ends
  <2>2. PICK n : /\ n \notin DOMAIN onFramework /\ DOMAIN onFramework' = DOMAIN onFramework \cup {n}
                 /\ onFramework'[n].does = "Stopped" /\ onFramework'[n].gen = t.gen
                 /\ \A i \in DOMAIN onFramework : onFramework'[i] = onFramework[i]
    BY <1>12, <1>a, AnswerIs DEF StopAnswers
  <2> QED
    BY <1>12, <1>a, PluginShapes, <2>1, <2>2
       DEF StopAnswers, Working, InHand, OneHolder, Opening, Gated, InGate, OpenedAt, NoNode
<1>13. ASSUME NEW t \in background, WorkerEnters(t) PROVE Working'
  <2>1. CASE MovesTo(t, "in") /\ gate' = {"prepare"} /\ t.gen = generation
    <3>1. PICK m \in Task : /\ background' = (background \ {t}) \cup {m} /\ m.at = "in" /\ m.kind = t.kind
                            /\ m.gen = t.gen /\ m.node = t.node /\ m.work = t.work
      BY <1>a, <2>1, MoveIs
    <3> QED
      BY <1>13, <1>a, PluginShapes, <2>1, <3>1
         DEF WorkerEnters, Working, InHand, OneHolder, Opening, Gated, InGate, OpenedAt, NoNode
  <2>2. CASE Ends(t) /\ t.gen # generation /\ UNCHANGED gate
    <3>1. background' = background \ {t}
      BY <2>2 DEF Ends
    <3> QED
      BY <1>13, <1>a, PluginShapes, <2>2, <3>1
         DEF WorkerEnters, Working, InHand, OneHolder, Opening, Gated, InGate, OpenedAt, NoNode
  <2> QED
    BY <1>13, <2>1, <2>2 DEF WorkerEnters
<1>14. ASSUME NEW t \in background, WorkerCalls(t) PROVE Working'
  <2>1. PICK m \in Task : /\ background' = (background \ {t}) \cup {m} /\ m.at = "called"
                          /\ m.kind = t.kind /\ m.gen = t.gen /\ m.node = t.node
    BY <1>14, <1>a, CallIs
  <2>2. /\ t.kind = "prepare" /\ t.at = "in"
        /\ UNCHANGED <<service, generation, node, nodes, gate, onFramework, cacheBusy, unload>>
    BY <1>14 DEF WorkerCalls
  <2> QED
    BY <1>a, PluginShapes, <2>1, <2>2
       DEF Working, InHand, OneHolder, Opening, Gated, InGate, OpenedAt
<1>15. ASSUME NEW t \in background, WorkerLeaves(t) PROVE Working'
  <2>1. PICK m \in Task : /\ background' = (background \ {t}) \cup {m} /\ m.at = "out" /\ m.kind = t.kind
                          /\ m.gen = t.gen /\ m.node = t.node /\ m.work = t.work
    BY <1>15, <1>a, MoveIs DEF WorkerLeaves
  <2> QED
    BY <1>15, <1>a, PluginShapes, <2>1
       DEF WorkerLeaves, Working, InHand, OneHolder, Opening, Gated, InGate, OpenedAt, NoNode
<1>16. ASSUME NEW t \in background, WorkerAnswers(t) PROVE Working'
  <2>1. background' = background \ {t}
    BY <1>16 DEF WorkerAnswers, Ends
  <2>2. PICK n : /\ n \notin DOMAIN onFramework /\ DOMAIN onFramework' = DOMAIN onFramework \cup {n}
                 /\ onFramework'[n].does = "NamePrepared" /\ onFramework'[n].gen = t.gen
                 /\ \A i \in DOMAIN onFramework : onFramework'[i] = onFramework[i]
    BY <1>16, <1>a, AnswerIs DEF WorkerAnswers
  <2> QED
    BY <1>16, <1>a, PluginShapes, <2>1, <2>2
       DEF WorkerAnswers, Working, InHand, OneHolder, Opening, Gated, InGate, OpenedAt, NoNode
<1>17. ASSUME NEW t \in background, ClearStarts(t) PROVE Working'
  <2>1. PICK m \in Task : /\ background' = (background \ {t}) \cup {m} /\ m.at = "in" /\ m.kind = t.kind
                          /\ m.gen = t.gen /\ m.node = t.node /\ m.work = t.work
    BY <1>17, <1>a, MoveIs DEF ClearStarts
  <2> QED
    BY <1>17, <1>a, PluginShapes, <2>1
       DEF ClearStarts, Working, InHand, OneHolder, Opening, Gated, InGate, OpenedAt, NoNode
<1>18. ASSUME NEW t \in background, ClearEnds(t) PROVE Working'
  <2>1. background' = background \ {t}
    BY <1>18 DEF ClearEnds, Ends
  <2>2. PICK n : /\ n \notin DOMAIN onFramework /\ DOMAIN onFramework' = DOMAIN onFramework \cup {n}
                 /\ onFramework'[n].does = "CacheCleared" /\ onFramework'[n].gen = t.gen
                 /\ \A i \in DOMAIN onFramework : onFramework'[i] = onFramework[i]
    BY <1>18, <1>a, AnswerIs DEF ClearEnds
  <2> QED
    BY <1>18, <1>a, PluginShapes, <2>1, <2>2
       DEF ClearEnds, Working, InHand, OneHolder, Opening, Gated, InGate, OpenedAt, NoNode
<1>19. CASE DisposeBegins
  BY <1>19, <1>a, PluginShapes
     DEF DisposeBegins, Working, InHand, OneHolder, Opening, Gated, InGate, OpenedAt, NoNode
<1>20. CASE DisposeWaited
  BY <1>20, <1>a, PluginShapes
     DEF DisposeWaited, Working, InHand, OneHolder, Opening, Gated, InGate, OpenedAt, NoNode,
         GateForClose
<1>21. CASE DisposeEnds
  BY <1>21, <1>a, PluginShapes
     DEF DisposeEnds, Working, InHand, OneHolder, Opening, Gated, InGate, OpenedAt, NoNode
<1>22. ASSUME \/ Fail \/ Stopped \/ NamePrepared \/ CacheCleared
                \/ (\E h \in Jobs : PollDone(h))
                \/ (\E g \in Generations, h \in Jobs : JobEnds(g, h))
      PROVE  UNCHANGED <<background, nodes, node, generation, unload>>
  BY <1>22 DEF Fail, Stopped, NamePrepared, CacheCleared, PollDone, JobEnds
<1>23. CASE UNCHANGED pluginVars
  BY <1>1, <1>23 DEF pluginVars
<1> QED
  BY <1>1, <1>2, <1>3, <1>4, <1>5, <1>6, <1>7, <1>8, <1>9, <1>10, <1>11, <1>12, <1>13, <1>14, <1>15,
     <1>16, <1>17, <1>18, <1>19, <1>20, <1>21, <1>22, <1>23
     DEF PluginNext, FrameworkStep, BackgroundStep

LEMMA ClearingStep ==
  ASSUME PluginInv, [PluginNext]_pluginVars
  PROVE  Clearing'
<1>a. PluginTypeOK /\ Gated /\ SomeHolder /\ InHand /\ Opening /\ Clearing
  BY DEF PluginInv
<1>1. CASE UNCHANGED <<background, nodes, onFramework, node, cacheBusy>>
  BY <1>1, <1>a DEF Clearing, SomeHolder, IsOpen, OpenedAt, Holds, InHand, Opening
<1>2. CASE Start
  <2>1. generation + 1 \in 0 .. MaxGeneration
    BY <1>2, <1>a, PluginShapes DEF Start, NoNode
  <2>2. PICK m \in Task : /\ background' = background \cup {m} /\ m.kind = "open" /\ m.gen = generation + 1
                          /\ m.node = generation + 1 /\ m.at = "opening" /\ m.work = NoWork
    BY <1>2, <2>1, NewIs DEF Start
  <2> QED
    BY <1>2, <1>a, PluginShapes, <2>1, <2>2
       DEF Start, Clearing, SomeHolder, IsOpen, OpenedAt, Holds, InHand, Opening, NoNode, Framework
<1>3. CASE Stop
  <2>1. CASE node = NoNode
    BY <1>3, <1>a, PluginShapes, <2>1
       DEF Stop, Clearing, SomeHolder, IsOpen, OpenedAt, Holds, InHand, Opening, NoNode, Framework
  <2>2. CASE node # NoNode
    <3>1. generation + 1 \in 0 .. MaxGeneration /\ node \in 0 .. MaxGeneration
      BY <1>3, <1>a, PluginShapes DEF Stop
    <3>2. PICK m \in Task : /\ background' = background \cup {m} /\ m.kind = "stop" /\ m.gen = generation + 1
                            /\ m.node = node /\ m.at = "wait" /\ m.work = NoWork
      BY <1>3, <2>2, <3>1, NewIs DEF Stop
    <3> QED
      BY <1>3, <1>a, PluginShapes, <2>2, <3>1, <3>2
         DEF Stop, Clearing, SomeHolder, IsOpen, OpenedAt, Holds, InHand, Opening, NoNode, Framework
  <2> QED
    BY <2>1, <2>2
<1>4. CASE PrepareNostr
  <2>1. generation \in 0 .. MaxGeneration /\ node \in 0 .. MaxGeneration
    BY <1>4, <1>a, PluginShapes DEF PrepareNostr, NoNode
  <2>2. PICK m \in Task : /\ background' = background \cup {m} /\ m.kind = "prepare" /\ m.gen = generation
                          /\ m.node = node /\ m.at = "wait" /\ m.work = NoWork
    BY <1>4, <2>1, NewIs DEF PrepareNostr
  <2> QED
    BY <1>4, <1>a, PluginShapes, <2>1, <2>2
       DEF PrepareNostr, Clearing, SomeHolder, IsOpen, OpenedAt, Holds, InHand, Opening, NoNode,
           Framework
<1>5. CASE ClearSharedFileCache
  <2>1. generation \in 0 .. MaxGeneration /\ NoNode \in 0 .. MaxGeneration
    BY <1>5, <1>a, PluginShapes DEF ClearSharedFileCache, NoNode
  <2>2. PICK m \in Task : /\ background' = background \cup {m} /\ m.kind = "clear" /\ m.gen = generation
                          /\ m.node = NoNode /\ m.at = "wait" /\ m.work = NoWork
    BY <1>5, <2>1, NewIs DEF ClearSharedFileCache
  <2>3. /\ background = {} /\ DOMAIN onFramework = {} /\ node = NoNode /\ cacheBusy'
        /\ UNCHANGED <<nodes, onFramework, node>>
    BY <1>5 DEF ClearSharedFileCache, CanClearSharedCache
  <2>4. \A g \in Generations : ~IsOpen(g)
    BY <1>a, <2>3, PluginShapes DEF SomeHolder
  <2>5. background' = {m} /\ m.kind = "clear"
    BY <2>2, <2>3
  <2>6. \A g \in Generations : ~IsOpen(g)'
    BY <2>3, <2>4 DEF IsOpen
  <2> QED
    BY <2>3, <2>5, <2>6 DEF Clearing
<1>6. CASE Opened
  <2>1. /\ 1 \in DOMAIN onFramework /\ Head(onFramework) = onFramework[1] /\ onFramework[1] \in Answer
        /\ \A i \in DOMAIN onFramework' : /\ i \in Int /\ i + 1 \in DOMAIN onFramework /\ i + 1 # 1
                                          /\ onFramework'[i] = onFramework[i + 1]
        /\ \A i \in DOMAIN onFramework : \/ i = 1
                                         \/ /\ i - 1 \in DOMAIN onFramework'
                                            /\ onFramework'[i - 1] = onFramework[i]
    BY <1>6, <1>a, TakenIs DEF Opened, Delivered
  <2>2. CASE background' = background /\ node' = onFramework[1].gen
                /\ onFramework[1].gen = generation /\ service = "Starting"
    BY <1>6, <1>a, PluginShapes, <2>1, <2>2
       DEF Opened, Clearing, SomeHolder, IsOpen, OpenedAt, Holds, InHand, Opening, NoNode,
           Framework, Delivered
  <2>3. CASE \E m \in Task : /\ background' = background \cup {m} /\ m.kind = "close" /\ m.gen = onFramework[1].gen
                             /\ m.node = onFramework[1].gen /\ m.at = "wait" /\ m.work = NoWork /\ node' = node
    BY <1>6, <1>a, PluginShapes, <2>1, <2>3
       DEF Opened, Clearing, SomeHolder, IsOpen, OpenedAt, Holds, InHand, Opening, NoNode,
           Framework, Delivered
  <2>4. onFramework[1].gen \in 0 .. MaxGeneration
    BY <2>1 DEF Answer
  <2> QED
    BY <1>6, <2>1, <2>2, <2>3, <2>4, NewIs DEF Opened
<1>7. CASE Fail
  <2>1. /\ 1 \in DOMAIN onFramework /\ Head(onFramework) = onFramework[1] /\ onFramework[1] \in Answer
        /\ \A i \in DOMAIN onFramework' : /\ i \in Int /\ i + 1 \in DOMAIN onFramework /\ i + 1 # 1
                                          /\ onFramework'[i] = onFramework[i + 1]
        /\ \A i \in DOMAIN onFramework : \/ i = 1
                                         \/ /\ i - 1 \in DOMAIN onFramework'
                                            /\ onFramework'[i - 1] = onFramework[i]
    BY <1>7, <1>a, TakenIs DEF Fail, Delivered
  <2> QED
    BY <1>7, <1>a, PluginShapes, <2>1
       DEF Fail, Clearing, SomeHolder, IsOpen, OpenedAt, Holds, InHand, Opening, NoNode, Delivered,
           Framework
<1>8. CASE Stopped
  <2>1. /\ 1 \in DOMAIN onFramework /\ Head(onFramework) = onFramework[1] /\ onFramework[1] \in Answer
        /\ \A i \in DOMAIN onFramework' : /\ i \in Int /\ i + 1 \in DOMAIN onFramework /\ i + 1 # 1
                                          /\ onFramework'[i] = onFramework[i + 1]
        /\ \A i \in DOMAIN onFramework : \/ i = 1
                                         \/ /\ i - 1 \in DOMAIN onFramework'
                                            /\ onFramework'[i - 1] = onFramework[i]
    BY <1>8, <1>a, TakenIs DEF Stopped, Delivered
  <2> QED
    BY <1>8, <1>a, PluginShapes, <2>1
       DEF Stopped, Clearing, SomeHolder, IsOpen, OpenedAt, Holds, InHand, Opening, NoNode,
           Delivered, Framework
<1>9. CASE NamePrepared
  <2>1. /\ 1 \in DOMAIN onFramework /\ Head(onFramework) = onFramework[1] /\ onFramework[1] \in Answer
        /\ \A i \in DOMAIN onFramework' : /\ i \in Int /\ i + 1 \in DOMAIN onFramework /\ i + 1 # 1
                                          /\ onFramework'[i] = onFramework[i + 1]
        /\ \A i \in DOMAIN onFramework : \/ i = 1
                                         \/ /\ i - 1 \in DOMAIN onFramework'
                                            /\ onFramework'[i - 1] = onFramework[i]
    BY <1>9, <1>a, TakenIs DEF NamePrepared, Delivered
  <2> QED
    BY <1>9, <1>a, PluginShapes, <2>1
       DEF NamePrepared, Clearing, SomeHolder, IsOpen, OpenedAt, Holds, InHand, Opening, NoNode,
           Delivered, Framework
<1>10. CASE CacheCleared
  <2>1. /\ 1 \in DOMAIN onFramework /\ Head(onFramework) = onFramework[1] /\ onFramework[1] \in Answer
        /\ \A i \in DOMAIN onFramework' : /\ i \in Int /\ i + 1 \in DOMAIN onFramework /\ i + 1 # 1
                                          /\ onFramework'[i] = onFramework[i + 1]
        /\ \A i \in DOMAIN onFramework : \/ i = 1
                                         \/ /\ i - 1 \in DOMAIN onFramework'
                                            /\ onFramework'[i - 1] = onFramework[i]
    BY <1>10, <1>a, TakenIs DEF CacheCleared, Delivered
  <2> QED
    BY <1>10, <1>a, PluginShapes, <2>1
       DEF CacheCleared, Clearing, SomeHolder, IsOpen, OpenedAt, Holds, InHand, Opening, NoNode,
           Delivered, Framework
<1>11. ASSUME NEW t \in background, OpenSucceeds(t) PROVE Clearing'
  <2>1. PICK m \in Task : /\ background' = (background \ {t}) \cup {m} /\ m.at = "check" /\ m.kind = t.kind
                          /\ m.gen = t.gen /\ m.node = t.node /\ m.work = t.work
    BY <1>11, <1>a, MoveIs DEF OpenSucceeds
  <2> QED
    BY <1>11, <1>a, PluginShapes, <2>1
       DEF OpenSucceeds, Clearing, SomeHolder, IsOpen, OpenedAt, Holds, InHand, Opening, NoNode
<1>12. ASSUME NEW t \in background, OpenFails(t) PROVE Clearing'
  <2>1. background' = background \ {t}
    BY <1>12 DEF OpenFails, Ends
  <2>2. PICK n : /\ n \notin DOMAIN onFramework /\ DOMAIN onFramework' = DOMAIN onFramework \cup {n}
                 /\ onFramework'[n].does = "Fail" /\ onFramework'[n].gen = t.gen
                 /\ \A i \in DOMAIN onFramework : onFramework'[i] = onFramework[i]
    BY <1>12, <1>a, AnswerIs DEF OpenFails
  <2> QED
    BY <1>12, <1>a, PluginShapes, <2>1, <2>2
       DEF OpenFails, Clearing, SomeHolder, IsOpen, OpenedAt, Holds, InHand, Opening, NoNode
<1>13. ASSUME NEW t \in background, OpenChecks(t) PROVE Clearing'
  <2>1. CASE MovesTo(t, "wait") /\ UNCHANGED onFramework
    <3>1. PICK m \in Task : /\ background' = (background \ {t}) \cup {m} /\ m.at = "wait" /\ m.kind = t.kind
                            /\ m.gen = t.gen /\ m.node = t.node /\ m.work = t.work
      BY <1>a, <2>1, MoveIs
    <3> QED
      BY <1>13, <1>a, PluginShapes, <2>1, <3>1
         DEF OpenChecks, Clearing, SomeHolder, IsOpen, OpenedAt, Holds, InHand, Opening, NoNode
  <2>2. CASE Ends(t) /\ Answers("Opened", t)
    <3>1. background' = background \ {t}
      BY <2>2 DEF Ends
    <3>2. PICK n : /\ n \notin DOMAIN onFramework /\ DOMAIN onFramework' = DOMAIN onFramework \cup {n}
                 /\ onFramework'[n].does = "Opened" /\ onFramework'[n].gen = t.gen
                 /\ \A i \in DOMAIN onFramework : onFramework'[i] = onFramework[i]
      BY <1>a, <2>2, AnswerIs
    <3> QED
      BY <1>13, <1>a, PluginShapes, <3>1, <3>2
         DEF OpenChecks, Clearing, SomeHolder, IsOpen, OpenedAt, Holds, InHand, Opening, NoNode
  <2> QED
    BY <1>13, <2>1, <2>2 DEF OpenChecks
<1>14. ASSUME NEW t \in background, CloseStarts(t) PROVE Clearing'
  <2>1. PICK m \in Task : /\ background' = (background \ {t}) \cup {m} /\ m.at = "in" /\ m.kind = t.kind
                          /\ m.gen = t.gen /\ m.node = t.node /\ m.work = t.work
    BY <1>14, <1>a, MoveIs DEF CloseStarts
  <2> QED
    BY <1>14, <1>a, PluginShapes, <2>1
       DEF CloseStarts, Clearing, SomeHolder, IsOpen, OpenedAt, Holds, InHand, Opening, NoNode,
           GateForClose
<1>15. ASSUME NEW t \in background, CloseEnds(t) PROVE Clearing'
  <2>1. CASE MovesTo(t, "out") /\ t.kind = "stop"
    <3>1. PICK m \in Task : /\ background' = (background \ {t}) \cup {m} /\ m.at = "out" /\ m.kind = t.kind
                            /\ m.gen = t.gen /\ m.node = t.node /\ m.work = t.work
      BY <1>a, <2>1, MoveIs
    <3> QED
      BY <1>15, <1>a, PluginShapes, <2>1, <3>1
         DEF CloseEnds, Clearing, SomeHolder, IsOpen, OpenedAt, Holds, InHand, Opening, NoNode
  <2>2. CASE Ends(t) /\ t.kind # "stop"
    <3>1. background' = background \ {t}
      BY <2>2 DEF Ends
    <3> QED
      BY <1>15, <1>a, PluginShapes, <2>2, <3>1
         DEF CloseEnds, Clearing, SomeHolder, IsOpen, OpenedAt, Holds, InHand, Opening, NoNode
  <2> QED
    BY <1>15, <2>1, <2>2 DEF CloseEnds
<1>16. ASSUME NEW t \in background, StopAnswers(t) PROVE Clearing'
  <2>1. background' = background \ {t}
    BY <1>16 DEF StopAnswers, Ends
  <2>2. PICK n : /\ n \notin DOMAIN onFramework /\ DOMAIN onFramework' = DOMAIN onFramework \cup {n}
                 /\ onFramework'[n].does = "Stopped" /\ onFramework'[n].gen = t.gen
                 /\ \A i \in DOMAIN onFramework : onFramework'[i] = onFramework[i]
    BY <1>16, <1>a, AnswerIs DEF StopAnswers
  <2> QED
    BY <1>16, <1>a, PluginShapes, <2>1, <2>2
       DEF StopAnswers, Clearing, SomeHolder, IsOpen, OpenedAt, Holds, InHand, Opening, NoNode
<1>17. ASSUME NEW t \in background, WorkerEnters(t) PROVE Clearing'
  <2>1. CASE MovesTo(t, "in") /\ gate' = {"prepare"} /\ t.gen = generation
    <3>1. PICK m \in Task : /\ background' = (background \ {t}) \cup {m} /\ m.at = "in" /\ m.kind = t.kind
                            /\ m.gen = t.gen /\ m.node = t.node /\ m.work = t.work
      BY <1>a, <2>1, MoveIs
    <3> QED
      BY <1>17, <1>a, PluginShapes, <2>1, <3>1
         DEF WorkerEnters, Clearing, SomeHolder, IsOpen, OpenedAt, Holds, InHand, Opening, NoNode
  <2>2. CASE Ends(t) /\ t.gen # generation /\ UNCHANGED gate
    <3>1. background' = background \ {t}
      BY <2>2 DEF Ends
    <3> QED
      BY <1>17, <1>a, PluginShapes, <2>2, <3>1
         DEF WorkerEnters, Clearing, SomeHolder, IsOpen, OpenedAt, Holds, InHand, Opening, NoNode
  <2> QED
    BY <1>17, <2>1, <2>2 DEF WorkerEnters
<1>18. ASSUME NEW t \in background, WorkerCalls(t) PROVE Clearing'
  <2>1. PICK m \in Task : /\ background' = (background \ {t}) \cup {m} /\ m.at = "called"
                          /\ m.kind = t.kind /\ m.gen = t.gen /\ m.node = t.node
    BY <1>18, <1>a, CallIs
  <2>2. /\ t.kind = "prepare" /\ t.at = "in"
        /\ UNCHANGED <<service, generation, node, nodes, gate, onFramework, cacheBusy, unload>>
    BY <1>18 DEF WorkerCalls
  <2> QED
    BY <1>a, PluginShapes, <2>1, <2>2
       DEF Clearing, SomeHolder, IsOpen, OpenedAt, Holds, InHand, Opening
<1>19. ASSUME NEW t \in background, WorkerLeaves(t) PROVE Clearing'
  <2>1. PICK m \in Task : /\ background' = (background \ {t}) \cup {m} /\ m.at = "out" /\ m.kind = t.kind
                          /\ m.gen = t.gen /\ m.node = t.node /\ m.work = t.work
    BY <1>19, <1>a, MoveIs DEF WorkerLeaves
  <2> QED
    BY <1>19, <1>a, PluginShapes, <2>1
       DEF WorkerLeaves, Clearing, SomeHolder, IsOpen, OpenedAt, Holds, InHand, Opening, NoNode
<1>20. ASSUME NEW t \in background, WorkerAnswers(t) PROVE Clearing'
  <2>1. background' = background \ {t}
    BY <1>20 DEF WorkerAnswers, Ends
  <2>2. PICK n : /\ n \notin DOMAIN onFramework /\ DOMAIN onFramework' = DOMAIN onFramework \cup {n}
                 /\ onFramework'[n].does = "NamePrepared" /\ onFramework'[n].gen = t.gen
                 /\ \A i \in DOMAIN onFramework : onFramework'[i] = onFramework[i]
    BY <1>20, <1>a, AnswerIs DEF WorkerAnswers
  <2> QED
    BY <1>20, <1>a, PluginShapes, <2>1, <2>2
       DEF WorkerAnswers, Clearing, SomeHolder, IsOpen, OpenedAt, Holds, InHand, Opening, NoNode
<1>21. ASSUME NEW t \in background, ClearStarts(t) PROVE Clearing'
  <2>1. PICK m \in Task : /\ background' = (background \ {t}) \cup {m} /\ m.at = "in" /\ m.kind = t.kind
                          /\ m.gen = t.gen /\ m.node = t.node /\ m.work = t.work
    BY <1>21, <1>a, MoveIs DEF ClearStarts
  <2> QED
    BY <1>21, <1>a, PluginShapes, <2>1
       DEF ClearStarts, Clearing, SomeHolder, IsOpen, OpenedAt, Holds, InHand, Opening, NoNode
<1>22. ASSUME NEW t \in background, ClearEnds(t) PROVE Clearing'
  <2>1. background' = background \ {t}
    BY <1>22 DEF ClearEnds, Ends
  <2>2. PICK n : /\ n \notin DOMAIN onFramework /\ DOMAIN onFramework' = DOMAIN onFramework \cup {n}
                 /\ onFramework'[n].does = "CacheCleared" /\ onFramework'[n].gen = t.gen
                 /\ \A i \in DOMAIN onFramework : onFramework'[i] = onFramework[i]
    BY <1>22, <1>a, AnswerIs DEF ClearEnds
  <2> QED
    BY <1>22, <1>a, PluginShapes, <2>1, <2>2
       DEF ClearEnds, Clearing, SomeHolder, IsOpen, OpenedAt, Holds, InHand, Opening, NoNode
<1>23. CASE DisposeWaited
  BY <1>23, <1>a, PluginShapes
     DEF DisposeWaited, Clearing, SomeHolder, IsOpen, OpenedAt, Holds, InHand, Opening, NoNode,
         GateForClose
<1>24. CASE DisposeEnds
  BY <1>24, <1>a, PluginShapes
     DEF DisposeEnds, Clearing, SomeHolder, IsOpen, OpenedAt, Holds, InHand, Opening, NoNode
<1>25. ASSUME \/ (\E h \in Jobs : PollDone(h))
                \/ (\E g \in Generations, h \in Jobs : JobEnds(g, h))
                \/ DisposeBegins PROVE UNCHANGED <<background, nodes, onFramework, node, cacheBusy>>
  BY <1>25 DEF PollDone, JobEnds, DisposeBegins
<1>26. CASE UNCHANGED pluginVars
  BY <1>1, <1>26 DEF pluginVars
<1> QED
  BY <1>1, <1>2, <1>3, <1>4, <1>5, <1>6, <1>7, <1>8, <1>9, <1>10, <1>11, <1>12, <1>13, <1>14, <1>15,
     <1>16, <1>17, <1>18, <1>19, <1>20, <1>21, <1>22, <1>23, <1>24, <1>25, <1>26
     DEF PluginNext, FrameworkStep, BackgroundStep

(* All of it holds in the first state, and every step keeps it.            *)
LEMMA PluginInvStarts ==
  ASSUME PluginInit
  PROVE  PluginInv
<1>1. PluginTypeOK
  <2>1. 0 \in 0 .. MaxGeneration
    BY PluginBoundsAssumption
  <2>2. Idle \in [preparing : BOOLEAN, work : Jobs \cup {NoWork}, early : SUBSET Jobs]
    BY DEF Idle
  <2>3. /\ service = "Off" /\ generation = 0 /\ node = 0 /\ background = {} /\ gate = {} /\ onFramework = <<>>
        /\ operation = Idle /\ cacheBusy = FALSE /\ unload = "live" /\ overtaken = FALSE
    BY DEF PluginInit, NoNode
  <2>4. nodes \in [Generations -> {"none", "open", "closing", "closed"}]
    BY DEF PluginInit
  <2>5. work \in [Generations -> [Jobs -> {"none", "running", "done", "polled", "lost"}]]
    BY DEF PluginInit
  <2>6. <<>> \in Seq(Answer)
    OBVIOUS
  <2> QED
    BY <2>1, <2>2, <2>3, <2>4, <2>5, <2>6 DEF PluginTypeOK
<1>2. /\ background = {} /\ onFramework = <<>> /\ node = NoNode /\ generation = 0
      /\ unload = "live" /\ cacheBusy = FALSE /\ \A g \in Generations : nodes[g] = "none"
  BY DEF PluginInit
<1>3. DOMAIN onFramework = {}
  BY <1>2
<1> QED
  BY <1>1, <1>2, <1>3
     DEF PluginInv, Gated, OneOpen, Opening, InHand, OneHolder, SomeHolder, Working, Clearing,
         IsOpen

LEMMA PluginInvStep ==
  ASSUME PluginInv, [PluginNext]_pluginVars
  PROVE  PluginInv'
BY PluginTypeStep, GatedStep, OpenStep, OpeningStep, InHandStep, OneHolderStep, SomeHolderStep,
   WorkingStep, ClearingStep
   DEF PluginInv

(* The invariant says what the workers may rely on.                        *)
LEMMA PluginInvHeeds ==
  ASSUME PluginInv
  PROVE  WorkersHeeded
<1>a. PluginTypeOK /\ InHand /\ Working /\ Clearing
  BY DEF PluginInv
<1>1. CallsOpenNodes
  BY <1>a DEF CallsOpenNodes, InHand, Working, Framework
<1>2. CacheClearedAlone
  BY <1>a DEF CacheClearedAlone, Clearing, IsOpen
<1> QED
  BY <1>1, <1>2 DEF WorkersHeeded

(* However starts, stops, name-card work, cache clearing and the unload    *)
(* interleave, a worker is only ever inside a call of an open node, the    *)
(* service's own node is open while the plugin runs, and the shared-file   *)
(* cache is deleted only while no node is open, opening or closing.        *)
THEOREM WorkersAlwaysHeeded == PluginSpec => []WorkersHeeded
<1>1. PluginInit => PluginInv
  BY PluginInvStarts
<1>2. PluginInv /\ [PluginNext]_pluginVars => PluginInv'
  BY PluginInvStep
<1>3. PluginInv => WorkersHeeded
  BY PluginInvHeeds
<1> QED
  BY <1>1, <1>2, <1>3, PTL DEF PluginSpec

(* Why the name-card buttons are blocked.  While the operation prepares,   *)
(* one worker of this session is at work or one answer of it is queued; a  *)
(* job it got is not over, or its event is kept with the early ones.       *)
Mine(t) == t.kind = "prepare" /\ t.gen = generation
MineAt(i) == onFramework[i].does = "NamePrepared" /\ onFramework[i].gen = generation
NotOver(h) == work[node][h] \in {"running", "done", "lost"}
Reported(h) == h = NoWork \/ h \in operation.early \/ NotOver(h)

OneWorker ==
    /\ operation.preparing <=> (\E t \in background : Mine(t)) \/ (\E i \in DOMAIN onFramework : MineAt(i))
    /\ \A t, u \in background : Mine(t) /\ Mine(u) => t = u
    /\ \A i, j \in DOMAIN onFramework : MineAt(i) /\ MineAt(j) => i = j
    /\ \A t \in background, i \in DOMAIN onFramework : ~(Mine(t) /\ MineAt(i))

JobsKept ==
    /\ \A t \in background : Mine(t) => Reported(t.work)
    /\ \A i \in DOMAIN onFramework :
          MineAt(i) => onFramework[i].node = node /\ Reported(onFramework[i].work)
    /\ operation.work # NoWork => node # NoNode /\ NotOver(operation.work)

Asking ==
    Framework /\ ~overtaken =>
        /\ node = NoNode => operation = Idle
        /\ operation.preparing => operation.work = NoWork
        /\ OneWorker /\ JobsKept

(* Nothing that is queued is of a session to come.                         *)
OldAnswers == \A i \in DOMAIN onFramework :
    onFramework[i].does = "NamePrepared" => onFramework[i].gen <= generation

WaitInv == PluginInv /\ OldAnswers /\ Asking

(* The answer of a task, whole.                                            *)
LEMMA AnswerWhole ==
  ASSUME PluginTypeOK, NEW t \in background,
         NEW does \in {"Opened", "Fail", "Stopped", "NamePrepared", "CacheCleared"}, Answers(does, t)
  PROVE  \E n : /\ n \notin DOMAIN onFramework /\ DOMAIN onFramework' = DOMAIN onFramework \cup {n}
               /\ onFramework'[n].does = does /\ onFramework'[n].gen = t.gen
               /\ onFramework'[n].node = t.node /\ onFramework'[n].work = t.work
               /\ \A i \in DOMAIN onFramework : onFramework'[i] = onFramework[i]
<1> DEFINE a == [does |-> does, gen |-> t.gen, node |-> t.node, work |-> t.work]
<1>1. onFramework \in Seq(Answer) /\ t \in Task
  BY DEF PluginTypeOK
<1>2. a \in Answer /\ a.does = does /\ a.gen = t.gen /\ a.node = t.node /\ a.work = t.work
  BY <1>1 DEF Task, Answer
<1>3. onFramework' = Append(onFramework, a)
  BY DEF Answers
<1> HIDE DEF a
<1>4. /\ Len(onFramework) \in Nat /\ DOMAIN onFramework = 1 .. Len(onFramework)
      /\ DOMAIN onFramework' = 1 .. (Len(onFramework) + 1)
      /\ onFramework'[Len(onFramework) + 1] = a
      /\ \A i \in DOMAIN onFramework : onFramework'[i] = onFramework[i]
  BY <1>1, <1>2, <1>3
<1>5. /\ Len(onFramework) + 1 \notin DOMAIN onFramework
      /\ DOMAIN onFramework' = DOMAIN onFramework \cup {Len(onFramework) + 1}
  BY <1>4
<1> QED
  BY <1>2, <1>4, <1>5

(* What a task that is no name-card worker of this session does leaves     *)
(* these alone, and so does an answer of another kind or session that is   *)
(* taken from the queue.                                                   *)
SameWorkers == \A t : t \in background' /\ Mine(t) <=> t \in background /\ Mine(t)
SameAnswers == \E d \in {0, 1} :
    /\ \A i \in DOMAIN onFramework' : MineAt(i)' =>
          i + d \in DOMAIN onFramework /\ onFramework'[i] = onFramework[i + d]
    /\ \A i \in DOMAIN onFramework : MineAt(i) =>
          i - d \in DOMAIN onFramework' /\ onFramework'[i - d] = onFramework[i]

LEMMA QuietAsking ==
  ASSUME PluginTypeOK, PluginTypeOK', Asking, SameWorkers, SameAnswers,
         UNCHANGED <<operation, node, generation, overtaken, unload>>,
         \A h \in Jobs : node # NoNode /\ NotOver(h) => NotOver(h)'
  PROVE  Asking'
<1> SUFFICES ASSUME Framework, ~overtaken
             PROVE  /\ node = NoNode => operation = Idle
                    /\ operation.preparing => operation.work = NoWork
                    /\ OneWorker' /\ JobsKept'
  BY DEF Asking, Framework
<1>a. /\ node = NoNode => operation = Idle
      /\ operation.preparing => operation.work = NoWork
      /\ OneWorker /\ JobsKept
  BY DEF Asking
<1>1. PICK d \in {0, 1} :
        /\ \A i \in DOMAIN onFramework' : MineAt(i)' =>
              i + d \in DOMAIN onFramework /\ onFramework'[i] = onFramework[i + d]
        /\ \A i \in DOMAIN onFramework : MineAt(i) =>
              i - d \in DOMAIN onFramework' /\ onFramework'[i - d] = onFramework[i]
  BY DEF SameAnswers
<1>2. \A i \in DOMAIN onFramework' : i \in Int
  BY DEF PluginTypeOK
<1>3. \A i \in DOMAIN onFramework : i \in Int
  BY DEF PluginTypeOK
<1>4. \A i \in DOMAIN onFramework' : MineAt(i)' => i + d \in DOMAIN onFramework /\ MineAt(i + d)
  BY <1>1 DEF MineAt
<1>5. \A i \in DOMAIN onFramework : MineAt(i) => i - d \in DOMAIN onFramework' /\ MineAt(i - d)'
  BY <1>1 DEF MineAt
<1>6. \A t : t \in background' /\ Mine(t)' <=> t \in background /\ Mine(t)
  BY DEF SameWorkers, Mine
<1>7. OneWorker'
  <2>1. \A i, j \in DOMAIN onFramework' : MineAt(i)' /\ MineAt(j)' => i = j
    BY <1>a, <1>1, <1>2, <1>4 DEF OneWorker
  <2>2. \A t \in background', i \in DOMAIN onFramework' : ~(Mine(t)' /\ MineAt(i)')
    BY <1>a, <1>4, <1>6 DEF OneWorker
  <2>3. (\E i \in DOMAIN onFramework' : MineAt(i)') <=> (\E i \in DOMAIN onFramework : MineAt(i))
    BY <1>4, <1>5
  <2>4. (\E t \in background' : Mine(t)') <=> (\E t \in background : Mine(t))
    BY <1>6
  <2> QED
    BY <1>a, <1>6, <2>1, <2>2, <2>3, <2>4 DEF OneWorker
<1>8. \A h \in Jobs \cup {NoWork} : node # NoNode /\ Reported(h) => Reported(h)'
  BY DEF Reported
<1>9. operation.preparing => node # NoNode
  BY <1>a DEF Idle
<1>10. \A t \in background' : Mine(t)' => Reported(t.work)'
  <2> TAKE t \in background'
  <2> HAVE Mine(t)'
  <2>1. t \in background /\ Mine(t) /\ t.work \in Jobs \cup {NoWork} /\ node # NoNode
    BY <1>a, <1>6, <1>9 DEF PluginTypeOK, Task, OneWorker
  <2>2. Reported(t.work)
    BY <1>a, <2>1 DEF JobsKept
  <2> QED
    BY <1>8, <2>1, <2>2
<1>11. \A i \in DOMAIN onFramework' :
          MineAt(i)' => onFramework'[i].node = node /\ Reported(onFramework[i].work)'
  <2> TAKE i \in DOMAIN onFramework'
  <2> HAVE MineAt(i)'
  <2>1. i + d \in DOMAIN onFramework /\ MineAt(i + d) /\ onFramework'[i] = onFramework[i + d]
    BY <1>1, <1>4
  <2>2. onFramework[i + d] \in Answer /\ node # NoNode
    BY <1>a, <1>9, <2>1 DEF PluginTypeOK, OneWorker
  <2>3. onFramework[i + d].node = node /\ Reported(onFramework[i + d].work)
    BY <1>a, <2>1 DEF JobsKept
  <2>4. onFramework[i + d].work \in Jobs \cup {NoWork}
    BY <2>2 DEF Answer
  <2> QED
    BY <1>8, <2>1, <2>2, <2>3, <2>4
<1>12. operation'.work # NoWork => node' # NoNode /\ NotOver(operation.work)'
  BY <1>a DEF JobsKept, PluginTypeOK
<1> QED
  BY <1>a, <1>7, <1>10, <1>11, <1>12 DEF JobsKept

(* A task that is no name-card worker, or one of another session, moves,   *)
(* ends or answers.                                                        *)
LEMMA OthersKeep ==
  ASSUME PluginTypeOK, NEW t \in background, ~Mine(t),
         \/ background' = background \ {t}
         \/ \E m \in Task : /\ background' = (background \ {t}) \cup {m}
                            /\ m.kind = t.kind /\ m.gen = t.gen
  PROVE  SameWorkers
BY DEF SameWorkers, Mine

LEMMA OthersAnswer ==
  ASSUME PluginTypeOK, PluginTypeOK', UNCHANGED generation, NEW t \in background, ~Mine(t),
         NEW does \in {"Opened", "Fail", "Stopped", "NamePrepared", "CacheCleared"}, Answers(does, t),
         does = "NamePrepared" => t.kind = "prepare"
  PROVE  SameAnswers
<1>1. PICK n : /\ n \notin DOMAIN onFramework /\ DOMAIN onFramework' = DOMAIN onFramework \cup {n}
               /\ onFramework'[n].does = does /\ onFramework'[n].gen = t.gen
               /\ onFramework'[n].node = t.node /\ onFramework'[n].work = t.work
               /\ \A i \in DOMAIN onFramework : onFramework'[i] = onFramework[i]
  BY AnswerWhole
<1>2. ~MineAt(n)'
  BY <1>1 DEF MineAt, Mine
<1>3. /\ \A i \in DOMAIN onFramework' : i \in Int
      /\ \A i \in DOMAIN onFramework : i \in Int
  BY DEF PluginTypeOK
<1>4. \A i \in DOMAIN onFramework' : MineAt(i)' =>
        i + 0 \in DOMAIN onFramework /\ onFramework'[i] = onFramework[i + 0]
  BY <1>1, <1>2, <1>3
<1>5. \A i \in DOMAIN onFramework : MineAt(i) =>
        i - 0 \in DOMAIN onFramework' /\ onFramework'[i - 0] = onFramework[i]
  BY <1>1, <1>3
<1> QED
  BY <1>4, <1>5 DEF SameAnswers

LEMMA OthersTaken ==
  ASSUME PluginTypeOK, PluginTypeOK', UNCHANGED generation, onFramework # <<>>, Taken, ~MineAt(1)
  PROVE  SameAnswers
<1>1. /\ 1 \in DOMAIN onFramework
      /\ \A i \in DOMAIN onFramework' : /\ i \in Int /\ i + 1 \in DOMAIN onFramework /\ i + 1 # 1
                                        /\ onFramework'[i] = onFramework[i + 1]
      /\ \A i \in DOMAIN onFramework : \/ i = 1
                                       \/ /\ i - 1 \in DOMAIN onFramework'
                                          /\ onFramework'[i - 1] = onFramework[i]
  BY TakenIs
<1>2. /\ \A i \in DOMAIN onFramework' : MineAt(i)' =>
            i + 1 \in DOMAIN onFramework /\ onFramework'[i] = onFramework[i + 1]
      /\ \A i \in DOMAIN onFramework : MineAt(i) =>
            i - 1 \in DOMAIN onFramework' /\ onFramework'[i - 1] = onFramework[i]
  BY <1>1
<1> QED
  BY <1>2 DEF SameAnswers

LEMMA QueueStays ==
  ASSUME PluginTypeOK, UNCHANGED <<onFramework, generation>>
  PROVE  SameAnswers
<1>1. \A i \in DOMAIN onFramework : i \in Int /\ i + 0 = i /\ i - 0 = i
  BY DEF PluginTypeOK
<1> QED
  BY <1>1 DEF SameAnswers, MineAt

(* What any step of a task does to the tasks and to the queue.             *)
LEMMA TaskMoves ==
  ASSUME PluginTypeOK, NEW t \in background, BackgroundStep(t)
  PROVE  \/ background' = background \ {t}
         \/ \E m \in Task : /\ background' = (background \ {t}) \cup {m}
                            /\ m.kind = t.kind /\ m.gen = t.gen
<1>1. CASE WorkerCalls(t)
  BY <1>1, CallIs
<1>2. ASSUME NEW at \in {"check", "wait", "in", "called", "out"}, MovesTo(t, at)
      PROVE  \E m \in Task : /\ background' = (background \ {t}) \cup {m}
                            /\ m.kind = t.kind /\ m.gen = t.gen
  BY <1>2, MoveIs
<1>3. CASE Ends(t)
  BY <1>3 DEF Ends
<1> QED
  BY <1>1, <1>2, <1>3
     DEF BackgroundStep, OpenSucceeds, OpenFails, OpenChecks, CloseStarts, CloseEnds, StopAnswers,
         WorkerEnters, WorkerLeaves, WorkerAnswers, ClearStarts, ClearEnds

LEMMA TaskTells ==
  ASSUME NEW t \in background, BackgroundStep(t)
  PROVE  \/ UNCHANGED onFramework
         \/ \E does \in {"Opened", "Fail", "Stopped", "NamePrepared", "CacheCleared"} :
               Answers(does, t) /\ (does = "NamePrepared" => t.kind = "prepare" /\ t.at = "out")
BY DEF BackgroundStep, OpenSucceeds, OpenFails, OpenChecks, CloseStarts, CloseEnds, StopAnswers,
       WorkerEnters, WorkerCalls, WorkerLeaves, WorkerAnswers, ClearStarts, ClearEnds

LEMMA TaskLeaves ==
  ASSUME PluginTypeOK, NEW t \in background, BackgroundStep(t)
  PROVE  /\ UNCHANGED <<operation, node, generation, overtaken, unload>>
         /\ \A h \in Jobs : node # NoNode /\ NotOver(h) => NotOver(h)'
<1>1. UNCHANGED <<operation, node, generation, overtaken, unload>>
  BY DEF BackgroundStep, OpenSucceeds, OpenFails, OpenChecks, CloseStarts, CloseEnds, StopAnswers,
         WorkerEnters, WorkerCalls, WorkerLeaves, WorkerAnswers, ClearStarts, ClearEnds
<1>2. CASE UNCHANGED work
  BY <1>1, <1>2 DEF NotOver
<1>3. ASSUME NEW k \in Jobs, work[t.node][k] = "none", work' = [work EXCEPT ![t.node][k] = "running"]
      PROVE  \A h \in Jobs : node # NoNode /\ NotOver(h) => NotOver(h)'
  <2> SUFFICES ASSUME NEW h \in Jobs, node # NoNode, NotOver(h) PROVE NotOver(h)'
    OBVIOUS
  <2>1. /\ node \in Generations
        /\ work \in [Generations -> [Jobs -> {"none", "running", "done", "polled", "lost"}]]
    BY PluginShapes DEF PluginTypeOK
  <2>2. work'[node][h] = IF node = t.node /\ h = k THEN "running" ELSE work[node][h]
    BY <1>3, <2>1
  <2>3. work'[node][h] \in {"running", "done", "lost"}
    BY <1>3, <2>2 DEF NotOver
  <2> QED
    BY <1>1, <2>3 DEF NotOver
<1>4. \/ UNCHANGED work
      \/ \E k \in Jobs : work[t.node][k] = "none" /\ work' = [work EXCEPT ![t.node][k] = "running"]
  BY DEF BackgroundStep, OpenSucceeds, OpenFails, OpenChecks, CloseStarts, CloseEnds, StopAnswers,
         WorkerEnters, WorkerCalls, WorkerLeaves, WorkerAnswers, ClearStarts, ClearEnds
<1> QED
  BY <1>1, <1>2, <1>3, <1>4

LEMMA OthersAsking ==
  ASSUME WaitInv, PluginTypeOK', NEW t \in background, ~Mine(t), BackgroundStep(t)
  PROVE  Asking'
<1>a. PluginTypeOK /\ Asking
  BY DEF WaitInv, PluginInv
<1>1. /\ UNCHANGED <<operation, node, generation, overtaken, unload>>
      /\ \A h \in Jobs : node # NoNode /\ NotOver(h) => NotOver(h)'
  BY <1>a, TaskLeaves
<1>2. SameWorkers
  BY <1>a, TaskMoves, OthersKeep
<1>3. SameAnswers
  <2>1. CASE UNCHANGED onFramework
    BY <1>1, <1>a, <2>1, QueueStays
  <2>2. ASSUME NEW does \in {"Opened", "Fail", "Stopped", "NamePrepared", "CacheCleared"},
               Answers(does, t), does = "NamePrepared" => t.kind = "prepare"
        PROVE  SameAnswers
    BY <1>1, <1>a, <2>2, OthersAnswer
  <2> QED
    BY <2>1, <2>2, TaskTells
<1> QED
  BY <1>1, <1>2, <1>3, <1>a, QuietAsking

(* The worker of this session is at work or answers.                       *)
LEMMA OwnAsking ==
  ASSUME WaitInv, NEW t \in background, Mine(t), BackgroundStep(t)
  PROVE  Asking'
<1>a. PluginTypeOK /\ Opening /\ Working /\ Asking
  BY DEF WaitInv, PluginInv
<1>1. UNCHANGED <<operation, node, generation, overtaken, unload>>
  BY <1>a, TaskLeaves
<1> SUFFICES ASSUME Framework, ~overtaken PROVE Asking'
  BY <1>1 DEF Asking, Framework
<1>2. /\ t.kind = "prepare" /\ t.gen = generation /\ t.node = node
      /\ t.at # "opening" /\ t.at # "check"
  BY <1>a DEF Mine, Working, Opening
<1>3. /\ node = NoNode => operation = Idle
      /\ operation.preparing => operation.work = NoWork
      /\ OneWorker /\ JobsKept
  BY <1>a DEF Asking
<1>4. /\ operation.preparing /\ operation.work = NoWork /\ node # NoNode
      /\ \A u \in background : Mine(u) => u = t
      /\ \A i \in DOMAIN onFramework : ~MineAt(i)
  BY <1>3 DEF OneWorker, Idle
<1>5. Reported(t.work)
  BY <1>3 DEF JobsKept
<1>6. ASSUME NEW m \in Task, background' = (background \ {t}) \cup {m}, m.kind = t.kind, m.gen = t.gen,
             Reported(m.work)', UNCHANGED onFramework
      PROVE  Asking'
  <2>1. Mine(m)' /\ \A u \in background' : Mine(u)' => u = m
    BY <1>1, <1>2, <1>4, <1>6 DEF Mine
  <2>2. \A i \in DOMAIN onFramework' : ~MineAt(i)'
    BY <1>1, <1>4, <1>6 DEF MineAt
  <2>3. m \in background'
    BY <1>6
  <2>4. OneWorker'
    BY <1>1, <1>4, <2>1, <2>2, <2>3 DEF OneWorker
  <2>5. JobsKept'
    BY <1>1, <1>4, <1>6, <2>1, <2>2 DEF JobsKept
  <2> QED
    BY <1>1, <1>3, <2>4, <2>5 DEF Asking
<1>7. CASE WorkerEnters(t) \/ WorkerLeaves(t)
  <2>1. PICK at \in {"in", "out"} : MovesTo(t, at) /\ UNCHANGED <<onFramework, work>>
    BY <1>2, <1>7 DEF WorkerEnters, WorkerLeaves
  <2>2. PICK m \in Task : /\ background' = (background \ {t}) \cup {m}
                          /\ m.kind = t.kind /\ m.gen = t.gen /\ m.work = t.work
    BY <1>a, <2>1, MoveIs
  <2>3. Reported(m.work)'
    BY <1>1, <1>5, <2>1, <2>2 DEF Reported, NotOver
  <2> QED
    BY <1>6, <2>1, <2>2, <2>3
<1>8. CASE WorkerCalls(t)
  <2>1. UNCHANGED onFramework
    BY <1>8 DEF WorkerCalls
  <2>2. CASE MovesTo(t, "called") /\ UNCHANGED work
    <3>1. PICK m \in Task : /\ background' = (background \ {t}) \cup {m}
                            /\ m.kind = t.kind /\ m.gen = t.gen /\ m.work = t.work
      BY <1>a, <2>2, MoveIs
    <3>2. Reported(m.work)'
      BY <1>1, <1>5, <2>2, <3>1 DEF Reported, NotOver
    <3> QED
      BY <1>6, <2>1, <3>1, <3>2
  <2>3. ASSUME NEW h \in Jobs, work' = [work EXCEPT ![t.node][h] = "running"],
               background' = (background \ {t}) \cup {[t EXCEPT !.at = "called", !.work = h]}
        PROVE  Asking'
    <3> DEFINE m == [t EXCEPT !.at = "called", !.work = h]
    <3>1. t \in Task
      BY <1>a DEF PluginTypeOK
    <3>2. m \in Task /\ m.kind = t.kind /\ m.gen = t.gen /\ m.work = h
      BY <3>1 DEF Task
    <3>3. background' = (background \ {t}) \cup {m}
      BY <2>3
    <3> HIDE DEF m
    <3>4. /\ node \in Generations
          /\ work \in [Generations -> [Jobs -> {"none", "running", "done", "polled", "lost"}]]
      BY <1>4, <1>a, PluginShapes DEF PluginTypeOK
    <3>5. work'[node][h] = "running"
      BY <1>2, <2>3, <3>4
    <3>6. NotOver(h)'
      BY <1>1, <3>5 DEF NotOver
    <3>7. Reported(m.work)'
      BY <3>2, <3>6 DEF Reported
    <3> QED
      BY <1>6, <2>1, <3>2, <3>3, <3>7
  <2> QED
    BY <1>8, <2>2, <2>3 DEF WorkerCalls
<1>9. CASE WorkerAnswers(t)
  <2>1. background' = background \ {t} /\ UNCHANGED work /\ Answers("NamePrepared", t)
    BY <1>9 DEF WorkerAnswers, Ends
  <2>2. PICK n : /\ n \notin DOMAIN onFramework /\ DOMAIN onFramework' = DOMAIN onFramework \cup {n}
                 /\ onFramework'[n].does = "NamePrepared" /\ onFramework'[n].gen = t.gen
                 /\ onFramework'[n].node = t.node /\ onFramework'[n].work = t.work
                 /\ \A i \in DOMAIN onFramework : onFramework'[i] = onFramework[i]
    BY <1>a, <2>1, AnswerWhole
  <2>3. MineAt(n)' /\ \A i \in DOMAIN onFramework' : MineAt(i)' => i = n
    BY <1>1, <1>2, <1>4, <2>2 DEF MineAt
  <2>4. \A u \in background' : ~Mine(u)'
    BY <1>1, <1>4, <2>1 DEF Mine
  <2>5. OneWorker'
    BY <1>1, <1>4, <2>2, <2>3, <2>4 DEF OneWorker
  <2>6. \A k : Reported(k)' <=> Reported(k)
    BY <1>1, <2>1 DEF Reported, NotOver
  <2>7. Reported(onFramework[n].work)'
    BY <1>5, <2>2, <2>6
  <2>8. onFramework'[n].node = node'
    BY <1>1, <1>2, <2>2
  <2>9. JobsKept'
    BY <1>1, <1>4, <2>3, <2>4, <2>7, <2>8 DEF JobsKept
  <2> QED
    BY <1>1, <1>3, <2>5, <2>9 DEF Asking
<1> QED
  BY <1>2, <1>7, <1>8, <1>9
     DEF BackgroundStep, OpenSucceeds, OpenFails, OpenChecks, CloseStarts, CloseEnds, StopAnswers,
         ClearStarts, ClearEnds

(* A start or a stop ends what the session was about.                      *)
LEMMA SessionEnds ==
  ASSUME WaitInv, generation' = generation + 1, UNCHANGED onFramework, operation' = Idle,
         \A t \in background' : t \in background \/ t.kind # "prepare"
  PROVE  Asking'
<1>a. PluginTypeOK /\ Working /\ OldAnswers
  BY DEF WaitInv, PluginInv
<1>1. \A t \in background' : ~Mine(t)'
  <2> SUFFICES ASSUME NEW t \in background', t.kind = "prepare", t.gen = generation + 1 PROVE FALSE
    BY DEF Mine
  <2> QED
    BY <1>a, PluginShapes DEF Working
<1>2. \A i \in DOMAIN onFramework' : ~MineAt(i)'
  <2> SUFFICES ASSUME NEW i \in DOMAIN onFramework, onFramework[i].does = "NamePrepared",
                      onFramework[i].gen = generation + 1
               PROVE  FALSE
    BY DEF MineAt
  <2> QED
    BY <1>a, PluginShapes DEF OldAnswers
<1>3. ~operation'.preparing /\ operation'.work = NoWork
  BY DEF Idle
<1> QED
  BY <1>1, <1>2, <1>3 DEF Asking, OneWorker, JobsKept, Idle

LEMMA StartAsking ==
  ASSUME WaitInv, Start
  PROVE  Asking'
<1>a. PluginTypeOK /\ Asking
  BY DEF WaitInv, PluginInv
<1> SUFFICES ASSUME ~overtaken' PROVE Asking'
  BY DEF Asking
<1>1. operation = Idle
  BY <1>a DEF Asking, Start
<1>2. generation + 1 \in 0 .. MaxGeneration
  BY <1>a, PluginShapes DEF Start
<1>3. \A t \in background' : t \in background \/ t.kind # "prepare"
  BY <1>2, NewIs DEF Start
<1> QED
  BY <1>1, <1>3, SessionEnds DEF Start

LEMMA StopAsking ==
  ASSUME WaitInv, Stop
  PROVE  Asking'
<1>a. PluginTypeOK
  BY DEF WaitInv, PluginInv
<1>1. generation + 1 \in 0 .. MaxGeneration /\ node \in 0 .. MaxGeneration
  BY <1>a, PluginShapes DEF Stop
<1>2. \A t \in background' : t \in background \/ t.kind # "prepare"
  BY <1>1, NewIs DEF Stop
<1> QED
  BY <1>2, SessionEnds DEF Stop

LEMMA PrepareAsking ==
  ASSUME WaitInv, PrepareNostr
  PROVE  Asking'
<1>a. PluginTypeOK /\ Asking
  BY DEF WaitInv, PluginInv
<1> SUFFICES ASSUME ~overtaken PROVE Asking'
  BY DEF Asking, PrepareNostr
<1>1. generation \in 0 .. MaxGeneration /\ node \in 0 .. MaxGeneration
  BY <1>a, PluginShapes
<1>2. PICK m \in Task : /\ background' = background \cup {m} /\ m.kind = "prepare" /\ m.gen = generation
                        /\ m.node = node /\ m.work = NoWork
  BY <1>1, NewIs DEF PrepareNostr
<1>3. /\ ~operation.preparing /\ OneWorker /\ node # NoNode
      /\ UNCHANGED <<generation, node, onFramework>>
      /\ operation'.preparing /\ operation'.work = NoWork
  BY <1>a DEF Asking, PrepareNostr, NameCardBusy, Idle
<1>4. /\ \A t \in background : ~Mine(t)
      /\ \A i \in DOMAIN onFramework : ~MineAt(i)
  BY <1>3 DEF OneWorker
<1>5. Mine(m)' /\ \A t \in background' : Mine(t)' => t = m
  BY <1>2, <1>3, <1>4 DEF Mine
<1>6. \A i \in DOMAIN onFramework' : ~MineAt(i)'
  BY <1>3, <1>4 DEF MineAt
<1>7. m \in background'
  BY <1>2
<1>8. OneWorker'
  BY <1>3, <1>5, <1>6, <1>7 DEF OneWorker
<1>9. Reported(m.work)'
  BY <1>2 DEF Reported
<1>10. JobsKept'
  BY <1>3, <1>5, <1>6, <1>9 DEF JobsKept
<1> QED
  BY <1>3, <1>8, <1>10 DEF Asking

LEMMA ClearAsking ==
  ASSUME WaitInv, PluginTypeOK', ClearSharedFileCache
  PROVE  Asking'
<1>a. PluginTypeOK /\ Asking
  BY DEF WaitInv, PluginInv
<1>1. generation \in 0 .. MaxGeneration /\ NoNode \in 0 .. MaxGeneration
  BY <1>a, PluginShapes DEF NoNode
<1>2. PICK m \in Task : background' = background \cup {m} /\ m.kind = "clear"
  BY <1>1, NewIs DEF ClearSharedFileCache
<1>3. SameWorkers
  BY <1>2 DEF SameWorkers, Mine
<1>4. UNCHANGED <<operation, node, generation, overtaken, unload, onFramework, work>>
  BY DEF ClearSharedFileCache
<1>5. SameAnswers
  BY <1>4, <1>a, QueueStays
<1>6. \A h \in Jobs : NotOver(h) => NotOver(h)'
  BY <1>4 DEF NotOver
<1> QED
  BY <1>3, <1>4, <1>5, <1>6, <1>a, QuietAsking

(* An answer of a task is taken from the queue.                            *)
LEMMA TakenQuiet ==
  ASSUME WaitInv, PluginTypeOK', onFramework # <<>>, Taken, ~MineAt(1), SameWorkers,
         UNCHANGED <<operation, node, generation, overtaken, unload, work>>
  PROVE  Asking'
<1>a. PluginTypeOK /\ Asking
  BY DEF WaitInv, PluginInv
<1>1. SameAnswers
  BY <1>a, OthersTaken
<1>2. \A h \in Jobs : NotOver(h) => NotOver(h)'
  BY DEF NotOver
<1> QED
  BY <1>1, <1>2, <1>a, QuietAsking

LEMMA ToldAsking ==
  ASSUME WaitInv, PluginTypeOK', Fail \/ Stopped \/ CacheCleared
  PROVE  Asking'
<1>a. PluginTypeOK
  BY DEF WaitInv, PluginInv
<1>1. /\ onFramework # <<>> /\ Taken /\ Head(onFramework).does # "NamePrepared"
      /\ UNCHANGED <<operation, node, generation, overtaken, unload, work, background>>
  BY DEF Fail, Stopped, CacheCleared, Delivered
<1>2. Head(onFramework) = onFramework[1]
  BY <1>1, <1>a, TakenIs
<1>3. ~MineAt(1)
  BY <1>1, <1>2 DEF MineAt
<1>4. SameWorkers
  BY <1>1 DEF SameWorkers
<1> QED
  BY <1>1, <1>3, <1>4, TakenQuiet

LEMMA OpenedAsking ==
  ASSUME WaitInv, PluginTypeOK', Opened
  PROVE  Asking'
<1>a. PluginTypeOK /\ OneHolder /\ Asking
  BY DEF WaitInv, PluginInv
<1>1. /\ onFramework # <<>> /\ Taken /\ Head(onFramework).does = "Opened" /\ Framework
      /\ UNCHANGED <<operation, generation, overtaken, unload, work>>
  BY DEF Opened, Delivered
<1>2. /\ 1 \in DOMAIN onFramework /\ Head(onFramework) = onFramework[1] /\ onFramework[1] \in Answer
      /\ \A i \in DOMAIN onFramework' : /\ i + 1 \in DOMAIN onFramework
                                        /\ onFramework'[i] = onFramework[i + 1]
  BY <1>1, <1>a, TakenIs
<1>3. ~MineAt(1)
  BY <1>1, <1>2 DEF MineAt
<1>4. CASE /\ background' = background \cup {NewTask("close", onFramework[1].gen, onFramework[1].gen, "wait")}
           /\ UNCHANGED node
  <2>1. onFramework[1].gen \in 0 .. MaxGeneration
    BY <1>2 DEF Answer
  <2>2. SameWorkers
    BY <1>4, <2>1, NewIs DEF SameWorkers, Mine
  <2> QED
    BY <1>1, <1>3, <1>4, <2>2, TakenQuiet
<1>5. CASE UNCHANGED background
  <2> SUFFICES ASSUME ~overtaken PROVE Asking'
    BY <1>1 DEF Asking
  <2>1. node = NoNode
    BY <1>1, <1>2, <1>a DEF OneHolder, OpenedAt
  <2>2. operation = Idle /\ OneWorker
    BY <1>1, <1>a, <2>1 DEF Asking
  <2>3. ~operation.preparing /\ operation.work = NoWork
    BY <2>2 DEF Idle
  <2>4. /\ \A t \in background : ~Mine(t)
        /\ \A i \in DOMAIN onFramework : ~MineAt(i)
    BY <2>2, <2>3 DEF OneWorker
  <2>5. \A t \in background' : ~Mine(t)'
    BY <1>1, <1>5, <2>4 DEF Mine
  <2>6. \A i \in DOMAIN onFramework' : ~MineAt(i)'
    BY <1>1, <1>2, <2>4 DEF MineAt
  <2> QED
    BY <1>1, <2>2, <2>3, <2>5, <2>6 DEF Asking, OneWorker, JobsKept
<1> QED
  BY <1>2, <1>4, <1>5 DEF Opened

(* The answer of the worker arrives: what it answered with is waited for,  *)
(* unless that is over already.                                            *)
LEMMA NamePreparedAsking ==
  ASSUME WaitInv, PluginTypeOK', NamePrepared
  PROVE  Asking'
<1>a. PluginTypeOK /\ Asking
  BY DEF WaitInv, PluginInv
<1>1. /\ onFramework # <<>> /\ Taken /\ Head(onFramework).does = "NamePrepared" /\ Framework
      /\ UNCHANGED <<background, node, generation, overtaken, unload, work>>
  BY DEF NamePrepared, Delivered
<1>2. /\ 1 \in DOMAIN onFramework /\ Head(onFramework) = onFramework[1] /\ onFramework[1] \in Answer
      /\ \A i \in DOMAIN onFramework' : /\ i + 1 \in DOMAIN onFramework /\ i + 1 # 1
                                        /\ onFramework'[i] = onFramework[i + 1]
  BY <1>1, <1>a, TakenIs
<1>3. CASE ~MineAt(1)
  <2>1. UNCHANGED operation
    BY <1>1, <1>2, <1>3 DEF NamePrepared, MineAt
  <2>2. SameWorkers
    BY <1>1 DEF SameWorkers
  <2> QED
    BY <1>1, <1>3, <2>1, <2>2, TakenQuiet
<1>4. CASE MineAt(1)
  <2> SUFFICES ASSUME ~overtaken PROVE Asking'
    BY <1>1 DEF Asking
  <2>1. OneWorker /\ JobsKept /\ (node = NoNode => operation = Idle)
    BY <1>1, <1>a DEF Asking
  <2>2. operation.preparing /\ onFramework[1].node = node /\ Reported(onFramework[1].work)
    BY <1>2, <1>4, <2>1 DEF OneWorker, JobsKept
  <2>3. node # NoNode
    BY <2>1, <2>2 DEF Idle
  <2>4. operation' = [Idle EXCEPT !.work = IF onFramework[1].work \in operation.early THEN NoWork
                                           ELSE onFramework[1].work]
    BY <1>2, <1>4, <2>2 DEF NamePrepared, MineAt
  <2>5. /\ ~operation'.preparing
        /\ operation'.work # NoWork => operation'.work = onFramework[1].work
                                        /\ onFramework[1].work \notin operation.early
    BY <2>4 DEF Idle
  <2>6. operation'.work # NoWork => NotOver(operation'.work)
    BY <2>2, <2>5 DEF Reported
  <2>7. \A h : NotOver(h)' <=> NotOver(h)
    BY <1>1 DEF NotOver
  <2>8. operation'.work # NoWork => NotOver(operation.work)'
    BY <2>6, <2>7
  <2>9. \A t \in background' : ~Mine(t)'
    BY <1>1, <1>2, <1>4, <2>1 DEF OneWorker, Mine
  <2>10. \A i \in DOMAIN onFramework' : ~MineAt(i)'
    <3> SUFFICES ASSUME NEW i \in DOMAIN onFramework', MineAt(i)' PROVE FALSE
      OBVIOUS
    <3>1. MineAt(i + 1) /\ i + 1 \in DOMAIN onFramework /\ i + 1 # 1
      BY <1>1, <1>2 DEF MineAt
    <3> QED
      BY <1>2, <1>4, <2>1, <3>1 DEF OneWorker
  <2>11. OneWorker'
    BY <2>5, <2>9, <2>10 DEF OneWorker
  <2>12. JobsKept'
    BY <1>1, <2>3, <2>8, <2>9, <2>10 DEF JobsKept
  <2> QED
    BY <1>1, <2>3, <2>5, <2>11, <2>12 DEF Asking
<1> QED
  BY <1>3, <1>4

(* A job is over; its event may be polled before its handle is known.      *)
LEMMA PollAsking ==
  ASSUME WaitInv, NEW h \in Jobs, PollDone(h)
  PROVE  Asking'
<1>a. PluginTypeOK /\ Asking
  BY DEF WaitInv, PluginInv
<1>1. /\ Framework /\ node # NoNode
      /\ UNCHANGED <<background, onFramework, node, generation, overtaken, unload>>
      /\ work' = [work EXCEPT ![node][h] = "polled"]
  BY DEF PollDone
<1> SUFFICES ASSUME ~overtaken PROVE Asking'
  BY <1>1 DEF Asking
<1>2. /\ operation.preparing => operation.work = NoWork
      /\ OneWorker /\ JobsKept
  BY <1>1, <1>a DEF Asking
<1>3. /\ operation \in [preparing : BOOLEAN, work : Jobs \cup {NoWork}, early : SUBSET Jobs]
      /\ work \in [Generations -> [Jobs -> {"none", "running", "done", "polled", "lost"}]]
      /\ node \in Generations /\ h # NoWork
  BY <1>1, <1>a, PluginShapes, JobsAssumption DEF PluginTypeOK
<1>4. \A k \in Jobs : k # h /\ NotOver(k) => NotOver(k)'
  <2> SUFFICES ASSUME NEW k \in Jobs, k # h, NotOver(k) PROVE NotOver(k)'
    OBVIOUS
  <2>1. work'[node][k] = work[node][k]
    BY <1>1, <1>3
  <2> QED
    BY <1>1, <2>1 DEF NotOver
<1>5. operation'.preparing <=> operation.preparing
  BY <1>3 DEF PollDone, Completed
<1>6. OneWorker'
  BY <1>1, <1>2, <1>5 DEF OneWorker, Mine, MineAt
<1>7. CASE operation.preparing
  <2>1. operation'.early = operation.early \cup {h} /\ operation'.work = NoWork
    BY <1>2, <1>3, <1>7 DEF PollDone, Completed
  <2>2. \A k \in Jobs \cup {NoWork} : Reported(k) => Reported(k)'
    <3> SUFFICES ASSUME NEW k \in Jobs \cup {NoWork}, Reported(k) PROVE Reported(k)'
      OBVIOUS
    <3>1. CASE k = NoWork
      BY <3>1 DEF Reported
    <3>2. CASE k \in operation.early \cup {h}
      BY <2>1, <3>2 DEF Reported
    <3>3. CASE k # NoWork /\ k \notin operation.early \cup {h}
      BY <1>4, <3>3 DEF Reported
    <3> QED
      BY <3>1, <3>2, <3>3
  <2>3. \A t \in background' : Mine(t)' => Reported(t.work)'
    <3> SUFFICES ASSUME NEW t \in background, Mine(t) PROVE Reported(t.work)'
      BY <1>1 DEF Mine
    <3>1. Reported(t.work) /\ t.work \in Jobs \cup {NoWork}
      BY <1>2, <1>a DEF JobsKept, PluginTypeOK, Task
    <3> QED
      BY <2>2, <3>1
  <2>4. \A i \in DOMAIN onFramework' :
          MineAt(i)' => onFramework'[i].node = node' /\ Reported(onFramework[i].work)'
    <3> SUFFICES ASSUME NEW i \in DOMAIN onFramework, MineAt(i)
                 PROVE  onFramework[i].node = node /\ Reported(onFramework[i].work)'
      BY <1>1 DEF MineAt
    <3>1. onFramework[i].node = node /\ Reported(onFramework[i].work)
      BY <1>2 DEF JobsKept
    <3>2. onFramework[i] \in Answer
      BY <1>a DEF PluginTypeOK
    <3>3. onFramework[i].work \in Jobs \cup {NoWork}
      BY <3>2 DEF Answer
    <3>4. \A k \in Jobs \cup {NoWork} : k = onFramework[i].work => Reported(k)'
      BY <2>2, <3>1
    <3> QED
      BY <1>1, <3>1, <3>3, <3>4
  <2>5. JobsKept'
    BY <2>1, <2>3, <2>4 DEF JobsKept
  <2> QED
    BY <1>1, <1>6, <2>1, <2>5 DEF Asking
<1>8. CASE ~operation.preparing
  <2>1. /\ \A t \in background' : ~Mine(t)'
        /\ \A i \in DOMAIN onFramework' : ~MineAt(i)'
    BY <1>5, <1>6, <1>8 DEF OneWorker
  <2>2. operation'.work # NoWork => operation'.work = operation.work /\ operation.work # h
    BY <1>3, <1>8 DEF PollDone, Completed
  <2>3. operation'.work # NoWork => NotOver(operation'.work) /\ operation'.work \in Jobs \ {h}
    BY <1>2, <1>3, <2>2 DEF JobsKept
  <2>4. operation'.work # NoWork => NotOver(operation.work)'
    <3>1. \A k \in Jobs \ {h} : operation'.work = k /\ NotOver(k) => NotOver(operation.work)'
      BY <1>4 DEF NotOver
    <3> QED
      BY <2>3, <3>1
  <2>5. JobsKept'
    BY <1>1, <2>1, <2>4 DEF JobsKept
  <2> QED
    BY <1>1, <1>5, <1>6, <1>8, <2>5 DEF Asking
<1> QED
  BY <1>7, <1>8

LEMMA JobAsking ==
  ASSUME WaitInv, PluginTypeOK', NEW g \in Generations, NEW h \in Jobs, JobEnds(g, h)
  PROVE  Asking'
<1>a. PluginTypeOK /\ Asking
  BY DEF WaitInv, PluginInv
<1>1. UNCHANGED <<background, onFramework, operation, node, generation, overtaken, unload>>
  BY DEF JobEnds
<1>2. SameWorkers /\ SameAnswers
  BY <1>1, <1>a, QueueStays DEF SameWorkers
<1>3. \A k \in Jobs : node # NoNode /\ NotOver(k) => NotOver(k)'
  <2> SUFFICES ASSUME NEW k \in Jobs, node # NoNode, NotOver(k) PROVE NotOver(k)'
    OBVIOUS
  <2>1. /\ node \in Generations
        /\ work \in [Generations -> [Jobs -> {"none", "running", "done", "polled", "lost"}]]
    BY <1>a, PluginShapes DEF PluginTypeOK
  <2>2. PICK end \in {"done", "lost"} : work' = [work EXCEPT ![g][h] = end]
    BY DEF JobEnds
  <2>3. work'[node][k] = IF node = g /\ k = h THEN end ELSE work[node][k]
    BY <2>1, <2>2
  <2>4. work'[node][k] \in {"running", "done", "lost"}
    BY <2>2, <2>3 DEF NotOver
  <2> QED
    BY <1>1, <2>4 DEF NotOver
<1> QED
  BY <1>1, <1>2, <1>3, <1>a, QuietAsking

(* No step queues an answer of a session to come, or goes back to one.     *)
LEMMA OldAnswersStep ==
  ASSUME WaitInv, [PluginNext]_pluginVars
  PROVE  OldAnswers'
<1>a. PluginTypeOK /\ Working /\ OldAnswers /\ generation \in Nat
  BY PluginShapes DEF WaitInv, PluginInv
<1>b. \A i \in DOMAIN onFramework : onFramework[i].gen \in Nat
  <2>1. \A i \in DOMAIN onFramework : onFramework[i] \in Answer
    BY <1>a DEF PluginTypeOK
  <2> QED
    BY <2>1, PluginBoundsAssumption DEF Answer
<1>1. generation' = generation \/ generation' = generation + 1
  BY DEF PluginNext, FrameworkStep, BackgroundStep, Start, Stop, PrepareNostr, ClearSharedFileCache,
         Opened, Fail, Stopped, NamePrepared, CacheCleared, PollDone, OpenSucceeds, OpenFails,
         OpenChecks, CloseStarts, CloseEnds, StopAnswers, WorkerEnters, WorkerCalls, WorkerLeaves,
         WorkerAnswers, ClearStarts, ClearEnds, JobEnds, DisposeBegins, DisposeWaited, DisposeEnds,
         pluginVars
<1>2. CASE UNCHANGED onFramework
  BY <1>1, <1>2, <1>a, <1>b DEF OldAnswers
<1>3. ASSUME onFramework # <<>>, Taken PROVE OldAnswers'
  <2>1. \A i \in DOMAIN onFramework' : i + 1 \in DOMAIN onFramework /\ onFramework'[i] = onFramework[i + 1]
    BY <1>3, <1>a, TakenIs
  <2> QED
    BY <1>1, <1>a, <1>b, <2>1 DEF OldAnswers
<1>4. ASSUME NEW t \in background, BackgroundStep(t) PROVE OldAnswers'
  <2>1. ASSUME NEW does \in {"Opened", "Fail", "Stopped", "NamePrepared", "CacheCleared"},
               Answers(does, t), does = "NamePrepared" => t.kind = "prepare"
        PROVE  OldAnswers'
    <3>1. PICK n : /\ n \notin DOMAIN onFramework /\ DOMAIN onFramework' = DOMAIN onFramework \cup {n}
                   /\ onFramework'[n].does = does /\ onFramework'[n].gen = t.gen
                   /\ onFramework'[n].node = t.node /\ onFramework'[n].work = t.work
                   /\ \A i \in DOMAIN onFramework : onFramework'[i] = onFramework[i]
      BY <1>a, <2>1, AnswerWhole
    <3>2. does = "NamePrepared" => t.gen \in Nat /\ t.gen <= generation
      BY <1>a, <2>1, PluginShapes DEF Working
    <3> QED
      BY <1>1, <1>a, <1>b, <3>1, <3>2 DEF OldAnswers
  <2> QED
    BY <1>2, <1>4, <2>1, TaskTells
<1>5. \/ UNCHANGED onFramework \/ (onFramework # <<>> /\ Taken)
      \/ \E t \in background : BackgroundStep(t)
  BY DEF PluginNext, FrameworkStep, Start, Stop, PrepareNostr, ClearSharedFileCache, Opened, Fail,
         Stopped, NamePrepared, CacheCleared, PollDone, Delivered, JobEnds, DisposeBegins,
         DisposeWaited, DisposeEnds, pluginVars
<1> QED
  BY <1>2, <1>3, <1>4, <1>5

LEMMA WaitStarts ==
  ASSUME PluginInit
  PROVE  WaitInv
<1>1. /\ background = {} /\ onFramework = <<>> /\ DOMAIN onFramework = {}
      /\ ~operation.preparing /\ operation = Idle /\ operation.work = NoWork
  BY DEF PluginInit, Idle
<1>2. OldAnswers /\ Asking
  BY <1>1 DEF OldAnswers, Asking, OneWorker, JobsKept
<1> QED
  BY <1>2, PluginInvStarts DEF WaitInv

LEMMA WaitStep ==
  ASSUME WaitInv, [PluginNext]_pluginVars
  PROVE  WaitInv'
<1>1. PluginInv' /\ PluginTypeOK'
  BY PluginInvStep DEF WaitInv, PluginInv
<1>2. Asking'
  <2>1. CASE FrameworkStep
    BY <1>1, <2>1, StartAsking, StopAsking, PrepareAsking, ClearAsking, ToldAsking, OpenedAsking,
       NamePreparedAsking, PollAsking
       DEF FrameworkStep
  <2>2. ASSUME NEW t \in background, BackgroundStep(t) PROVE Asking'
    BY <1>1, <2>2, OthersAsking, OwnAsking
  <2>3. CASE \E g \in Generations, h \in Jobs : JobEnds(g, h)
    BY <1>1, <2>3, JobAsking
  <2>4. CASE DisposeBegins \/ DisposeWaited \/ DisposeEnds
    <3>1. unload' # "live"
      BY <2>4 DEF DisposeBegins, DisposeWaited, DisposeEnds
    <3> QED
      BY <3>1 DEF Asking, Framework
  <2>5. CASE UNCHANGED pluginVars
    BY <2>5
       DEF WaitInv, Asking, OneWorker, JobsKept, Framework, Mine, MineAt, Reported, NotOver,
           pluginVars
  <2> QED
    BY <2>1, <2>2, <2>3, <2>4, <2>5 DEF PluginNext
<1> QED
  BY <1>1, <1>2, OldAnswersStep DEF WaitInv

(* However results that come before their handles, dropped events, stops,  *)
(* restarts and answers of older sessions interleave, the name-card        *)
(* buttons are blocked only while the worker of this session is at work,   *)
(* its answer is queued, or the job that is waited for is not yet reported.*)
THEOREM BlockedForReason == PluginSpec => []WaitsForReason
<1>1. WaitInv => WaitsForReason
  BY DEF WaitInv, PluginInv, Working, Asking, OneWorker, JobsKept, Mine, MineAt, NotOver,
         WaitsForReason
<1>2. PluginInit => WaitInv
  BY WaitStarts
<1>3. WaitInv /\ [PluginNext]_pluginVars => WaitInv'
  BY WaitStep
<1> QED
  BY <1>1, <1>2, <1>3, PTL DEF PluginSpec

-----------------------------------------------------------------------------
(* The C ABI and its binding.                                              *)

(* Names and numbers.  Every event has a kind, the two enums agree on it,  *)
(* and events of a kind that is no line of the log are told apart by it.   *)
LEMMA KindsAgree ==
  ASSUME NEW e \in Emittable
  PROVE  LanternEventKind[Kind(e)] = KindName(e)
<1>1. e.is \in NodeEvents
  BY EmittableAssumption
<1>2. \E k \in DOMAIN EventKinds : EventKinds[k] = KindName(e)
  <2>1. DOMAIN EventKinds = 1 .. 41
    BY DEF EventKinds
  <2>2. EventKinds[18] = "Log" /\ EventKinds[35] = "ChannelHistory" /\ EventKinds[38] = "NostrFailed"
    BY DEF EventKinds
  <2>3. KindName(e) \in {"Log", "ChannelHistory", "NostrFailed"} \/ (KindName(e) = e.is /\ e.is \notin CallNames)
    BY DEF KindName
  <2>4. e.is \in CallNames \/ \E k \in DOMAIN EventKinds : EventKinds[k] = e.is
    BY <1>1 DEF NodeEvents
  <2> QED
    BY <2>1, <2>2, <2>3, <2>4
<1>3. EventKinds[Kind(e)] = KindName(e)
  BY <1>2 DEF Kind
<1>4. LanternEventKind = EventKinds
  BY DEF LanternEventKind, EventKinds
<1> QED
  BY <1>3, <1>4

LEMMA NamesTell ==
  ASSUME NEW e \in Emittable, NEW f \in Emittable, KindName(e) = KindName(f), KindName(e) # "Log"
  PROVE  e = f
<1>1. /\ e \in [is : NodeEvents, mark : BOOLEAN] /\ f \in [is : NodeEvents, mark : BOOLEAN]
      /\ e.mark => e.is \in {"ChannelRecord", "NostrDone"}
      /\ f.mark => f.is \in {"ChannelRecord", "NostrDone"}
  BY EmittableAssumption
<1>2. NodeEvents \cap {"ChannelHistory", "NostrFailed"} = {}
  BY DEF NodeEvents, CallNames
<1>3. /\ e.is \notin CallNames /\ f.is \notin CallNames
      /\ KindName(e) = IF e.is = "ChannelRecord" /\ e.mark THEN "ChannelHistory"
                       ELSE IF e.is = "NostrDone" /\ ~e.mark THEN "NostrFailed" ELSE e.is
      /\ KindName(f) = IF f.is = "ChannelRecord" /\ f.mark THEN "ChannelHistory"
                       ELSE IF f.is = "NostrDone" /\ ~f.mark THEN "NostrFailed" ELSE f.is
  BY DEF KindName, CallNames
<1>4. e.is = f.is /\ e.mark = f.mark
  BY <1>1, <1>2, <1>3
<1> QED
  BY <1>1, <1>4

(* What the program is handed of the events that were polled.              *)
Payload(k) == IF emitted[k].is \in Silent THEN Null ELSE k
HandedOut == drained - polled
Handing ==
    /\ emitted \in Seq(Emittable) /\ drained \in 0 .. Len(emitted) /\ seq = drained
    /\ polled \in 0 .. SlotCount /\ polled <= drained
    /\ DOMAIN got = 1 .. HandedOut /\ got \in Seq([kind : {KindName(e) : e \in Emittable}, seq : Nat, data : Int])
    /\ \A i \in 1 .. HandedOut : /\ got[i].seq = i /\ got[i].data = Payload(i)
                            /\ got[i].kind = KindName(emitted[i])
    /\ \A i \in 1 .. polled :
          /\ slots[i].seq = HandedOut + i /\ slots[i].kind = Kind(emitted[HandedOut + i])
          /\ slots[i].data = Payload(HandedOut + i)
          /\ slots[i].data # Null => slots[i].data \in buffers

(* The text of the moment is among those of the call.                      *)
Reading ==
    /\ text.length \in Nat /\ text.version \in Nat /\ \A t \in readings : t.length \in Nat
    /\ reader.at \in {"rest", "given", "again", "thrown"} /\ reader.room \in Nat
    /\ reader.at # "rest" => text \in readings
    /\ TextsGiven

(* The node is in one hand: Open's, the handle's, or one disposer's.       *)
Owned ==
    /\ opening \in {"off", "failed"} => native = "none" /\ ~handle /\ disposing = {}
    /\ opening = "opened" => native = "open" /\ ~handle /\ disposing = {}
    /\ opening \in {"off", "opened", "failed", "ready", "refused"}
    /\ handle => native = "open" /\ disposing = {}
    /\ disposing # {} => native = "open"
    /\ \A d, e \in disposing : d = e
    /\ native \in {"none", "open", "closed"}
    /\ opening \in {"ready", "refused"} => native # "none"
    /\ native = "open" => opening = "opened" \/ handle \/ disposing # {}

CallInv == Handing /\ Reading /\ Owned

LEMMA CallStarts ==
  ASSUME CallInit
  PROVE  CallInv
<1>1. Handing
  BY CallBoundsAssumption DEF CallInit, Handing, HandedOut
<1>2. Reading
  BY DEF CallInit, Reading, TextsGiven, Resting
<1>3. Owned
  BY DEF CallInit, Owned
<1> QED
  BY <1>1, <1>2, <1>3 DEF CallInv

LEMMA EmitHands ==
  ASSUME Handing, Emit
  PROVE  Handing'
<1>1. PICK e \in Emittable : emitted' = Append(emitted, e)
  BY DEF Emit
<1>2. /\ emitted' \in Seq(Emittable) /\ Len(emitted') = Len(emitted) + 1 /\ Len(emitted) \in Nat
      /\ \A i \in 1 .. Len(emitted) : emitted'[i] = emitted[i]
  BY <1>1 DEF Handing
<1>3. UNCHANGED <<drained, seq, buffers, slots, polled, got>> /\ HandedOut' = HandedOut
  BY DEF Emit, HandedOut
<1>4. \A i \in 1 .. drained : emitted'[i] = emitted[i] /\ Payload(i)' = Payload(i)
  BY <1>2 DEF Handing, Payload
<1>5. /\ \A i \in 1 .. HandedOut : i \in 1 .. drained
      /\ \A i \in 1 .. polled : HandedOut + i \in 1 .. drained
  BY DEF Handing, HandedOut
<1>6. drained \in 0 .. Len(emitted')
  BY <1>2 DEF Handing
<1>7. \A i \in 1 .. HandedOut : got[i].data = Payload(i)' /\ got[i].kind = KindName(emitted'[i])
  BY <1>4, <1>5 DEF Handing
<1>8. \A i \in 1 .. polled : /\ slots[i].kind = Kind(emitted'[HandedOut + i])
                            /\ slots[i].data = Payload(HandedOut + i) /\ Payload(HandedOut + i)' = Payload(HandedOut + i)
  BY <1>3, <1>4, <1>5 DEF Handing
<1> QED
  BY <1>2, <1>3, <1>6, <1>7, <1>8 DEF Handing, Payload

LEMMA PollHands ==
  ASSUME Handing, Poll
  PROVE  Handing'
<1>1. PICK want \in {1, SlotCount} :
         LET n == Smaller(want, Len(emitted) - drained)
         IN n > 0 /\ PollNative(n) /\ polled' = n
  BY DEF Poll
<1> DEFINE n == Smaller(want, Len(emitted) - drained)
<1>2. n \in 1 .. SlotCount /\ drained + n <= Len(emitted) /\ drained \in Nat /\ Len(emitted) \in Nat
  BY <1>1, CallBoundsAssumption DEF Handing, Smaller
<1>3. PollNative(n) /\ polled' = n /\ polled = 0 /\ UNCHANGED <<emitted, got>>
  BY <1>1 DEF Poll
<1> HIDE DEF n
<1>4. drained' = drained + n /\ seq' = seq + n /\ HandedOut' = drained /\ HandedOut = drained
  BY <1>2, <1>3 DEF PollNative, HandedOut
<1>5. \A i \in 1 .. n : slots'[i] = Slot(i)
  <2>1. \A i \in 1 .. n : i \in 1 .. SlotCount /\ i <= n
    BY <1>2, CallBoundsAssumption
  <2> QED
    BY <1>3, <2>1 DEF PollNative
<1>6. \A i \in 1 .. n :
         /\ slots'[i] = [kind |-> Kind(emitted[drained + i]), seq |-> drained + i, data |-> Payload(drained + i)]
         /\ Payload(drained + i) # Null => Payload(drained + i) \in buffers'
  BY <1>2, <1>3, <1>5 DEF PollNative, Slot, Handed, Payload, Handing
<1>7. \A k : Payload(k)' = Payload(k)
  BY <1>3 DEF Payload
<1> QED
  <2>1. /\ emitted' \in Seq(Emittable) /\ drained' \in 0 .. Len(emitted') /\ seq' = drained'
        /\ polled' \in 0 .. SlotCount /\ polled' <= drained'
    BY <1>2, <1>3, <1>4, CallBoundsAssumption DEF Handing
  <2>2. \A i \in 1 .. polled' :
           /\ slots'[i].seq = drained + i /\ slots'[i].kind = Kind(emitted[drained + i])
           /\ slots'[i].data = Payload(drained + i)
           /\ slots'[i].data # Null => slots'[i].data \in buffers'
    <3> TAKE i \in 1 .. polled'
    <3> DEFINE p == Payload(drained + i)
    <3> DEFINE k == Kind(emitted[drained + i])
    <3>1. i \in 1 .. n
      BY <1>3
    <3>2. slots'[i] = [kind |-> k, seq |-> drained + i, data |-> p] /\ (p # Null => p \in buffers')
      BY <1>6, <3>1
    <3> HIDE DEF p, k
    <3>3. slots'[i].seq = drained + i /\ slots'[i].kind = k /\ slots'[i].data = p
      BY <3>2
    <3> QED
      BY <3>2, <3>3 DEF p, k
  <2>3. /\ DOMAIN got' = 1 .. HandedOut' /\ got' = got /\ HandedOut' = HandedOut
        /\ \A i \in 1 .. HandedOut : got'[i].seq = i /\ got'[i].data = Payload(i) /\ got'[i].kind = KindName(emitted'[i])
    BY <1>3, <1>4 DEF Handing
  <2> QED
    BY <1>3, <1>4, <2>1, <2>2, <2>3 DEF Handing, Payload

LEMMA CopyHands ==
  ASSUME Handing, CopyOut
  PROVE  Handing'
<1> DEFINE new == [i \in 1 .. polled |-> Copied(slots[i])]
<1> DEFINE Gotten == [kind : {KindName(e) : e \in Emittable}, seq : Nat, data : Int]
<1>1. /\ got' = got \o new /\ polled' = 0 /\ UNCHANGED <<emitted, drained, seq, buffers, slots>>
      /\ HandedOut' = drained /\ drained \in Nat /\ polled \in Nat /\ polled <= drained /\ HandedOut \in Nat
  BY DEF CopyOut, Handing, HandedOut
<1>2. \A i \in 1 .. polled : /\ HandedOut + i \in 1 .. Len(emitted) /\ emitted[HandedOut + i] \in Emittable
                            /\ Copied(slots[i]) \in Gotten
                            /\ Copied(slots[i]).seq = HandedOut + i
                            /\ Copied(slots[i]).kind = KindName(emitted[HandedOut + i])
                            /\ Copied(slots[i]).data = Payload(HandedOut + i)
  <2> SUFFICES ASSUME NEW i \in 1 .. polled
               PROVE  /\ HandedOut + i \in 1 .. Len(emitted) /\ emitted[HandedOut + i] \in Emittable
                      /\ Copied(slots[i]) \in Gotten
                      /\ Copied(slots[i]).seq = HandedOut + i
                      /\ Copied(slots[i]).kind = KindName(emitted[HandedOut + i])
                      /\ Copied(slots[i]).data = Payload(HandedOut + i)
    OBVIOUS
  <2>1. HandedOut + i \in 1 .. Len(emitted) /\ emitted[HandedOut + i] \in Emittable
    BY <1>1 DEF Handing, HandedOut
  <2>2. LanternEventKind[slots[i].kind] = KindName(emitted[HandedOut + i])
    BY <2>1, KindsAgree DEF Handing
  <2>3. /\ slots[i].seq = HandedOut + i /\ slots[i].data = Payload(HandedOut + i)
        /\ slots[i].data # Null => slots[i].data \in buffers
    BY DEF Handing
  <2>4. Payload(HandedOut + i) \in Int /\ HandedOut + i \in Nat
    BY <2>1, <1>1 DEF Payload, Null
  <2> QED
    BY <2>1, <2>2, <2>3, <2>4 DEF Copied, Null
<1>3. new \in Seq(Gotten) /\ Len(new) = polled /\ \A i \in 1 .. polled : new[i] = Copied(slots[i])
  <2>1. DOMAIN new = 1 .. polled /\ \A i \in 1 .. polled : new[i] = Copied(slots[i]) /\ new[i] \in Gotten
    BY <1>2
  <2>2. new \in [1 .. polled -> Gotten]
    BY <2>1
  <2> HIDE DEF new, Gotten
  <2>3. new \in Seq(Gotten)
    BY <1>1, <2>2
  <2>4. Len(new) = polled
    BY <1>1, <2>1, <2>3
  <2> QED
    BY <2>1, <2>3, <2>4
<1>4. got \in Seq(Gotten) /\ Len(got) = HandedOut
  BY <1>1 DEF Handing
<1> HIDE DEF new, Gotten
<1>5. /\ got' \in Seq(Gotten) /\ DOMAIN got' = 1 .. drained
      /\ \A i \in 1 .. HandedOut : got'[i] = got[i]
      /\ \A i \in 1 .. drained : i \notin 1 .. HandedOut => i - HandedOut \in 1 .. polled /\ got'[i] = new[i - HandedOut]
  <2>1. got \o new \in Seq(Gotten) /\ DOMAIN (got \o new) = 1 .. Len(got) + Len(new)
    BY <1>3, <1>4
  <2>2. Len(got) + Len(new) = drained /\ HandedOut + polled = drained
    BY <1>1, <1>3, <1>4 DEF HandedOut
  <2>3. ASSUME NEW i \in 1 .. drained
        PROVE  (got \o new)[i] = IF i <= Len(got) THEN got[i] ELSE new[i - Len(got)]
    BY <1>1, <1>3, <1>4, <2>2
  <2>4. \A i \in 1 .. HandedOut : i \in 1 .. drained /\ i <= Len(got)
    BY <1>1, <1>4, <2>2
  <2>5. \A i \in 1 .. drained : i \notin 1 .. HandedOut => i - HandedOut \in 1 .. polled /\ ~(i <= Len(got))
    BY <1>1, <1>4, <2>2
  <2> QED
    BY <1>1, <1>4, <2>1, <2>2, <2>3, <2>4, <2>5
<1>6. \A i \in 1 .. drained : /\ got'[i].seq = i /\ got'[i].data = Payload(i)
                             /\ got'[i].kind = KindName(emitted[i])
  <2> TAKE i \in 1 .. drained
  <2>1. CASE i \in 1 .. HandedOut
    BY <1>5, <2>1 DEF Handing
  <2>2. CASE i \notin 1 .. HandedOut
    <3>1. i - HandedOut \in 1 .. polled /\ got'[i] = Copied(slots[i - HandedOut]) /\ HandedOut + (i - HandedOut) = i
      BY <1>1, <1>3, <1>5, <2>2
    <3> QED
      BY <1>2, <3>1
  <2> QED
    BY <2>1, <2>2
<1>7. \A k : Payload(k)' = Payload(k)
  BY <1>1 DEF Payload
<1>8. polled' \in 0 .. SlotCount /\ polled' <= drained' /\ 1 .. polled' = {}
  BY <1>1, CallBoundsAssumption
<1> QED
  BY <1>1, <1>5, <1>6, <1>7, <1>8 DEF Handing, Gotten

LEMMA HandingStep ==
  ASSUME CallInv, [CallNext]_callVars
  PROVE  Handing'
<1>a. Handing
  BY DEF CallInv
<1>1. CASE UNCHANGED pollVars
  BY <1>a, <1>1 DEF pollVars, Handing, HandedOut, Payload
<1>2. CASE Emit
  BY <1>a, <1>2, EmitHands
<1>3. CASE Poll
  BY <1>a, <1>3, PollHands
<1>4. CASE CopyOut
  BY <1>a, <1>4, CopyHands
<1> QED
  BY <1>1, <1>2, <1>3, <1>4
     DEF CallNext, callVars, pollVars, NodeOpen, EnableRecords, Release, Dispose, NodeClose, Edit, TextFirst,
         TextAgain, TextReturns

LEMMA ReadingStep ==
  ASSUME CallInv, [CallNext]_callVars
  PROVE  Reading'
<1>a. Reading
  BY DEF CallInv
<1>1. CASE UNCHANGED textVars
  BY <1>a, <1>1 DEF textVars, Reading, TextsGiven
<1>2. CASE Edit
  BY <1>a, <1>2, CallBoundsAssumption DEF Edit, Reading, TextsGiven
<1>3. CASE TextFirst
  BY <1>a, <1>3, CallBoundsAssumption DEF TextFirst, Reading, TextsGiven, Fits
<1>4. CASE TextAgain
  BY <1>a, <1>4 DEF TextAgain, Reading, TextsGiven, Fits
<1>5. CASE TextReturns
  BY <1>a, <1>5 DEF TextReturns, Reading, TextsGiven, Resting
<1> QED
  BY <1>1, <1>2, <1>3, <1>4, <1>5
     DEF CallNext, callVars, textVars, NodeOpen, EnableRecords, Release, Dispose, NodeClose, Emit, Poll, CopyOut

LEMMA OwnedStep ==
  ASSUME CallInv, [CallNext]_callVars
  PROVE  Owned'
<1>a. Owned
  BY DEF CallInv
<1>1. CASE UNCHANGED lifeVars
  BY <1>a, <1>1 DEF lifeVars, Owned
<1>2. CASE NodeOpen
  BY <1>a, <1>2 DEF NodeOpen, Owned
<1>3. CASE EnableRecords
  BY <1>a, <1>3 DEF EnableRecords, Owned
<1>4. CASE Release
  BY <1>a, <1>4 DEF Release, Owned
<1>5. ASSUME NEW d \in Disposers, Dispose(d) PROVE Owned'
  BY <1>a, <1>5 DEF Dispose, Zeroed, Owned
<1>6. ASSUME NEW d \in Disposers, NodeClose(d) PROVE Owned'
  BY <1>a, <1>6 DEF NodeClose, Owned
<1> QED
  BY <1>1, <1>2, <1>3, <1>4, <1>5, <1>6
     DEF CallNext, callVars, lifeVars, Emit, Poll, CopyOut, Edit, TextFirst, TextAgain, TextReturns

LEMMA CallInvTrue ==
  ASSUME CallInv
  PROVE  BindingTrue
<1>a. Handing /\ Reading /\ Owned
  BY DEF CallInv
<1>1. \A i \in DOMAIN got : /\ i \in 1 .. HandedOut /\ i \in 1 .. Len(emitted) /\ emitted[i] \in Emittable
                           /\ got[i].kind = KindName(emitted[i])
  BY <1>a DEF Handing, HandedOut
<1>2. \A i \in DOMAIN got :
         /\ got[i].seq = i
         /\ got[i].data = IF emitted[i].is \in Silent THEN 0 ELSE i
         /\ got[i].kind \in {emitted[i].is, "ChannelHistory", "NostrFailed", "Log"}
  BY <1>a, <1>1 DEF Handing, Payload, Null, KindName
<1>3. EventsHanded
  BY <1>1, <1>2, NamesTell DEF EventsHanded
<1>4. TextsGiven /\ NodesReturned
  BY <1>a DEF Reading, Owned, NodesReturned
<1> QED
  BY <1>3, <1>4 DEF BindingTrue

(* What the binding hands to the program is what the node had: every event *)
(* once, in order, with its own name and payload; a text of the moment;    *)
(* and the node itself is given back, once, by whoever disposes of it      *)
(* (lt_poll, lt_node_close, LanternNode.Dispose), for any events, slots,   *)
(* buffers, edits and disposing threads.                                   *)
THEOREM BindingIsTrue == CallSpec => []BindingTrue
<1>1. CallInv /\ [CallNext]_callVars => CallInv'
  BY HandingStep, ReadingStep, OwnedStep DEF CallInv
<1> QED
  BY CallStarts, <1>1, CallInvTrue, PTL DEF CallSpec

(* The limits of the buffers, and the types of what the invariant above    *)
(* says nothing of.                                                        *)
HandlesTyped == handle \in BOOLEAN /\ released \in BOOLEAN /\ disposing \subseteq Disposers
Slotted ==
    /\ Len(emitted) <= MaxEmitted /\ buffers \subseteq 1..MaxEmitted
    /\ \A i \in 1..SlotCount : slots[i].kind \in 0..Len(EventKinds) /\ slots[i].data \in 0..MaxEmitted
TextTyped ==
    /\ text \in [version : 0..MaxEdits, length : 0..MaxLength]
    /\ readings \subseteq [version : 0..MaxEdits, length : 0..MaxLength]
CallLimits == HandlesTyped /\ Slotted /\ TextTyped

LEMMA CallTyped ==
  ASSUME CallInv, CallLimits
  PROVE  CallTypeOK
<1>1. Handing /\ Reading /\ Owned /\ HandlesTyped /\ Slotted /\ TextTyped
  BY DEF CallInv, CallLimits
<1>2. /\ opening \in {"off", "opened", "failed", "ready", "refused"}
      /\ native \in {"none", "open", "closed", "closed twice"}
  BY <1>1 DEF Owned
<1>3. emitted \in Seq(Emittable) /\ drained \in 0..Len(emitted) /\ seq \in Nat /\ polled \in 0..SlotCount
  BY <1>1 DEF Handing
<1>4. reader.at \in {"rest", "given", "again", "thrown"}
  BY <1>1 DEF Reading
<1> QED
  BY <1>1, <1>2, <1>3, <1>4 DEF HandlesTyped, Slotted, TextTyped, CallTypeOK

LEMMA CallLimitsStart ==
  ASSUME CallInit
  PROVE  CallLimits
<1>1. HandlesTyped
  BY DEF CallInit, HandlesTyped
<1>2. Len(EventKinds) = 41
  BY DEF EventKinds
<1>3. Slotted
  BY <1>2, CallBoundsAssumption DEF CallInit, Slotted, Blank, Null
<1>4. TextTyped
  BY CallBoundsAssumption DEF CallInit, TextTyped
<1> QED
  BY <1>1, <1>3, <1>4 DEF CallLimits

LEMMA HandlesTypedStep ==
  ASSUME HandlesTyped, [CallNext]_callVars
  PROVE  HandlesTyped'
<1>1. CASE UNCHANGED lifeVars
  BY <1>1 DEF lifeVars, HandlesTyped
<1>2. CASE NodeOpen
  BY <1>2 DEF NodeOpen, HandlesTyped
<1>3. CASE EnableRecords
  BY <1>3 DEF EnableRecords, HandlesTyped
<1>4. CASE Release
  BY <1>4 DEF Release, HandlesTyped
<1>5. ASSUME NEW d \in Disposers, Dispose(d) PROVE HandlesTyped'
  BY <1>5 DEF Dispose, Zeroed, HandlesTyped
<1>6. ASSUME NEW d \in Disposers, NodeClose(d) PROVE HandlesTyped'
  BY <1>6 DEF NodeClose, HandlesTyped
<1> QED
  BY <1>1, <1>2, <1>3, <1>4, <1>5, <1>6
     DEF CallNext, callVars, lifeVars, Emit, Poll, CopyOut, Edit, TextFirst, TextAgain, TextReturns

LEMMA TextTypedStep ==
  ASSUME TextTyped, [CallNext]_callVars
  PROVE  TextTyped'
<1>1. CASE UNCHANGED textVars
  BY <1>1 DEF textVars, TextTyped
<1>2. CASE Edit
  <2>1. PICK n \in 0..MaxLength : text' = [version |-> text.version + 1, length |-> n]
    BY <1>2 DEF Edit
  <2>2. text.version + 1 \in 0 .. MaxEdits
    BY <1>2, CallBoundsAssumption DEF Edit, TextTyped
  <2>3. text' \in [version : 0..MaxEdits, length : 0..MaxLength]
    BY <2>1, <2>2
  <2>4. readings' \subseteq readings \cup {text'}
    BY <1>2 DEF Edit
  <2> QED
    BY <2>3, <2>4 DEF TextTyped
<1>3. CASE TextFirst \/ TextAgain \/ TextReturns
  <2>1. text' = text /\ readings' \subseteq readings \cup {text}
    BY <1>3 DEF TextFirst, TextAgain, TextReturns
  <2> QED
    BY <2>1 DEF TextTyped
<1> QED
  BY <1>1, <1>2, <1>3
     DEF CallNext, callVars, textVars, NodeOpen, EnableRecords, Release, Dispose, NodeClose, Emit, Poll, CopyOut

(* Every event has a kind.                                                 *)
LEMMA KindInRange ==
  ASSUME NEW e \in Emittable
  PROVE  Kind(e) \in 1 .. Len(EventKinds)
<1>1. e.is \in NodeEvents
  BY EmittableAssumption
<1>2. DOMAIN EventKinds = 1 .. 41 /\ Len(EventKinds) = 41
  BY DEF EventKinds
<1>3. EventKinds[18] = "Log" /\ EventKinds[35] = "ChannelHistory" /\ EventKinds[38] = "NostrFailed"
  BY DEF EventKinds
<1>4. KindName(e) \in {"Log", "ChannelHistory", "NostrFailed"} \/ (KindName(e) = e.is /\ e.is \notin CallNames)
  BY DEF KindName
<1>5. e.is \in CallNames \/ \E k \in DOMAIN EventKinds : EventKinds[k] = e.is
  BY <1>1 DEF NodeEvents
<1>6. \E k \in DOMAIN EventKinds : EventKinds[k] = KindName(e)
  BY <1>2, <1>3, <1>4, <1>5
<1> QED
  BY <1>2, <1>6 DEF Kind

LEMMA SlottedStep ==
  ASSUME Handing, Slotted, [CallNext]_callVars
  PROVE  Slotted'
<1>1. CASE UNCHANGED pollVars
  BY <1>1 DEF pollVars, Slotted
<1>2. CASE Emit
  <2>1. PICK e \in Emittable : emitted' = Append(emitted, e)
    BY <1>2 DEF Emit
  <2>2. Len(emitted) < MaxEmitted /\ UNCHANGED <<buffers, slots>>
    BY <1>2 DEF Emit
  <2>3. emitted \in Seq(Emittable)
    BY DEF Handing
  <2>4. Len(emitted') = Len(emitted) + 1 /\ Len(emitted) \in Nat
    BY <2>1, <2>3
  <2>5. Len(emitted') <= MaxEmitted
    BY <2>2, <2>4, CallBoundsAssumption
  <2> QED
    BY <2>2, <2>5 DEF Slotted
<1>3. CASE CopyOut
  BY <1>3 DEF CopyOut, Slotted
<1>4. CASE Poll
  <2>1. PICK want \in {1, SlotCount} :
           LET n == Smaller(want, Len(emitted) - drained)
           IN n > 0 /\ PollNative(n) /\ polled' = n
    BY <1>4 DEF Poll
  <2> DEFINE n == Smaller(want, Len(emitted) - drained)
  <2>2. PollNative(n) /\ UNCHANGED emitted
    BY <1>4, <2>1 DEF Poll
  <2>3. n \in Nat /\ drained + n <= Len(emitted) /\ drained \in Nat /\ Len(emitted) \in Nat
    BY <2>1, CallBoundsAssumption DEF Handing, Smaller
  <2> HIDE DEF n
  <2>4. \A i \in 1 .. n : /\ drained + i \in 1 .. Len(emitted) /\ drained + i \in 1 .. MaxEmitted
                          /\ Handed(i) \in Emittable
    BY <2>3, CallBoundsAssumption DEF Handing, Slotted, Handed
  <2>5. buffers' \subseteq 1 .. MaxEmitted
    BY <2>2, <2>4 DEF PollNative
  <2>6. ASSUME NEW i \in 1..SlotCount
        PROVE  slots'[i].kind \in 0..Len(EventKinds) /\ slots'[i].data \in 0..MaxEmitted
    <3>1. CASE i <= n
      <4>1. i \in 1 .. n
        BY <2>3, <3>1, CallBoundsAssumption
      <4>2. slots'[i] = Slot(i)
        BY <2>2, <3>1 DEF PollNative
      <4>3. Kind(Handed(i)) \in 1 .. Len(EventKinds)
        BY <2>4, <4>1, KindInRange
      <4>4. Kind(Handed(i)) \in 0 .. Len(EventKinds)
        BY <4>3
      <4>5. slots'[i].kind = Kind(Handed(i)) /\ slots'[i].data \in {Null, drained + i}
        BY <4>2 DEF Slot
      <4>6. Null \in 0 .. MaxEmitted /\ drained + i \in 0 .. MaxEmitted
        BY <2>4, <4>1, CallBoundsAssumption DEF Null
      <4> QED
        BY <4>4, <4>5, <4>6
    <3>2. CASE ~(i <= n)
      <4>1. slots'[i] = slots[i]
        BY <2>2, <3>2 DEF PollNative
      <4> QED
        BY <4>1 DEF Slotted
    <3> QED
      BY <3>1, <3>2
  <2> QED
    BY <2>2, <2>5, <2>6 DEF Slotted
<1> QED
  BY <1>1, <1>2, <1>3, <1>4
     DEF CallNext, callVars, pollVars, NodeOpen, EnableRecords, Release, Dispose, NodeClose, Edit, TextFirst,
         TextAgain, TextReturns

(* What lt_poll writes fits into the slots and buffers it is given, and    *)
(* every kind it writes is one the binding's enum has.                     *)
THEOREM BindingTyped == CallSpec => []CallTypeOK
<1>1. CallInit => CallInv /\ CallLimits
  BY CallStarts, CallLimitsStart
<1>2. CallInv /\ [CallNext]_callVars => CallInv'
  BY HandingStep, ReadingStep, OwnedStep DEF CallInv
<1>3. CallInv /\ CallLimits /\ [CallNext]_callVars => CallLimits'
  BY HandlesTypedStep, TextTypedStep, SlottedStep DEF CallInv, CallLimits
<1>4. CallInv /\ CallLimits => CallTypeOK
  BY CallTyped
<1> QED
  BY <1>1, <1>2, <1>3, <1>4, PTL DEF CallSpec

-----------------------------------------------------------------------------
(* Calls.  A thread inside the library has a call in hand, and the         *)
(* registered connection has a task that runs: it has to end before the    *)
(* link is nobody's, and whichever task ends last loses the calls.         *)
Doings == {"ring", "accept", "decline", "hangup"}
Threads == {Away} \cup [at : {"looked", "changed"}, does : Doings, call : CallIds]

CallsTyped ==
    /\ calls \in [CallNodes -> SUBSET CallIds] /\ minted \subseteq CallIds /\ late \subseteq CallIds
    /\ told \in [CallNodes -> [CallIds -> {"nothing", "on", "over"}]]
    /\ thread \in [CallNodes -> Threads] /\ uses \in 0 .. MaxUses
    /\ queued \in [CallNodes -> Seq(Frame)]
    /\ wire \subseteq [to : CallNodes, conn : CallConns, frame : Frame]
    /\ conns \in [CallConns -> {"none", "up", "down"}]
    /\ tasks \in [CallNodes -> [CallConns -> {"none", "run", "lost", "done"}]]
    /\ link \in [CallNodes -> CallConns \cup {NoLink}]

LinksRun == \A n \in CallNodes : link[n] # NoLink => tasks[n][link[n]] = "run"

CallsInv == CallsTyped /\ LinksRun /\ CallsEnd

LEMMA CallsStart ==
  ASSUME CallsInit
  PROVE  CallsInv
<1>1. CallsTyped
  BY CallsBoundsAssumption, CallIdsAssumption
     DEF CallsInit, CallsTyped, Threads
<1>2. LinksRun /\ CallsEnd
  BY DEF CallsInit, LinksRun, CallsEnd, CallsHaveLinks, EndsTold
<1> QED
  BY <1>1, <1>2 DEF CallsInv

LEMMA FriendIsOne ==
  ASSUME NEW n \in CallNodes
  PROVE  Friend(n) \in CallNodes
<1>1. \E m \in CallNodes : m # n
  BY CallNodesAssumption
<1> QED
  BY <1>1 DEF Friend

(* What the program's thread and the friend's frames do to the table.      *)
TableChanges(n, k) ==
    \/ calls' = [calls EXCEPT ![n] = @ \cup {k}] /\ Tells(n, k, "on")
    \/ calls' = [calls EXCEPT ![n] = @ \ {k}] /\ Tells(n, k, "over")
    \/ UNCHANGED <<calls, told>>

LEMMA ChangeChanges ==
  ASSUME CallsTyped, NEW n \in CallNodes, Change(n)
  PROVE  /\ thread[n] \in [at : {"looked", "changed"}, does : Doings, call : CallIds]
         /\ TableChanges(n, thread[n].call)
         /\ late \subseteq late' /\ late' \subseteq late \cup {thread[n].call}
<1>1. thread[n] \in [at : {"looked", "changed"}, does : Doings, call : CallIds]
  BY DEF Change, CallsTyped, Threads, Away
<1> DEFINE k == thread[n].call
<1>2. CASE thread[n].does = "ring"
  BY <1>1, <1>2 DEF Change, TableChanges
<1>3. CASE thread[n].does \in {"decline", "hangup"}
  BY <1>1, <1>3 DEF Change, TableChanges
<1>4. CASE thread[n].does = "accept"
  BY <1>1, <1>4 DEF Change, TableChanges
<1> QED
  BY <1>1, <1>2, <1>3, <1>4 DEF Doings

LEMMA FrameChanges ==
  ASSUME CallsTyped, NEW w \in wire, OnFrame(w)
  PROVE  /\ w.to \in CallNodes /\ w.conn \in CallConns /\ w.frame.call \in CallIds
         /\ TableChanges(w.to, w.frame.call)
<1>1. w \in [to : CallNodes, conn : CallConns, frame : Frame]
  BY DEF CallsTyped
<1>2. w.to \in CallNodes /\ w.conn \in CallConns /\ w.frame.call \in CallIds
  BY <1>1 DEF Frame
<1>3. TableChanges(w.to, w.frame.call)
  BY DEF OnFrame, TableChanges
<1> QED
  BY <1>2, <1>3

LEMMA TableTyped ==
  ASSUME CallsTyped, NEW n \in CallNodes, NEW k \in CallIds, TableChanges(n, k)
  PROVE  /\ calls' \in [CallNodes -> SUBSET CallIds]
         /\ told' \in [CallNodes -> [CallIds -> {"nothing", "on", "over"}]]
<1>1. ASSUME NEW what \in {"on", "over"}, Tells(n, k, what)
      PROVE  told' \in [CallNodes -> [CallIds -> {"nothing", "on", "over"}]]
  <2>1. [told[n] EXCEPT ![k] = what] \in [CallIds -> {"nothing", "on", "over"}]
    BY DEF CallsTyped
  <2> QED
    BY <1>1, <2>1 DEF Tells, CallsTyped
<1>2. calls' \in [CallNodes -> SUBSET CallIds]
  <2>1. calls[n] \cup {k} \in SUBSET CallIds /\ calls[n] \ {k} \in SUBSET CallIds
    BY DEF CallsTyped
  <2> QED
    BY <2>1 DEF TableChanges, CallsTyped
<1> QED
  BY <1>1, <1>2 DEF TableChanges, CallsTyped

LEMMA CallsTypedStep ==
  ASSUME CallsTyped, [CallsNext]_signalVars
  PROVE  CallsTyped'
<1>1. CASE UNCHANGED signalVars
  BY <1>1 DEF signalVars, CallsTyped
<1>2. ASSUME NEW n \in CallNodes, Ring(n) PROVE CallsTyped'
  BY <1>2 DEF Ring, Threads, Doings, CallsTyped
<1>3. ASSUME NEW n \in CallNodes, NEW k \in CallIds, Look(n, k) PROVE CallsTyped'
  <2>1. uses' \in 0 .. MaxUses
    BY <1>3, CallsBoundsAssumption DEF Look, CallsTyped
  <2>2. thread' \in [CallNodes -> Threads]
    BY <1>3 DEF Look, CallsTyped, Threads, Doings
  <2> QED
    BY <1>3, <2>1, <2>2 DEF Look, CallsTyped
<1>4. ASSUME NEW n \in CallNodes, Change(n) PROVE CallsTyped'
  <2>1. /\ thread[n] \in [at : {"looked", "changed"}, does : Doings, call : CallIds]
        /\ TableChanges(n, thread[n].call) /\ late' \subseteq late \cup {thread[n].call}
        /\ thread' = [thread EXCEPT ![n].at = "changed"]
        /\ UNCHANGED <<queued, wire, conns, tasks, link, minted, uses>>
    BY <1>4, ChangeChanges DEF Change
  <2>2. thread' \in [CallNodes -> Threads]
    BY <2>1 DEF CallsTyped, Threads
  <2>3. thread[n].call \in CallIds
    BY <2>1
  <2> QED
    BY <2>1, <2>2, <2>3, TableTyped DEF CallsTyped
<1>5. ASSUME NEW n \in CallNodes, SendCall(n) PROVE CallsTyped'
  <2> DEFINE f == [kind |-> thread[n].does, call |-> thread[n].call]
  <2>1. f \in Frame
    BY <1>5 DEF SendCall, CallsTyped, Threads, Away, Doings, Frame
  <2>2. queued' = [queued EXCEPT ![n] = Append(@, f)] /\ Append(queued[n], f) \in Seq(Frame)
    BY <1>5, <2>1 DEF SendCall, CallsTyped
  <2>3. queued' \in [CallNodes -> Seq(Frame)]
    BY <2>2 DEF CallsTyped
  <2>4. thread' \in [CallNodes -> Threads]
    BY <1>5 DEF SendCall, CallsTyped, Threads
  <2> QED
    BY <1>5, <2>3, <2>4 DEF SendCall, CallsTyped
<1>6. ASSUME NEW n \in CallNodes, RunnerSends(n) PROVE CallsTyped'
  <2>1. /\ queued[n] \in Seq(Frame) /\ queued[n] # <<>>
        /\ Head(queued[n]) \in Frame /\ Tail(queued[n]) \in Seq(Frame)
    BY <1>6 DEF RunnerSends, CallsTyped
  <2>2. wire' \subseteq [to : CallNodes, conn : CallConns, frame : Frame]
    BY <1>6, <2>1, FriendIsOne DEF RunnerSends, CallsTyped
  <2> QED
    BY <1>6, <2>1, <2>2 DEF RunnerSends, CallsTyped
<1>7. ASSUME NEW n \in CallNodes, NEW c \in CallConns, RunLink(n, c) PROVE CallsTyped'
  BY <1>7 DEF RunLink, CallsTyped
<1>8. ASSUME NEW n \in CallNodes, NEW c \in CallConns, LinkEnds(n, c) PROVE CallsTyped'
  BY <1>8 DEF LinkEnds, CallsTyped
<1>9. ASSUME NEW n \in CallNodes, NEW c \in CallConns, CallsLost(n, c) PROVE CallsTyped'
  BY <1>9 DEF CallsLost, CallsTyped
<1>10. ASSUME NEW c \in CallConns, Connects(c) \/ Breaks(c) PROVE CallsTyped'
  BY <1>10 DEF Connects, Breaks, CallsTyped
<1>11. ASSUME NEW w \in wire, Dropped(w) PROVE CallsTyped'
  BY <1>11 DEF Dropped, CallsTyped
<1>12. ASSUME NEW w \in wire, OnFrame(w) PROVE CallsTyped'
  <2>1. UNCHANGED <<thread, queued, conns, tasks, link, minted, uses, late>> /\ wire' \subseteq wire
    BY <1>12 DEF OnFrame
  <2> QED
    BY <1>12, <2>1, FrameChanges, TableTyped DEF CallsTyped
<1> QED
  BY <1>1, <1>2, <1>3, <1>4, <1>5, <1>6, <1>7, <1>8, <1>9, <1>10, <1>11, <1>12 DEF CallsNext

LEMMA CallsTypedOK ==
  ASSUME CallsTyped
  PROVE  CallsTypeOK
<1>1. \A n \in CallNodes : /\ thread[n].at \in {"away", "looked", "changed"}
                          /\ thread[n].call \in CallIds \cup {NoCallYet}
  BY DEF CallsTyped, Threads, Away
<1> QED
  BY <1>1 DEF CallsTyped, CallsTypeOK

LEMMA LinksRunStep ==
  ASSUME CallsTyped, LinksRun, [CallsNext]_signalVars
  PROVE  LinksRun'
<1>1. CASE UNCHANGED <<tasks, link>>
  BY <1>1 DEF LinksRun
<1>2. ASSUME NEW n \in CallNodes, NEW c \in CallConns, RunLink(n, c) PROVE LinksRun'
  BY <1>2 DEF RunLink, LinksRun, CallsTyped
<1>3. ASSUME NEW n \in CallNodes, NEW c \in CallConns, LinkEnds(n, c) PROVE LinksRun'
  BY <1>3 DEF LinkEnds, LinksRun, CallsTyped
<1>4. ASSUME NEW n \in CallNodes, NEW c \in CallConns, CallsLost(n, c) PROVE LinksRun'
  BY <1>4 DEF CallsLost, LinksRun, CallsTyped
<1> QED
  BY <1>1, <1>2, <1>3, <1>4
     DEF CallsNext, signalVars, Ring, Look, Change, SendCall, RunnerSends, Connects, Breaks, OnFrame, Dropped

LEMMA HaveLinksStep ==
  ASSUME CallsInv, [CallsNext]_signalVars
  PROVE  CallsHaveLinks'
<1>a. CallsTyped /\ LinksRun /\ CallsHaveLinks
  BY DEF CallsInv, CallsEnd
<1>1. CASE UNCHANGED <<calls, tasks, late>>
  BY <1>a, <1>1 DEF CallsHaveLinks, Known
<1>2. ASSUME NEW n \in CallNodes, Change(n) PROVE CallsHaveLinks'
  <2>1. tasks' = tasks /\ late \subseteq late'
    BY <1>2 DEF Change
  <2>2. \A m \in CallNodes \ {n} : calls'[m] = calls[m]
    BY <1>a, <1>2 DEF Change, CallsTyped
  <2>3. ASSUME NEW k \in calls'[n] \ late', k \notin calls[n]
        PROVE  \E c \in CallConns : Known(n, c)
    BY <1>a, <1>2, <2>3 DEF Change, CallsTyped
  <2> QED
    BY <1>a, <2>1, <2>2, <2>3 DEF CallsHaveLinks, Known
<1>3. ASSUME NEW w \in wire, OnFrame(w) PROVE CallsHaveLinks'
  <2>1. /\ w.to \in CallNodes /\ w.conn \in CallConns /\ Known(w.to, w.conn)
        /\ tasks' = tasks /\ late' = late
    BY <1>a, <1>3 DEF OnFrame, CallsTyped, Known
  <2>2. \A m \in CallNodes \ {w.to} : calls'[m] = calls[m]
    BY <1>a, <1>3 DEF OnFrame, CallsTyped
  <2> QED
    BY <1>a, <2>1, <2>2 DEF CallsHaveLinks, Known
<1>4. ASSUME NEW n \in CallNodes, NEW c \in CallConns, RunLink(n, c) PROVE CallsHaveLinks'
  BY <1>a, <1>4 DEF RunLink, CallsHaveLinks, Known, CallsTyped
<1>5. ASSUME NEW n \in CallNodes, NEW c \in CallConns, LinkEnds(n, c) PROVE CallsHaveLinks'
  <2>1. calls' = calls /\ late' = late
    BY <1>5 DEF LinkEnds
  <2>2. \E d \in CallConns : Known(n, d)'
    <3>1. CASE LosesLink(n, c)
      BY <1>a, <1>5, <3>1 DEF LinkEnds, Known, CallsTyped
    <3>2. CASE ~LosesLink(n, c)
      <4>1. link[n] \in CallConns /\ link[n] # c /\ tasks[n][link[n]] = "run"
        BY <1>a, <3>2 DEF LosesLink, LinksRun, CallsTyped
      <4> QED
        BY <1>a, <1>5, <4>1 DEF LinkEnds, Known, CallsTyped
    <3> QED
      BY <3>1, <3>2
  <2>3. \A m \in CallNodes \ {n} : tasks'[m] = tasks[m]
    BY <1>a, <1>5 DEF LinkEnds, CallsTyped
  <2> QED
    BY <1>a, <2>1, <2>2, <2>3 DEF CallsHaveLinks, Known
<1>6. ASSUME NEW n \in CallNodes, NEW c \in CallConns, CallsLost(n, c) PROVE CallsHaveLinks'
  BY <1>a, <1>6 DEF CallsLost, CallsHaveLinks, Known, CallsTyped
<1> QED
  BY <1>1, <1>2, <1>3, <1>4, <1>5, <1>6
     DEF CallsNext, signalVars, Ring, Look, SendCall, RunnerSends, Connects, Breaks, Dropped

LEMMA EndsToldStep ==
  ASSUME CallsInv, [CallsNext]_signalVars
  PROVE  EndsTold'
<1>a. CallsTyped /\ EndsTold
  BY DEF CallsInv, CallsEnd
<1>1. CASE UNCHANGED <<calls, told>>
  BY <1>a, <1>1 DEF EndsTold
<1>2. ASSUME NEW n \in CallNodes, NEW k \in CallIds, TableChanges(n, k) PROVE EndsTold'
  <2>1. ASSUME NEW m \in CallNodes, NEW j \in CallIds
        PROVE  told'[m][j] = "on" <=> j \in calls'[m]
    <3>1. CASE m = n /\ j = k
      BY <1>a, <1>2, <3>1 DEF TableChanges, Tells, EndsTold, CallsTyped
    <3>2. CASE ~(m = n /\ j = k)
      BY <1>a, <1>2, <3>2 DEF TableChanges, Tells, EndsTold, CallsTyped
    <3> QED
      BY <3>1, <3>2
  <2> QED
    BY <2>1 DEF EndsTold
<1>3. ASSUME NEW n \in CallNodes, Change(n) PROVE EndsTold'
  <2>1. thread[n].call \in CallIds
    BY <1>a, <1>3, ChangeChanges
  <2> QED
    BY <1>a, <1>2, <1>3, <2>1, ChangeChanges
<1>5. ASSUME NEW w \in wire, OnFrame(w) PROVE EndsTold'
  BY <1>a, <1>2, <1>5, FrameChanges
<1>4. ASSUME NEW n \in CallNodes, NEW c \in CallConns, CallsLost(n, c) PROVE EndsTold'
  BY <1>a, <1>4 DEF CallsLost, EndsTold, CallsTyped
<1> QED
  BY <1>1, <1>3, <1>4, <1>5
     DEF CallsNext, signalVars, Ring, Look, SendCall, RunnerSends, Connects, Breaks, Dropped, RunLink, LinkEnds

(* The types of the calls: an id that a thread, a frame or a table has was *)
(* given out, and what is queued or under way is a frame (node/calls.rs).  *)
THEOREM CallTypes == CallsSpec => []CallsTypeOK
<1>1. CallsTyped /\ [CallsNext]_signalVars => CallsTyped'
  BY CallsTypedStep
<1>2. CallsInit => CallsTyped
  BY CallsStart DEF CallsInv
<1> QED
  BY <1>1, <1>2, CallsTypedOK, PTL DEF CallsSpec

(* A call that a node knows has a friend's task that has still to end, but *)
(* for one that was rung after the last link was lost, and a program takes *)
(* a call for going on exactly while the node knows it (node/calls.rs), for*)
(* any number of calls, connections, answers and frames in any order.      *)
THEOREM CallsAlwaysEnd == CallsSpec => []CallsEnd
<1>1. CallsInv /\ [CallsNext]_signalVars => CallsInv'
  BY CallsTypedStep, LinksRunStep, HaveLinksStep, EndsToldStep DEF CallsInv, CallsEnd
<1> QED
  BY CallsStart, <1>1, PTL DEF CallsSpec, CallsInv

-----------------------------------------------------------------------------
(* Files that are shared.                                                  *)
Preparer == [session : Nat, to : Targets, bytes : Bytes,
             at : {"reading", "calling", "out"}, handle : Handles \cup {NoHandle}]
Prepared == [session : Nat, to : Targets, handle : Handles \cup {NoHandle}]
Blob == [is : {"none", "adding", "ready", "failed"}, bytes : Bytes \cup {NoHandle}, to : Targets]
Hashes == [sealed : Handles] \cup [plain : Bytes \cup {NoHandle}]

ShareTypes ==
    /\ session \in Nat /\ sendBusy \in BOOLEAN
    /\ publication \in [handle : Handles \cup {NoHandle}, to : Targets]
    /\ outgoing \subseteq [handle : Handles, to : Targets] /\ joined \subseteq Channels
    /\ preparers \subseteq Preparer /\ prepared \in Seq(Prepared)
    /\ blobs \in [Handles -> Blob] /\ offering \in [Channels -> SUBSET Hashes]

(* The task of this session, or its answer: there is one while the plugin  *)
(* prepares a file and does not know the handle.                           *)
Preparing == sendBusy /\ publication = NoPublication
OwnTask(t) == t.session = session
OwnAnswer(i) == prepared[i].session = session
OnePreparer ==
    /\ Preparing <=> (\E t \in preparers : OwnTask(t)) \/ (\E i \in DOMAIN prepared : OwnAnswer(i))
    /\ \A t, u \in preparers : OwnTask(t) /\ OwnTask(u) => t = u
    /\ \A i, j \in DOMAIN prepared : OwnAnswer(i) /\ OwnAnswer(j) => i = j
    /\ \A t \in preparers, i \in DOMAIN prepared : ~(OwnTask(t) /\ OwnAnswer(i))
    /\ \A t \in preparers : t.session <= session /\ (t.at # "out" => t.handle = NoHandle)
    /\ \A i \in DOMAIN prepared : prepared[i].session <= session

(* The node has one file of this session at a time to import: the one that *)
(* the task, its answer or the publication has the handle of.  Its outcome *)
(* comes, was dropped, or is kept until the handle is known.               *)
Given(h) ==
    \/ \E t \in preparers : OwnTask(t) /\ t.handle = h
    \/ \E i \in DOMAIN prepared : OwnAnswer(i) /\ prepared[i].handle = h
Current(h) == h \in Handles /\ (publication.handle = h \/ Given(h))
Strays == {[handle |-> NoHandle - s, ok |-> TRUE] : s \in 1 .. MaxStrays}
Comes(h) == blobs[h].is = "adding" \/ h \in unheard \/ \E o \in outcomes : o.handle = h
OneImport ==
    /\ publication # NoPublication => sendBusy /\ publication.handle \in Handles
    /\ early # {} => Preparing
    /\ \A e \in early : e \in Strays \/ (Current(e.handle) /\ imports = <<>> /\ outcomes = {})
    /\ \/ imports = <<>> /\ outcomes = {}
       \/ \E h \in Handles : imports = <<h>> /\ outcomes = {} /\ Current(h)
       \/ \E o \in Outcome : imports = <<>> /\ outcomes = {o} /\ Current(o.handle)
    /\ \A h \in Handles : Current(h) => Comes(h) \/ \E e \in early : e.handle = h

(* A listed file is one the node has, for a channel the player is in.      *)
Listed ==
    /\ \A o \in outgoing : blobs[o.handle].is # "none" /\ (o.to # Pal => o.to \in joined)
    /\ PublishedAsListed

ShareInv == ShareTypes /\ OnePreparer /\ OneImport /\ Listed

LEMMA ShareStarts ==
  ASSUME ShareInit
  PROVE  ShareInv
<1>1. NoPublication \in [handle : Handles \cup {NoHandle}, to : Targets] /\ NoBlob \in Blob
  BY DEF NoPublication, NoBlob, Blob, Targets
<1>2. ShareTypes
  <2>1. /\ session = 1 /\ sendBusy = FALSE /\ publication = NoPublication /\ outgoing = {}
        /\ joined = Channels /\ preparers = {} /\ prepared = <<>>
    BY DEF ShareInit
  <2>2. /\ blobs \in [Handles -> Blob] /\ offering \in [Channels -> SUBSET Hashes]
    BY <1>1 DEF ShareInit
  <2>5. <<>> \in Seq(Prepared)
    OBVIOUS
  <2>3. session \in Nat /\ sendBusy \in BOOLEAN /\ prepared \in Seq(Prepared)
    BY <2>1, <2>5
  <2>4. outgoing \subseteq [handle : Handles, to : Targets] /\ preparers \subseteq Preparer
    BY <2>1
  <2> QED
    BY <1>1, <2>1, <2>2, <2>3, <2>4 DEF ShareTypes
<1>3. NoPublication.handle \notin Handles
  BY ShareBoundsAssumption DEF NoPublication, Handles, NoHandle
<1>4. preparers = {} /\ DOMAIN prepared = {} /\ ~sendBusy /\ publication = NoPublication /\ early = {}
      /\ imports = <<>> /\ outcomes = {} /\ outgoing = {} /\ \A r \in Channels : offering[r] = {}
  BY DEF ShareInit
<1>5. OnePreparer
  BY <1>4 DEF OnePreparer, Preparing
<1>6. OneImport
  BY <1>3, <1>4 DEF OneImport, Current, Given
<1>7. Listed
  BY <1>2, <1>4 DEF Listed, PublishedAsListed, ShareTypes
<1> QED
  BY <1>2, <1>5, <1>6, <1>7 DEF ShareInv

(* There is one current handle.                                            *)
LEMMA OneCurrent ==
  ASSUME ShareTypes, OnePreparer, OneImport, NEW h, NEW k, Current(h), Current(k)
  PROVE  h = k
<1>1. NoPublication.handle = NoHandle /\ NoHandle \notin Handles
  BY ShareBoundsAssumption DEF NoPublication, NoHandle, Handles
<1>2. Given(h) \/ Given(k) => publication = NoPublication
  BY DEF Given, OnePreparer, Preparing
<1>3. publication.handle = h \/ publication.handle = k => publication # NoPublication
  BY <1>1 DEF Current
<1>4. CASE publication.handle = h /\ publication.handle = k
  BY <1>4
<1>5. CASE Given(h) /\ Given(k)
  BY <1>5 DEF Given, OnePreparer
<1> QED
  BY <1>2, <1>3, <1>4, <1>5 DEF Current

(* There is room for the outcome of a file whose handle is not known yet.  *)
LEMMA RoomForOutcome ==
  ASSUME ShareTypes, OnePreparer, OneImport, NEW h, Current(h), \A e \in early : e.handle # h
  PROVE  Cardinality(early) < EarlyLimit
<1>1. MaxStrays \in Nat /\ EarlyLimit \in Nat /\ MaxStrays < EarlyLimit
  BY ShareBoundsAssumption
<1>2. early \subseteq Strays
  BY OneCurrent DEF OneImport
<1>3. IsFiniteSet(1 .. MaxStrays) /\ Cardinality(1 .. MaxStrays) = MaxStrays
  BY <1>1, FS_Interval
<1>4. IsFiniteSet(Strays) /\ Cardinality(Strays) <= MaxStrays
  <2> DEFINE f == [s \in 1 .. MaxStrays |-> [handle |-> NoHandle - s, ok |-> TRUE]]
  <2>1. f \in Surjection(1 .. MaxStrays, Strays)
    BY DEF Surjection, Strays
  <2> HIDE DEF f
  <2> QED
    BY <1>3, <2>1, FS_Surjection
<1>5. Cardinality(early) <= Cardinality(Strays) /\ Cardinality(early) \in Nat /\ Cardinality(Strays) \in Nat
  BY <1>2, <1>4, FS_Subset, FS_CardinalityType
<1> QED
  BY <1>1, <1>4, <1>5

(* The queue of answers grows at its end and is taken from its head.       *)
LEMMA QueueGrows ==
  ASSUME ShareTypes, NEW a \in Prepared, prepared' = Append(prepared, a)
  PROVE  /\ prepared' \in Seq(Prepared)
         /\ \E n : /\ n \notin DOMAIN prepared /\ DOMAIN prepared' = DOMAIN prepared \cup {n}
                  /\ prepared'[n] = a /\ \A i \in DOMAIN prepared : prepared'[i] = prepared[i]
<1>1. prepared \in Seq(Prepared)
  BY DEF ShareTypes
<1>2. /\ prepared' \in Seq(Prepared) /\ Len(prepared) \in Nat /\ DOMAIN prepared = 1 .. Len(prepared)
      /\ DOMAIN prepared' = 1 .. (Len(prepared) + 1) /\ prepared'[Len(prepared) + 1] = a
      /\ \A i \in DOMAIN prepared : prepared'[i] = prepared[i]
  BY <1>1
<1>3. /\ Len(prepared) + 1 \notin DOMAIN prepared
      /\ DOMAIN prepared' = DOMAIN prepared \cup {Len(prepared) + 1}
  BY <1>2
<1> QED
  BY <1>2, <1>3

LEMMA QueueShrinks ==
  ASSUME ShareTypes, prepared # <<>>, prepared' = Tail(prepared)
  PROVE  /\ prepared' \in Seq(Prepared)
         /\ 1 \in DOMAIN prepared /\ Head(prepared) = prepared[1] /\ prepared[1] \in Prepared
         /\ \A i \in DOMAIN prepared' : /\ i \in Int /\ i + 1 \in DOMAIN prepared /\ i + 1 # 1
                                        /\ prepared'[i] = prepared[i + 1]
         /\ \A i \in DOMAIN prepared : \/ i = 1
                                       \/ i - 1 \in DOMAIN prepared' /\ prepared'[i - 1] = prepared[i]
<1>1. prepared \in Seq(Prepared)
  BY DEF ShareTypes
<1>2. Len(prepared) \in Nat /\ DOMAIN prepared = 1 .. Len(prepared) /\ Len(prepared) >= 1
  BY <1>1
<1>3. /\ prepared' \in Seq(Prepared) /\ DOMAIN prepared' = 1 .. (Len(prepared) - 1)
      /\ \A i \in 1 .. (Len(prepared) - 1) : prepared'[i] = prepared[i + 1]
  BY <1>1, <1>2
<1> QED
  BY <1>1, <1>2, <1>3

(* What a publication does to what is listed and offered.                  *)
LEMMA OffersTyped ==
  ASSUME ShareTypes, NEW p \in [handle : Handles, to : Targets],
         Offers(p) \/ UNCHANGED <<outgoing, offering>>
  PROVE  /\ outgoing' \subseteq [handle : Handles, to : Targets]
         /\ offering' \in [Channels -> SUBSET Hashes]
<1>1. p.handle \in Handles /\ blobs[p.handle] \in Blob
  BY DEF ShareTypes
<1>2. Hash(p.handle) \in Hashes
  BY <1>1 DEF Hash, Hashes, Blob
<1>3. outgoing' \subseteq outgoing \cup {p}
  BY DEF Offers
<1>4. \/ UNCHANGED offering
      \/ offering' = [offering EXCEPT ![p.to] = @ \cup {Hash(p.handle)}] /\ p.to \in Channels
  BY DEF Offers, Targets
<1>5. offering' \in [Channels -> SUBSET Hashes]
  BY <1>2, <1>4 DEF ShareTypes
<1> QED
  BY <1>3, <1>5 DEF ShareTypes

(* The steps of the framework thread.                                      *)
LEMMA FrameTyped ==
  ASSUME ShareInv,
         \/ \E to \in Targets, b \in Bytes : PrepareFileOffer(to, b)
         \/ HearPrepared \/ PollStray \/ DropFriend \/ Restart
         \/ \E o \in outcomes : PollOutcome(o)
         \/ \E o \in outgoing : WithdrawFileOffer(o)
         \/ \E r \in Channels : LeaveChannel(r)
         \/ \E to \in Targets : Mute(to)
  PROVE  ShareTypes'
<1>a. ShareTypes /\ OneImport
  BY DEF ShareInv
<1>1. ASSUME NEW to \in Targets, NEW b \in Bytes, PrepareFileOffer(to, b) PROVE ShareTypes'
  <2> DEFINE t == [session |-> session, to |-> to, bytes |-> b, at |-> "reading", handle |-> NoHandle]
  <2>1. t \in Preparer
    BY <1>a DEF ShareTypes, Preparer
  <2>2. preparers' = preparers \cup {t}
    BY <1>1 DEF PrepareFileOffer
  <2> HIDE DEF t
  <2> QED
    BY <1>1, <1>a, <2>1, <2>2 DEF PrepareFileOffer, ShareTypes, nodeSide
<1>2. CASE HearPrepared
  <2> DEFINE a == Head(prepared)
             p == [handle |-> a.handle, to |-> a.to]
  <2>1. /\ prepared' \in Seq(Prepared) /\ a \in Prepared
    BY <1>2, <1>a, QueueShrinks DEF HearPrepared
  <2>2. a.handle # NoHandle => p \in [handle : Handles, to : Targets]
    BY <2>1 DEF Prepared
  <2>3. UNCHANGED <<session, joined, preparers, blobs>>
    BY <1>2 DEF HearPrepared
  <2>4. /\ sendBusy' \in {sendBusy, FALSE} /\ publication' \in {publication, NoPublication, p}
        /\ publication' = p => a.handle # NoHandle \/ publication' = publication
        /\ \/ UNCHANGED <<outgoing, offering>>
           \/ a.handle # NoHandle /\ (Offers(p) \/ UNCHANGED <<outgoing, offering>>)
    BY <1>2 DEF HearPrepared, Published, NoPublication
  <2> HIDE DEF a, p
  <2>5. NoPublication \in [handle : Handles \cup {NoHandle}, to : Targets]
    BY DEF NoPublication, Targets
  <2>6. sendBusy' \in BOOLEAN /\ publication' \in [handle : Handles \cup {NoHandle}, to : Targets]
    BY <1>a, <2>2, <2>4, <2>5 DEF ShareTypes
  <2>7. outgoing' \subseteq [handle : Handles, to : Targets] /\ offering' \in [Channels -> SUBSET Hashes]
    <3>1. CASE UNCHANGED <<outgoing, offering>>
      BY <1>a, <3>1 DEF ShareTypes
    <3>2. CASE a.handle # NoHandle /\ Offers(p)
      BY <1>a, <2>2, <3>2, OffersTyped
    <3> QED
      BY <2>4, <3>1, <3>2
  <2> QED
    BY <1>a, <2>1, <2>3, <2>6, <2>7 DEF ShareTypes
<1>3. ASSUME NEW h, NEW ok, PublicationResult(h, ok),
             UNCHANGED <<session, joined, blobs, preparers, prepared>>
      PROVE  ShareTypes'
  <2>1. NoPublication \in [handle : Handles \cup {NoHandle}, to : Targets]
    BY DEF NoPublication, Targets
  <2>2. CASE UNCHANGED <<sendBusy, publication, outgoing, offering>>
    BY <1>3, <1>a, <2>2 DEF ShareTypes
  <2>3. CASE publication # NoPublication /\ Published(publication, ok)
    <3>1. publication \in [handle : Handles, to : Targets]
      BY <1>a, <2>3 DEF ShareTypes, OneImport
    <3>2. outgoing' \subseteq [handle : Handles, to : Targets] /\ offering' \in [Channels -> SUBSET Hashes]
      BY <1>a, <2>3, <3>1, OffersTyped DEF Published
    <3> QED
      BY <1>3, <1>a, <2>1, <2>3, <3>2 DEF ShareTypes, Published
  <2> QED
    BY <1>3, <2>2, <2>3 DEF PublicationResult
<1>4. CASE PollStray \/ (\E o \in outcomes : PollOutcome(o))
  BY <1>3, <1>4 DEF PollStray, PollOutcome, taskSide
<1>5. CASE Restart
  <2>1. NoPublication \in [handle : Handles \cup {NoHandle}, to : Targets] /\ NoBlob \in Blob
    BY DEF NoPublication, NoBlob, Blob, Targets
  <2>2. /\ session' = session + 1 /\ sendBusy' = FALSE /\ publication' = NoPublication /\ outgoing' = {}
        /\ blobs' = [h \in Handles |-> NoBlob] /\ offering' = [r \in Channels |-> {}]
        /\ UNCHANGED <<joined, preparers, prepared>>
    BY <1>5 DEF Restart, taskSide
  <2>3. blobs' \in [Handles -> Blob] /\ offering' \in [Channels -> SUBSET Hashes] /\ session' \in Nat
    BY <1>a, <2>1, <2>2 DEF ShareTypes
  <2>4. outgoing' \subseteq [handle : Handles, to : Targets]
    BY <2>2
  <2> QED
    BY <1>a, <2>1, <2>2, <2>3, <2>4 DEF ShareTypes
<1>6. CASE \/ DropFriend \/ (\E r \in Channels : LeaveChannel(r)) \/ (\E to \in Targets : Mute(to))
           \/ (\E o \in outgoing : WithdrawFileOffer(o))
  <2>1. /\ UNCHANGED <<session, sendBusy, publication, preparers, prepared, blobs>>
        /\ outgoing' \subseteq outgoing /\ joined' \subseteq joined
    BY <1>6 DEF DropFriend, LeaveChannel, Mute, WithdrawFileOffer, taskSide, nodeSide
  <2>2. \/ UNCHANGED offering
        \/ \E r, x : offering' = [offering EXCEPT ![r] = @ \ {x}]
    BY <1>6 DEF DropFriend, LeaveChannel, Mute, WithdrawFileOffer, AsksFriend, Unoffers, nodeSide
  <2>3. offering' \in [Channels -> SUBSET Hashes]
    BY <1>a, <2>2 DEF ShareTypes
  <2> QED
    BY <1>a, <2>1, <2>3 DEF ShareTypes
<1> QED
  BY <1>1, <1>2, <1>4, <1>5, <1>6

(* A task and what it becomes.                                             *)
LEMMA TaskIs ==
  ASSUME ShareTypes, NEW t \in preparers, NEW h \in Handles
  PROVE  /\ t \in Preparer
         /\ \A at \in {"calling", "out"} :
              /\ [t EXCEPT !.at = at] \in Preparer
              /\ [t EXCEPT !.at = at].session = t.session /\ [t EXCEPT !.at = at].handle = t.handle
              /\ [t EXCEPT !.at = at].at = at
         /\ [t EXCEPT !.at = "out", !.handle = h] \in Preparer
         /\ [t EXCEPT !.at = "out", !.handle = h].session = t.session
         /\ [t EXCEPT !.at = "out", !.handle = h].handle = h
         /\ [t EXCEPT !.at = "out", !.handle = h].at = "out"
BY DEF ShareTypes, Preparer

(* The steps of a task, and what they leave alone.                         *)
TaskStep(t) == ReadOffer(t) \/ GiveUp(t) \/ BlobAdd(t) \/ TaskAnswers(t)

LEMMA TaskTyped ==
  ASSUME ShareInv, NEW t \in preparers, TaskStep(t)
  PROVE  ShareTypes'
<1>a. ShareTypes
  BY DEF ShareInv
<1>b. UNCHANGED pluginSide /\ UNCHANGED offering
  BY DEF TaskStep, ReadOffer, GiveUp, BlobAdd, TaskAnswers, nodeSide
<1>c. t \in Preparer /\ t.bytes \in Bytes /\ t.to \in Targets
  BY <1>a DEF ShareTypes, Preparer
<1>1. CASE TaskAnswers(t)
  <2> DEFINE a == [session |-> t.session, to |-> t.to, handle |-> t.handle]
  <2>1. a \in Prepared
    BY <1>c DEF Preparer, Prepared
  <2>2. prepared' = Append(prepared, a)
    BY <1>1 DEF TaskAnswers
  <2> HIDE DEF a
  <2>3. prepared' \in Seq(Prepared)
    BY <1>a, <2>1, <2>2, QueueGrows
  <2> QED
    BY <1>1, <1>a, <1>b, <2>3 DEF TaskAnswers, ShareTypes, pluginSide, nodeSide
<1>2. ASSUME NEW at \in {"calling", "out"}, TaskBecomes(t, [t EXCEPT !.at = at]) PROVE preparers' \subseteq Preparer
  <2>1. [t EXCEPT !.at = at] \in Preparer
    BY <1>c DEF Preparer
  <2> QED
    BY <1>2, <1>a, <2>1 DEF TaskBecomes, ShareTypes
<1>3. CASE ReadOffer(t) \/ GiveUp(t)
  <2>1. preparers' \subseteq Preparer
    BY <1>2, <1>3, <1>a DEF ReadOffer, GiveUp, ShareTypes
  <2> QED
    BY <1>3, <1>a, <1>b, <2>1 DEF ReadOffer, GiveUp, ShareTypes, pluginSide, nodeSide
<1>4. CASE BlobAdd(t)
  <2>1. CASE TaskBecomes(t, [t EXCEPT !.at = "out"]) /\ UNCHANGED <<blobs, imports>>
    BY <1>2, <1>4, <1>a, <1>b, <2>1 DEF BlobAdd, ShareTypes, pluginSide
  <2>2. ASSUME NEW h \in Handles,
               blobs' = [blobs EXCEPT ![h] = [is |-> "adding", bytes |-> t.bytes, to |-> t.to]],
               TaskBecomes(t, [t EXCEPT !.at = "out", !.handle = h])
        PROVE  ShareTypes'
    <3>4. [t EXCEPT !.at = "out", !.handle = h] \in Preparer
      BY <1>a, TaskIs
    <3>1. preparers' \subseteq Preparer
      BY <1>a, <2>2, <3>4 DEF TaskBecomes, ShareTypes
    <3>2. [is |-> "adding", bytes |-> t.bytes, to |-> t.to] \in Blob
      BY <1>c DEF Blob
    <3>3. blobs' \in [Handles -> Blob]
      BY <1>a, <2>2, <3>2 DEF ShareTypes
    <3> QED
      BY <1>4, <1>a, <1>b, <3>1, <3>3 DEF BlobAdd, ShareTypes, pluginSide
  <2> QED
    BY <1>4, <2>1, <2>2 DEF BlobAdd
<1> QED
  BY <1>1, <1>3, <1>4 DEF TaskStep

LEMMA NodeTyped ==
  ASSUME ShareInv, FinishAdd \/ (\E r \in Channels : RunnerLeaves(r))
  PROVE  ShareTypes'
<1>a. ShareTypes /\ OneImport
  BY DEF ShareInv
<1>1. CASE FinishAdd
  <2>1. Head(imports) \in Handles
    BY <1>1, <1>a DEF FinishAdd, OneImport
  <2>2. PICK is \in {"ready", "failed"} : blobs' = [blobs EXCEPT ![Head(imports)].is = is]
    BY <1>1 DEF FinishAdd
  <2>3. [blobs[Head(imports)] EXCEPT !.is = is] \in Blob
    BY <1>a, <2>1 DEF ShareTypes, Blob
  <2>4. blobs' \in [Handles -> Blob]
    BY <1>a, <2>1, <2>2, <2>3 DEF ShareTypes
  <2> QED
    BY <1>1, <1>a, <2>4 DEF FinishAdd, ShareTypes, pluginSide, taskSide
<1>2. ASSUME NEW r \in Channels, RunnerLeaves(r) PROVE ShareTypes'
  BY <1>2, <1>a DEF RunnerLeaves, ShareTypes, pluginSide, taskSide
<1> QED
  BY <1>1, <1>2

LEMMA ShareTyped ==
  ASSUME ShareInv, [ShareNext]_shareVars
  PROVE  ShareTypes'
<1>1. CASE UNCHANGED shareVars
  BY <1>1 DEF ShareInv, ShareTypes, shareVars
<1> QED
  BY <1>1, FrameTyped, TaskTyped, NodeTyped DEF ShareNext, TaskStep

-----------------------------------------------------------------------------
(* What the files of a node are called stays.                              *)
FilesStay ==
    \A h \in Handles : blobs[h].is # "none" =>
        blobs'[h].is # "none" /\ blobs'[h].to = blobs[h].to /\ blobs'[h].bytes = blobs[h].bytes

LEMMA HashesStay ==
  ASSUME ShareTypes, FilesStay, UNCHANGED sealed
  PROVE  \A h \in Handles : blobs[h].is # "none" => Hash(h)' = Hash(h)
BY DEF FilesStay, Hash

LEMMA ListedStays ==
  ASSUME ShareTypes, Listed, FilesStay, UNCHANGED <<sealed, outgoing, joined, offering, twins>>
  PROVE  Listed'
<1>1. \A o \in outgoing : /\ o.handle \in Handles /\ blobs[o.handle].is # "none" /\ blobs'[o.handle].is # "none"
                         /\ Hash(o.handle)' = Hash(o.handle)
  BY HashesStay DEF ShareTypes, Listed, FilesStay
<1>2. \A o \in outgoing' : blobs'[o.handle].is # "none" /\ (o.to # Pal => o.to \in joined')
  BY <1>1 DEF Listed
<1>3. \A o \in outgoing' : o.to # Pal =>
         Hash(o.handle)' \in offering'[o.to] \/ <<o.to, Hash(o.handle)'>> \in twins'
  BY <1>1 DEF Listed, PublishedAsListed
<1>4. \A r \in joined' : \A x \in offering'[r] : \E o \in outgoing' : o.to = r /\ Hash(o.handle)' = x
  BY <1>1 DEF Listed, PublishedAsListed
<1> QED
  BY <1>2, <1>3, <1>4 DEF Listed, PublishedAsListed

(* A file that is published is listed and offered, or neither.             *)
LEMMA PublishedLists ==
  ASSUME ShareTypes, Listed, NEW p \in [handle : Handles, to : Targets], NEW ok, Published(p, ok),
         UNCHANGED <<sealed, joined, blobs, twins>>
  PROVE  Listed'
<1>1. FilesStay /\ \A h : Hash(h)' = Hash(h)
  BY DEF FilesStay, Hash
<1>2. CASE UNCHANGED <<outgoing, offering>>
  BY <1>1, <1>2, ListedStays
<1>3. CASE /\ p.to = Pal /\ blobs[p.handle].is = "ready"
           /\ outgoing' = outgoing \cup {p} /\ UNCHANGED offering
  <2>1. \A o \in outgoing' : blobs'[o.handle].is # "none" /\ (o.to # Pal => o.to \in joined')
    BY <1>3 DEF Listed
  <2>2. \A o \in outgoing' : o.to # Pal =>
           Hash(o.handle)' \in offering'[o.to] \/ <<o.to, Hash(o.handle)'>> \in twins'
    BY <1>1, <1>3 DEF Listed, PublishedAsListed
  <2>3. \A r \in joined' : \A x \in offering'[r] : \E o \in outgoing' : o.to = r /\ Hash(o.handle)' = x
    BY <1>1, <1>3 DEF Listed, PublishedAsListed
  <2> QED
    BY <2>1, <2>2, <2>3 DEF Listed, PublishedAsListed
<1>4. CASE /\ p.to # Pal /\ p.to \in joined /\ blobs[p.handle].is = "ready"
           /\ outgoing' = outgoing \cup {p}
           /\ offering' = [offering EXCEPT ![p.to] = @ \cup {Hash(p.handle)}]
  <2>1. \A o \in outgoing' : blobs'[o.handle].is # "none" /\ (o.to # Pal => o.to \in joined')
    BY <1>4 DEF Listed
  <2>2. \A r \in Channels : offering'[r] = IF r = p.to THEN offering[r] \cup {Hash(p.handle)} ELSE offering[r]
    BY <1>4 DEF ShareTypes
  <2>3. joined \subseteq Channels
    BY DEF ShareTypes
  <2>4. \A o \in outgoing' : o.to # Pal =>
           Hash(o.handle)' \in offering'[o.to] \/ <<o.to, Hash(o.handle)'>> \in twins'
    <3> SUFFICES ASSUME NEW o \in outgoing', o.to # Pal
                 PROVE  Hash(o.handle)' \in offering'[o.to] \/ <<o.to, Hash(o.handle)'>> \in twins'
      OBVIOUS
    <3>1. o.to \in Channels
      BY <1>4, <2>1, <2>3
    <3>2. CASE o = p
      BY <1>1, <2>2, <3>1, <3>2
    <3>3. CASE o \in outgoing
      <4>1. Hash(o.handle) \in offering[o.to] \/ <<o.to, Hash(o.handle)>> \in twins
        BY <3>3 DEF Listed, PublishedAsListed
      <4> QED
        BY <1>1, <2>2, <3>1, <4>1
    <3> QED
      BY <1>4, <3>2, <3>3
  <2>5. \A r \in joined' : \A x \in offering'[r] : \E o \in outgoing' : o.to = r /\ Hash(o.handle)' = x
    BY <1>1, <1>4, <2>2, <2>3 DEF Listed, PublishedAsListed
  <2> QED
    BY <2>1, <2>4, <2>5 DEF Listed, PublishedAsListed
<1> QED
  BY <1>2, <1>3, <1>4 DEF Published, Offers, PublicationAllowed, CanOffer, CanOfferFriend

LEMMA ListedInductive ==
  ASSUME ShareInv, [ShareNext]_shareVars
  PROVE  Listed'
<1>a. ShareTypes /\ Listed /\ OneImport
  BY DEF ShareInv
<1>1. ASSUME FilesStay, UNCHANGED <<sealed, outgoing, joined, offering, twins>> PROVE Listed'
  BY <1>1, <1>a, ListedStays
<1>s. UNCHANGED blobs => FilesStay
  BY DEF FilesStay
<1>2. CASE UNCHANGED shareVars
  BY <1>1, <1>2, <1>s DEF shareVars
<1>3. CASE PollStray \/ \E o \in outcomes : PollOutcome(o)
  <2>1. PICK h, ok : PublicationResult(h, ok)
    BY <1>3 DEF PollStray, PollOutcome
  <2>2. UNCHANGED <<sealed, joined, blobs, twins>>
    BY <1>3 DEF PollStray, PollOutcome
  <2>3. CASE UNCHANGED <<outgoing, offering>>
    BY <1>1, <1>s, <2>2, <2>3
  <2>4. CASE publication # NoPublication /\ Published(publication, ok)
    <3>1. publication \in [handle : Handles, to : Targets]
      BY <1>a, <2>4 DEF ShareTypes, OneImport
    <3> QED
      BY <1>a, <2>2, <2>4, <3>1, PublishedLists
  <2> QED
    BY <2>1, <2>3, <2>4 DEF PublicationResult
<1>4. CASE HearPrepared
  <2> DEFINE p == [handle |-> Head(prepared).handle, to |-> Head(prepared).to]
  <2>1. Head(prepared) \in Prepared
    BY <1>4, <1>a, QueueShrinks DEF HearPrepared
  <2>2. Head(prepared).handle # NoHandle => p \in [handle : Handles, to : Targets]
    BY <2>1 DEF Prepared
  <2>3. UNCHANGED <<sealed, joined, blobs, twins>>
    BY <1>4 DEF HearPrepared
  <2>4. \/ UNCHANGED <<outgoing, offering>>
        \/ Head(prepared).handle # NoHandle /\ \E e \in early : Published(p, e.ok)
    BY <1>4 DEF HearPrepared
  <2> HIDE DEF p
  <2> QED
    BY <1>1, <1>a, <1>s, <2>2, <2>3, <2>4, PublishedLists
<1>5. CASE FinishAdd
  <2>1. Head(imports) \in Handles /\ Head(imports) \in DOMAIN blobs
    BY <1>5, <1>a DEF FinishAdd, OneImport, ShareTypes
  <2>2. PICK is \in {"ready", "failed"} : blobs' = [blobs EXCEPT ![Head(imports)].is = is]
    BY <1>5 DEF FinishAdd
  <2>3. \A h \in Handles : \/ blobs'[h] = blobs[h]
                          \/ (blobs'[h] = [blobs[h] EXCEPT !.is = is] /\ blobs[h] \in Blob)
    BY <1>a, <2>1, <2>2 DEF ShareTypes
  <2>4. FilesStay
    BY <2>3 DEF FilesStay, Blob
  <2> QED
    BY <1>1, <1>5, <2>4 DEF FinishAdd, pluginSide
<1>6. ASSUME NEW t \in preparers, TaskStep(t) PROVE Listed'
  <2>1. FilesStay
    <3>1. CASE UNCHANGED blobs
      BY <1>s, <3>1
    <3>2. ASSUME NEW h \in Handles, NEW b, blobs[h].is = "none", blobs' = [blobs EXCEPT ![h] = b]
          PROVE  FilesStay
      BY <1>a, <3>2 DEF FilesStay, ShareTypes
    <3> QED
      BY <1>6, <3>1, <3>2 DEF TaskStep, ReadOffer, GiveUp, BlobAdd, TaskAnswers, nodeSide
  <2>2. UNCHANGED <<sealed, outgoing, joined, offering, twins>>
    BY <1>6 DEF TaskStep, ReadOffer, GiveUp, BlobAdd, TaskAnswers, nodeSide, pluginSide
  <2> QED
    BY <1>1, <2>1, <2>2
<1>7. CASE \/ \E to \in Targets, b \in Bytes : PrepareFileOffer(to, b)
           \/ \E to \in Targets : Mute(to)
  BY <1>1, <1>7, <1>s DEF PrepareFileOffer, Mute, nodeSide
<1>8. CASE DropFriend
  <2>1. outgoing' = {o \in outgoing : o.to # Pal} /\ UNCHANGED <<joined, offering, twins, sealed, blobs>>
    BY <1>8 DEF DropFriend, nodeSide
  <2>2. \A h : Hash(h)' = Hash(h)
    BY <2>1 DEF Hash
  <2>3. Pal \notin joined
    BY <1>a, ShareAssumption DEF ShareTypes
  <2> QED
    BY <1>a, <2>1, <2>2, <2>3 DEF Listed, PublishedAsListed
<1>9. ASSUME NEW r \in Channels, LeaveChannel(r) PROVE Listed'
  <2>1. /\ outgoing' = {o \in outgoing : o.to # r} /\ joined' = joined \ {r}
        /\ UNCHANGED <<offering, twins, sealed, blobs>>
    BY <1>9 DEF LeaveChannel, nodeSide
  <2>2. \A h : Hash(h)' = Hash(h)
    BY <2>1 DEF Hash
  <2> QED
    BY <1>a, <2>1, <2>2 DEF Listed, PublishedAsListed
<1>10. ASSUME NEW r \in Channels, RunnerLeaves(r) PROVE Listed'
  <2>1. /\ r \notin joined /\ offering' = [offering EXCEPT ![r] = {}]
        /\ UNCHANGED <<outgoing, joined, twins, sealed, blobs>>
    BY <1>10 DEF RunnerLeaves, pluginSide
  <2>2. \A h : Hash(h)' = Hash(h)
    BY <2>1 DEF Hash
  <2>3. \A q \in joined : offering'[q] = offering[q]
    BY <1>a, <2>1 DEF ShareTypes
  <2>4. \A o \in outgoing : o.to # Pal => o.to \in joined
    BY <1>a DEF Listed
  <2> QED
    BY <1>a, <2>1, <2>2, <2>3, <2>4 DEF Listed, PublishedAsListed
<1>11. CASE Restart
  <2>1. outgoing' = {} /\ joined' = joined /\ offering' = [r \in Channels |-> {}]
    BY <1>11 DEF Restart
  <2> QED
    BY <1>a, <2>1 DEF Listed, PublishedAsListed, ShareTypes
<1>12. ASSUME NEW o \in outgoing, WithdrawFileOffer(o) PROVE Listed'
  <2>1. outgoing' = outgoing \ {o} /\ UNCHANGED <<joined, sealed, blobs>>
    BY <1>12 DEF WithdrawFileOffer
  <2>2. \A h : Hash(h)' = Hash(h)
    BY <2>1 DEF Hash
  <2>3. \A q \in outgoing' : blobs'[q.handle].is # "none" /\ (q.to # Pal => q.to \in joined')
    BY <1>a, <2>1 DEF Listed
  <2>4. joined \subseteq Channels /\ Pal \notin joined /\ o.to \in Targets
    BY <1>a, ShareAssumption DEF ShareTypes
  <2>5. CASE o.to = Pal
    <3>1. UNCHANGED <<offering, twins>>
      BY <1>12, <2>5 DEF WithdrawFileOffer, AsksFriend
    <3> QED
      BY <1>a, <2>1, <2>2, <2>3, <2>4, <2>5, <3>1 DEF Listed, PublishedAsListed
  <2>6. CASE o.to # Pal
    <3>1. Unoffers(o) /\ o.to \in Channels
      BY <1>12, <2>4, <2>6 DEF WithdrawFileOffer, Targets
    <3>2. \A r \in Channels : offering'[r] = IF r = o.to THEN offering[r] \ {Hash(o.handle)} ELSE offering[r]
      BY <1>a, <3>1 DEF Unoffers, ShareTypes
    <3>3. /\ twins \subseteq twins'
          /\ \A q \in outgoing' : q.to = o.to /\ Hash(q.handle) = Hash(o.handle)
                                   => <<o.to, Hash(o.handle)>> \in twins'
      BY <2>1, <3>1 DEF Unoffers
    <3>4. \A q \in outgoing' : q.to # Pal =>
             Hash(q.handle)' \in offering'[q.to] \/ <<q.to, Hash(q.handle)'>> \in twins'
      <4> SUFFICES ASSUME NEW q \in outgoing', q.to # Pal
                   PROVE  Hash(q.handle) \in offering'[q.to] \/ <<q.to, Hash(q.handle)>> \in twins'
        BY <2>2
      <4>1. Hash(q.handle) \in offering[q.to] \/ <<q.to, Hash(q.handle)>> \in twins
        BY <1>a, <2>1 DEF Listed, PublishedAsListed
      <4>2. q.to \in Channels
        BY <2>1, <2>3, <2>4
      <4>3. CASE q.to = o.to /\ Hash(q.handle) = Hash(o.handle)
        BY <3>3, <4>3
      <4>4. CASE ~(q.to = o.to /\ Hash(q.handle) = Hash(o.handle))
        BY <3>2, <3>3, <4>1, <4>2, <4>4
      <4> QED
        BY <4>3, <4>4
    <3>5. \A r \in joined' : \A x \in offering'[r] : \E q \in outgoing' : q.to = r /\ Hash(q.handle)' = x
      <4> SUFFICES ASSUME NEW r \in joined, NEW x \in offering'[r]
                   PROVE  \E q \in outgoing' : q.to = r /\ Hash(q.handle) = x
        BY <2>1, <2>2
      <4>1. x \in offering[r] /\ ~(r = o.to /\ x = Hash(o.handle))
        BY <2>4, <3>2
      <4>2. PICK q \in outgoing : q.to = r /\ Hash(q.handle) = x
        BY <1>a, <4>1 DEF Listed, PublishedAsListed
      <4> QED
        BY <2>1, <4>1, <4>2
    <3> QED
      BY <2>3, <3>4, <3>5 DEF Listed, PublishedAsListed
  <2> QED
    BY <2>5, <2>6
<1> QED
  BY <1>2, <1>3, <1>4, <1>5, <1>6, <1>7, <1>8, <1>9, <1>10, <1>11, <1>12 DEF ShareNext, TaskStep

-----------------------------------------------------------------------------
(* A step of a task keeps the session, and the handle but for the answer.  *)
LEMMA PreparerMoves ==
  ASSUME ShareTypes, OnePreparer, NEW t \in preparers, NEW u, TaskBecomes(t, u),
         u.session = t.session, u.at # "out" => u.handle = NoHandle,
         UNCHANGED <<session, sendBusy, publication, prepared>>
  PROVE  OnePreparer'
<1>1. Preparing' <=> Preparing
  BY DEF Preparing, NoPublication
<1>2. OwnTask(u)' <=> OwnTask(t)
  BY DEF OwnTask
<1>3. \A v \in preparers' : v = u \/ (v \in preparers /\ v # t)
  BY DEF TaskBecomes
<1>4. u \in preparers' /\ \A v \in preparers : v = t \/ v \in preparers'
  BY DEF TaskBecomes
<1>5. \A v : OwnTask(v)' <=> OwnTask(v)
  BY DEF OwnTask
<1>6. \A i : OwnAnswer(i)' <=> OwnAnswer(i)
  BY DEF OwnAnswer
<1> QED
  BY <1>1, <1>2, <1>3, <1>4, <1>5, <1>6 DEF OnePreparer

LEMMA PreparerInductive ==
  ASSUME ShareInv, [ShareNext]_shareVars
  PROVE  OnePreparer'
<1>a. ShareTypes /\ OnePreparer /\ OneImport
  BY DEF ShareInv
<1>1. ASSUME UNCHANGED <<session, sendBusy, publication, preparers, prepared>> PROVE OnePreparer'
  BY <1>1, <1>a DEF OnePreparer, Preparing, NoPublication, OwnTask, OwnAnswer
<1>2. CASE UNCHANGED shareVars
  BY <1>1, <1>2 DEF shareVars
<1>3. CASE PollStray \/ \E o \in outcomes : PollOutcome(o)
  <2>1. PICK h, ok : PublicationResult(h, ok)
    BY <1>3 DEF PollStray, PollOutcome
  <2>2. UNCHANGED <<session, preparers, prepared>>
    BY <1>3 DEF PollStray, PollOutcome, taskSide
  <2>3. CASE UNCHANGED <<sendBusy, publication>>
    BY <1>1, <2>2, <2>3
  <2>4. CASE publication # NoPublication /\ Published(publication, ok)
    <3>1. ~Preparing /\ ~Preparing'
      BY <2>4 DEF Preparing, Published
    <3> QED
      BY <1>a, <2>2, <3>1 DEF OnePreparer, OwnTask, OwnAnswer
  <2> QED
    BY <2>1, <2>3, <2>4 DEF PublicationResult
<1>4. CASE HearPrepared
  <2>1. /\ prepared # <<>> /\ prepared' = Tail(prepared) /\ UNCHANGED <<session, preparers>>
    BY <1>4 DEF HearPrepared
  <2>2. /\ 1 \in DOMAIN prepared /\ Head(prepared) = prepared[1]
        /\ \A i \in DOMAIN prepared' : /\ i \in Int /\ i + 1 \in DOMAIN prepared /\ i + 1 # 1
                                       /\ prepared'[i] = prepared[i + 1]
        /\ \A i \in DOMAIN prepared : \/ i = 1
                                      \/ i - 1 \in DOMAIN prepared' /\ prepared'[i - 1] = prepared[i]
    BY <1>a, <2>1, QueueShrinks
  <2>3. /\ \A i \in DOMAIN prepared' : OwnAnswer(i)' <=> OwnAnswer(i + 1)
        /\ \A i \in DOMAIN prepared : i = 1 \/ (OwnAnswer(i - 1)' <=> OwnAnswer(i))
    BY <2>1, <2>2 DEF OwnAnswer
  <2>4. \A v : OwnTask(v)' <=> OwnTask(v)
    BY <2>1 DEF OwnTask
  <2>5. /\ \A i, j \in DOMAIN prepared' : OwnAnswer(i)' /\ OwnAnswer(j)' => i = j
        /\ \A t \in preparers, i \in DOMAIN prepared' : ~(OwnTask(t) /\ OwnAnswer(i)')
        /\ \A i \in DOMAIN prepared' : prepared'[i].session <= session'
    <3>1. \A i, j \in DOMAIN prepared' : OwnAnswer(i)' /\ OwnAnswer(j)' => i + 1 = j + 1
      BY <1>a, <2>2, <2>3 DEF OnePreparer
    <3>2. \A i, j \in DOMAIN prepared' : OwnAnswer(i)' /\ OwnAnswer(j)' => i = j
      BY <2>2, <3>1
    <3> QED
      BY <1>a, <2>1, <2>2, <2>3, <3>2 DEF OnePreparer
  <2>6. Preparing' <=> (\E t \in preparers' : OwnTask(t)') \/ (\E i \in DOMAIN prepared' : OwnAnswer(i)')
    <3>1. CASE OwnAnswer(1)
      <4>1. Head(prepared).session = session
        BY <2>2, <3>1 DEF OwnAnswer
      <4>2. ~Preparing'
        BY <1>4, <4>1 DEF HearPrepared, Preparing, Published, NoPublication
      <4>3. \A i \in DOMAIN prepared' : ~OwnAnswer(i)'
        BY <1>a, <2>2, <2>3, <3>1 DEF OnePreparer
      <4>4. \A t \in preparers' : ~OwnTask(t)'
        BY <1>a, <2>1, <2>2, <2>4, <3>1 DEF OnePreparer
      <4> QED
        BY <4>2, <4>3, <4>4
    <3>2. CASE ~OwnAnswer(1)
      <4>1. Head(prepared).session # session
        BY <2>2, <3>2 DEF OwnAnswer
      <4>2. UNCHANGED <<sendBusy, publication>>
        BY <1>4, <4>1 DEF HearPrepared
      <4>3. Preparing' <=> Preparing
        BY <4>2 DEF Preparing
      <4>4. (\E i \in DOMAIN prepared : OwnAnswer(i)) <=> (\E i \in DOMAIN prepared' : OwnAnswer(i)')
        BY <2>2, <2>3, <3>2
      <4> QED
        BY <1>a, <2>1, <2>4, <4>3, <4>4 DEF OnePreparer
    <3> QED
      BY <3>1, <3>2
  <2> QED
    BY <1>a, <2>1, <2>4, <2>5, <2>6 DEF OnePreparer
<1>5. ASSUME NEW t \in preparers, TaskStep(t) PROVE OnePreparer'
  <2>1. UNCHANGED <<session, sendBusy, publication>>
    BY <1>5 DEF TaskStep, ReadOffer, GiveUp, BlobAdd, TaskAnswers, pluginSide
  <2>2. t.at # "out" => t.handle = NoHandle
    BY <1>a DEF OnePreparer
  <2>3. ASSUME NEW at \in {"calling", "out"}, TaskBecomes(t, [t EXCEPT !.at = at]), t.at # "out",
               UNCHANGED prepared
        PROVE  OnePreparer'
    <3> DEFINE u == [t EXCEPT !.at = at]
    <3>1. u.session = t.session /\ (u.at # "out" => u.handle = NoHandle)
      BY <2>2, <2>3, <1>a, TaskIs DEF ShareTypes, Preparer
    <3>2. TaskBecomes(t, u)
      BY <2>3
    <3> HIDE DEF u
    <3> QED
      BY <1>a, <2>1, <2>3, <3>1, <3>2, PreparerMoves
  <2>4. ASSUME NEW h \in Handles, TaskBecomes(t, [t EXCEPT !.at = "out", !.handle = h]), UNCHANGED prepared
        PROVE  OnePreparer'
    <3> DEFINE u == [t EXCEPT !.at = "out", !.handle = h]
    <3>1. u.session = t.session /\ u.at = "out"
      BY <1>a, TaskIs
    <3>2. TaskBecomes(t, u)
      BY <2>4
    <3> HIDE DEF u
    <3> QED
      BY <1>a, <2>1, <2>4, <3>1, <3>2, PreparerMoves
  <2>5. ASSUME preparers' = preparers \ {t}, t.session # session, UNCHANGED prepared
        PROVE  OnePreparer'
    <3>1. Preparing' <=> Preparing
      BY <2>1 DEF Preparing
    <3>2. /\ \A v : OwnTask(v)' <=> OwnTask(v)
          /\ \A i : OwnAnswer(i)' <=> OwnAnswer(i)
      BY <2>1, <2>5 DEF OwnTask, OwnAnswer
    <3>3. ~OwnTask(t)
      BY <2>5 DEF OwnTask
    <3> QED
      BY <1>a, <2>1, <2>5, <3>1, <3>2, <3>3 DEF OnePreparer
  <2>6. CASE TaskAnswers(t)
    <3> DEFINE a == [session |-> t.session, to |-> t.to, handle |-> t.handle]
    <3>1. a \in Prepared /\ a.session = t.session
      BY <1>a DEF ShareTypes, Preparer, Prepared
    <3>2. prepared' = Append(prepared, a) /\ preparers' = preparers \ {t}
      BY <2>6 DEF TaskAnswers
    <3> HIDE DEF a
    <3>3. PICK n : /\ n \notin DOMAIN prepared /\ DOMAIN prepared' = DOMAIN prepared \cup {n}
                   /\ prepared'[n] = a /\ \A i \in DOMAIN prepared : prepared'[i] = prepared[i]
      BY <1>a, <3>1, <3>2, QueueGrows
    <3>4. Preparing' <=> Preparing
      BY <2>1 DEF Preparing
    <3>5. /\ \A v : OwnTask(v)' <=> OwnTask(v)
          /\ \A i \in DOMAIN prepared : OwnAnswer(i)' <=> OwnAnswer(i)
          /\ OwnAnswer(n)' <=> OwnTask(t)
      BY <2>1, <3>1, <3>3 DEF OwnTask, OwnAnswer
    <3> DEFINE Own(i) == OwnAnswer(i)'
    <3>6. /\ \A i \in DOMAIN prepared : Own(i) <=> OwnAnswer(i)
          /\ Own(n) <=> OwnTask(t)
      BY <3>5
    <3> HIDE DEF Own
    <3>7. Preparing' <=> (\E v \in preparers' : OwnTask(v)') \/ (\E i \in DOMAIN prepared' : Own(i))
      BY <1>a, <3>2, <3>3, <3>4, <3>5, <3>6 DEF OnePreparer
    <3>8. /\ \A i, j \in DOMAIN prepared' : Own(i) /\ Own(j) => i = j
          /\ \A v \in preparers', i \in DOMAIN prepared' : ~(OwnTask(v)' /\ Own(i))
      BY <1>a, <3>2, <3>3, <3>5, <3>6 DEF OnePreparer
    <3>9. \A i \in DOMAIN prepared' : prepared'[i].session <= session'
      BY <1>a, <2>1, <3>1, <3>3 DEF OnePreparer
    <3> QED
      BY <1>a, <2>1, <3>2, <3>5, <3>7, <3>8, <3>9 DEF OnePreparer, Own
  <2> QED
    BY <1>5, <2>3, <2>4, <2>5, <2>6 DEF TaskStep, ReadOffer, GiveUp, BlobAdd
<1>6. ASSUME NEW to \in Targets, NEW b \in Bytes, PrepareFileOffer(to, b) PROVE OnePreparer'
  <2> DEFINE u == [session |-> session, to |-> to, bytes |-> b, at |-> "reading", handle |-> NoHandle]
  <2>1. /\ ~sendBusy /\ sendBusy' /\ preparers' = preparers \cup {u}
        /\ UNCHANGED <<session, publication, prepared>>
    BY <1>6 DEF PrepareFileOffer
  <2>2. u.session = session /\ u.handle = NoHandle
    OBVIOUS
  <2> HIDE DEF u
  <2>3. publication = NoPublication
    BY <1>a, <2>1 DEF OneImport
  <2>4. Preparing' /\ ~Preparing
    BY <2>1, <2>3 DEF Preparing
  <2>5. /\ \A v : OwnTask(v)' <=> OwnTask(v)
        /\ \A i : OwnAnswer(i)' <=> OwnAnswer(i)
        /\ OwnTask(u)
    BY <2>1, <2>2 DEF OwnTask, OwnAnswer
  <2>6. session <= session
    BY <1>a DEF ShareTypes
  <2> QED
    BY <1>a, <2>1, <2>2, <2>4, <2>5, <2>6 DEF OnePreparer
<1>7. CASE Restart
  <2>1. session' = session + 1 /\ ~sendBusy' /\ UNCHANGED <<preparers, prepared>>
    BY <1>7 DEF Restart, taskSide
  <2>2. ~Preparing'
    BY <2>1 DEF Preparing
  <2>3. /\ \A t \in preparers : t.session \in Nat
        /\ \A i \in DOMAIN prepared : prepared[i].session \in Nat
    <3>1. \A i \in DOMAIN prepared : prepared[i] \in Prepared
      BY <1>a DEF ShareTypes
    <3> QED
      BY <1>a, <3>1 DEF ShareTypes, Preparer, Prepared
  <2>4. session \in Nat
    BY <1>a DEF ShareTypes
  <2>5. /\ \A t \in preparers' : t.session <= session' /\ t.session # session'
        /\ \A i \in DOMAIN prepared' : prepared'[i].session <= session' /\ prepared'[i].session # session'
    BY <1>a, <2>1, <2>3, <2>4 DEF OnePreparer
  <2>6. /\ \A t \in preparers' : ~OwnTask(t)'
        /\ \A i \in DOMAIN prepared' : ~OwnAnswer(i)'
    BY <2>5 DEF OwnTask, OwnAnswer
  <2> QED
    BY <1>a, <2>1, <2>2, <2>5, <2>6 DEF OnePreparer
<1>8. CASE \/ DropFriend \/ FinishAdd
           \/ \E o \in outgoing : WithdrawFileOffer(o)
           \/ \E r \in Channels : LeaveChannel(r) \/ RunnerLeaves(r)
           \/ \E to \in Targets : Mute(to)
  BY <1>1, <1>8
     DEF DropFriend, FinishAdd, WithdrawFileOffer, LeaveChannel, RunnerLeaves, Mute, taskSide,
         pluginSide
<1> QED
  BY <1>2, <1>3, <1>4, <1>5, <1>6, <1>7, <1>8 DEF ShareNext, TaskStep

-----------------------------------------------------------------------------
(* A step that leaves the import of this session's file alone.             *)
LEMMA ImportStays ==
  ASSUME OneImport, Preparing => Preparing',
         UNCHANGED <<publication, early, imports, outcomes>>, sendBusy => sendBusy',
         \A h \in Handles : Given(h)' <=> Given(h),
         \A h \in Handles : Comes(h) => Comes(h)'
  PROVE  OneImport'
<1>1. \A h : Current(h)' <=> Current(h)
  BY DEF Current
<1>2. \A o \in Outcome : o.handle \in Handles
  BY DEF Outcome
<1> HIDE DEF Current, Comes, Preparing
<1>3. publication' # NoPublication => sendBusy' /\ publication'.handle \in Handles
  BY DEF OneImport
<1>4. early' # {} => Preparing'
  BY DEF OneImport
<1>5. \A e \in early' : e \in Strays \/ (Current(e.handle)' /\ imports' = <<>> /\ outcomes' = {})
  BY <1>1 DEF OneImport
<1>6. \/ imports' = <<>> /\ outcomes' = {}
      \/ \E h \in Handles : imports' = <<h>> /\ outcomes' = {} /\ Current(h)'
      \/ \E o \in Outcome : imports' = <<>> /\ outcomes' = {o} /\ Current(o.handle)'
  BY <1>1 DEF OneImport
<1>7. \A h \in Handles : Current(h)' => Comes(h)' \/ \E e \in early' : e.handle = h
  BY <1>1 DEF OneImport
<1> QED
  BY <1>3, <1>4, <1>5, <1>6, <1>7 DEF OneImport

(* Where there is no file of this session, nothing of one is left.         *)
LEMMA NoImport ==
  ASSUME OneImport, \A h \in Handles : ~Current(h)
  PROVE  imports = <<>> /\ outcomes = {} /\ early \subseteq Strays
BY DEF OneImport, Outcome, Current

(* The answer that the framework thread takes.                             *)
LEMMA AnswerHeard ==
  ASSUME ShareInv, HearPrepared, OnePreparer'
  PROVE  OneImport'
<1>a. ShareTypes /\ OnePreparer /\ OneImport
  BY DEF ShareInv
<1>1. /\ prepared # <<>> /\ prepared' = Tail(prepared)
      /\ UNCHANGED <<session, preparers, blobs, imports, outcomes, unheard>>
  BY DEF HearPrepared
<1>2. /\ 1 \in DOMAIN prepared /\ Head(prepared) = prepared[1] /\ prepared[1] \in Prepared
      /\ \A i \in DOMAIN prepared' : /\ i \in Int /\ i + 1 \in DOMAIN prepared /\ i + 1 # 1
                                     /\ prepared'[i] = prepared[i + 1]
      /\ \A i \in DOMAIN prepared : \/ i = 1
                                    \/ i - 1 \in DOMAIN prepared' /\ prepared'[i - 1] = prepared[i]
  BY <1>a, <1>1, QueueShrinks
<1>3. /\ \A v : OwnTask(v)' <=> OwnTask(v)
      /\ \A h : Comes(h)' <=> Comes(h)
      /\ \A i \in DOMAIN prepared' : OwnAnswer(i)' <=> OwnAnswer(i + 1)
      /\ \A i \in DOMAIN prepared : i = 1 \/ (OwnAnswer(i - 1)' <=> OwnAnswer(i))
  BY <1>1, <1>2 DEF OwnTask, OwnAnswer, Comes
<1>4. CASE ~OwnAnswer(1)
  <2>1. UNCHANGED <<sendBusy, publication, early>>
    BY <1>2, <1>4 DEF HearPrepared, OwnAnswer
  <2>2. \A h \in Handles : Given(h)' <=> Given(h)
    <3>1. ASSUME NEW h \in Handles, Given(h) PROVE Given(h)'
      BY <1>1, <1>2, <1>3, <1>4, <3>1 DEF Given
    <3>2. ASSUME NEW h \in Handles, Given(h)' PROVE Given(h)
      BY <1>1, <1>2, <1>3, <1>4, <3>2 DEF Given
    <3> QED
      BY <3>1, <3>2
  <2>3. Preparing' <=> Preparing
    BY <2>1 DEF Preparing
  <2> QED
    BY <1>a, <1>1, <1>3, <2>1, <2>2, <2>3, ImportStays
<1>5. CASE OwnAnswer(1)
  <2> DEFINE k == prepared[1].handle
             p == [handle |-> prepared[1].handle, to |-> prepared[1].to]
  <2>1. prepared[1].session = session /\ p.handle = k /\ k \in Handles \cup {NoHandle}
    BY <1>2, <1>5 DEF OwnAnswer, Prepared
  <2>2. /\ early' = {}
        /\ \/ k = NoHandle /\ sendBusy' = FALSE /\ publication' = publication
           \/ /\ k # NoHandle /\ sendBusy' = FALSE /\ publication' = NoPublication
              /\ \E e \in early : e.handle = k
           \/ /\ k # NoHandle /\ publication' = p /\ sendBusy' = sendBusy
              /\ \A e \in early : e.handle # k
    BY <1>2, <2>1 DEF HearPrepared, Published
  <2> HIDE DEF p, k
  <2>3. NoPublication.handle = NoHandle /\ NoHandle \notin Handles
    BY ShareBoundsAssumption DEF NoPublication, NoHandle, Handles
  <2>4. Preparing /\ publication = NoPublication /\ sendBusy
    BY <1>a, <1>2, <1>5 DEF OnePreparer, Preparing
  <2>5. \A h \in Handles : Current(h) => h = k
    BY <1>a, <1>2, <1>5, <2>3, <2>4 DEF Current, Given, OnePreparer, k
  <2>6. \A h \in Handles : ~Given(h)'
    <3>1. \A i \in DOMAIN prepared' : ~OwnAnswer(i)'
      BY <1>a, <1>2, <1>3, <1>5 DEF OnePreparer
    <3>2. \A t \in preparers' : ~OwnTask(t)'
      BY <1>a, <1>1, <1>2, <1>3, <1>5 DEF OnePreparer
    <3> QED
      BY <3>1, <3>2 DEF Given
  <2>7. k \in Handles => Current(k)
    BY <1>2, <1>5 DEF Current, Given, k
  <2>8. CASE k = NoHandle
    <3>1. \A h \in Handles : ~Current(h) /\ ~Current(h)'
      BY <2>2, <2>3, <2>4, <2>5, <2>6, <2>8 DEF Current
    <3>2. imports' = <<>> /\ outcomes' = {} /\ early' = {} /\ publication' = NoPublication
      BY <1>a, <1>1, <2>2, <2>4, <2>8, <3>1, NoImport
    <3> QED
      BY <3>1, <3>2 DEF OneImport
  <2>9. CASE publication' = NoPublication /\ \E e \in early : e.handle = k /\ k # NoHandle
    <3>1. \A h \in Handles : ~Current(h)'
      BY <2>3, <2>6, <2>9 DEF Current
    <3>2. k \in Handles
      BY <2>1, <2>9
    <3>3. \A e \in Strays : e.handle \notin Handles
      BY ShareBoundsAssumption DEF Strays, NoHandle, Handles
    <3>4. imports = <<>> /\ outcomes = {}
      BY <1>a, <2>9, <3>2, <3>3 DEF OneImport
    <3> QED
      BY <1>1, <2>2, <2>9, <3>1, <3>4 DEF OneImport
  <2>10. CASE k # NoHandle /\ publication' = p /\ sendBusy' = sendBusy /\ \A e \in early : e.handle # k
    <3>1. k \in Handles
      BY <2>1, <2>10
    <3>2. \A h \in Handles : Current(h)' <=> h = k
      BY <2>1, <2>6, <2>10, <3>1 DEF Current
    <3>3. \A h \in Handles : Current(h)' <=> Current(h)
      BY <2>5, <2>7, <3>2
    <3>4. Comes(k)
      BY <1>a, <2>7, <2>10, <3>1 DEF OneImport
    <3>5. \/ imports' = <<>> /\ outcomes' = {}
          \/ \E h \in Handles : imports' = <<h>> /\ outcomes' = {} /\ Current(h)'
          \/ \E o \in Outcome : imports' = <<>> /\ outcomes' = {o} /\ Current(o.handle)'
      <4>1. \A o \in Outcome : o.handle \in Handles
        BY DEF Outcome
      <4> HIDE DEF Current
      <4> QED
        BY <1>a, <1>1, <3>3, <4>1 DEF OneImport
    <3>6. publication'.handle \in Handles /\ sendBusy'
      BY <2>1, <2>4, <2>10, <3>1
    <3>7. \A h \in Handles : Current(h)' => Comes(h)'
      BY <1>3, <3>2, <3>4
    <3> QED
      BY <2>2, <3>5, <3>6, <3>7 DEF OneImport
  <2> QED
    BY <2>2, <2>4, <2>8, <2>9, <2>10
<1> QED
  BY <1>4, <1>5

(* The outcome that the framework thread polls.                            *)
LEMMA OutcomeHeard ==
  ASSUME ShareInv, PollStray \/ \E o \in outcomes : PollOutcome(o)
  PROVE  OneImport'
<1>a. ShareTypes /\ OnePreparer /\ OneImport
  BY DEF ShareInv
<1>b. /\ UNCHANGED <<session, blobs, imports, unheard, preparers, prepared>>
  BY DEF PollStray, PollOutcome, taskSide
<1>c. \A h : Given(h)' <=> Given(h)
  BY <1>b DEF Given, OwnTask, OwnAnswer
<1>d. NoPublication.handle = NoHandle /\ NoHandle \notin Handles /\ \A s \in 1 .. MaxStrays : NoHandle - s \notin Handles
  BY ShareBoundsAssumption DEF NoPublication, NoHandle, Handles
<1>1. CASE PollStray
  <2>1. PICK s \in 1 .. MaxStrays : PublicationResult(NoHandle - s, TRUE)
    BY <1>1 DEF PollStray
  <2>2. UNCHANGED outcomes
    BY <1>1 DEF PollStray
  <2>3. sendBusy => publication.handle # NoHandle - s \/ publication = NoPublication
    BY <1>a, <1>d DEF OneImport
  <2>4. /\ UNCHANGED <<sendBusy, publication>>
        /\ \/ UNCHANGED early
           \/ Preparing /\ early' = early \cup {[handle |-> NoHandle - s, ok |-> TRUE]}
    BY <2>1, <2>3 DEF PublicationResult, Preparing
  <2>5. [handle |-> NoHandle - s, ok |-> TRUE] \in Strays
    BY DEF Strays
  <2>6. \A h \in Handles : Current(h)' <=> Current(h)
    BY <1>c, <2>4 DEF Current
  <2>7. /\ \A h : Comes(h)' <=> Comes(h)
        /\ Preparing' <=> Preparing
    BY <1>b, <2>2, <2>4 DEF Comes, Preparing
  <2>8. \A e \in early' : e \in Strays \/ (Current(e.handle)' /\ imports' = <<>> /\ outcomes' = {})
    <3>1. \A e \in early : e \in Strays \/ (Current(e.handle)' /\ imports' = <<>> /\ outcomes' = {})
      BY <1>a, <1>b, <2>2, <2>6 DEF OneImport, Current
    <3> QED
      BY <2>4, <2>5, <3>1
  <2>9. \/ imports' = <<>> /\ outcomes' = {}
        \/ \E h \in Handles : imports' = <<h>> /\ outcomes' = {} /\ Current(h)'
        \/ \E o \in Outcome : imports' = <<>> /\ outcomes' = {o} /\ Current(o.handle)'
    <3>1. \A o \in Outcome : o.handle \in Handles
      BY DEF Outcome
    <3> QED
      BY <1>a, <1>b, <2>2, <2>6, <3>1 DEF OneImport
  <2>10. \A h \in Handles : Current(h)' => Comes(h)' \/ \E e \in early' : e.handle = h
    BY <1>a, <2>4, <2>6, <2>7 DEF OneImport
  <2>11. publication' # NoPublication => sendBusy' /\ publication'.handle \in Handles
    BY <1>a, <2>4 DEF OneImport
  <2>12. early' # {} => Preparing'
    BY <1>a, <2>4, <2>7 DEF OneImport
  <2> QED
    BY <2>8, <2>9, <2>10, <2>11, <2>12 DEF OneImport
<1>2. ASSUME NEW o \in outcomes, PollOutcome(o) PROVE OneImport'
  <2>1. o \in Outcome /\ imports = <<>> /\ outcomes = {o} /\ Current(o.handle) /\ o.handle \in Handles
    BY <1>a, <1>2 DEF OneImport, Current
  <2>2. outcomes' = {} /\ imports' = <<>> /\ PublicationResult(o.handle, o.ok)
    BY <1>2, <1>b, <2>1 DEF PollOutcome
  <2>3. \A h \in Handles : Current(h) => h = o.handle
    BY <1>a, <2>1, OneCurrent
  <2>4. CASE Preparing
    <3>1. publication = NoPublication /\ UNCHANGED <<sendBusy, publication>>
      BY <2>2, <2>4 DEF Preparing, PublicationResult
    <3>2. \A e \in early : e \in Strays /\ e.handle \notin Handles
      <4>1. \A e \in early : e \in Strays
        BY <1>a, <2>1 DEF OneImport
      <4> QED
        BY <1>d, <4>1 DEF Strays
    <3>3. \A e \in early : e.handle # o.handle
      BY <2>1, <3>2
    <3>4. Cardinality(early) < EarlyLimit
      BY <1>a, <2>1, <3>3, RoomForOutcome
    <3>5. early' = early \cup {[handle |-> o.handle, ok |-> o.ok]}
      BY <2>2, <2>4, <3>3, <3>4 DEF Preparing, PublicationResult
    <3>6. \A h \in Handles : Current(h)' <=> Current(h)
      BY <1>c, <3>1 DEF Current
    <3>7. Preparing'
      BY <2>4, <3>1 DEF Preparing
    <3>8. \A e \in early' : e \in Strays \/ (Current(e.handle)' /\ imports' = <<>> /\ outcomes' = {})
      BY <2>1, <2>2, <3>2, <3>5, <3>6
    <3>9. \A h \in Handles : Current(h)' => Comes(h)' \/ \E e \in early' : e.handle = h
      <4> DEFINE x == [handle |-> o.handle, ok |-> o.ok]
      <4>3. x.handle = o.handle /\ x \in early'
        BY <3>5
      <4>1. \E e \in early' : e.handle = o.handle
        BY <4>3
      <4> HIDE DEF Current
      <4>2. \A h \in Handles : Current(h)' => h = o.handle
        BY <2>3, <3>6
      <4> QED
        BY <4>1, <4>2
    <3> QED
      BY <2>2, <3>1, <3>7, <3>8, <3>9 DEF OneImport
  <2>5. CASE ~Preparing
    <3>1. \A h : ~Given(h)
      BY <1>a, <2>5 DEF Given, OnePreparer
    <3>2. publication.handle = o.handle /\ publication # NoPublication
      BY <1>d, <2>1, <3>1 DEF Current
    <3>3. sendBusy /\ early = {}
      BY <1>a, <2>5, <3>2 DEF OneImport
    <3>4. publication' = NoPublication /\ early' = {}
      BY <2>2, <3>2, <3>3 DEF PublicationResult, Published
    <3>5. \A h : ~Current(h)'
      BY <1>c, <1>d, <3>1, <3>4 DEF Current
    <3> QED
      BY <2>2, <3>4, <3>5 DEF OneImport
  <2> QED
    BY <2>4, <2>5
<1> QED
  BY <1>1, <1>2

LEMMA ImportInductive ==
  ASSUME ShareInv, [ShareNext]_shareVars, OnePreparer'
  PROVE  OneImport'
<1>a. ShareTypes /\ OnePreparer /\ OneImport
  BY DEF ShareInv
<1>1. ASSUME UNCHANGED <<session, sendBusy, publication, early, preparers, prepared, imports, outcomes>>,
             UNCHANGED <<blobs, unheard>>
      PROVE  OneImport'
  <2>1. \A h : Given(h)' <=> Given(h)
    BY <1>1 DEF Given, OwnTask, OwnAnswer
  <2>2. (\A h : Comes(h)' <=> Comes(h)) /\ (Preparing' <=> Preparing)
    BY <1>1 DEF Comes, Preparing
  <2> QED
    BY <1>1, <1>a, <2>1, <2>2, ImportStays
<1>2. CASE UNCHANGED shareVars
  BY <1>1, <1>2 DEF shareVars
<1>3. CASE PollStray \/ \E o \in outcomes : PollOutcome(o)
  BY <1>3, OutcomeHeard
<1>4. CASE HearPrepared
  BY <1>4, AnswerHeard
<1>5. CASE \/ DropFriend \/ (\E o \in outgoing : WithdrawFileOffer(o))
           \/ (\E r \in Channels : LeaveChannel(r) \/ RunnerLeaves(r))
           \/ (\E to \in Targets : Mute(to))
  BY <1>1, <1>5
     DEF DropFriend, WithdrawFileOffer, LeaveChannel, RunnerLeaves, Mute, taskSide, nodeSide,
         pluginSide
<1>6. CASE Restart
  <2>1. /\ sendBusy' = FALSE /\ publication' = NoPublication /\ early' = {}
        /\ imports' = <<>> /\ outcomes' = {}
    BY <1>6 DEF Restart
  <2>2. ~Preparing'
    BY <2>1 DEF Preparing
  <2>3. \A h : ~Given(h)'
    BY <2>2 DEF Given, OnePreparer
  <2>4. \A h : ~Current(h)'
    BY <2>1, <2>3, ShareBoundsAssumption DEF Current, NoPublication, NoHandle, Handles
  <2> QED
    BY <2>1, <2>4 DEF OneImport
<1>7. ASSUME NEW to \in Targets, NEW b \in Bytes, PrepareFileOffer(to, b) PROVE OneImport'
  <2> DEFINE u == [session |-> session, to |-> to, bytes |-> b, at |-> "reading", handle |-> NoHandle]
  <2>1. /\ ~sendBusy /\ sendBusy' = TRUE /\ preparers' = preparers \cup {u}
        /\ UNCHANGED <<session, publication, early, prepared, imports, outcomes, blobs, unheard>>
    BY <1>7 DEF PrepareFileOffer, nodeSide
  <2>2. u.handle \notin Handles
    BY ShareBoundsAssumption DEF NoHandle, Handles
  <2> HIDE DEF u
  <2>3. \A h \in Handles : Given(h)' <=> Given(h)
    BY <2>1, <2>2 DEF Given, OwnTask, OwnAnswer
  <2>4. (\A h : Comes(h)' <=> Comes(h)) /\ ~Preparing
    BY <2>1 DEF Comes, Preparing
  <2> QED
    BY <1>a, <2>1, <2>3, <2>4, ImportStays
<1>8. ASSUME NEW t \in preparers, TaskStep(t) PROVE OneImport'
  <2>1. UNCHANGED <<session, sendBusy, publication, early, outcomes, unheard>>
    BY <1>8 DEF TaskStep, ReadOffer, GiveUp, BlobAdd, TaskAnswers, pluginSide, nodeSide
  <2>2. Preparing' <=> Preparing
    BY <2>1 DEF Preparing
  <2>3. ASSUME NEW at \in {"calling", "out"}, TaskBecomes(t, [t EXCEPT !.at = at]),
               UNCHANGED <<prepared, imports, blobs>>
        PROVE  OneImport'
    <3> DEFINE u == [t EXCEPT !.at = at]
    <3>1. u.session = t.session /\ u.handle = t.handle
      BY <1>a, TaskIs DEF ShareTypes, Preparer
    <3>2. preparers' = (preparers \ {t}) \cup {u}
      BY <2>3 DEF TaskBecomes
    <3> HIDE DEF u
    <3>3. \A h : Given(h)' <=> Given(h)
      BY <2>1, <2>3, <3>1, <3>2 DEF Given, OwnTask, OwnAnswer
    <3>4. \A h : Comes(h)' <=> Comes(h)
      BY <2>1, <2>3 DEF Comes
    <3> QED
      BY <1>a, <2>1, <2>2, <2>3, <3>3, <3>4, ImportStays
  <2>4. ASSUME preparers' = preparers \ {t}, t.session # session, UNCHANGED <<prepared, imports, blobs>>
        PROVE  OneImport'
    <3>1. \A h : Given(h)' <=> Given(h)
      BY <2>1, <2>4 DEF Given, OwnTask, OwnAnswer
    <3>2. \A h : Comes(h)' <=> Comes(h)
      BY <2>1, <2>4 DEF Comes
    <3> QED
      BY <1>a, <2>1, <2>2, <2>4, <3>1, <3>2, ImportStays
  <2>5. CASE TaskAnswers(t)
    <3> DEFINE a == [session |-> t.session, to |-> t.to, handle |-> t.handle]
    <3>1. a \in Prepared /\ a.session = t.session /\ a.handle = t.handle
      BY <1>a DEF ShareTypes, Preparer, Prepared
    <3>2. prepared' = Append(prepared, a) /\ preparers' = preparers \ {t} /\ UNCHANGED <<imports, blobs>>
      BY <2>5 DEF TaskAnswers, nodeSide
    <3> HIDE DEF a
    <3>3. PICK n : /\ n \notin DOMAIN prepared /\ DOMAIN prepared' = DOMAIN prepared \cup {n}
                   /\ prepared'[n] = a /\ \A i \in DOMAIN prepared : prepared'[i] = prepared[i]
      BY <1>a, <3>1, <3>2, QueueGrows
    <3>4. \A h : Given(h)' <=> Given(h)
      <4>1. ASSUME NEW h, Given(h) PROVE Given(h)'
        BY <2>1, <3>1, <3>2, <3>3, <4>1 DEF Given, OwnTask, OwnAnswer
      <4>2. ASSUME NEW h, Given(h)' PROVE Given(h)
        BY <2>1, <3>1, <3>2, <3>3, <4>2 DEF Given, OwnTask, OwnAnswer
      <4> QED
        BY <4>1, <4>2
    <3>5. \A h : Comes(h)' <=> Comes(h)
      BY <2>1, <3>2 DEF Comes
    <3> QED
      BY <1>a, <2>1, <2>2, <3>2, <3>4, <3>5, ImportStays
  <2>6. ASSUME NEW k \in Handles, BlobAdd(t), imports' = Append(imports, k), UNCHANGED prepared,
               blobs' = [blobs EXCEPT ![k] = [is |-> "adding", bytes |-> t.bytes, to |-> t.to]],
               TaskBecomes(t, [t EXCEPT !.at = "out", !.handle = k])
        PROVE  OneImport'
    <3> DEFINE u == [t EXCEPT !.at = "out", !.handle = k]
    <3>1. u.session = t.session /\ u.handle = k
      BY <1>a, TaskIs
    <3>2. preparers' = (preparers \ {t}) \cup {u} /\ OwnTask(t)
      BY <2>6 DEF TaskBecomes, BlobAdd, OwnTask
    <3> HIDE DEF u
    <3>3. NoHandle \notin Handles /\ NoPublication.handle = NoHandle
      BY ShareBoundsAssumption DEF NoHandle, Handles, NoPublication
    <3>4. t.handle = NoHandle
      BY <1>a, <2>6 DEF OnePreparer, BlobAdd
    <3>5. Preparing /\ publication = NoPublication
      BY <1>a, <3>2 DEF OnePreparer, Preparing
    <3>6. \A h \in Handles : ~Given(h)
      BY <1>a, <3>2, <3>3, <3>4 DEF Given, OnePreparer
    <3>7. \A h \in Handles : ~Current(h)
      BY <3>3, <3>5, <3>6 DEF Current
    <3>8. imports = <<>> /\ outcomes = {} /\ early \subseteq Strays
      BY <1>a, <3>7, NoImport
    <3>9. \A h \in Handles : Given(h)' <=> h = k
      <4>1. Given(k)'
        BY <2>1, <3>1, <3>2 DEF Given, OwnTask
      <4>2. ASSUME NEW h \in Handles, Given(h)' PROVE h = k
        BY <2>1, <2>6, <3>1, <3>2, <3>6, <4>2 DEF Given, OwnTask, OwnAnswer
      <4> QED
        BY <4>1, <4>2
    <3>10. \A h \in Handles : Current(h)' <=> h = k
      BY <2>1, <3>3, <3>5, <3>9 DEF Current
    <3>11. Comes(k)'
      BY <1>a, <2>6 DEF Comes, ShareTypes
    <3>12. imports' = <<k>> /\ outcomes' = {} /\ early' \subseteq Strays /\ publication' = NoPublication
      BY <2>1, <2>6, <3>5, <3>8
    <3>13. /\ \E h \in Handles : imports' = <<h>> /\ outcomes' = {} /\ Current(h)'
           /\ \A h \in Handles : Current(h)' => Comes(h)'
      BY <3>10, <3>11, <3>12
    <3> QED
      BY <2>2, <3>5, <3>12, <3>13 DEF OneImport
  <2>7. CASE ReadOffer(t) \/ GiveUp(t)
    BY <2>3, <2>4, <2>7 DEF ReadOffer, GiveUp, nodeSide
  <2>8. CASE BlobAdd(t)
    BY <2>3, <2>6, <2>8 DEF BlobAdd
  <2> QED
    BY <1>8, <2>5, <2>7, <2>8 DEF TaskStep
<1>9. CASE FinishAdd
  <2>1. UNCHANGED <<session, sendBusy, publication, early, preparers, prepared>> /\ imports # <<>>
    BY <1>9 DEF FinishAdd, pluginSide, taskSide
  <2>2. PICK k \in Handles : imports = <<k>> /\ outcomes = {} /\ Current(k)
    BY <1>a, <2>1 DEF OneImport
  <2>3. \A h : Current(h)' <=> Current(h)
    BY <2>1 DEF Current, Given, OwnTask, OwnAnswer
  <2>4. \A h \in Handles : Current(h) => h = k
    BY <1>a, <2>2, OneCurrent
  <2>5. imports' = <<>> /\ Head(imports) = k
    BY <1>9, <2>2 DEF FinishAdd
  <2>6. \/ \E o \in Outcome : outcomes' = {o} /\ o.handle = k
        \/ outcomes' = {} /\ k \in unheard'
    <3>1. PICK ok \in BOOLEAN, kept \in BOOLEAN :
               /\ outcomes' = IF kept THEN outcomes \cup {[handle |-> k, ok |-> ok]} ELSE outcomes
               /\ unheard' = IF kept THEN unheard ELSE unheard \cup {k}
      BY <1>9, <2>5 DEF FinishAdd
    <3> DEFINE x == [handle |-> k, ok |-> ok]
    <3>2. x \in Outcome /\ x.handle = k
      BY DEF Outcome
    <3>3. outcomes' = IF kept THEN outcomes \cup {x} ELSE outcomes
      BY <3>1
    <3> HIDE DEF x
    <3> QED
      BY <2>2, <3>1, <3>2, <3>3
  <2>7. Preparing' <=> Preparing
    BY <2>1 DEF Preparing
  <2>8. early' \subseteq Strays
    BY <1>a, <2>1, <2>2 DEF OneImport
  <2>9. Comes(k)'
    BY <2>6 DEF Comes
  <2> HIDE DEF Current
  <2>10. \/ imports' = <<>> /\ outcomes' = {}
         \/ \E o \in Outcome : imports' = <<>> /\ outcomes' = {o} /\ Current(o.handle)'
    BY <2>2, <2>3, <2>5, <2>6
  <2>11. \A h \in Handles : Current(h)' => Comes(h)'
    BY <2>3, <2>4, <2>9
  <2>12. /\ publication' # NoPublication => sendBusy' /\ publication'.handle \in Handles
         /\ early' # {} => Preparing'
    BY <1>a, <2>1, <2>7 DEF OneImport
  <2> QED
    BY <2>8, <2>10, <2>11, <2>12 DEF OneImport
<1> QED
  BY <1>2, <1>3, <1>4, <1>5, <1>6, <1>7, <1>8, <1>9 DEF ShareNext, TaskStep

(* The plugin (LanternService.cs, PrepareFileOffer to its outcome) and the *)
(* node's blob_add: a file is prepared for a reason, and what is listed as *)
(* shared is what the node offers.  An outcome that comes before the       *)
(* handle, a restart and a failure at any step neither block the next file *)
(* nor list a wrong one.                                                   *)
THEOREM SharesAlwaysTrue == ShareSpec => []SharesTrue
<1>1. ShareInit => ShareInv
  BY ShareStarts
<1>2. ShareInv /\ [ShareNext]_shareVars => ShareInv'
  BY ShareTyped, ListedInductive, PreparerInductive, ImportInductive DEF ShareInv
<1>3. ShareInv => SharesTrue
  <2> SUFFICES ASSUME ShareInv PROVE SendBusyForReason
    BY DEF SharesTrue, ShareInv, Listed
  <2>1. OnePreparer /\ OneImport
    BY DEF ShareInv
  <2>2. CASE sendBusy /\ publication = NoPublication
    BY <2>1, <2>2 DEF OnePreparer, Preparing, OwnTask, OwnAnswer, SendBusyForReason
  <2>3. CASE sendBusy /\ publication # NoPublication
    <3>1. Current(publication.handle) /\ early = {}
      BY <2>1, <2>3 DEF OneImport, Current, Preparing
    <3>2. Comes(publication.handle)
      BY <2>1, <3>1 DEF OneImport, Current
    <3> QED
      BY <2>3, <3>2 DEF Comes, SendBusyForReason
  <2> QED
    BY <2>2, <2>3 DEF SendBusyForReason
<1> QED
  BY <1>1, <1>2, <1>3, PTL DEF ShareSpec

(* The limits of a session: files, early outcomes.  A file that is being   *)
(* prepared has a place already, which the answer takes.                   *)
Places ==
    /\ sealed \subseteq Channels /\ session \in 1..MaxSession /\ pal \in BOOLEAN
    /\ muted \subseteq Targets /\ openRooms \subseteq Channels
KeptEarly == IsFiniteSet(early) /\ Cardinality(early) <= EarlyLimit
Counted == shared \in 0..FileLimit /\ (Preparing => shared < FileLimit)
ShareLimits == Places /\ KeptEarly /\ Counted

LEMMA SharesTyped ==
  ASSUME ShareInv, ShareLimits
  PROVE  ShareTypeOK
<1>1. ShareTypes /\ OneImport /\ Places /\ KeptEarly /\ Counted
  BY DEF ShareInv, ShareLimits
<1>2. imports \in Seq(Handles) /\ outcomes \subseteq Outcome
  <2>1. \/ imports = <<>> /\ outcomes = {}
        \/ \E h \in Handles : imports = <<h>> /\ outcomes = {}
        \/ \E o \in Outcome : imports = <<>> /\ outcomes = {o}
    BY <1>1 DEF OneImport
  <2>2. <<>> \in Seq(Handles) /\ \A h \in Handles : <<h>> \in Seq(Handles)
    OBVIOUS
  <2> QED
    BY <2>1, <2>2
<1>3. \A h \in Handles : blobs[h].is \in {"none", "adding", "ready", "failed"}
  BY <1>1 DEF ShareTypes, Blob
<1>4. publication.handle \in Handles \cup {NoHandle} /\ publication.to \in Targets
  BY <1>1 DEF ShareTypes
<1>5. /\ sendBusy \in BOOLEAN /\ outgoing \subseteq [handle : Handles, to : Targets] /\ joined \subseteq Channels
  BY <1>1 DEF ShareTypes
<1> QED
  BY <1>1, <1>2, <1>3, <1>4, <1>5 DEF Places, KeptEarly, Counted, ShareTypeOK

LEMMA LimitsBegin ==
  ASSUME ShareInit
  PROVE  ShareLimits
<1>1. IsFiniteSet({}) /\ Cardinality({}) = 0
  BY FS_EmptySet
<1>2. Places
  BY ShareBoundsAssumption DEF ShareInit, Places
<1>3. KeptEarly /\ Counted
  BY <1>1, ShareBoundsAssumption DEF ShareInit, KeptEarly, Counted, Preparing
<1> QED
  BY <1>2, <1>3 DEF ShareLimits

LEMMA PlacesStep ==
  ASSUME ShareTypes, Places, [ShareNext]_shareVars
  PROVE  Places'
<1>0. joined \subseteq Channels
  BY DEF ShareTypes
<1>1. ASSUME NEW to \in Targets, (\E b \in Bytes : PrepareFileOffer(to, b)) \/ Mute(to) PROVE Places'
  <2>1. CASE Mute(to)
    BY <2>1 DEF Mute, Places, nodeSide
  <2>2. ASSUME NEW b \in Bytes, PrepareFileOffer(to, b) PROVE Places'
    BY <2>2 DEF PrepareFileOffer, Places, nodeSide
  <2> QED
    BY <1>1, <2>1, <2>2
<1>2. CASE HearPrepared
  BY <1>2 DEF HearPrepared, Places
<1>3. CASE PollStray \/ \E o \in outcomes : PollOutcome(o)
  BY <1>3 DEF PollStray, PollOutcome, Places
<1>4. CASE DropFriend
  BY <1>4 DEF DropFriend, Places, nodeSide
<1>5. CASE Restart
  <2>1. session' \in 1 .. MaxSession
    BY <1>5, ShareBoundsAssumption DEF Restart, Places
  <2> QED
    BY <1>0, <1>5, <2>1 DEF Restart, Places
<1>6. CASE FinishAdd
  BY <1>6 DEF FinishAdd, Places, pluginSide
<1>7. ASSUME NEW o \in outgoing, WithdrawFileOffer(o) PROVE Places'
  BY <1>7 DEF WithdrawFileOffer, Places
<1>8. ASSUME NEW r \in Channels, LeaveChannel(r) PROVE Places'
  BY <1>8 DEF LeaveChannel, Places, nodeSide
<1>9. ASSUME NEW r \in Channels, RunnerLeaves(r) PROVE Places'
  BY <1>9 DEF RunnerLeaves, Places, pluginSide
<1>10. ASSUME NEW t \in preparers, ReadOffer(t) \/ GiveUp(t) \/ BlobAdd(t) \/ TaskAnswers(t) PROVE Places'
  <2>1. UNCHANGED <<sealed, session, pal, muted, openRooms>>
    BY <1>10 DEF ReadOffer, GiveUp, BlobAdd, TaskAnswers, pluginSide, nodeSide
  <2> QED
    BY <2>1 DEF Places
<1>11. CASE UNCHANGED shareVars
  BY <1>11 DEF shareVars, Places
<1> QED
  BY <1>1, <1>2, <1>3, <1>4, <1>5, <1>6, <1>7, <1>8, <1>9, <1>10, <1>11 DEF ShareNext

LEMMA NoneEarly ==
  ASSUME early' = {}
  PROVE  KeptEarly'
BY FS_EmptySet, ShareBoundsAssumption DEF KeptEarly

(* An outcome is kept, or ends the publication it is about.                *)
LEMMA ResultLimits ==
  ASSUME KeptEarly, Counted, NEW h, NEW ok, PublicationResult(h, ok), UNCHANGED shared
  PROVE  KeptEarly' /\ Counted'
<1>1. IsFiniteSet(early) /\ Cardinality(early) \in Nat
  BY FS_CardinalityType DEF KeptEarly
<1>2. CASE sendBusy /\ publication = NoPublication
  <2> DEFINE e == [handle |-> h, ok |-> ok]
  <2>1. /\ \/ early' = early
           \/ Cardinality(early) < EarlyLimit /\ early' = early \cup {e}
        /\ UNCHANGED <<sendBusy, publication>>
    BY <1>2 DEF PublicationResult
  <2> HIDE DEF e
  <2>2. /\ IsFiniteSet(early \cup {e})
        /\ Cardinality(early \cup {e}) = IF e \in early THEN Cardinality(early) ELSE Cardinality(early) + 1
    BY <1>1, FS_AddElement
  <2>3. KeptEarly'
    BY <1>1, <2>1, <2>2, ShareBoundsAssumption DEF KeptEarly
  <2>4. Counted'
    BY <2>1 DEF Counted, Preparing
  <2> QED
    BY <2>3, <2>4
<1>3. CASE ~(sendBusy /\ publication = NoPublication)
  <2>1. UNCHANGED early /\ (sendBusy' = FALSE \/ UNCHANGED <<sendBusy, publication>>)
    BY <1>3 DEF PublicationResult, Published
  <2> QED
    BY <2>1 DEF KeptEarly, Counted, Preparing
<1> QED
  BY <1>2, <1>3

LEMMA AnswerLimits ==
  ASSUME ShareTypes, OnePreparer, KeptEarly, Counted, HearPrepared
  PROVE  KeptEarly' /\ Counted'
<1> DEFINE a == Head(prepared)
           p == [handle |-> a.handle, to |-> a.to]
<1>1. CASE a.session # session
  <2>1. UNCHANGED <<sendBusy, publication, early, shared>>
    BY <1>1 DEF HearPrepared
  <2> QED
    BY <2>1 DEF KeptEarly, Counted, Preparing
<1>2. CASE a.session = session
  <2>1. early' = {}
    BY <1>2 DEF HearPrepared
  <2>2. Preparing
    <3>1. prepared # <<>> /\ prepared \in Seq(Prepared)
      BY DEF HearPrepared, ShareTypes
    <3>2. 1 \in DOMAIN prepared /\ prepared[1] = a
      BY <3>1
    <3> QED
      BY <1>2, <3>2 DEF OnePreparer, OwnAnswer
  <2>3. shared < FileLimit /\ shared \in Nat
    BY <2>2 DEF Counted
  <2>4. ASSUME a.handle = NoHandle PROVE Counted'
    BY <1>2, <2>3, <2>4, ShareBoundsAssumption DEF HearPrepared, Counted, Preparing
  <2>5. ASSUME a.handle # NoHandle PROVE Counted'
    <3>1. shared' = shared + 1 /\ (sendBusy' = FALSE \/ publication' = p)
      BY <1>2, <2>5 DEF HearPrepared, Published
    <3>2. p # NoPublication
      BY <2>5 DEF NoPublication
    <3>3. ~Preparing'
      BY <3>1, <3>2 DEF Preparing
    <3>4. shared' \in 0 .. FileLimit
      BY <2>3, <3>1, ShareBoundsAssumption
    <3> QED
      BY <3>3, <3>4 DEF Counted
  <2> QED
    BY <2>1, <2>4, <2>5, NoneEarly
<1> QED
  BY <1>1, <1>2

LEMMA CountStep ==
  ASSUME ShareInv, ShareLimits, [ShareNext]_shareVars
  PROVE  KeptEarly' /\ Counted'
<1>a. ShareTypes /\ OnePreparer /\ KeptEarly /\ Counted
  BY DEF ShareInv, ShareLimits
<1>0. ASSUME UNCHANGED <<sendBusy, publication, early, shared>> PROVE KeptEarly' /\ Counted'
  BY <1>0, <1>a DEF KeptEarly, Counted, Preparing
<1>1. ASSUME NEW to \in Targets, NEW b \in Bytes, PrepareFileOffer(to, b) PROVE KeptEarly' /\ Counted'
  <2>1. shared < FileLimit /\ UNCHANGED <<early, shared>>
    BY <1>1 DEF PrepareFileOffer
  <2> QED
    BY <1>a, <2>1 DEF KeptEarly, Counted
<1>2. CASE HearPrepared
  BY <1>a, <1>2, AnswerLimits
<1>3. CASE PollStray
  <2>1. PICK s \in 1..MaxStrays : PublicationResult(NoHandle - s, TRUE)
    BY <1>3 DEF PollStray
  <2>2. UNCHANGED shared
    BY <1>3 DEF PollStray
  <2> QED
    BY <1>a, <2>1, <2>2, ResultLimits
<1>4. ASSUME NEW o \in outcomes, PollOutcome(o) PROVE KeptEarly' /\ Counted'
  <2>1. PublicationResult(o.handle, o.ok) /\ UNCHANGED shared
    BY <1>4 DEF PollOutcome
  <2> QED
    BY <1>a, <2>1, ResultLimits
<1>5. CASE Restart
  <2>1. early' = {} /\ shared' = 0 /\ sendBusy' = FALSE
    BY <1>5 DEF Restart
  <2> QED
    BY <2>1, NoneEarly, ShareBoundsAssumption DEF Counted, Preparing
<1>6. CASE DropFriend \/ FinishAdd \/ UNCHANGED shareVars
  BY <1>0, <1>6 DEF DropFriend, FinishAdd, shareVars, pluginSide
<1>7. ASSUME NEW to \in Targets, Mute(to) PROVE KeptEarly' /\ Counted'
  BY <1>0, <1>7 DEF Mute
<1>8. ASSUME NEW o \in outgoing, WithdrawFileOffer(o) PROVE KeptEarly' /\ Counted'
  BY <1>0, <1>8 DEF WithdrawFileOffer
<1>9. ASSUME NEW r \in Channels, LeaveChannel(r) \/ RunnerLeaves(r) PROVE KeptEarly' /\ Counted'
  BY <1>0, <1>9 DEF LeaveChannel, RunnerLeaves, pluginSide
<1>10. ASSUME NEW t \in preparers, ReadOffer(t) \/ GiveUp(t) \/ BlobAdd(t) \/ TaskAnswers(t)
       PROVE  KeptEarly' /\ Counted'
  BY <1>0, <1>10 DEF ReadOffer, GiveUp, BlobAdd, TaskAnswers, pluginSide
<1> QED
  BY <1>1, <1>2, <1>3, <1>4, <1>5, <1>6, <1>7, <1>8, <1>9, <1>10 DEF ShareNext

(* Files, early outcomes and sessions keep the limits of the service       *)
(* (sharedFileCount, earlyFilePublication), although a file is counted     *)
(* only when its handle comes.                                             *)
THEOREM ShareLimitsKept == ShareSpec => []ShareTypeOK
<1>1. ShareInit => ShareInv /\ ShareLimits
  BY ShareStarts, LimitsBegin
<1>2. ShareInv /\ [ShareNext]_shareVars => ShareInv'
  BY ShareTyped, ListedInductive, PreparerInductive, ImportInductive DEF ShareInv
<1>3. ShareInv /\ ShareLimits /\ [ShareNext]_shareVars => ShareLimits'
  BY PlacesStep, CountStep DEF ShareInv, ShareLimits
<1>4. ShareInv /\ ShareLimits => ShareTypeOK
  BY SharesTyped
<1> QED
  BY <1>1, <1>2, <1>3, <1>4, PTL DEF ShareSpec

-----------------------------------------------------------------------------
(* Friends' presence.  Frames are under way on a link only, so a friend is *)
(* heard over a link only.                                                 *)
HeardOverLink ==
    /\ online => linkUp /\ shown \in Visible
    /\ ~linkUp => inFlight = Nothing

LEMMA PresenceStarts ==
  ASSUME PresenceInit
  PROVE  PresenceTypeOK /\ HeardOverLink
<1>1. Nothing \in [Statuses -> 0..MaxFlight] /\ Never \in 0..Never
  BY PresenceBoundsAssumption DEF Nothing, Never
<1>2. status \in Statuses /\ shown \in Statuses /\ inFlight = Nothing /\ silent = Never
  BY DEF PresenceInit, Statuses
<1>3. /\ changes = 0 /\ broken = 0 /\ dropped = 0 /\ announcing = FALSE /\ linkUp = FALSE
      /\ online = FALSE
  BY DEF PresenceInit
<1>4. PresenceTypeOK
  <2>1. changes \in 0..MaxChanges /\ broken \in 0..MaxBreaks /\ dropped \in 0..MaxDrops
    BY <1>3, PresenceBoundsAssumption
  <2>2. announcing \in BOOLEAN /\ linkUp \in BOOLEAN /\ online \in BOOLEAN
    BY <1>3
  <2>3. inFlight \in [Statuses -> 0..MaxFlight] /\ silent \in 0..Never
    BY <1>1, <1>2
  <2> QED
    BY <1>2, <2>1, <2>2, <2>3 DEF PresenceTypeOK
<1> QED
  BY <1>2, <1>3, <1>4 DEF HeardOverLink

LEMMA SendsTyped ==
  ASSUME PresenceTypeOK, NEW s \in Statuses, Sends(s)
  PROVE  inFlight' \in [Statuses -> 0..MaxFlight]
<1>1. (IF inFlight[s] < MaxFlight THEN inFlight[s] + 1 ELSE inFlight[s]) \in 0..MaxFlight
  BY PresenceBoundsAssumption DEF PresenceTypeOK
<1> QED
  BY <1>1 DEF Sends, PresenceTypeOK

LEMMA OneFrameLess ==
  ASSUME PresenceTypeOK, NEW s \in Statuses, inFlight[s] > 0,
         inFlight' = [inFlight EXCEPT ![s] = @ - 1]
  PROVE  inFlight' \in [Statuses -> 0..MaxFlight] /\ inFlight # Nothing
<1>1. inFlight[s] - 1 \in 0..MaxFlight
  BY PresenceBoundsAssumption DEF PresenceTypeOK
<1>2. Nothing[s] = 0
  BY DEF Nothing
<1> QED
  BY <1>1, <1>2 DEF PresenceTypeOK

LEMMA PresenceStep ==
  ASSUME PresenceTypeOK, HeardOverLink, [PresenceNext]_presenceVars
  PROVE  PresenceTypeOK' /\ HeardOverLink'
<1>a. /\ status \in Statuses /\ shown \in Statuses
      /\ inFlight \in [Statuses -> 0..MaxFlight] /\ silent \in 0..Never
      /\ linkUp \in BOOLEAN /\ online \in BOOLEAN
  BY DEF PresenceTypeOK
<1>b. Never \in Nat /\ Never \in 0..Never /\ 0 \in 0..Never /\ Nothing \in [Statuses -> 0..MaxFlight]
  BY PresenceBoundsAssumption DEF Never, Nothing
<1>1. ASSUME NEW s \in Statuses, SetPresence(s) PROVE PresenceTypeOK' /\ HeardOverLink'
  <2>1. changes' \in 0..MaxChanges
    BY <1>1, PresenceBoundsAssumption DEF SetPresence, PresenceTypeOK
  <2> QED
    BY <1>1, <2>1 DEF SetPresence, PresenceTypeOK, HeardOverLink, linkVars, listVars
<1>2. CASE Announce
  <2>1. /\ UNCHANGED <<status, changes, linkUp, broken, dropped, online, shown, silent>>
        /\ announcing' = FALSE
        /\ IF linkUp THEN Sends(status) ELSE UNCHANGED inFlight
    BY <1>2 DEF Announce, listVars
  <2>2. inFlight' \in [Statuses -> 0..MaxFlight]
    BY <1>a, <2>1, SendsTyped
  <2>3. PresenceTypeOK'
    BY <2>1, <2>2 DEF PresenceTypeOK
  <2>4. HeardOverLink'
    BY <2>1 DEF HeardOverLink
  <2> QED
    BY <2>3, <2>4
<1>3. CASE Beat
  <2>1. linkUp /\ Sends(status) /\ UNCHANGED <<status, changes, announcing, linkUp, broken, dropped, online, shown, silent>>
    BY <1>3 DEF Beat, listVars, friendVars
  <2>2. inFlight' \in [Statuses -> 0..MaxFlight]
    BY <1>a, <2>1, SendsTyped
  <2>3. PresenceTypeOK'
    BY <2>1, <2>2 DEF PresenceTypeOK
  <2>4. HeardOverLink'
    BY <2>1 DEF HeardOverLink
  <2> QED
    BY <2>3, <2>4
<1>4. CASE LinkUp
  <2>1. /\ linkUp' = TRUE /\ inFlight' = [Nothing EXCEPT ![status] = 1]
        /\ ~linkUp /\ UNCHANGED <<status, changes, announcing, broken, dropped, online, shown, silent>>
    BY <1>4 DEF LinkUp, listVars, friendVars
  <2>2. inFlight' \in [Statuses -> 0..MaxFlight]
    <3>1. 1 \in 0..MaxFlight
      BY PresenceBoundsAssumption
    <3> QED
      BY <1>a, <1>b, <2>1, <3>1
  <2>3. PresenceTypeOK'
    BY <2>1, <2>2 DEF PresenceTypeOK
  <2>4. HeardOverLink'
    BY <2>1 DEF HeardOverLink
  <2> QED
    BY <2>3, <2>4
<1>5. ASSUME NEW s \in Statuses, HearFrame(s) PROVE PresenceTypeOK' /\ HeardOverLink'
  <2>1. inFlight' \in [Statuses -> 0..MaxFlight] /\ linkUp
    BY <1>5, OneFrameLess DEF HearFrame, HeardOverLink
  <2>2. /\ online' \in BOOLEAN /\ shown' = s /\ silent' \in {0, Never} /\ (online' => s # Invisible)
        /\ UNCHANGED <<status, changes, announcing, linkUp, broken, dropped>>
    BY <1>5 DEF HearFrame, Heard, friendVars
  <2>3. PresenceTypeOK'
    BY <1>b, <2>1, <2>2 DEF PresenceTypeOK
  <2>4. HeardOverLink'
    BY <2>1, <2>2 DEF HeardOverLink, Statuses
  <2> QED
    BY <2>3, <2>4
<1>6. ASSUME NEW s \in Statuses, LimiterDrops(s) PROVE PresenceTypeOK' /\ HeardOverLink'
  <2>1. inFlight' \in [Statuses -> 0..MaxFlight] /\ linkUp
    BY <1>6, OneFrameLess DEF LimiterDrops, HeardOverLink
  <2>2. dropped' \in 0..MaxDrops
    BY <1>6, PresenceBoundsAssumption DEF LimiterDrops, PresenceTypeOK
  <2> QED
    BY <1>6, <2>1, <2>2 DEF LimiterDrops, PresenceTypeOK, HeardOverLink, friendVars, listVars
<1>7. CASE WatchSilence
  <2>1. silent' \in 0..Never
    BY <1>7, <1>a, <1>b DEF WatchSilence
  <2>2. online' \in BOOLEAN /\ (online' => online)
    BY <1>7, Zenon DEF WatchSilence
  <2>3. UNCHANGED <<status, changes, announcing, linkUp, broken, inFlight, dropped, shown>>
    BY <1>7 DEF WatchSilence, friendVars, linkVars
  <2> QED
    BY <2>1, <2>2, <2>3 DEF PresenceTypeOK, HeardOverLink
<1>8. CASE LinkBreaks
  <2>1. broken' \in 0..MaxBreaks
    BY <1>8, PresenceBoundsAssumption DEF LinkBreaks, PresenceTypeOK
  <2>2. /\ linkUp' = FALSE /\ inFlight' = Nothing /\ online' = FALSE /\ silent' = Never
        /\ UNCHANGED <<status, changes, announcing, dropped, shown>>
    BY <1>8 DEF LinkBreaks, friendVars
  <2> QED
    BY <1>b, <2>1, <2>2 DEF PresenceTypeOK, HeardOverLink
<1>9. CASE UNCHANGED presenceVars
  BY <1>9 DEF presenceVars, PresenceTypeOK, HeardOverLink
<1> QED
  BY <1>1, <1>2, <1>3, <1>4, <1>5, <1>6, <1>7, <1>8, <1>9 DEF PresenceNext

(* The status of a friend is one there is, silence is counted no further   *)
(* than it matters...                                                      *)
THEOREM PresenceTyped == PresenceSpec => []PresenceTypeOK
BY PresenceStarts, PresenceStep, PTL DEF PresenceSpec

(* ...and, however its frames are dropped and reordered, it is shown       *)
(* online with a visible status only, and while there is a link only: what *)
(* was under way on a link that broke (set_offline) is not heard later.    *)
THEOREM OnlineOverLink == PresenceSpec => []HeardOverLink
BY PresenceStarts, PresenceStep, PTL DEF PresenceSpec

-----------------------------------------------------------------------------
(* The service, its tasks, its queue and its nodes keep their types.       *)
THEOREM PluginTypes == PluginSpec => []PluginTypeOK
<1>1. PluginInv => PluginTypeOK
  BY DEF PluginInv
<1> QED
  BY <1>1, PluginInvStarts, PluginInvStep, PTL DEF PluginSpec

(* The parts side by side: what one does is a step of it, and the others   *)
(* stand still.                                                            *)
THEOREM EventuallyParts ==
    EventuallySpec => /\ Spec /\ PresenceSpec /\ PluginSpec /\ LimiterSpec
                      /\ ShareSpec /\ CallsSpec /\ CallSpec
<1>1. EventuallyInit => /\ Init /\ PresenceInit /\ PluginInit /\ LimiterInit
                        /\ ShareInit /\ CallsInit /\ CallInit
  BY DEF EventuallyInit
<1>2. ASSUME [EventuallyNext]_<<part, vars, presenceVars, pluginVars, limiterVars, shareVars, signalVars, callVars>>
      PROVE  /\ [Next]_vars /\ [PresenceNext]_presenceVars /\ [PluginNext]_pluginVars
             /\ [LimiterNext]_limiterVars /\ [ShareNext]_shareVars /\ [CallsNext]_signalVars
             /\ [CallNext]_callVars
  <2>1. CASE UNCHANGED <<part, vars, presenceVars, pluginVars, limiterVars, shareVars, signalVars, callVars>>
    BY <2>1
  <2>2. CASE EventuallyNext
    BY <2>2 DEF EventuallyNext, OthersRest
  <2> QED
    BY <1>2, <2>1, <2>2
<1> QED
  BY <1>1, <1>2, PTL
     DEF EventuallySpec, Spec, PresenceSpec, PluginSpec, LimiterSpec, ShareSpec, CallsSpec, CallSpec

(* Whichever part moves, its variables keep their types and limits...      *)
THEOREM EventuallyTypes == EventuallySpec => []EventuallyTypeOK
<1>1. /\ TypeOK /\ PresenceTypeOK /\ PluginTypeOK /\ LimiterTypeOK
      /\ ShareTypeOK /\ CallsTypeOK /\ CallTypeOK
      => EventuallyTypeOK
  BY DEF EventuallyTypeOK
<1> QED
  BY <1>1, EventuallyParts, DeliverySafe, PresenceTyped, PluginTypes, LimiterTyped,
     ShareLimitsKept, CallTypes, BindingTyped, PTL

(* ...and all that is promised of the states of the parts holds of them    *)
(* side by side; what they get to in the end is left to the runs.          *)
THEOREM EventuallyKeepsPromises ==
    EventuallySpec => [](/\ WorkersHeeded /\ WaitsForReason /\ SharesTrue
                         /\ CallsEnd /\ BindingTrue /\ FloodBounded)
BY EventuallyParts, WorkersAlwaysHeeded, BlockedForReason, SharesAlwaysTrue, CallsAlwaysEnd,
   BindingIsTrue, FloodsBounded, PTL
=============================================================================
