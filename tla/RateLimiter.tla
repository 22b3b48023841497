----------------------------- MODULE RateLimiter -----------------------------
(***************************************************************************)
(* How many frames of a peer a node handles (Limiter and Limits in         *)
(* ratelimit.rs, Shared::allow in node.rs).                                *)
(*                                                                         *)
(* A peer has a bucket of tokens that refills with time; a frame takes one *)
(* token, or is dropped.  The table of buckets is bounded: full ones are   *)
(* forgotten first, and if there are none, any.  Tasks of many rooms and   *)
(* links ask at once, and each reads the clock BEFORE it gets the lock, so *)
(* that a bucket may be set back to an earlier moment than it was at.      *)
(*                                                                         *)
(* Tokens and time are whole numbers of small parts; the code has f64 and  *)
(* Instant.  A node has three limiters, alike, and one table of notices:   *)
(* here is one limiter with that table.                                    *)
(***************************************************************************)
EXTENDS Integers, FiniteSets

CONSTANTS
    LimitedPeers,  \* peers that send frames
    Callers,       \* tasks that handle frames
    NoCall,        \* no frame at hand
    Token,         \* parts in a token
    Rate,          \* Limiter::rate: parts for a unit of time
    Burst,         \* Limiter::burst, in parts
    MaxTracked,    \* MAX_TRACKED
    NoticeEvery,   \* NOTICE_EVERY
    MaxDelay,      \* bound: how long a task holds a reading of the clock
    MaxClock,      \* bound on the clock
    MaxFrames      \* bound on the frames of a peer that are let through

ASSUME NoCallAssumption == NoCall \notin [peer : LimitedPeers, now : Nat]
ASSUME LimitsAssumption ==
    /\ IsFiniteSet(LimitedPeers)
    /\ Token \in Nat \ {0} /\ Rate \in Nat \ {0}
    /\ Burst \in Nat /\ Burst >= Token
    /\ MaxTracked \in Nat \ {0}
    /\ NoticeEvery \in Nat /\ MaxDelay \in Nat
    /\ MaxClock \in Nat /\ MaxFrames \in Nat

VARIABLES
    clock,     \* Instant::now()
    call,      \* the frame a task asks about, with its reading of the clock
    tracked,   \* keys of Limiter::buckets
    tokens,    \* Bucket::tokens of the peers tracked
    last,      \* Bucket::last of the peers tracked
    warned,    \* Limits::warned: peers with a notice...
    warnedAt,  \* ...and when that was
    from,      \* history: the moment since which the next are counted, any moment
    accepted,  \* history: parts taken for frames of a peer
    credited,  \* history: the moment up to which a peer was given tokens
    regained,  \* history: time a peer was given tokens for once more
    evicted,   \* history: how often a peer was forgotten before its bucket was full
    noticed    \* history: when the last notice about a peer was (-1: none)

limiterVars == <<clock, call, tracked, tokens, last, warned, warnedAt,
                 from, accepted, credited, regained, evicted, noticed>>

LimiterInit ==
    /\ clock = 0
    /\ call = [c \in Callers |-> NoCall]
    /\ tracked = {}
    /\ tokens = [p \in LimitedPeers |-> 0] /\ last = [p \in LimitedPeers |-> 0]
    /\ warned = {} /\ warnedAt = [p \in LimitedPeers |-> 0]
    /\ from = 0
    /\ accepted = [p \in LimitedPeers |-> 0]
    /\ credited = [p \in LimitedPeers |-> 0]
    /\ regained = [p \in LimitedPeers |-> 0]
    /\ evicted = [p \in LimitedPeers |-> 0]
    /\ noticed = [p \in LimitedPeers |-> -1]

-----------------------------------------------------------------------------
(* Instant::saturating_duration_since.                                     *)
Since(now, then) == IF now > then THEN now - then ELSE 0

Least(a, b) == IF a < b THEN a ELSE b

(* Mutation: what a bucket holds is not capped.                            *)
RefilledForEver(p, now) == tokens[p] + Since(now, last[p]) * Rate

(* The tokens of a peer that is tracked, at this reading of the clock.     *)
Refilled(p, now) == Least(Burst, tokens[p] + Since(now, last[p]) * Rate)

(* Limiter::forget_full: full buckets go; if there are none, any one does. *)
ForgetFull(now) ==
    LET busy == {p \in tracked : Refilled(p, now) < Burst}
    IN  IF Cardinality(busy) >= MaxTracked THEN {busy \ {p} : p \in busy} ELSE {busy}

(* Limiter::allow, before it looks at the bucket: whom the table may keep. *)
Keeps(p, now) ==
    IF Cardinality(tracked) >= MaxTracked /\ p \notin tracked THEN ForgetFull(now) ELSE {tracked}

(* Limiter::allow: what is in the bucket of the peer, a new one is full.   *)
Available(p, now) == IF p \in tracked THEN Refilled(p, now) ELSE Burst

(* Limiter::allow: the bucket of the peer after it, with this many tokens, *)
(* and what that means for the history of everybody.                       *)
Bucket(p, now, kept, left) ==
    /\ tracked' = kept \cup {p}
    /\ tokens' = [tokens EXCEPT ![p] = left]
    /\ last' = [last EXCEPT ![p] = now]
    /\ evicted' = [q \in LimitedPeers |->
            IF q \in tracked \ kept /\ Refilled(q, now) < Burst THEN evicted[q] + 1 ELSE evicted[q]]
    /\ credited' = [q \in LimitedPeers |->
            IF q = p THEN now
            ELSE IF q \in tracked \ kept /\ now > credited[q] THEN now ELSE credited[q]]
    /\ regained' = [regained EXCEPT ![p] = @ + Since(credited[p], now)]

(* Mutation: old notices are kept, and those of the moment are dropped.    *)
StillRecent(now) ==
    IF Cardinality(warned) >= MaxTracked
    THEN {q \in warned : Since(now, warnedAt[q]) >= NoticeEvery} ELSE warned

(* Limits::should_warn: which notices are remembered.                      *)
Recent(now) ==
    IF Cardinality(warned) >= MaxTracked
    THEN {q \in warned : Since(now, warnedAt[q]) < NoticeEvery} ELSE warned

(* Limits::should_warn: is a notice about the peer due?                    *)
Due(p, now) == p \notin Recent(now) \/ Since(now, warnedAt[p]) >= NoticeEvery

-----------------------------------------------------------------------------
(* Time passes; no task holds its reading longer than it may.              *)
Tick ==
    /\ clock < MaxClock
    /\ \A c \in Callers : call[c] # NoCall => clock < call[c].now + MaxDelay
    /\ clock' = clock + 1
    /\ UNCHANGED <<call, tracked, tokens, last, warned, warnedAt,
                   from, accepted, credited, regained, evicted, noticed>>

(* Shared::allow: a task has a frame of the peer, and reads the clock...   *)
Ask(c, p) ==
    /\ call[c] = NoCall
    /\ accepted[p] < Token * MaxFrames
    /\ call' = [call EXCEPT ![c] = [peer |-> p, now |-> clock]]
    /\ UNCHANGED <<clock, tracked, tokens, last, warned, warnedAt,
                   from, accepted, credited, regained, evicted, noticed>>

(* ...it gets the lock, and a token...                                     *)
Allow(c) ==
    /\ call[c] # NoCall
    /\ LET p == call[c].peer  now == call[c].now IN
       /\ Available(p, now) >= Token
       /\ \E kept \in Keeps(p, now) : Bucket(p, now, kept, Available(p, now) - Token)
       /\ accepted' = [accepted EXCEPT ![p] = @ + Token]
    /\ call' = [call EXCEPT ![c] = NoCall]
    /\ UNCHANGED <<clock, from, warned, warnedAt, noticed>>

(* ...or none, and the frame is dropped...                                 *)
Refuse(p, now) ==
    /\ Available(p, now) < Token
    /\ \E kept \in Keeps(p, now) : Bucket(p, now, kept, Available(p, now))
    /\ UNCHANGED <<clock, from, accepted>>

(* ...with a notice...                                                     *)
RefuseWarn(c) ==
    /\ call[c] # NoCall
    /\ LET p == call[c].peer  now == call[c].now IN
       /\ Refuse(p, now)
       /\ Due(p, now)
       /\ warned' = Recent(now) \cup {p}
       /\ warnedAt' = [warnedAt EXCEPT ![p] = now]
       /\ noticed' = [noticed EXCEPT ![p] = now]
    /\ call' = [call EXCEPT ![c] = NoCall]

(* ...or without one, for there was one lately.                            *)
RefuseQuiet(c) ==
    /\ call[c] # NoCall
    /\ LET p == call[c].peer  now == call[c].now IN
       /\ Refuse(p, now)
       /\ ~Due(p, now)
       /\ warned' = Recent(now)
    /\ call' = [call EXCEPT ![c] = NoCall]
    /\ UNCHANGED <<warnedAt, noticed>>

(* History: from now on is counted, whatever the buckets hold.             *)
CountFromNow ==
    /\ clock # from
    /\ from' = clock
    /\ accepted' = [p \in LimitedPeers |-> 0]
    /\ regained' = [p \in LimitedPeers |-> 0]
    /\ evicted' = [p \in LimitedPeers |-> 0]
    /\ UNCHANGED <<clock, call, tracked, tokens, last, warned, warnedAt, credited, noticed>>

LimiterNext ==
    \/ Tick
    \/ CountFromNow
    \/ \E c \in Callers : (\E p \in LimitedPeers : Ask(c, p)) \/ Allow(c) \/ RefuseWarn(c) \/ RefuseQuiet(c)

LimiterSpec == LimiterInit /\ [][LimiterNext]_limiterVars

-----------------------------------------------------------------------------
Calls == [peer : LimitedPeers, now : Nat] \cup {NoCall}

(* The variables have their types, the table of buckets stays within its   *)
(* limit, and no bucket holds more than the burst or is ahead of the clock.*)
LimiterTypeOK ==
    /\ clock \in Nat
    /\ call \in [Callers -> Calls]
    /\ \A c \in Callers : call[c] # NoCall => call[c].now <= clock /\ clock <= call[c].now + MaxDelay
    /\ tracked \subseteq LimitedPeers /\ Cardinality(tracked) <= MaxTracked
    /\ tokens \in [LimitedPeers -> 0 .. Burst] /\ last \in [LimitedPeers -> Nat]
    /\ warned \subseteq LimitedPeers /\ warnedAt \in [LimitedPeers -> Nat]
    /\ from \in 0 .. clock /\ accepted \in [LimitedPeers -> Nat]
    /\ credited \in [LimitedPeers -> Nat] /\ \A p \in LimitedPeers : credited[p] <= clock
    /\ regained \in [LimitedPeers -> Nat] /\ evicted \in [LimitedPeers -> Nat]
    /\ noticed \in [LimitedPeers -> Nat \cup {-1}]

(* From any moment on, a flood gets no more through than a burst, what the *)
(* rate gives for the time since then, and a burst for each time the full  *)
(* table forgot the peer; to be forgotten with a full bucket gains nothing *)
(* (ratelimit.rs:32 "they would start full again anyway").  A reading of   *)
(* the clock that is older than the bucket gives the time between them once*)
(* more, one older than the moment MaxDelay, and nothing beyond that.      *)
FloodBounded ==
    \A p \in LimitedPeers :
        accepted[p] <= Burst * (1 + evicted[p]) + Rate * (clock - from + MaxDelay + regained[p])

(* Two notices about a peer are NOTICE_EVERY apart, but for the time tasks *)
(* hold their readings of the clock: not even a full table of notices that *)
(* was cleaned up in between makes one come early.                         *)
NoticesApart ==
    [][\A p \in LimitedPeers :
            noticed[p] # -1 /\ noticed'[p] # noticed[p] => noticed'[p] + MaxDelay >= noticed[p] + NoticeEvery]_limiterVars
=============================================================================
