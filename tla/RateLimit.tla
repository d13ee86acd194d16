----------------------------- MODULE RateLimit ------------------------------
(***************************************************************************)
(* One token bucket of the server (httpapi/middleware.go, tokenBucket).    *)
(*                                                                         *)
(* The server has three: one for all of the API, one more for uploads and  *)
(* one for images.  A request takes a token or is refused with the number  *)
(* of seconds to wait.  The bucket refills while nobody looks: the tokens  *)
(* are brought up to date when a request comes.                            *)
(*                                                                         *)
(* Tokens and time are counted in parts, so that a token is Cost parts and *)
(* Refill of them arrive in a tick; the code holds both in float64.        *)
(***************************************************************************)
EXTENDS Integers, Absent

CONSTANTS
    Caller,     \* clients
    Full,       \* max: the burst
    Cost,       \* one token
    Refill,     \* parts that arrive in a tick
    Second,     \* ticks in a second, the unit of Retry-After
    LastTick    \* bound on the clock

ASSUME RateLimitAssumption ==
    /\ Cost \in Nat \ {0}
    /\ Full \in Nat
    /\ Cost <= Full
    /\ Refill \in Nat \ {0}
    /\ Second \in Nat \ {0}
    /\ LastTick \in Nat
    /\ None \notin Nat

VARIABLES
    tokens,     \* b.tokens
    filled,     \* b.last: when tokens was brought up to date
    clock,      \* time.Now
    advice,     \* when each caller was told to come back, or None
    window      \* history: an interval of time, and what passed in it

rateVars == <<tokens, filled, clock, advice, window>>

RateTypeOK ==
    /\ tokens \in 0..Full
    /\ filled \in Nat
    /\ clock \in Nat
    /\ filled <= clock
    /\ advice \in [Caller -> Nat \cup {None}]
    /\ window \in [since : Nat, passed : Nat]
    /\ window.since <= clock

RateInit ==
    /\ tokens = Full
    /\ filled = 0
    /\ clock = 0
    /\ advice = [c \in Caller |-> None]
    /\ window = [since |-> 0, passed |-> 0]

-----------------------------------------------------------------------------

\* Mutated form of Level: the bucket overflows.
LevelUncut == tokens + (clock - filled) * Refill

\* What the bucket holds now: never more than the burst.
Level ==
    IF tokens + (clock - filled) * Refill < Full
    THEN tokens + (clock - filled) * Refill ELSE Full

\* Mutated form of Wait: rounded down.
WaitRoundedDown == (Cost - Level) \div (Refill * Second)

\* The advised wait in seconds: rounded down, and one more.
Wait == (Cost - Level) \div (Refill * Second) + 1

\* take succeeds.  The advice others hold was given before this token went.
Pass(c) ==
    /\ Level >= Cost
    /\ tokens' = Level - Cost
    /\ filled' = clock
    /\ advice' = [d \in Caller |-> None]
    /\ window' = [window EXCEPT !.passed = @ + 1]
    /\ UNCHANGED clock

\* 429 with Retry-After.
Refuse(c) ==
    /\ Level < Cost
    /\ tokens' = Level
    /\ filled' = clock
    /\ advice' = [advice EXCEPT ![c] = clock + Wait * Second]
    /\ UNCHANGED <<clock, window>>

RateTick ==
    /\ clock < LastTick
    /\ clock' = clock + 1
    /\ UNCHANGED <<tokens, filled, advice, window>>

\* The interval that is watched may begin at any time.
WatchFromNow ==
    /\ window' = [since |-> clock, passed |-> 0]
    /\ UNCHANGED <<tokens, filled, clock, advice>>

RateNext ==
    \/ \E c \in Caller : Pass(c) \/ Refuse(c)
    \/ RateTick
    \/ WatchFromNow

RateSpec == RateInit /\ [][RateNext]_rateVars

-----------------------------------------------------------------------------
(* What the limit promises *)

\* Whatever the callers do, no interval sees more requests than the burst and
\* what is refilled in it, however long the bucket was left alone before
\* (middleware.go:90-96).
WindowBound ==
    window.passed * Cost <= Full + (clock - window.since) * Refill

\* A caller that waits as told finds a token, if nobody else took one since:
\* the advice is never a second short, and refusals of others do not spoil it
\* (middleware.go:98).  The importer counts on it (importer/client.go:336).
AdviceSuffices ==
    \A c \in Caller :
        (advice[c] # None /\ advice[c] <= clock) => Level >= Cost
=============================================================================
