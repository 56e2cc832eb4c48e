-------------------------------- MODULE RateLimit -------------------------------
(***************************************************************************)
(* RateLimitGuard for one client of one handler: INCR, EXPIRE when the     *)
(* count is 1, and TTL for the message of a refusal are three commands to  *)
(* Redis with an await between them.  The decorator that sets a limit      *)
(* (OTPGuard of AuthController) is on no route at present; the guard is    *)
(* modelled as it would run behind it.                                     *)
(***************************************************************************)
EXTENDS Naturals

CONSTANTS Callers,       \* requests of the client in flight at the same time
          Limit,         \* rateLimit.limit
          Ttl,           \* rateLimit.ttl in ticks
          Most           \* bound: the count stops there, above the limit

\* What is assumed of them (by Services).
RateConstants == Limit \in Nat \ {0} /\ Ttl \in Nat \ {0} /\ Most > Limit

VARIABLES count,         \* the counter in Redis, 0 where there is no key
          left,          \* ticks until Redis drops it, or Forever
          guard,         \* [Callers -> "idle", "expire" or "refuse"]
          abandoned      \* history: has a request or process ended before its EXPIRE?

limitVars == <<count, left, guard, abandoned>>

Forever == 0

Init == /\ count = 0 /\ left = Forever
        /\ guard = [c \in Callers |-> "idle"]
        /\ abandoned = FALSE

\* INCR makes a key that is not there, without a lifetime.
Incr_Sliding(c) ==
    /\ guard[c] = "idle"
    /\ count' = IF count < Most THEN count + 1 ELSE Most
    /\ guard' = [guard EXCEPT ![c] = IF count' > Limit THEN "refuse" ELSE "idle"]
    /\ left' = Ttl
    /\ UNCHANGED abandoned

Incr(c) ==
    /\ guard[c] = "idle"
    /\ count' = IF count < Most THEN count + 1 ELSE Most
    /\ guard' = [guard EXCEPT ![c] = IF count' = 1 THEN "expire"
                                     ELSE IF count' > Limit THEN "refuse" ELSE "idle"]
    /\ UNCHANGED <<left, abandoned>>

\* EXPIRE, and the first request of a period passes.
Expire(c) ==
    /\ guard[c] = "expire"
    /\ left' = Ttl
    /\ guard' = [guard EXCEPT ![c] = "idle"]
    /\ UNCHANGED <<count, abandoned>>

\* TTL, and the refusal with 429; the key may be gone by now.
Refuse(c) ==
    /\ guard[c] = "refuse"
    /\ guard' = [guard EXCEPT ![c] = "idle"]
    /\ UNCHANGED <<count, left, abandoned>>

\* Redis fails a command, or the process dies between two of them.
Abandon(S) ==
    /\ \E c \in S : guard[c] # "idle"
    /\ guard' = [c \in Callers |-> IF c \in S THEN "idle" ELSE guard[c]]
    /\ abandoned' = (abandoned \/ \E c \in S : guard[c] = "expire")
    /\ UNCHANGED <<count, left>>

Tick ==
    /\ left # Forever
    /\ left' = left - 1
    /\ count' = IF left' = 0 THEN 0 ELSE count
    /\ UNCHANGED <<guard, abandoned>>

Next == \/ \E c \in Callers : Incr(c) \/ Expire(c) \/ Refuse(c) \/ Abandon({c})
        \/ Abandon(Callers)
        \/ Tick

\* The await of EXPIRE settles, and time passes.
Fairness == (\A c \in Callers : WF_limitVars(Expire(c))) /\ WF_limitVars(Tick)

-----------------------------------------------------------------------------

\* A client over the limit is let in again some time, unless a counter was left
\* without its lifetime by a request that ended between INCR and EXPIRE.
RefusalsEnd == count > Limit ~> count <= Limit \/ abandoned
=============================================================================
