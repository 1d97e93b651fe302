----------------------------- MODULE RateLimiter -----------------------------
(***************************************************************************)
(* The limiter in front of the host API (kernel/pkg/ratelimit/limiter.go): *)
(* a request is let through if fewer than PerMin requests with its key     *)
(* were in the minute before it.  The key is what X-Forwarded-For says, or *)
(* the address of the connection; requests for the health of the host are  *)
(* not counted.                                                            *)
(***************************************************************************)
EXTENDS Integers, Sequences, FiniteSets

CONSTANTS
  Key,      \* the keys of requests
  PerMin,   \* Limiter.perMin
  Minute,   \* the length of the window
  MaxTime,  \* bound on the time
  MaxAsked  \* bound on the requests with one key

ASSUME LimiterAssumption ==
  /\ PerMin \in Nat \ {0}
  /\ Minute \in Nat \ {0}
  /\ MaxTime \in Nat
  /\ MaxAsked \in Nat

VARIABLES
  clock,   \* the time
  hits,    \* Limiter.hits: key -> times of the requests let through, oldest first
  asked    \* history: key -> its requests as [at, through], in order

limiterVars == <<clock, hits, asked>>

LimiterInit ==
  /\ clock = 0
  /\ hits = [k \in Key |-> <<>>]
  /\ asked = [k \in Key |-> <<>>]

PassTime ==
  /\ clock < MaxTime
  /\ clock' = clock + 1
  /\ UNCHANGED <<hits, asked>>

\* What s has at the places in I, in its order.
Selected(s, I) ==
  [n \in 1..Cardinality(I) |->
     s[CHOOSE i \in I : Cardinality({j \in I : j <= i}) = n]]

\* The hits after the beginning of the window.
Recent(k) == Selected(hits[k], {i \in DOMAIN hits[k] : hits[k][i] > clock - Minute})

\* Mutant: one request more than the limit.
WithinLimit(k) == Len(Recent(k)) <= PerMin

HasRoom(k) == Len(Recent(k)) < PerMin

Kept(k) == IF HasRoom(k) THEN Append(Recent(k), clock) ELSE Recent(k)

\* Allow drops what is too old and keeps the request only if it lets it through.
Allow(k) ==
  /\ Len(asked[k]) < MaxAsked
  /\ hits' = [hits EXCEPT ![k] = Kept(k)]
  /\ asked' = [asked EXCEPT ![k] = Append(@, [at |-> clock, through |-> HasRoom(k)])]
  /\ UNCHANGED clock

LimiterNext == PassTime \/ \E k \in Key : Allow(k)

LimiterSpec == LimiterInit /\ [][LimiterNext]_limiterVars
------------------------------------------------------------------------------
LimiterTypeOK ==
  /\ clock \in 0..MaxTime
  /\ hits \in [Key -> Seq(0..MaxTime)]
  /\ asked \in [Key -> Seq([at : 0..MaxTime, through : BOOLEAN])]

\* Over the whole history of a key: a request has been let through if and only if fewer
\* than PerMin were in the minute that ended with it, so that refused requests do not count,
\* and no minute anywhere has more than PerMin (Allow).
WindowExact ==
  \A k \in Key : \A i \in DOMAIN asked[k] :
    LET before == {j \in 1..(i - 1) : /\ asked[k][j].through
                                      /\ asked[k][j].at > asked[k][i].at - Minute}
    IN asked[k][i].through <=> Cardinality(before) < PerMin
================================================================================
