------------------------------ MODULE RateLimiter ------------------------------
(***************************************************************************)
(* The gateway's fixed window limiter, the first thing every call meets.    *)
(* Its windows are kept for each client key: nothing calls prune.           *)
(***************************************************************************)
EXTENDS Integers, FiniteSets

CONSTANTS
  Address,    \* the clients: the first X-Forwarded-For address, or the peer's
  WindowMs,
  Quota,      \* RATE_LIMIT_MAX
  MaxClock    \* bound on the clock

ASSUME RateLimiterAssumption ==
  WindowMs \in Nat \ {0} /\ Quota \in Nat \ {0} /\ MaxClock \in Nat

VARIABLES
  clock,
  windows,   \* [count, start] of each client
  admitted,  \* history: the calls of each client let through, [at, number]: when, the how many-th then
  refused    \* history: when others of its calls were not

limiterVars == <<clock, windows, admitted, refused>>

NoWindow == [count |-> 0, start |-> MaxClock + 1]

InitLimiter ==
  /\ clock = 0
  /\ windows = [k \in Address |-> NoWindow]
  /\ admitted = [k \in Address |-> {}]
  /\ refused = [k \in Address |-> {}]

\* A window opens with the first call after the last one has elapsed; a moment later; at
\* each new time.
IsElapsed(window) == window = NoWindow \/ clock - window.start > WindowMs
IsPast(window) == window = NoWindow \/ clock > window.start
IsNewWindow(window) == window = NoWindow \/ clock - window.start >= WindowMs

StateOf(key) == IF IsNewWindow(windows[key]) THEN [count |-> 0, start |-> clock] ELSE windows[key]

\* The calls of a client that were let through in a span of time.
AdmittedIn(key, from, to) == {call \in admitted[key] : call.at \in from .. to}
Counted(key) == [at |-> clock, number |-> Cardinality(AdmittedIn(key, clock, clock)) + 1]

\* A call over the quota is not counted.
ConsumeQuota(key) ==
  /\ UNCHANGED clock
  /\ IF StateOf(key).count >= Quota
     THEN /\ windows' = [windows EXCEPT ![key] = StateOf(key)]
          /\ refused' = [refused EXCEPT ![key] = @ \cup {clock}]
          /\ UNCHANGED admitted
     ELSE /\ windows' = [windows EXCEPT ![key] = [StateOf(key) EXCEPT !.count = @ + 1]]
          /\ admitted' = [admitted EXCEPT ![key] = @ \cup {Counted(key)}]
          /\ UNCHANGED refused

Advance == clock < MaxClock /\ clock' = clock + 1 /\ UNCHANGED <<windows, admitted, refused>>

\* The middleware, for the client a call comes from; the call goes on, or it is answered 429.
Use == \E key \in Address : ConsumeQuota(key)

NextLimiter == Advance \/ Use

LimiterSpec == InitLimiter /\ [][NextLimiter]_limiterVars

-----------------------------------------------------------------------------
\* No client gets more than twice the quota through in any span of a window's length,
\* although it may use up one window at its end and the next one at its start.
AtMostTwiceTheQuota ==
  \A key \in Address, t \in 0 .. MaxClock :
    Cardinality(AdmittedIn(key, t, t + WindowMs - 1)) <= 2 * Quota

\* A client is refused only if it had its quota within the length of a window: neither a
\* refused call nor another client's counts against it.
RefusedOnlyAtQuota ==
  \A key \in Address : \A t \in refused[key] :
    Cardinality(AdmittedIn(key, t - WindowMs + 1, t)) >= Quota
==============================================================================
