------------------------------ MODULE RateLimiter ------------------------------
(***************************************************************************)
(* SlidingWindowRateLimiter for one person and endpoint: the requests of   *)
(* the window are remembered by their time, a request over the limit is    *)
(* refused with the number of seconds to wait.  A tick is half a second;   *)
(* times are kept as ages.  Only the event loop asks, so a call is atomic. *)
(***************************************************************************)
EXTENDS Integers, Sequences

CONSTANTS MaxRequests,  \* max_requests
          Window,       \* window_seconds, in ticks
          None          \* nothing was promised

ASSUME LimiterAssumption == MaxRequests \in Nat \ {0} /\ Window \in Nat \ {0}

VARIABLES timestamps,   \* ages of the remembered requests, the oldest first
          promise,      \* ticks of retry_after that are left to wait
          accepted,     \* history: ages of the accepted requests
          answer        \* history: the last answer

limiterVars == <<timestamps, promise, accepted, answer>>
TicksPerSecond == 2

\* What is left after popping, while there is one, an oldest that is past the window.
Oldest(ages) ==
  CHOOSE k \in 1..Len(ages) + 1 : /\ \A j \in 1..k - 1 : ages[j] > Window
                                  /\ k <= Len(ages) => ages[k] <= Window
InWindow(ages) == SubSeq(ages, Oldest(ages), Len(ages))

LimiterInit == timestamps = <<>> /\ promise = None /\ accepted = <<>> /\ answer = "none"

\* int(window - age of the oldest), at least one second.
RetryAfter(oldest) ==
  LET seconds == (Window - oldest) \div TicksPerSecond
  IN  TicksPerSecond * (IF seconds < 1 THEN 1 ELSE seconds)

\* is_allowed.  Slip: one request too many.
AskOneMore ==
  LET recent == InWindow(timestamps) IN
  IF Len(recent) > MaxRequests
  THEN /\ timestamps' = recent /\ promise' = RetryAfter(recent[1])
       /\ answer' = "no" /\ UNCHANGED accepted
  ELSE /\ timestamps' = Append(recent, 0) /\ promise' = None
       /\ answer' = "yes" /\ accepted' = Append(InWindow(accepted), 0)

\* is_allowed: forget what left the window, refuse at the limit, else remember.
Ask ==
  LET recent == InWindow(timestamps) IN
  IF Len(recent) >= MaxRequests
  THEN /\ timestamps' = recent /\ promise' = RetryAfter(recent[1])
       /\ answer' = "no" /\ UNCHANGED accepted
  ELSE /\ timestamps' = Append(recent, 0) /\ promise' = None
       /\ answer' = "yes" /\ accepted' = Append(InWindow(accepted), 0)

\* Half a second passes; ages past the window are all alike.
Older(ages) == [i \in DOMAIN ages |-> IF ages[i] > Window THEN ages[i] ELSE ages[i] + 1]
HalfSecond ==
  /\ timestamps' = Older(timestamps) /\ accepted' = InWindow(Older(accepted))
  /\ promise' = (IF promise = None \/ promise = 0 THEN promise ELSE promise - 1)
  /\ UNCHANGED answer

LimiterNext == Ask \/ HalfSecond
LimiterSpec == LimiterInit /\ [][LimiterNext]_limiterVars

-----------------------------------------------------------------------------
\* Every variable has its type.
LimiterTypeOK ==
  /\ timestamps \in Seq(0..Window + 1) /\ accepted \in Seq(0..Window)
  /\ promise \in {None} \cup 0..Window + TicksPerSecond
  /\ answer \in {"none", "yes", "no"}

\* No window, wherever it begins, holds more accepted requests than the limit.
WindowLimit == Len(accepted) <= MaxRequests

\* "Please wait {retry_after} seconds": whoever waited that long is admitted.
PromiseKept == [][promise = 0 /\ promise' # 0 => answer' = "yes"]_limiterVars
=============================================================================
