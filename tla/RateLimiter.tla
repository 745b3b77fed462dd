---------------------------- MODULE RateLimiter ----------------------------
(***************************************************************************)
(* internal/adapters/http/ratelimit.go: the fixed-window limiter in front  *)
(* of POST /rooms and GET /ws/{roomID}, and the goroutine that forgets old *)
(* buckets.  Allow and Cleanup each hold the mutex from end to end: they   *)
(* are one step.  A limit of zero switches the limiter off (every call     *)
(* returns at ratelimit.go:51-53) and is not modelled.                     *)
(***************************************************************************)
EXTENDS Naturals

CONSTANTS
  IPs,     \* what clientIP returns
  Limit,   \* requests per window
  Window,  \* length of a window, in ticks of the clock
  Second,  \* ticks in a second
  MaxTime, \* BOUND on the clock
  None     \* no bucket, no answer yet

ASSUME LimitIsPositive == Limit \in Nat \ {0}

ASSUME TimesArePositive == Window \in Nat \ {0} /\ Second \in Nat \ {0}

ASSUME MaxTimeIsNatural == MaxTime \in Nat

ASSUME NoneIsNothing ==
  /\ None \notin [count : Nat, windowStart : Nat]
  /\ None \notin [count : Nat, start : Nat]
  /\ None \notin [ip : IPs, allowed : BOOLEAN]
  /\ None \notin [at : Nat, retryAfter : Nat]

VARIABLES
  now,     \* the clock
  buckets, \* RateLimiter.buckets
  answer,  \* the last answer of Allow
  refusal  \* the last refusal of each client: when, and the Retry-After given

vars == <<now, buckets, answer, refusal>>

Init ==
  /\ now = 0
  /\ buckets = [ip \in IPs |-> None]
  /\ answer = None
  /\ refusal = [ip \in IPs |-> None]

\* The window of a client is over.
Over(ip) == now - buckets[ip].windowStart >= Window

\* Time passes.
Tick ==
  /\ \E t \in (now + 1) .. MaxTime : now' = t
  /\ UNCHANGED <<buckets, answer, refusal>>

Answer(ip, allowed) == answer' = [ip |-> ip, allowed |-> allowed]

\* MUTANT of AllowNewWindow: the request that opens the window is not counted.
NewWindowEmpty(ip) ==
  /\ \/ buckets[ip] = None
     \/ buckets[ip] # None /\ Over(ip)
  /\ buckets' = [buckets EXCEPT ![ip] = [count |-> 0, windowStart |-> now]]
  /\ Answer(ip, TRUE)
  /\ UNCHANGED <<now, refusal>>

\* Allow: the first request of a client, or the first after its window.
AllowNewWindow(ip) ==
  /\ \/ buckets[ip] = None
     \/ buckets[ip] # None /\ Over(ip)
  /\ buckets' = [buckets EXCEPT ![ip] = [count |-> 1, windowStart |-> now]]
  /\ Answer(ip, TRUE)
  /\ UNCHANGED <<now, refusal>>

\* Allow: another request within the window.
AllowCounted(ip) ==
  /\ buckets[ip] # None
  /\ ~Over(ip)
  /\ buckets[ip].count < Limit
  /\ buckets' = [buckets EXCEPT ![ip].count = @ + 1]
  /\ Answer(ip, TRUE)
  /\ UNCHANGED <<now, refusal>>

\* int(remaining.Seconds()), at least 1.
RetryAfter(remaining) == IF remaining \div Second < 1 THEN 1 ELSE remaining \div Second

\* MUTANT of Refuse: Retry-After is the time since the window started.
RefuseElapsed(ip) ==
  /\ buckets[ip] # None
  /\ ~Over(ip)
  /\ buckets[ip].count >= Limit
  /\ refusal' = [refusal EXCEPT ![ip] =
                   [at |-> now, retryAfter |-> RetryAfter(now - buckets[ip].windowStart)]]
  /\ Answer(ip, FALSE)
  /\ UNCHANGED <<now, buckets>>

\* Allow: the limit is exceeded.
Refuse(ip) ==
  /\ buckets[ip] # None
  /\ ~Over(ip)
  /\ buckets[ip].count >= Limit
  /\ refusal' = [refusal EXCEPT ![ip] =
                   [at |-> now,
                    retryAfter |-> RetryAfter(buckets[ip].windowStart + Window - now)]]
  /\ Answer(ip, FALSE)
  /\ UNCHANGED <<now, buckets>>

\* MUTANT of Cleanup: the cutoff is the time of the tick itself.
CleanupTooEarly ==
  /\ \E t \in 0 .. now :
       buckets' = [ip \in IPs |->
                     IF buckets[ip] # None /\ buckets[ip].windowStart < t
                       THEN None
                       ELSE buckets[ip]]
  /\ UNCHANGED <<now, answer, refusal>>

\* Cleanup(t): t is the time of the tick, which may be long past when the
\* goroutine gets the mutex.
Cleanup ==
  /\ \E t \in 0 .. now :
       buckets' = [ip \in IPs |->
                     IF buckets[ip] # None /\ buckets[ip].windowStart + 2 * Window < t
                       THEN None
                       ELSE buckets[ip]]
  /\ UNCHANGED <<now, answer, refusal>>

Next ==
  \/ Tick
  \/ \E ip \in IPs : AllowNewWindow(ip) \/ AllowCounted(ip) \/ Refuse(ip)
  \/ Cleanup

Spec == Init /\ [][Next]_vars
-----------------------------------------------------------------------------
(* Properties                                                              *)

\* Types; a bucket counts between 1 and Limit requests and is not from the future.
TypeOK ==
  /\ now \in Nat
  /\ buckets \in [IPs -> [count : 1 .. Limit, windowStart : 0 .. now] \cup {None}]
  /\ answer \in [ip : IPs, allowed : BOOLEAN] \cup {None}
  /\ refusal \in [IPs -> [at : 0 .. now, retryAfter : Nat \ {0}] \cup {None}]

\* A client that was refused and waits for Retry-After and one second more (the
\* seconds are rounded down) is out of the window that refused it.
RetryHonoured ==
  \A ip \in IPs :
    /\ refusal[ip] # None
    /\ buckets[ip] # None
    /\ buckets[ip].windowStart <= refusal[ip].at
    /\ now >= refusal[ip].at + (refusal[ip].retryAfter + 1) * Second
    => Over(ip)

\* A client is never told to wait beyond the end of its window, by more than
\* the one second that is the least value of the header.
RetryNotTooLong ==
  \A ip \in IPs :
    refusal[ip] # None =>
      \/ refusal[ip].retryAfter = 1
      \/ /\ buckets[ip] # None
         /\ buckets[ip].windowStart <= refusal[ip].at
         => refusal[ip].at + refusal[ip].retryAfter * Second
              <= buckets[ip].windowStart + Window

\* Forgetting buckets is not noticed by any client: the limiter behaves as one
\* that keeps every window until it closes.
OpenWindow ==
  [ip \in IPs |->
     IF buckets[ip] = None \/ Over(ip)
       THEN None
       ELSE [count |-> buckets[ip].count, start |-> buckets[ip].windowStart]]

Promised == INSTANCE FixedWindow
              WITH time <- now, window <- OpenWindow, verdict <- answer, Closed <- None

Refinement == Promised!Spec
=============================================================================
