---------------------------- MODULE ServerProofs ----------------------------
(* Theorems about RateLimiter and about Server, which the limiter is a    *)
(* part of, for every value of their constants.                           *)
EXTENDS Server, TLAPS

(***************************************************************************)
(* The limiter alone, for any number of clients, any limit, window and     *)
(* length of a second: its types, the meaning of Retry-After, and that     *)
(* with its clean-up it implements FixedWindow.                            *)
(***************************************************************************)
Bucket == [count : 1 .. Limit, windowStart : 0 .. now]

LEMMA NoBucketIsNone == \A t \in Nat : None \notin [count : 1 .. Limit, windowStart : 0 .. t]
<1> SUFFICES ASSUME NEW t \in Nat, None \in [count : 1 .. Limit, windowStart : 0 .. t]
             PROVE  None \in [count : Nat, windowStart : Nat]
  BY NoneIsNothing
<1> QED
  BY LimitIsPositive

LEMMA InitTypeOK == Init => TypeOK
  BY DEF Init, TypeOK

\* Rounding down never adds: the whole seconds of n fit into n, and one more
\* does not.
LEMMA WholeSeconds ==
  ASSUME NEW n \in Nat
  PROVE  /\ n \div Second \in Nat
         /\ (n \div Second) * Second <= n
         /\ n < ((n \div Second) + 1) * Second
  BY TimesArePositive

LEMMA RetryAfterValue ==
  ASSUME NEW n \in Nat \ {0}
  PROVE  /\ RetryAfter(n) \in Nat \ {0}
         /\ n < (RetryAfter(n) + 1) * Second
         /\ RetryAfter(n) = 1 \/ RetryAfter(n) * Second <= n
<1> DEFINE q == n \div Second
<1>1. q \in Nat /\ q * Second <= n /\ n < (q + 1) * Second
  BY WholeSeconds
<1>2. CASE q < 1
  <2>1. q = 0 /\ RetryAfter(n) = 1
    BY <1>1, <1>2 DEF RetryAfter
  <2>2. n < Second
    BY <1>1, <2>1, TimesArePositive
  <2>3. QED
    BY <2>1, <2>2, TimesArePositive
<1>3. CASE ~(q < 1)
  <2>1. RetryAfter(n) = q
    BY <1>3 DEF RetryAfter
  <2>2. RetryAfter(n) \in Nat \ {0}
    BY <1>1, <1>3, <2>1
  <2> HIDE DEF q
  <2>3. QED
    BY <1>1, <2>1, <2>2
<1>4. QED
  BY <1>2, <1>3

\* The clock never runs back, whatever the step.
LEMMA NowGrows ==
  ASSUME TypeOK, [Next]_vars
  PROVE  now' \in Nat /\ now <= now'
<1>1. now \in Nat
  BY DEF TypeOK
<1>2. CASE Tick
  BY <1>1, <1>2, MaxTimeIsNatural DEF Tick
<1>3. CASE UNCHANGED now
  BY <1>1, <1>3
<1>4. QED
  BY <1>2, <1>3 DEF Next, vars, AllowNewWindow, AllowCounted, Refuse, Cleanup

LEMMA RemainingTime ==
  ASSUME TypeOK, NEW ip \in IPs, buckets[ip] # None, ~Over(ip)
  PROVE  /\ buckets[ip].windowStart \in 0 .. now
         /\ buckets[ip].windowStart + Window - now \in Nat \ {0}
<1>1. buckets[ip] \in Bucket
  BY DEF TypeOK, Bucket
<1>2. QED
  BY <1>1, TimesArePositive DEF Bucket, Over, TypeOK

LEMMA NextTypeOK == TypeOK /\ [Next]_vars => TypeOK'
<1> SUFFICES ASSUME TypeOK, [Next]_vars PROVE TypeOK'
  OBVIOUS
<1>1. now' \in Nat /\ now <= now'
  BY NowGrows
<1>2. CASE UNCHANGED vars
  BY <1>2 DEF TypeOK, vars
<1>3. CASE Tick
  <2>1. \A b \in [count : 1 .. Limit, windowStart : 0 .. now] :
          b \in [count : 1 .. Limit, windowStart : 0 .. now']
    BY <1>1 DEF TypeOK
  <2>2. \A r \in [at : 0 .. now, retryAfter : Nat \ {0}] :
          r \in [at : 0 .. now', retryAfter : Nat \ {0}]
    BY <1>1 DEF TypeOK
  <2>3. buckets' \in [IPs -> [count : 1 .. Limit, windowStart : 0 .. now'] \cup {None}]
    BY <1>3, <2>1 DEF TypeOK, Tick
  <2>4. refusal' \in [IPs -> [at : 0 .. now', retryAfter : Nat \ {0}] \cup {None}]
    BY <1>3, <2>2 DEF TypeOK, Tick
  <2>5. QED
    BY <1>1, <1>3, <2>3, <2>4 DEF TypeOK, Tick
<1>4. ASSUME NEW ip \in IPs, AllowNewWindow(ip) PROVE TypeOK'
  BY <1>4, LimitIsPositive DEF TypeOK, AllowNewWindow, Answer
<1>5. ASSUME NEW ip \in IPs, AllowCounted(ip) PROVE TypeOK'
  <2>1. [buckets[ip] EXCEPT !.count = @ + 1] \in Bucket
    BY <1>5, LimitIsPositive DEF TypeOK, AllowCounted, Bucket
  <2>2. buckets' = [buckets EXCEPT ![ip] = [buckets[ip] EXCEPT !.count = @ + 1]]
    BY <1>5 DEF AllowCounted
  <2>3. buckets' \in [IPs -> Bucket \cup {None}]
    BY <2>1, <2>2 DEF TypeOK, Bucket
  <2>4. QED
    BY <1>5, <2>3 DEF TypeOK, AllowCounted, Answer, Bucket
<1>6. ASSUME NEW ip \in IPs, Refuse(ip) PROVE TypeOK'
  <2> DEFINE after == RetryAfter(buckets[ip].windowStart + Window - now)
  <2>1. after \in Nat \ {0}
    BY <1>6, RemainingTime, RetryAfterValue DEF Refuse
  <2> HIDE DEF after
  <2>2. refusal' = [refusal EXCEPT ![ip] = [at |-> now, retryAfter |-> after]]
    BY <1>6 DEF Refuse, after
  <2>3. refusal' \in [IPs -> [at : 0 .. now, retryAfter : Nat \ {0}] \cup {None}]
    BY <2>1, <2>2 DEF TypeOK
  <2>4. QED
    BY <1>6, <2>3 DEF TypeOK, Refuse, Answer
<1>7. CASE Cleanup
  BY <1>7 DEF TypeOK, Cleanup
<1>8. QED
  BY <1>2, <1>3, <1>4, <1>5, <1>6, <1>7 DEF Next

\* Every variable keeps its type, and no bucket counts more than the limit.
THEOREM TypeCorrect == Spec => []TypeOK
  BY InitTypeOK, NextTypeOK, PTL DEF Spec

-----------------------------------------------------------------------------
(* What the last refusal says of the bucket that refused, as long as that    *)
(* bucket is there: the window ends after the refusal, within Retry-After    *)
(* and one second, and not before Retry-After.  A refusal of this very       *)
(* moment has its bucket still.                                              *)

Promise(r, start) ==
  /\ r.at < start + Window
  /\ start + Window <= r.at + (r.retryAfter + 1) * Second
  /\ r.retryAfter = 1 \/ r.at + r.retryAfter * Second <= start + Window

PromiseKept(ip) ==
  refusal[ip] # None =>
    /\ buckets[ip] # None /\ buckets[ip].windowStart <= refusal[ip].at
         => Promise(refusal[ip], buckets[ip].windowStart)
    /\ refusal[ip].at = now => buckets[ip] # None /\ ~Over(ip)

RetryInv == \A ip \in IPs : PromiseKept(ip)

LEMMA InitRetryInv == Init => RetryInv
  BY DEF Init, RetryInv, PromiseKept

\* A step that leaves the bucket, the refusal and the clock of a client alone.
LEMMA SamePromise ==
  ASSUME NEW ip \in IPs, PromiseKept(ip), UNCHANGED now,
         buckets'[ip] = buckets[ip], refusal'[ip] = refusal[ip]
  PROVE  PromiseKept(ip)'
  BY DEF PromiseKept, Promise, Over

LEMMA TickRetry ==
  ASSUME TypeOK, RetryInv, Tick
  PROVE  RetryInv'
<1> SUFFICES ASSUME NEW ip \in IPs, refusal'[ip] # None
             PROVE  /\ buckets'[ip] # None /\ buckets'[ip].windowStart <= refusal'[ip].at
                         => Promise(refusal'[ip], buckets'[ip].windowStart)
                    /\ refusal'[ip].at # now'
  BY DEF RetryInv, PromiseKept, Promise
<1>1. refusal[ip] \in [at : 0 .. now, retryAfter : Nat \ {0}] /\ now' > now /\ now \in Nat
  BY MaxTimeIsNatural DEF TypeOK, Tick
<1>2. refusal'[ip].at # now'
  BY <1>1 DEF Tick
<1>3. QED
  BY <1>2 DEF RetryInv, PromiseKept, Tick

LEMMA NewWindowRetry ==
  ASSUME TypeOK, RetryInv, NEW c \in IPs, AllowNewWindow(c)
  PROVE  RetryInv'
<1> SUFFICES ASSUME NEW ip \in IPs PROVE PromiseKept(ip)'
  BY DEF RetryInv
<1>1. CASE ip # c
  BY <1>1, SamePromise DEF RetryInv, AllowNewWindow, TypeOK
<1>2. CASE ip = c
  <2>1. refusal[c] # None => refusal[c].at \in 0 .. now /\ refusal[c].at # now
    BY DEF TypeOK, RetryInv, PromiseKept, AllowNewWindow
  <2>2. buckets'[c] = [count |-> 1, windowStart |-> now] /\ UNCHANGED <<now, refusal>>
    BY DEF TypeOK, AllowNewWindow
  <2>3. QED
    BY <1>2, <2>1, <2>2 DEF PromiseKept, TypeOK
<1>3. QED
  BY <1>1, <1>2

LEMMA CountedRetry ==
  ASSUME TypeOK, RetryInv, NEW c \in IPs, AllowCounted(c)
  PROVE  RetryInv'
<1> SUFFICES ASSUME NEW ip \in IPs PROVE PromiseKept(ip)'
  BY DEF RetryInv
<1>1. CASE ip # c
  BY <1>1, SamePromise DEF RetryInv, AllowCounted, TypeOK
<1>2. CASE ip = c
  <2>1. buckets[c] \in Bucket
    BY DEF TypeOK, AllowCounted, Bucket
  <2>2. buckets'[c] = [buckets[c] EXCEPT !.count = @ + 1] /\ UNCHANGED <<now, refusal>>
    BY DEF TypeOK, AllowCounted
  <2>3. buckets'[c].windowStart = buckets[c].windowStart /\ buckets'[c] \in [count : Nat, windowStart : Nat]
    BY <2>1, <2>2, LimitIsPositive DEF Bucket, TypeOK
  <2>4. buckets'[c] # None /\ buckets[c] # None
    BY <2>3, NoneIsNothing DEF AllowCounted
  <2>5. QED
    BY <1>2, <2>2, <2>3, <2>4 DEF PromiseKept, Promise, Over, RetryInv
<1>3. QED
  BY <1>1, <1>2

LEMMA RefuseRetry ==
  ASSUME TypeOK, RetryInv, NEW c \in IPs, Refuse(c)
  PROVE  RetryInv'
<1> SUFFICES ASSUME NEW ip \in IPs PROVE PromiseKept(ip)'
  BY DEF RetryInv
<1>1. CASE ip # c
  BY <1>1, SamePromise DEF RetryInv, Refuse, TypeOK
<1>2. CASE ip = c
  <2> DEFINE start == buckets[c].windowStart
             remaining == start + Window - now
             after == RetryAfter(remaining)
  <2>1. start \in 0 .. now /\ remaining \in Nat \ {0}
    BY RemainingTime DEF Refuse
  <2>2. /\ after \in Nat \ {0}
        /\ remaining < (after + 1) * Second
        /\ after = 1 \/ after * Second <= remaining
    BY <2>1, RetryAfterValue
  <2>3. refusal'[c] = [at |-> now, retryAfter |-> after] /\ UNCHANGED <<now, buckets>>
    BY DEF Refuse, TypeOK
  <2>4. (after + 1) * Second \in Nat /\ after * Second \in Nat /\ now \in Nat /\ Window \in Nat
    BY <2>2, TimesArePositive DEF TypeOK
  <2> HIDE DEF after
  <2>5. Promise(refusal'[c], start)
    <3> DEFINE later == (after + 1) * Second
               sooner == after * Second
    <3>1. /\ now < start + Window
          /\ start + Window <= now + later
          /\ after = 1 \/ now + sooner <= start + Window
      <4> HIDE DEF later, sooner
      <4> QED
        BY <2>1, <2>2, <2>4 DEF later, sooner
    <3>2. QED
      BY <2>3, <3>1 DEF Promise
  <2>6. QED
    BY <1>2, <2>3, <2>5 DEF PromiseKept, Refuse, Over, Promise
<1>3. QED
  BY <1>1, <1>2

LEMMA CleanupRetry ==
  ASSUME TypeOK, RetryInv, Cleanup
  PROVE  RetryInv'
<1> SUFFICES ASSUME NEW ip \in IPs PROVE PromiseKept(ip)'
  BY DEF RetryInv
<1>1. CASE buckets'[ip] = buckets[ip]
  BY <1>1, SamePromise DEF RetryInv, Cleanup
<1>2. CASE buckets'[ip] # buckets[ip]
  <2>1. /\ buckets'[ip] = None /\ buckets[ip] # None
        /\ \E t \in 0 .. now : buckets[ip].windowStart + 2 * Window < t
    BY <1>2 DEF Cleanup
  <2>2. Over(ip)
    BY <2>1, TimesArePositive DEF Over, TypeOK
  <2>3. refusal[ip] # None => refusal[ip].at # now
    BY <2>2 DEF RetryInv, PromiseKept
  <2>4. QED
    BY <2>1, <2>3 DEF PromiseKept, Cleanup
<1>3. QED
  BY <1>1, <1>2

LEMMA NextRetryInv == TypeOK /\ RetryInv /\ [Next]_vars => RetryInv'
<1> SUFFICES ASSUME TypeOK, RetryInv, [Next]_vars PROVE RetryInv'
  OBVIOUS
<1>1. CASE UNCHANGED vars
  BY <1>1 DEF RetryInv, PromiseKept, Promise, Over, vars
<1>2. CASE Next
  BY <1>2, TickRetry, NewWindowRetry, CountedRetry, RefuseRetry, CleanupRetry DEF Next
<1>3. QED
  BY <1>1, <1>2

LEMMA RetryCorrect == Spec => [](TypeOK /\ RetryInv)
  BY InitTypeOK, InitRetryInv, NextTypeOK, NextRetryInv, PTL DEF Spec

\* Whoever waits Retry-After and one second more is out of the window that
\* refused him.
THEOREM RetryAfterSuffices == Spec => []RetryHonoured
<1>1. TypeOK /\ RetryInv => RetryHonoured
  <2> SUFFICES ASSUME TypeOK, RetryInv, NEW ip \in IPs,
                      refusal[ip] # None, buckets[ip] # None,
                      buckets[ip].windowStart <= refusal[ip].at,
                      now >= refusal[ip].at + (refusal[ip].retryAfter + 1) * Second
               PROVE  Over(ip)
    BY DEF RetryHonoured
  <2> DEFINE due == refusal[ip].at + (refusal[ip].retryAfter + 1) * Second
  <2>1. buckets[ip].windowStart + Window <= due
    BY DEF RetryInv, PromiseKept, Promise
  <2>2. refusal[ip] \in [at : 0 .. now, retryAfter : Nat \ {0}] /\ buckets[ip] \in Bucket
    BY DEF TypeOK, Bucket
  <2>3. due \in Nat
    BY <2>2, TimesArePositive DEF TypeOK
  <2>4. now >= due
    OBVIOUS
  <2> HIDE DEF due
  <2>5. QED
    BY <2>1, <2>2, <2>3, <2>4, TimesArePositive DEF Over, Bucket, TypeOK
<1>2. QED
  BY <1>1, RetryCorrect, PTL

\* Nobody is told to wait beyond the end of the window, but for the least value
\* of one second.
THEOREM RetryAfterNotTooLong == Spec => []RetryNotTooLong
<1>1. TypeOK /\ RetryInv => RetryNotTooLong
  BY DEF RetryInv, PromiseKept, Promise, RetryNotTooLong
<1>2. QED
  BY <1>1, RetryCorrect, PTL

-----------------------------------------------------------------------------
(* The refinement: each step is a step of FixedWindow, or leaves its         *)
(* variables alone.                                                          *)

LEMMA InitPromised == Init => Promised!Init
  BY DEF Init, Promised!Init, OpenWindow

LEMMA OpenWindowOf ==
  ASSUME NEW ip \in IPs
  PROVE  OpenWindow[ip] = IF buckets[ip] = None \/ Over(ip)
                            THEN None
                            ELSE [count |-> buckets[ip].count,
                                  start |-> buckets[ip].windowStart]
  BY DEF OpenWindow

\* The window that FixedWindow sees of a bucket that counts.
Seen(b) == [count |-> b.count, start |-> b.windowStart]

LEMMA SeenWindow ==
  ASSUME TypeOK, NEW ip \in IPs, buckets[ip] # None
  PROVE  /\ buckets[ip].count \in 1 .. Limit
         /\ buckets[ip].windowStart \in 0 .. now
         /\ Seen(buckets[ip]) # None
<1>1. buckets[ip] \in Bucket
  BY DEF TypeOK, Bucket
<1>2. buckets[ip].count \in 1 .. Limit /\ buckets[ip].windowStart \in 0 .. now
  BY <1>1 DEF Bucket
<1>3. Seen(buckets[ip]) \in [count : Nat, start : Nat]
  BY <1>2, LimitIsPositive DEF Seen, TypeOK
<1>4. QED
  BY <1>2, <1>3, NoneIsNothing

\* Time passes: windows close exactly when their buckets are over.
LEMMA TickPasses ==
  ASSUME TypeOK, Tick
  PROVE  Promised!Pass
<1>1. now \in Nat /\ now' \in Nat /\ now' > now
  BY MaxTimeIsNatural DEF TypeOK, Tick
<1>2. ASSUME NEW ip \in IPs
      PROVE  OpenWindow'[ip] = IF OpenWindow[ip] # None /\ now' >= OpenWindow[ip].start + Window
                                 THEN None
                                 ELSE OpenWindow[ip]
  <2>1. buckets'[ip] = buckets[ip]
    BY DEF Tick
  <2>2. CASE buckets[ip] = None
    BY <2>1, <2>2 DEF OpenWindow
  <2>3. CASE buckets[ip] # None
    <3> DEFINE start == buckets[ip].windowStart
    <3>1. start \in 0 .. now /\ Seen(buckets[ip]) # None
      BY <2>3, SeenWindow
    <3>2. OpenWindow[ip] = IF now - start >= Window THEN None ELSE Seen(buckets[ip])
      BY <2>3 DEF OpenWindow, Over, Seen
    <3>3. OpenWindow'[ip] = IF now' - start >= Window THEN None ELSE Seen(buckets[ip])
      BY <2>1, <2>3 DEF OpenWindow, Over, Seen
    <3>4. Seen(buckets[ip]).start = start
      BY DEF Seen
    <3>5. now - start >= Window => now' - start >= Window
      BY <1>1, <3>1, TimesArePositive
    <3>6. now' - start >= Window <=> now' >= start + Window
      BY <1>1, <3>1, TimesArePositive
    <3> HIDE DEF start
    <3>7. QED
      BY <3>1, <3>2, <3>3, <3>4, <3>5, <3>6
  <2>4. QED
    BY <2>2, <2>3
<1>3. OpenWindow' = [ip \in IPs |->
                       IF OpenWindow[ip] # None /\ now' >= OpenWindow[ip].start + Window
                         THEN None
                         ELSE OpenWindow[ip]]
  BY <1>2 DEF OpenWindow
<1>4. QED
  BY <1>1, <1>3 DEF Promised!Pass, Tick

\* A step that changes the bucket of one client only, and not the clock.
LEMMA OneWindowChanges ==
  ASSUME NEW c \in IPs, UNCHANGED now, NEW w, OpenWindow'[c] = w,
         \A ip \in IPs \ {c} : buckets'[ip] = buckets[ip]
  PROVE  OpenWindow' = [OpenWindow EXCEPT ![c] = w]
<1>1. \A ip \in IPs \ {c} : OpenWindow'[ip] = OpenWindow[ip]
  BY DEF OpenWindow, Over
<1>2. QED
  BY <1>1 DEF OpenWindow

LEMMA NewWindowServes ==
  ASSUME TypeOK, NEW c \in IPs, AllowNewWindow(c)
  PROVE  Promised!Serve(c)
<1>1. OpenWindow[c] = None
  BY DEF OpenWindow, AllowNewWindow
<1>2. buckets'[c] = [count |-> 1, windowStart |-> now] /\ UNCHANGED now /\ now \in Nat
  BY DEF TypeOK, AllowNewWindow
<1>3. buckets'[c] # None
  BY <1>2, NoneIsNothing
<1>4. ~Over(c)'
  BY <1>2, TimesArePositive DEF Over
<1>5. OpenWindow'[c] = [count |-> 1, start |-> now]
  BY <1>2, <1>3, <1>4 DEF OpenWindow
<1>6. \A ip \in IPs \ {c} : buckets'[ip] = buckets[ip]
  BY DEF TypeOK, AllowNewWindow
<1>7. OpenWindow' = [OpenWindow EXCEPT ![c] = [count |-> 1, start |-> now]]
  BY <1>2, <1>5, <1>6, OneWindowChanges
<1>8. QED
  BY <1>1, <1>2, <1>7 DEF Promised!Serve, AllowNewWindow, Answer

LEMMA CountedServes ==
  ASSUME TypeOK, NEW c \in IPs, AllowCounted(c)
  PROVE  Promised!Serve(c)
<1> DEFINE b == buckets[c]
           w == [Seen(b) EXCEPT !.count = @ + 1]
<1>1. b.count \in 1 .. Limit /\ b.windowStart \in 0 .. now /\ Seen(b) # None
  BY SeenWindow DEF AllowCounted
<1>2. OpenWindow[c] = Seen(b)
  BY DEF OpenWindow, AllowCounted, Seen
<1>3. b \in Bucket
  BY DEF TypeOK, AllowCounted, Bucket
<1>4. buckets'[c] = [b EXCEPT !.count = @ + 1] /\ UNCHANGED now
  BY DEF TypeOK, AllowCounted
<1>5. buckets'[c].windowStart = b.windowStart /\ buckets'[c].count = b.count + 1
      /\ buckets'[c] \in [count : Nat, windowStart : Nat]
  BY <1>3, <1>4, LimitIsPositive DEF Bucket, TypeOK
<1>6. buckets'[c] # None /\ ~Over(c)'
  BY <1>4, <1>5, NoneIsNothing DEF Over, AllowCounted
<1>7. OpenWindow'[c] = [count |-> b.count + 1, start |-> b.windowStart]
  BY <1>5, <1>6 DEF OpenWindow
<1>8. w = [count |-> b.count + 1, start |-> b.windowStart]
  BY DEF Seen
<1>9. \A ip \in IPs \ {c} : buckets'[ip] = buckets[ip]
  BY DEF TypeOK, AllowCounted
<1>10. OpenWindow' = [OpenWindow EXCEPT ![c] = w]
  BY <1>4, <1>7, <1>8, <1>9, OneWindowChanges
<1>11. OpenWindow' = [OpenWindow EXCEPT ![c].count = @ + 1]
  BY <1>2, <1>10 DEF OpenWindow
<1>12. OpenWindow[c] # None /\ OpenWindow[c].count < Limit
  BY <1>1, <1>2 DEF Seen, AllowCounted
<1>13. QED
  BY <1>4, <1>11, <1>12 DEF Promised!Serve, AllowCounted, Answer

LEMMA RefuseRefuses ==
  ASSUME TypeOK, NEW c \in IPs, Refuse(c)
  PROVE  Promised!Refuse(c)
<1>1. buckets[c].count \in 1 .. Limit /\ Seen(buckets[c]) # None
  BY SeenWindow DEF Refuse
<1>2. buckets[c].count = Limit
  BY <1>1, LimitIsPositive DEF Refuse
<1>3. OpenWindow[c] = Seen(buckets[c])
  BY DEF OpenWindow, Refuse, Seen
<1>4. UNCHANGED OpenWindow
  BY DEF OpenWindow, Over, Refuse
<1>5. QED
  BY <1>1, <1>2, <1>3, <1>4 DEF Promised!Refuse, Refuse, Answer, Seen

\* The clean-up forgets only windows that are closed.
LEMMA CleanupUnseen ==
  ASSUME TypeOK, Cleanup
  PROVE  UNCHANGED <<now, OpenWindow, answer>>
<1>1. ASSUME NEW ip \in IPs, buckets'[ip] # buckets[ip]
      PROVE  OpenWindow[ip] = None /\ OpenWindow'[ip] = None
  <2>1. /\ buckets'[ip] = None /\ buckets[ip] # None
        /\ \E t \in 0 .. now : buckets[ip].windowStart + 2 * Window < t
    BY <1>1 DEF Cleanup
  <2>2. buckets[ip].windowStart \in 0 .. now
    BY <2>1, SeenWindow
  <2>3. Over(ip)
    BY <2>1, <2>2, TimesArePositive DEF Over, TypeOK
  <2>4. QED
    BY <2>1, <2>3 DEF OpenWindow
<1>2. ASSUME NEW ip \in IPs PROVE OpenWindow'[ip] = OpenWindow[ip]
  <2>1. CASE buckets'[ip] = buckets[ip]
    BY <2>1 DEF OpenWindow, Over, Cleanup
  <2>2. CASE buckets'[ip] # buckets[ip]
    BY <1>1, <2>2
  <2>3. QED
    BY <2>1, <2>2
<1>3. UNCHANGED OpenWindow
  BY <1>2 DEF OpenWindow
<1>4. QED
  BY <1>3 DEF Cleanup

LEMMA NextPromised == TypeOK /\ [Next]_vars => [Promised!Next]_(Promised!fvars)
<1> SUFFICES ASSUME TypeOK, [Next]_vars
             PROVE  Promised!Next \/ UNCHANGED <<now, OpenWindow, answer>>
  BY DEF Promised!fvars
<1>1. CASE Tick
  BY <1>1, TickPasses DEF Promised!Next
<1>2. ASSUME NEW ip \in IPs, AllowNewWindow(ip) PROVE Promised!Next
  BY <1>2, NewWindowServes DEF Promised!Next
<1>3. ASSUME NEW ip \in IPs, AllowCounted(ip) PROVE Promised!Next
  BY <1>3, CountedServes DEF Promised!Next
<1>4. ASSUME NEW ip \in IPs, Refuse(ip) PROVE Promised!Next
  BY <1>4, RefuseRefuses DEF Promised!Next
<1>5. CASE Cleanup
  BY <1>5, CleanupUnseen
<1>6. CASE UNCHANGED vars
  BY <1>6 DEF vars, OpenWindow, Over
<1>7. QED
  BY <1>1, <1>2, <1>3, <1>4, <1>5, <1>6 DEF Next

\* The limiter with its buckets and its clean-up does what FixedWindow promises.
THEOREM Implements == Spec => Refinement
<1>1. Init => Promised!Init
  BY InitPromised
<1>2. TypeOK /\ [Next]_vars => [Promised!Next]_(Promised!fvars)
  BY NextPromised
<1>3. QED
  BY <1>1, <1>2, TypeCorrect, PTL DEF Spec, Refinement, Promised!Spec

(***************************************************************************)
(* The limiter inside the server: every step of the server is a step of    *)
(* RateLimiter or leaves it alone, so what holds of the limiter alone      *)
(* holds of it in the server.                                              *)
(***************************************************************************)
LEMMA LimiterStep == [ServerNext]_allVars => [Next]_vars
BY DEF ServerNext, allVars, serverVars, Next, Handler, Post, Invalid, Draw, Save, WsRequest,
   Upgrade, Register, RoomGoes, Close, Remove, LateSave, Process, Listening, Listen, Cancel,
   HubStops, Shutdown, ShutdownDone, ShutdownCut, Exit, Signal

\* The middleware calls the limiter as RateLimiter says it is called.
THEOREM LimiterInside == ServerSpec => Spec
<1>1. ServerInit => Init
  BY DEF ServerInit
<1> QED
  BY <1>1, LimiterStep, PTL DEF ServerSpec, Spec

\* So a client of the server can rely on Retry-After, and on the fixed window.
THEOREM LimiterHolds == ServerSpec => []RetryHonoured /\ []RetryNotTooLong /\ Refinement
BY LimiterInside, RetryAfterSuffices, RetryAfterNotTooLong, Implements

(***************************************************************************)
(* Types.                                                                  *)
(***************************************************************************)
LEMMA ServerInitTypes == ServerInit => ServerTypeOK
<1> SUFFICES ASSUME ServerInit PROVE ServerTypeOK
  OBVIOUS
<1>1. TypeOK
  BY InitTypeOK DEF ServerInit
<1>2. RequestTypes
  BY RetriesArePositive DEF ServerInit, RequestTypes
<1>3. RoomTypes
  BY DEF ServerInit, RoomTypes, At, Made
<1>4. ProcessTypes
  BY DEF ServerInit, ProcessTypes
<1> QED
  BY <1>1, <1>2, <1>3, <1>4 DEF ServerTypeOK

\* What a step of one request or of one room does to the types.
LEMMA HandlerTypes ==
  ASSUME ServerTypeOK, NEW q \in Requests, Handler(q) \/ Register(q)
  PROVE  RequestTypes' /\ RoomTypes' /\ ProcessTypes'
<1> USE DEF ServerTypeOK
<1>1. ProcessTypes'
  BY DEF ProcessTypes, processVars, Handler, Post, Invalid, Draw, Save, WsRequest, Upgrade, Register
<1>2. CASE Post(q) \/ Invalid(q) \/ WsRequest(q) \/ Upgrade(q) \/ Register(q)
  <2>1. PICK pc \in {"draw", "upgrade", "register", "connected", "done"} : Goto(q, pc)
    BY <1>2 DEF Post, Invalid, WsRequest, Upgrade, Register
  <2>2. UNCHANGED <<code, active, saved>> /\ ~At(q, "save") /\ ~At(q, "done")
    BY <1>2 DEF Post, Invalid, WsRequest, Upgrade, Register, roomVars, At
  <2> QED
    BY <1>1, <2>1, <2>2 DEF RequestTypes, RoomTypes, Goto, At, Made
<1>3. CASE Draw(q)
  <2>1. RequestTypes'
    BY <1>3, RetriesArePositive DEF RequestTypes, Draw, Goto, At
  <2>2. UNCHANGED <<active, saved>> /\ At(q, "draw") /\ \A r \in Requests \ {q} :
          request'[r] = request[r] /\ code'[r] = code[r]
    BY <1>3 DEF Draw, Goto, RequestTypes, RoomTypes
  <2>3. \/ code' = code /\ request'[q].pc \in {"draw", "done"}
        \/ code'[q] \in Codes /\ code' \in [Requests -> Codes \cup {None}] /\ request'[q].pc = "save"
    BY <1>3 DEF Draw, Goto, At, RequestTypes, RoomTypes
  <2> QED
    BY <1>1, <2>1, <2>2, <2>3, NoneIsNoCode DEF RoomTypes, At, Made
<1>4. CASE Save(q)
  BY <1>1, <1>4 DEF Save, RequestTypes, RoomTypes, Goto, At, Made
<1> QED
  BY <1>1, <1>2, <1>3, <1>4 DEF Handler

LEMMA RoomGoesTypes ==
  ASSUME ServerTypeOK, NEW r \in Requests, RoomGoes(r)
  PROVE  RequestTypes' /\ RoomTypes' /\ ProcessTypes'
BY DEF ServerTypeOK, RequestTypes, RoomTypes, ProcessTypes, processVars, RoomGoes, Close, Remove,
   LateSave, Made, At

LEMMA ProcessStepTypes ==
  ASSUME ServerTypeOK, Process \/ Signal
  PROVE  RequestTypes' /\ RoomTypes' /\ ProcessTypes'
<1>1. RequestTypes' /\ RoomTypes'
  BY DEF ServerTypeOK, RequestTypes, RoomTypes, roomVars, Made, At, Process, Signal, Listening,
     Listen, Cancel, HubStops, Shutdown, ShutdownDone, ShutdownCut, Exit
<1>2. ProcessTypes'
  BY DEF ServerTypeOK, ProcessTypes, Process, Signal, Listening, Listen, Cancel, HubStops,
     Shutdown, ShutdownDone, ShutdownCut, Exit
<1> QED
  BY <1>1, <1>2

LEMMA StepTypes == ServerTypeOK /\ [ServerNext]_allVars => ServerTypeOK'
<1> SUFFICES ASSUME ServerTypeOK, [ServerNext]_allVars PROVE ServerTypeOK'
  OBVIOUS
<1>1. TypeOK'
  BY LimiterStep, NextTypeOK DEF ServerTypeOK
<1>2. CASE UNCHANGED serverVars
  BY <1>1, <1>2 DEF serverVars, roomVars, processVars, ServerTypeOK, RequestTypes, RoomTypes,
     ProcessTypes, Made, At
<1>3. CASE UNCHANGED allVars
  BY <1>2, <1>3 DEF allVars
<1> QED
  BY <1>1, <1>2, <1>3, HandlerTypes, RoomGoesTypes, ProcessStepTypes DEF ServerNext, ServerTypeOK

\* Types, and that every room which admits participants is in the repository.
THEOREM ServerTypes == ServerSpec => []ServerTypeOK
BY ServerInitTypes, StepTypes, PTL DEF ServerSpec

(***************************************************************************)
(* Short codes.                                                            *)
(***************************************************************************)
\* The invariant: it also speaks of a creation that has a code and has not saved
\* its room yet.
OverlapInv ==
  /\ \A p, q \in Requests : p # q /\ Creating(p) /\ Creating(q) => {p, q} \in met
  /\ \A p \in active, q \in Requests :
       p # q /\ (At(q, "save") \/ q \in active) /\ code[p] = code[q] => {p, q} \in met

LEMMA InitOverlap == ServerInit => OverlapInv
BY DEF ServerInit, OverlapInv, Creating

LEMMA StepOverlap == ServerTypeOK /\ OverlapInv /\ [ServerNext]_allVars => OverlapInv'
<1> SUFFICES ASSUME ServerTypeOK, OverlapInv, [ServerNext]_allVars PROVE OverlapInv'
  OBVIOUS
<1> USE DEF ServerTypeOK, OverlapInv
<1>1. CASE UNCHANGED <<request, code, met>> /\ active' \subseteq active
  BY <1>1 DEF Creating, At
<1>2. ASSUME NEW q \in Requests, Post(q) PROVE OverlapInv'
  <2>1. active \subseteq Requests /\ q \notin active
    BY <1>2 DEF RoomTypes, Post, At, Made
  <2>2. UNCHANGED <<code, active>> /\ \A p \in Requests \ {q} : request'[p] = request[p]
    BY <1>2 DEF Post, Goto, RequestTypes
  <2>3. CASE Goto(q, "draw") /\ met' = met \cup {{p, q} : p \in {p \in Requests : Creating(p)}}
    <3>1. At(q, "draw")'
      BY <2>3 DEF Goto, RequestTypes, At
    <3>2. ASSUME NEW p \in Requests, p # q, Creating(p)' PROVE {p, q} \in met' /\ {q, p} \in met'
      BY <2>2, <2>3, <3>2 DEF Creating
    <3> QED
      BY <2>1, <2>2, <2>3, <3>1, <3>2 DEF Creating, At
  <2>4. CASE Goto(q, "done") /\ UNCHANGED met
    BY <2>1, <2>2, <2>4 DEF Creating, At, Goto, RequestTypes
  <2> QED
    BY <1>2, <2>3, <2>4 DEF Post
<1>3. ASSUME NEW q \in Requests, Draw(q) PROVE OverlapInv'
  <2>1. /\ UNCHANGED <<active, saved, met>> /\ At(q, "draw") /\ q \notin active
        /\ \A p \in Requests \ {q} : request'[p] = request[p] /\ code'[p] = code[p]
    BY <1>3 DEF Draw, Goto, RequestTypes, RoomTypes, At, Made
  <2>2. \A p, r \in Requests : Creating(p)' => Creating(p)
    BY <1>3, <2>1 DEF Creating, At
  <2>3. At(q, "save")' => \A p \in saved : code[p] # code'[q]
    BY <1>3 DEF Draw, Taken, At, Goto, RequestTypes, RoomTypes
  <2> QED
    BY <2>1, <2>2, <2>3 DEF RoomTypes, At, Made
<1>4. ASSUME NEW q \in Requests, Save(q) PROVE OverlapInv'
  <2>1. /\ UNCHANGED <<code, met>> /\ At(q, "save") /\ active' = active \cup {q}
        /\ \A p \in Requests \ {q} : request'[p] = request[p]
        /\ At(q, "done")'
    BY <1>4 DEF Save, Goto, RequestTypes, At
  <2>2. \A p \in active : p # q /\ code[p] = code[q] => {p, q} \in met
    BY <2>1
  <2>3. \A p \in Requests : p # q /\ At(p, "save") => {p, q} \in met
    BY <2>1 DEF Creating, At
  <2>4. \A p : {p, q} = {q, p}
    OBVIOUS
  <2> QED
    BY <2>1, <2>2, <2>3, <2>4 DEF Creating, At, RoomTypes
<1>5. ASSUME NEW q \in Requests, Invalid(q) \/ WsRequest(q) \/ Upgrade(q) \/ Register(q)
      PROVE  OverlapInv'
  <2>1. /\ UNCHANGED <<code, active, met>> /\ ~At(q, "save")
        /\ \A p \in Requests \ {q} : request'[p] = request[p]
        /\ ~Creating(q)'
    BY <1>5 DEF Invalid, WsRequest, Upgrade, Register, roomVars, Goto, RequestTypes, At, Creating
  <2> QED
    BY <2>1 DEF Creating, At, RoomTypes
<1>6. ASSUME NEW r \in Requests, RoomGoes(r) PROVE OverlapInv'
  BY <1>1, <1>6 DEF RoomGoes, Close, Remove, LateSave
<1>7. CASE Process \/ Signal \/ UNCHANGED serverVars \/ UNCHANGED allVars
  BY <1>1, <1>7 DEF Process, Signal, Listening, Listen, Cancel, HubStops, Shutdown, ShutdownDone,
     ShutdownCut, Exit, serverVars, allVars, roomVars
<1> QED
  BY <1>2, <1>3, <1>4, <1>5, <1>6, <1>7 DEF ServerNext, Handler

\* However creations, deletions and late saves cross, two open rooms share a code
\* only if both were being created at once.
THEOREM CodesClashOnlyInOverlap == ServerSpec => []ClashMeansOverlap
<1>1. ServerTypeOK /\ OverlapInv => ClashMeansOverlap
  BY DEF ServerTypeOK, RoomTypes, OverlapInv, ClashMeansOverlap
<1> QED
  BY <1>1, ServerTypes, InitOverlap, StepOverlap, PTL DEF ServerSpec

(***************************************************************************)
(* Signals.                                                                *)
(***************************************************************************)
LEMMA ProcessAgrees ==
  ASSUME ServerTypeOK, HandlersAgree, Alive, Process \/ Signal
  PROVE  HandlersAgree'
BY DEF ServerTypeOK, ProcessTypes, HandlersAgree, Alive, Process, Signal, Listening, Listen,
   Cancel, HubStops, Shutdown, ShutdownDone, ShutdownCut, Exit

LEMMA StepAgrees == ServerTypeOK /\ HandlersAgree /\ [ServerNext]_allVars => HandlersAgree'
<1> SUFFICES ASSUME ServerTypeOK, HandlersAgree, [ServerNext]_allVars PROVE HandlersAgree'
  OBVIOUS
<1>1. CASE UNCHANGED processVars
  BY <1>1 DEF processVars, HandlersAgree
<1>2. ASSUME NEW q \in Requests, Handler(q) \/ Register(q) \/ RoomGoes(q) PROVE HandlersAgree'
  BY <1>1, <1>2 DEF Handler, Post, Invalid, Draw, Save, WsRequest, Upgrade, Register, RoomGoes,
     Close, Remove, LateSave
<1>3. CASE UNCHANGED serverVars \/ UNCHANGED allVars
  BY <1>1, <1>3 DEF serverVars, allVars
<1> QED
  BY <1>2, <1>3, ProcessAgrees DEF ServerNext

\* Whatever the order in which the two goroutines receive a signal, and however
\* many come, the hub loop is cancelled only together with a Shutdown: the HTTP
\* server does not go on without a hub, unless the signal came too early.
THEOREM SignalHandlersAgree == ServerSpec => []HandlersAgree
<1>1. ServerInit => HandlersAgree
  BY DEF ServerInit, HandlersAgree
<1> QED
  BY <1>1, ServerTypes, StepAgrees, PTL DEF ServerSpec
=============================================================================
