------------------------- MODULE ProviderCallsProofs -------------------------
(***************************************************************************)
(* Proofs, for any number of threads, any threshold and any number of      *)
(* attempts, of the invariants of ProviderCalls.                           *)
(***************************************************************************)
EXTENDS ProviderCalls, TLAPS

\* A client has been stored by the time a thread is to take it.
Stored == \A t \in Threads : step[t] \in {"assert", "fetch"} => cached # None

CallsInv == CallsTypeOK /\ Stored

-----------------------------------------------------------------------------
(* Type correctness. *)

LEMMA BreakerTypes ==
    /\ FreshBreaker \in Breaker
    /\ \A b \in Breaker :
          /\ Succeeded(b) \in Breaker /\ Failed(b) \in Breaker /\ Stamped(b) \in Breaker
          /\ [b EXCEPT !.state = "HALF_OPEN"] \in Breaker
          /\ [b EXCEPT !.openedAt = "cooled"] \in Breaker
  <1>1. FreshBreaker \in Breaker
      BY CallsAssumption DEF FreshBreaker, Breaker
  <1>2. ASSUME NEW b \in Breaker
        PROVE  /\ Succeeded(b) \in Breaker /\ Stamped(b) \in Breaker
               /\ [b EXCEPT !.state = "HALF_OPEN"] \in Breaker
               /\ [b EXCEPT !.openedAt = "cooled"] \in Breaker
      <2>1. 0 \in 0 .. Threshold
          BY CallsAssumption
      <2>2. Succeeded(b) \in Breaker
          BY <2>1 DEF Breaker, Succeeded
      <2>3. Stamped(b) \in Breaker
          BY DEF Breaker, Stamped
      <2>4. [b EXCEPT !.state = "HALF_OPEN"] \in Breaker
          BY DEF Breaker
      <2>5. [b EXCEPT !.openedAt = "cooled"] \in Breaker
          BY DEF Breaker
      <2> QED BY <2>2, <2>3, <2>4, <2>5
  <1>3. ASSUME NEW b \in Breaker PROVE Failed(b) \in Breaker
      <2> DEFINE n == IF b.count < Threshold THEN b.count + 1 ELSE Threshold
      <2>1. n \in 0 .. Threshold
          BY CallsAssumption DEF Breaker
      <2>2. Failed(b) = [b EXCEPT !.count = n, !.state = IF n >= Threshold THEN "OPEN" ELSE @]
          BY DEF Failed
      <2> QED BY <2>1, <2>2 DEF Breaker
  <1> QED BY <1>1, <1>2, <1>3

LEMMA CallsInit == Init => CallsInv
  BY BreakerTypes, CallsAssumption DEF Init, CallsInv, CallsTypeOK, Stored, Steps, Results

\* The call of a thread ends.
LEMMA EndType ==
    ASSUME CallsInv, NEW t \in Threads, NEW how \in Results, End(t, how),
           breaker' \in [Threads -> Breaker], UNCHANGED cached
    PROVE  CallsInv'
  <1> USE DEF CallsInv, CallsTypeOK, End, To
  <1>1. 0 \in 0 .. MaxRetries - 1 /\ "idle" \in Steps
      BY CallsAssumption DEF Steps
  <1>2. /\ step' \in [Threads -> Steps] /\ result' \in [Threads -> Results]
        /\ client' \in [Threads -> Threads \cup {None}]
        /\ tries' \in [Threads -> 0 .. MaxRetries - 1]
      BY <1>1
  <1>3. \A s \in Threads :
            client'[s] = None <=> step'[s] \in {"idle", "build", "assert", "fetch"}
      OBVIOUS
  <1>4. Stored'
      BY DEF Stored
  <1> QED BY <1>2, <1>3, <1>4

\* A thread that has its client goes on to a step that works with it.
LEMMA OnType ==
    ASSUME CallsInv, NEW t \in Threads, client[t] # None,
           NEW next \in {"cooldown", "attempt", "stamp"}, On(t, next),
           breaker' \in [Threads -> Breaker], UNCHANGED cached
    PROVE  CallsInv'
  BY DEF CallsInv, CallsTypeOK, Stored, On, To, Steps

LEMMA FailCallType ==
    ASSUME CallsInv, NEW t \in Threads, client[t] # None,
           NEW why \in {"timeout", "error"}, FailCall(t, why), UNCHANGED cached
    PROVE  CallsInv'
  <1>1. client[t] \in Threads /\ breaker \in [Threads -> Breaker]
      BY DEF CallsInv, CallsTypeOK
  <1>2. breaker' \in [Threads -> Breaker]
      BY <1>1, BreakerTypes DEF FailCall
  <1>3. On(t, "stamp") \/ End(t, why)
      BY DEF FailCall
  <1> QED BY <1>2, <1>3, OnType, EndType DEF Results

LEMMA CallsNext == CallsInv /\ [Next]_vars => CallsInv'
  <1> SUFFICES ASSUME CallsInv, [Next]_vars PROVE CallsInv'
      OBVIOUS
  <1> USE DEF CallsInv, CallsTypeOK
  <1>1. ASSUME NEW t \in Threads, Look(t) PROVE CallsInv'
      BY <1>1 DEF Look, To, Stored, Steps, Results
  <1>2. ASSUME NEW t \in Threads, Build(t) PROVE CallsInv'
      BY <1>2, BreakerTypes, CallsAssumption DEF Build, On, To, Stored, Steps
  <1>3. ASSUME NEW t \in Threads, AssertCapability(t) PROVE CallsInv'
      <2>1. CASE wrong
          BY <1>3, <2>1, EndType DEF AssertCapability, Results
      <2>2. CASE ~wrong
          BY <1>3, <2>2 DEF AssertCapability, On, To, Stored, Steps
      <2> QED BY <2>1, <2>2
  <1>4. ASSUME NEW t \in Threads, Fetch(t) PROVE CallsInv'
      BY <1>4 DEF Fetch, To, Stored, Steps
  <1>5. ASSUME NEW t \in Threads, Enter(t) PROVE CallsInv'
      BY <1>5, OnType DEF Enter
  <1>6. ASSUME NEW t \in Threads, Cooldown(t) PROVE CallsInv'
      <2>1. client[t] # None /\ client[t] \in Threads
          BY <1>6 DEF Cooldown
      <2>2. [breaker[client[t]] EXCEPT !.state = "HALF_OPEN"] \in Breaker
          BY <2>1, BreakerTypes
      <2>3. breaker' \in [Threads -> Breaker] /\ UNCHANGED cached
          BY <1>6, <2>1, <2>2 DEF Cooldown
      <2>4. End(t, "typeError") \/ End(t, "circuitOpen") \/ On(t, "attempt")
          BY <1>6 DEF Cooldown
      <2> QED BY <2>1, <2>3, <2>4, EndType, OnType DEF Results
  <1>7. ASSUME NEW t \in Threads, Attempt(t) PROVE CallsInv'
      <2>1. client[t] # None /\ client[t] \in Threads /\ UNCHANGED cached
          BY <1>7 DEF Attempt
      <2>2. CASE breaker' = [breaker EXCEPT ![client[t]] = Succeeded(@)] /\ End(t, "ok")
          BY <2>1, <2>2, BreakerTypes, EndType DEF Results
      <2>3. CASE /\ Again(tries[t] + 1)
                 /\ tries' = [tries EXCEPT ![t] = @ + 1]
                 /\ UNCHANGED <<step, client, result, breaker>>
          BY <2>1, <2>3, CallsAssumption DEF Again, Stored
      <2>4. CASE FailCall(t, "timeout") \/ FailCall(t, "error")
          BY <2>1, <2>4, FailCallType
      <2>5. CASE End(t, "undecodable") /\ UNCHANGED breaker
          BY <2>1, <2>5, EndType DEF Results
      <2> QED BY <1>7, <2>2, <2>3, <2>4, <2>5 DEF Attempt
  <1>8. ASSUME NEW t \in Threads, Stamp(t) PROVE CallsInv'
      <2>1. client[t] \in Threads
          BY <1>8 DEF Stamp
      <2>2. breaker' \in [Threads -> Breaker] /\ End(t, "failed") /\ UNCHANGED cached
          BY <1>8, <2>1, BreakerTypes DEF Stamp
      <2> QED BY <2>2, EndType DEF Results
  <1>9. ASSUME NEW c \in Threads, Cool(c) PROVE CallsInv'
      BY <1>9, BreakerTypes DEF Cool, Stored
  <1>10. CASE Recover
      BY <1>10 DEF Recover, Stored
  <1>11. CASE UNCHANGED vars
      BY <1>11 DEF vars, Stored
  <1> QED BY <1>1, <1>2, <1>3, <1>4, <1>5, <1>6, <1>7, <1>8, <1>9, <1>10, <1>11
          DEF Next, Proceed

\* For any number of threads, however they build, fetch and call: get_client
\* never gives out nothing, the retry loop stops at max_retries.
THEOREM CallsTypeCorrect == Spec => []CallsTypeOK
  <1>1. CallsInv => CallsTypeOK
      BY DEF CallsInv
  <1> QED BY <1>1, CallsInit, CallsNext, PTL DEF Spec
-----------------------------------------------------------------------------
(* The breaker. *)

\* Some thread is about to stamp the opening of client c's breaker.
Stamping(c) == \E t \in Threads : client[t] = c /\ step[t] = "stamp"

Coherent(c) ==
    /\ breaker[c].state = "CLOSED" => breaker[c].count < Threshold
    /\ breaker[c].state = "OPEN" => breaker[c].count = Threshold
    /\ breaker[c].state = "OPEN" /\ breaker[c].openedAt = None => Stamping(c)

LEMMA CoherentParts == BreakerCoherent <=> \A c \in Threads : Coherent(c)
  BY DEF BreakerCoherent, Coherent, Stamping

\* A thread that is at no stamp, or whose client's breaker is no longer open
\* and unstamped, disturbs no other breaker.
LEMMA OthersKept ==
    ASSUME CallsInv, NEW t \in Threads, NEW c \in Threads, Coherent(c),
           breaker'[c] = breaker[c],
           \A s \in Threads \ {t} : step'[s] = step[s] /\ client'[s] = client[s],
           step[t] = "stamp" => client[t] # c
    PROVE  Coherent(c)'
  <1>1. Stamping(c) => Stamping(c)'
      BY DEF Stamping
  <1> QED BY <1>1 DEF Coherent

\* Only thread t moves.
LEMMA OnlyOneMoves ==
    ASSUME CallsInv, NEW t \in Threads, Look(t) \/ Proceed(t)
    PROVE  \A s \in Threads \ {t} : step'[s] = step[s] /\ client'[s] = client[s]
  BY DEF CallsInv, CallsTypeOK, Look, Proceed, Build, AssertCapability, Fetch, Enter,
         Cooldown, Attempt, FailCall, Stamp, On, End, To

LEMMA CoherentInit == Init => BreakerCoherent
  <1> SUFFICES ASSUME Init, NEW c \in Threads PROVE Coherent(c)
      BY CoherentParts
  <1>1. 0 < Threshold
      BY CallsAssumption
  <1>2. breaker[c] = FreshBreaker
      BY DEF Init
  <1>3. breaker[c].state = "CLOSED" /\ breaker[c].count = 0
      BY <1>2 DEF FreshBreaker
  <1> QED BY <1>1, <1>3 DEF Coherent

\* A failure is counted; if that opens the breaker the thread goes on to stamp it.
LEMMA FailCallCoherent ==
    ASSUME CallsInv, NEW t \in Threads, NEW c \in Threads, client[t] = c,
           Coherent(c), step[t] = "attempt",
           NEW why \in {"timeout", "error"}, FailCall(t, why),
           \A s \in Threads \ {t} : step'[s] = step[s] /\ client'[s] = client[s]
    PROVE  Coherent(c)'
  <1> DEFINE b == breaker[c]
             n == IF b.count < Threshold THEN b.count + 1 ELSE Threshold
  <1>1. c \in Threads /\ b \in Breaker
      BY DEF CallsInv, CallsTypeOK
  <1>2. /\ b.count \in 0 .. Threshold /\ n \in 0 .. Threshold
        /\ b.state \in {"CLOSED", "OPEN", "HALF_OPEN"}
      BY <1>1, CallsAssumption DEF Breaker
  <1>3. Failed(b) = [b EXCEPT !.count = n, !.state = IF n >= Threshold THEN "OPEN" ELSE @]
      BY DEF Failed
  <1>4. /\ breaker'[c] = Failed(b)
        /\ Failed(b).count = n
        /\ Failed(b).state = IF n >= Threshold THEN "OPEN" ELSE b.state
        /\ Failed(b).openedAt = b.openedAt
      BY <1>1, <1>3 DEF FailCall, Breaker, CallsInv, CallsTypeOK
  <1>5. CASE n >= Threshold
      <2>1. On(t, "stamp")
          BY <1>4, <1>5 DEF FailCall
      <2>2. client'[t] = c /\ step'[t] = "stamp"
          BY <2>1 DEF On, To, CallsInv, CallsTypeOK
      <2>3. \E s \in Threads : client'[s] = c /\ step'[s] = "stamp"
          BY <2>2
      <2>4. n = Threshold
          BY <1>2, <1>5, CallsAssumption
      <2> QED BY <1>4, <1>5, <2>3, <2>4 DEF Coherent, Stamping
  <1>6. CASE ~(n >= Threshold)
      <2>1. n < Threshold /\ b.count < Threshold
          BY <1>2, <1>6, CallsAssumption
      <2>2. b.state # "OPEN"
          BY <1>2, <2>1, CallsAssumption DEF Coherent
      <2> QED BY <1>4, <1>6, <2>1, <2>2 DEF Coherent
  <1> QED BY <1>5, <1>6

LEMMA CoherentNext ==
    ASSUME CallsInv, BreakerCoherent, [Next]_vars
    PROVE  BreakerCoherent'
  <1> SUFFICES ASSUME NEW c \in Threads PROVE Coherent(c)'
      BY DEF BreakerCoherent, Coherent, Stamping
  <1>a. Coherent(c)
      BY CoherentParts
  <1>b. breaker \in [Threads -> Breaker] /\ breaker[c] \in Breaker
      BY DEF CallsInv, CallsTypeOK
  <1>1. ASSUME NEW t \in Threads,
               \/ Look(t) \/ AssertCapability(t) \/ Fetch(t) \/ Enter(t)
        PROVE  Coherent(c)'
      <2>1. breaker' = breaker /\ step[t] # "stamp"
          BY <1>1 DEF Look, AssertCapability, Fetch, Enter
      <2>2. \A s \in Threads \ {t} : step'[s] = step[s] /\ client'[s] = client[s]
          BY <1>1, OnlyOneMoves DEF Proceed
      <2> QED BY <1>a, <2>1, <2>2, OthersKept
  <1>2. ASSUME NEW t \in Threads, Build(t) PROVE Coherent(c)'
      <2>1. \A s \in Threads \ {t} : step'[s] = step[s] /\ client'[s] = client[s]
          BY <1>2, OnlyOneMoves DEF Proceed
      <2>2. CASE c = t
          <3>1. breaker'[c].state = "CLOSED" /\ breaker'[c].count = 0
              BY <1>2, <1>b, <2>2 DEF Build, FreshBreaker
          <3>2. 0 < Threshold
              BY CallsAssumption
          <3> QED BY <3>1, <3>2 DEF Coherent
      <2>3. CASE c # t
          <3>1. breaker'[c] = breaker[c] /\ step[t] # "stamp"
              BY <1>2, <1>b, <2>3 DEF Build
          <3> QED BY <1>a, <2>1, <3>1, OthersKept
      <2> QED BY <2>2, <2>3
  <1>3. ASSUME NEW t \in Threads, Cooldown(t) PROVE Coherent(c)'
      <2>1. \A s \in Threads \ {t} : step'[s] = step[s] /\ client'[s] = client[s]
          BY <1>3, OnlyOneMoves DEF Proceed
      <2>2. step[t] # "stamp"
          BY <1>3 DEF Cooldown
      <2>3. CASE breaker'[c] = breaker[c]
          BY <1>a, <2>1, <2>2, <2>3, OthersKept
      <2>4. CASE breaker'[c].state = "HALF_OPEN"
          BY <2>4 DEF Coherent
      <2>5. breaker'[c] = breaker[c] \/ breaker'[c].state = "HALF_OPEN"
          BY <1>3, <1>b DEF Cooldown, Breaker
      <2> QED BY <2>3, <2>4, <2>5
  <1>4. ASSUME NEW t \in Threads, Attempt(t) PROVE Coherent(c)'
      <2>1. \A s \in Threads \ {t} : step'[s] = step[s] /\ client'[s] = client[s]
          BY <1>4, OnlyOneMoves DEF Proceed
      <2>2. step[t] = "attempt"
          BY <1>4 DEF Attempt
      <2>3. CASE breaker'[c] = breaker[c]
          BY <1>a, <2>1, <2>2, <2>3, OthersKept
      <2>4. CASE breaker' = [breaker EXCEPT ![client[t]] = Succeeded(@)] /\ client[t] = c
          <3>1. breaker'[c].state = "CLOSED" /\ breaker'[c].count = 0
              BY <1>b, <2>4 DEF Succeeded, Breaker
          <3>2. 0 < Threshold
              BY CallsAssumption
          <3> QED BY <3>1, <3>2 DEF Coherent
      <2>5. CASE (FailCall(t, "timeout") \/ FailCall(t, "error")) /\ client[t] = c
          BY <1>a, <2>1, <2>2, <2>5, FailCallCoherent
      <2>6. \/ breaker'[c] = breaker[c]
            \/ /\ breaker' = [breaker EXCEPT ![client[t]] = Succeeded(@)]
               /\ client[t] = c
            \/ (FailCall(t, "timeout") \/ FailCall(t, "error")) /\ client[t] = c
          BY <1>4, <1>b DEF Attempt, FailCall
      <2> QED BY <2>3, <2>4, <2>5, <2>6
  <1>5. ASSUME NEW t \in Threads, Stamp(t) PROVE Coherent(c)'
      <2>1. \A s \in Threads \ {t} : step'[s] = step[s] /\ client'[s] = client[s]
          BY <1>5, OnlyOneMoves DEF Proceed
      <2>2. CASE client[t] = c
          <3>1. /\ breaker'[c].state = breaker[c].state
                /\ breaker'[c].count = breaker[c].count
                /\ breaker'[c].openedAt = "now"
              BY <1>5, <1>b, <2>2 DEF Stamp, Stamped, Breaker
          <3>2. breaker'[c].openedAt # None
              BY <3>1, CallsAssumption
          <3> QED BY <1>a, <3>1, <3>2 DEF Coherent
      <2>3. CASE client[t] # c
          <3>1. breaker'[c] = breaker[c]
              BY <1>5, <1>b, <2>3 DEF Stamp
          <3> QED BY <1>a, <2>1, <2>3, <3>1, OthersKept
      <2> QED BY <2>2, <2>3
  <1>6. ASSUME NEW d \in Threads, Cool(d) PROVE Coherent(c)'
      <2>1. /\ breaker'[c].state = breaker[c].state
            /\ breaker'[c].count = breaker[c].count
            /\ breaker'[c].openedAt \in {breaker[c].openedAt, "cooled"}
          BY <1>6, <1>b DEF Cool, Breaker
      <2>2. breaker'[c].openedAt = None => breaker[c].openedAt = None
          BY <2>1, CallsAssumption
      <2>3. UNCHANGED <<step, client>>
          BY <1>6 DEF Cool
      <2> QED BY <1>a, <2>1, <2>2, <2>3 DEF Coherent, Stamping
  <1>7. CASE Recover \/ UNCHANGED vars
      BY <1>a, <1>7 DEF Recover, vars, Coherent, Stamping
  <1> QED BY <1>1, <1>2, <1>3, <1>4, <1>5, <1>6, <1>7 DEF Next, Proceed

\* For any number of threads and any threshold, the unlocked writes of the
\* breaker leave its state and its failure count in agreement, and an open
\* breaker without an opening time has a thread about to set it.
THEOREM BreakerStaysCoherent == Spec => []BreakerCoherent
  BY CallsInit, CallsNext, CoherentInit, CoherentNext, PTL DEF Spec
=============================================================================
