---------------------------- MODULE ProviderCalls ----------------------------
(***************************************************************************)
(* Calls of one provider by the server threads of a process: the registry  *)
(* builds and caches the client, WarehouseProviderClient._call puts the    *)
(* client's circuit breaker around its retry policy.  The threads share    *)
(* registry and breaker and take no lock; a thread can be switched at a    *)
(* call and at a loop's back edge, and a step here is what runs between    *)
(* two such points.  (The clients of the repository answer from constants: *)
(* their requests through _call are commented out.)                        *)
(***************************************************************************)
EXTENDS Integers

CONSTANTS
    Threads,      \* server threads; a client is named by the thread that built it
    None,
    Threshold,    \* failure_threshold
    MaxRetries    \* max_retries

ASSUME CallsAssumption ==
    /\ None \notin Threads \cup {"now", "cooled"}
    /\ Threshold \in Nat \ {0}
    /\ MaxRetries \in Nat \ {0}

VARIABLES
    cached,    \* the registry's instance for the provider
    wrong,     \* the row's can_reserve flag disagrees with the client class
    breaker,   \* client -> its CircuitBreaker
    healthy,   \* the provider answers, from now on
    step,      \* thread -> the step it takes next
    client,    \* thread -> the client get_client gave it
    tries,     \* thread -> timeouts its retry loop has seen
    result     \* thread -> how its last call ended, until it makes another

vars == <<cached, wrong, breaker, healthy, step, client, tries, result>>

\* _failure_count is only ever compared with the threshold: the model stops
\* counting there.  `openedAt` is None, or an instant within the cooldown
\* ("now") or beyond it ("cooled").
Breaker == [state : {"CLOSED", "OPEN", "HALF_OPEN"}, count : 0 .. Threshold,
            openedAt : {None, "now", "cooled"}]
FreshBreaker == [state |-> "CLOSED", count |-> 0, openedAt |-> None]

Init ==
    /\ cached = None
    /\ wrong \in BOOLEAN
    /\ breaker = [c \in Threads |-> FreshBreaker]
    /\ healthy = FALSE
    /\ step = [t \in Threads |-> "idle"]
    /\ client = [t \in Threads |-> None]
    /\ tries = [t \in Threads |-> 0]
    /\ result = [t \in Threads |-> "none"]

To(t, next) == step' = [step EXCEPT ![t] = next]

\* The call ends, and the thread is free for the next one.
End(t, how) ==
    /\ To(t, "idle")
    /\ result' = [result EXCEPT ![t] = how]
    /\ client' = [client EXCEPT ![t] = None]
    /\ tries' = [tries EXCEPT ![t] = 0]

On(t, next) == To(t, next) /\ UNCHANGED <<client, tries, result>>

-----------------------------------------------------------------------------
(* ProviderRegistry.get_client *)

\* A mistake: a client for every call.
LookNever(t) ==
    /\ step[t] = "idle"
    /\ To(t, "build")
    /\ result' = [result EXCEPT ![t] = "none"]
    /\ UNCHANGED <<cached, wrong, breaker, healthy, client, tries>>

\* Is there an instance?
Look(t) ==
    /\ step[t] = "idle"
    /\ To(t, IF cached = None THEN "build" ELSE "fetch")
    /\ result' = [result EXCEPT ![t] = "none"]
    /\ UNCHANGED <<cached, wrong, breaker, healthy, client, tries>>

\* The constructor runs, and its client replaces whatever was stored meanwhile.
Build(t) ==
    /\ step[t] = "build"
    /\ cached' = t
    /\ breaker' = [breaker EXCEPT ![t] = FreshBreaker]
    /\ On(t, "assert")
    /\ UNCHANGED <<wrong, healthy>>

\* _assert_capability_consistency, made by the builder after it has stored.
AssertCapability(t) ==
    /\ step[t] = "assert"
    /\ \/ wrong /\ End(t, "misconfigured")
       \/ ~wrong /\ On(t, "fetch")
    /\ UNCHANGED <<cached, wrong, breaker, healthy>>

\* The client is what is stored by now.
Fetch(t) ==
    /\ step[t] = "fetch"
    /\ client' = [client EXCEPT ![t] = cached]
    /\ To(t, "enter")
    /\ UNCHANGED <<cached, wrong, breaker, healthy, tries, result>>

-----------------------------------------------------------------------------
(* CircuitBreaker.execute around RetryPolicy.execute *)

\* Three mistakes: a success that leaves the state as it was, an opening time
\* that is not kept, a retry loop without end.
SuccessKeepsState(b) == [b EXCEPT !.count = 0]
Unstamped(b) == b
AlwaysAgain(n) == TRUE

\* The test of the state, up to the call of time.time().
Enter(t) ==
    /\ step[t] = "enter"
    /\ IF breaker[client[t]].state = "OPEN" THEN On(t, "cooldown") ELSE On(t, "attempt")
    /\ UNCHANGED <<cached, wrong, breaker, healthy>>

\* now - _opened_at >= cooldown_seconds, on the attributes as they are by now.
Cooldown(t) ==
    LET b == breaker[client[t]] IN
    /\ step[t] = "cooldown"
    /\ \/ /\ b.openedAt = None
          /\ End(t, "typeError")
          /\ UNCHANGED breaker
       \/ /\ b.openedAt = "now"
          /\ End(t, "circuitOpen")
          /\ UNCHANGED breaker
       \/ /\ b.openedAt = "cooled"
          /\ breaker' = [breaker EXCEPT ![client[t]].state = "HALF_OPEN"]
          /\ On(t, "attempt")
    /\ UNCHANGED <<cached, wrong, healthy>>

\* for attempt in range(max_retries): is there another one after n timeouts?
Again(n) == n < MaxRetries

Succeeded(b) == [b EXCEPT !.count = 0, !.state = "CLOSED"]

Failed(b) ==
    LET n == IF b.count < Threshold THEN b.count + 1 ELSE Threshold IN
    [b EXCEPT !.count = n, !.state = IF n >= Threshold THEN "OPEN" ELSE @]

\* A ProviderRequestError reaches the breaker: the failure is counted and the
\* state set, up to the call of time.time().
FailCall(t, why) ==
    LET b == Failed(breaker[client[t]]) IN
    /\ breaker' = [breaker EXCEPT ![client[t]] = b]
    /\ IF b.count >= Threshold THEN On(t, "stamp") ELSE End(t, why)

\* A request of the transport comes back, however late.  Only a timeout is
\* tried again; what is no httpx error (a body that is no JSON) passes every
\* handler.
Attempt(t) ==
    /\ step[t] = "attempt"
    /\ \/ /\ breaker' = [breaker EXCEPT ![client[t]] = Succeeded(@)]
          /\ End(t, "ok")
       \/ /\ ~healthy /\ Again(tries[t] + 1)
          /\ tries' = [tries EXCEPT ![t] = @ + 1]
          /\ UNCHANGED <<step, client, result, breaker>>
       \/ ~healthy /\ ~Again(tries[t] + 1) /\ FailCall(t, "timeout")
       \/ ~healthy /\ FailCall(t, "error")
       \/ ~healthy /\ End(t, "undecodable") /\ UNCHANGED breaker
    /\ UNCHANGED <<cached, wrong, healthy>>

Stamped(b) == [b EXCEPT !.openedAt = "now"]

\* _opened_at is assigned, whatever the state has become.
Stamp(t) ==
    /\ step[t] = "stamp"
    /\ breaker' = [breaker EXCEPT ![client[t]] = Stamped(@)]
    /\ End(t, "failed")
    /\ UNCHANGED <<cached, wrong, healthy>>

-----------------------------------------------------------------------------
(* Time and the provider. *)

Cool(c) ==
    /\ breaker[c].openedAt = "now"
    /\ breaker' = [breaker EXCEPT ![c].openedAt = "cooled"]
    /\ UNCHANGED <<cached, wrong, healthy, step, client, tries, result>>

Recover ==
    /\ ~healthy /\ healthy' = TRUE
    /\ UNCHANGED <<cached, wrong, breaker, step, client, tries, result>>

-----------------------------------------------------------------------------

\* What a thread does inside a call.
Proceed(t) ==
    \/ Build(t) \/ AssertCapability(t) \/ Fetch(t)
    \/ Enter(t) \/ Cooldown(t) \/ Attempt(t) \/ Stamp(t)

Next ==
    \/ \E t \in Threads : Look(t) \/ Proceed(t) \/ Cool(t)
    \/ Recover

Spec == Init /\ [][Next]_vars

\* Threads run on, time passes; calls keep coming, the provider need not
\* recover.
FairSpec ==
    /\ Spec
    /\ \A t \in Threads : WF_vars(Proceed(t)) /\ WF_vars(Look(t)) /\ WF_vars(Cool(t))

-----------------------------------------------------------------------------

Steps ==
    {"idle", "build", "assert", "fetch", "enter", "cooldown", "attempt", "stamp"}

Results ==
    {"none", "misconfigured", "typeError", "circuitOpen", "undecodable", "ok",
     "timeout", "error", "failed"}

\* Registry, breakers and calls keep their types; get_client never gives out
\* nothing, and the retry loop stops at max_retries.
CallsTypeOK ==
    /\ cached \in Threads \cup {None}
    /\ breaker \in [Threads -> Breaker]
    /\ step \in [Threads -> Steps]
    /\ client \in [Threads -> Threads \cup {None}]
    /\ \A t \in Threads :
           client[t] = None <=> step[t] \in {"idle", "build", "assert", "fetch"}
    /\ tries \in [Threads -> 0 .. MaxRetries - 1]
    /\ result \in [Threads -> Results]

\* State and count agree, whoever writes them in between: a closed breaker has
\* not reached its threshold, an open one has; and an open one without an
\* opening time has a thread about to set it, so that no cooldown lasts for
\* ever.
BreakerCoherent ==
    \A c \in Threads :
        LET b == breaker[c] IN
        /\ b.state = "CLOSED" => b.count < Threshold
        /\ b.state = "OPEN" => b.count = Threshold
        /\ b.state = "OPEN" /\ b.openedAt = None =>
               \E t \in Threads : client[t] = c /\ step[t] = "stamp"

\* However many threads built a client at first use, in the end all calls go
\* through one client and count on one breaker.
OneBreakerInTheEnd == <>[](\A t \in Threads : client[t] \in {None, cached})

\* No race of the threads leaves a decision that sticks: once the provider
\* answers, the breaker that calls go through closes and stays closed.  (A thread
\* that computes with an opening time not yet set does crash, against
\* SCALABILITY.md's "not a crash": its call ends in typeError.)
BreakerRecovers ==
    healthy ~> [](\A t \in Threads :
                      client[t] # None => breaker[client[t]].state = "CLOSED")
=============================================================================
