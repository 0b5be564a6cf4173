------------------------------ MODULE OtpLogin ------------------------------
(***************************************************************************)
(* Login by one-time code: codes in Redis, with PostgreSQL (otps) behind   *)
(* it when a Redis call fails, and users rows made at the first login.     *)
(*                                                                         *)
(* Both routes are async functions that call blocking code: a handler      *)
(* keeps the event loop of its process from its first call to its return,  *)
(* while it waits for a row lock too.  The transaction is committed by     *)
(* get_db_postgres after the answer has left, in a thread that the event   *)
(* loop has to start.                                                      *)
(***************************************************************************)
EXTENDS Integers, FiniteSets

CONSTANTS
    Phones,     \* phone numbers
    Requests,   \* HTTP requests; a login that generates a code names it
    Processes,  \* uvicorn processes, each with one event loop
    Known,      \* the sets of phones that may have a users row at the start
    Homes,      \* the ways requests are spread over the processes
    None,       \* no code, no request
    Ambiguous,  \* scalar_one_or_none found several rows
    MaxFaults   \* bound on failed Redis calls, outages and process crashes

ASSUME LoginAssumption ==
    /\ None \notin Requests /\ Ambiguous \notin Requests /\ None # Ambiguous
    /\ Homes \subseteq [Requests -> Processes]
    /\ Known \subseteq SUBSET Phones
    /\ MaxFaults \in Nat

VARIABLES
    redis,    \* phone -> the code under its key
    down,     \* Redis does not answer
    users,    \* phones with a committed users row
    otps,     \* code -> its committed otps row
    lapsed,   \* codes whose time is over, in whichever store
    home,     \* request -> the process it was sent to
    loop,     \* process -> the request whose handler its event loop runs
    step,     \* request -> the step it takes next
    phone,    \* request -> the phone number it names
    entered,  \* verification -> the code the client sends
    tx,       \* request -> what its open transaction has written
    reply,    \* request -> the answer that has left
    given,    \* login -> the code in its answer
    faults    \* failures so far

stores == <<redis, users, otps, lapsed>>
vars == <<stores, down, home, loop, step, phone, entered, tx, reply, given, faults>>

NoWrites == [user |-> FALSE, otp |-> FALSE, used |-> None]

Init ==
    /\ redis = [f \in Phones |-> None]
    /\ down = FALSE
    /\ users \in Known
    /\ otps = [c \in Requests |-> "absent"]
    /\ lapsed = {}
    /\ home \in Homes
    /\ loop = [p \in Processes |-> None]
    /\ step = [c \in Requests |-> "idle"]
    /\ phone = [c \in Requests |-> None]
    /\ entered = [c \in Requests |-> None]
    /\ tx = [c \in Requests |-> NoWrites]
    /\ reply = [c \in Requests |-> "none"]
    /\ given = [c \in Requests |-> None]
    /\ faults = 0

-----------------------------------------------------------------------------
(* Handlers and the event loop. *)

\* A mistake, or a choice: plain `def` routes, which run in threads.
LoopNotNeeded(c) == TRUE

LoopFree(c) == loop[home[c]] = None

Take(c) == loop' = [loop EXCEPT ![home[c]] = c]
To(c, next) == step' = [step EXCEPT ![c] = next]
Free(c) == loop' = [loop EXCEPT ![home[c]] = None]

\* The handler goes on to its next call.
On(c, next) == To(c, next) /\ UNCHANGED <<loop, tx, reply, given>>

\* The handler returns: the answer leaves, the transaction is still open.
Return(c, answer, code) ==
    /\ reply' = [reply EXCEPT ![c] = answer]
    /\ given' = [given EXCEPT ![c] = code]
    /\ To(c, "respond") /\ Free(c)

\* An exception: get_db_postgres rolls back and an error is answered.
Fail(c, answer) ==
    /\ reply' = [reply EXCEPT ![c] = answer]
    /\ tx' = [tx EXCEPT ![c] = NoWrites]
    /\ To(c, "done") /\ Free(c)
    /\ UNCHANGED given

-----------------------------------------------------------------------------
(* The two stores. *)

\* A mistake: the key does not name the phone.
SharedKey(f) == CHOOSE g \in Phones : TRUE

Key(f) == f

Fault == faults < MaxFaults /\ faults' = faults + 1

\* A Redis call answers, or raises a RedisError.
Served == ~down /\ UNCHANGED faults
Refused == \/ down /\ UNCHANGED faults
           \/ ~down /\ Fault

\* The otps rows a SELECT for phone f finds: unused and not expired.
ActiveOtps(f) == {d \in Requests : phone[d] = f /\ otps[d] = "unused" /\ d \notin lapsed}

\* get_active_otp; more than one row raises.
ActiveOtp(f) ==
    IF ActiveOtps(f) = {} THEN None
    ELSE IF Cardinality(ActiveOtps(f)) > 1 THEN Ambiguous
    ELSE CHOOSE d \in ActiveOtps(f) : TRUE

\* OtpFallbackRepository.get_otp and exists give v.
GetOtp(f, v) ==
    \/ Served /\ v = redis[Key(f)]
    \/ Refused /\ v = ActiveOtp(f)

Answers == Requests \cup {None, Ambiguous}

-----------------------------------------------------------------------------
(* login *)

\* A mistake: every login generates a code.
LoginAlwaysNew(c, f) ==
    /\ step[c] = "idle" /\ LoopFree(c)
    /\ phone' = [phone EXCEPT ![c] = f]
    /\ To(c, "lookup") /\ Take(c)
    /\ UNCHANGED <<stores, down, home, entered, tx, reply, given, faults>>

\* has_active_otp
LoginStart(c, f) ==
    /\ step[c] = "idle" /\ LoopFree(c)
    /\ phone' = [phone EXCEPT ![c] = f]
    /\ \E v \in Answers :
        /\ GetOtp(f, v)
        /\ \/ v = Ambiguous /\ Fail(c, "error")
           \/ /\ v # Ambiguous
              /\ To(c, IF v = None THEN "lookup" ELSE "fetch") /\ Take(c)
              /\ UNCHANGED <<tx, reply, given>>
    /\ UNCHANGED <<stores, down, home, entered>>

\* The code there is goes into the answer (it is read twice, once to be
\* printed); the answer cannot be built without one.
LoginFetch(c) ==
    /\ step[c] = "fetch"
    /\ \E v \in Answers :
        /\ GetOtp(phone[c], v)
        /\ \/ v \in Requests /\ Return(c, "code", v) /\ UNCHANGED tx
           \/ v \notin Requests /\ Fail(c, "error")
    /\ UNCHANGED <<stores, down, home, phone, entered>>

LoginLookup(c) ==
    /\ step[c] = "lookup"
    /\ On(c, IF phone[c] \in users THEN "save" ELSE "insert")
    /\ UNCHANGED <<stores, down, home, phone, entered, faults>>

\* create_user: the INSERT waits, with the event loop, for an uncommitted row
\* of the same phone; if that one is committed the unique key raises.
LoginInsert(c) ==
    /\ step[c] = "insert"
    /\ \A d \in Requests \ {c} : ~(tx[d].user /\ phone[d] = phone[c])
    /\ \/ phone[c] \in users /\ Fail(c, "error")
       \/ /\ phone[c] \notin users
          /\ tx' = [tx EXCEPT ![c].user = TRUE]
          /\ To(c, "save")
          /\ UNCHANGED <<loop, reply, given>>
    /\ UNCHANGED <<stores, down, home, phone, entered, faults>>

Put(f, v) == redis' = [redis EXCEPT ![Key(f)] = v]

\* save_otp; a SET that raises may have been done.
LoginSave(c) ==
    /\ step[c] = "save"
    /\ \/ Served /\ Put(phone[c], c) /\ UNCHANGED tx
       \/ /\ Refused /\ (UNCHANGED redis \/ (~down /\ Put(phone[c], c)))
          /\ tx' = [tx EXCEPT ![c].otp = TRUE]
    /\ Return(c, "code", c)
    /\ UNCHANGED <<users, otps, lapsed, down, home, phone, entered>>

-----------------------------------------------------------------------------
(* otp_verification *)

VerifyStart(c, f, d) ==
    /\ step[c] = "idle" /\ LoopFree(c)
    /\ phone' = [phone EXCEPT ![c] = f]
    /\ entered' = [entered EXCEPT ![c] = d]
    /\ \/ f \notin users /\ Fail(c, "userNotFound")
       \/ f \in users /\ To(c, "current") /\ Take(c) /\ UNCHANGED <<tx, reply, given>>
    /\ UNCHANGED <<stores, down, home, faults>>

\* get_otp: is there a code at all?
VerifyCurrent(c) ==
    /\ step[c] = "current"
    /\ \E v \in Answers :
        /\ GetOtp(phone[c], v)
        /\ \/ v \in Requests /\ On(c, "compare")
           \/ v = None /\ Fail(c, "otpExpired")
           \/ v = Ambiguous /\ Fail(c, "error")
    /\ UNCHANGED <<stores, down, home, phone, entered>>

\* verify_otp reads it again and compares.
VerifyCompare(c) ==
    /\ step[c] = "compare"
    /\ \E v \in Answers :
        /\ GetOtp(phone[c], v)
        /\ \/ v = entered[c] /\ On(c, "consume")
           \/ v = Ambiguous /\ Fail(c, "error")
           \/ v \notin {entered[c], Ambiguous} /\ Fail(c, "invalidOtp")
    /\ UNCHANGED <<stores, down, home, phone, entered>>

\* verify_and_consume reads it a third time; when there is nothing to consume
\* it says so, and the service does not look.
VerifyConsume(c) ==
    /\ step[c] = "consume"
    /\ \/ /\ Served
          /\ \/ redis[Key(phone[c])] = entered[c] /\ On(c, "delete")
             \/ redis[Key(phone[c])] # entered[c] /\ Return(c, "token", None) /\ UNCHANGED tx
       \/ /\ Refused
          /\ \/ entered[c] \in ActiveOtps(phone[c]) /\ On(c, "mark")
             \/ entered[c] \notin ActiveOtps(phone[c]) /\ Return(c, "token", None) /\ UNCHANGED tx
    /\ UNCHANGED <<stores, down, home, phone, entered>>

\* delete_otp has no fallback: a RedisError is a 500, the key gone or not.
VerifyDelete(c) ==
    /\ step[c] = "delete"
    /\ \/ Served /\ Put(phone[c], None) /\ Return(c, "token", None) /\ UNCHANGED tx
       \/ /\ Refused /\ (UNCHANGED redis \/ (~down /\ Put(phone[c], None)))
          /\ Fail(c, "error")
    /\ UNCHANGED <<users, otps, lapsed, down, home, phone, entered>>

\* mark_otp_used: the UPDATE waits for another one of the same row and then
\* goes ahead, used already or not.
VerifyMark(c) ==
    /\ step[c] = "mark"
    /\ \A d \in Requests \ {c} : tx[d].used # entered[c]
    /\ tx' = [tx EXCEPT ![c].used = entered[c]]
    /\ Return(c, "token", None)
    /\ UNCHANGED <<stores, down, home, phone, entered, faults>>

-----------------------------------------------------------------------------
(* After the answer. *)

\* The event loop hands the commit to a thread.
Dispatch(c) ==
    /\ step[c] = "respond" /\ LoopFree(c)
    /\ On(c, "commit")
    /\ UNCHANGED <<stores, down, home, phone, entered, faults>>

CommitLogin(c) ==
    /\ step[c] = "commit"
    /\ users' = users \cup {f \in Phones : tx[c].user /\ phone[c] = f}
    /\ otps' = [d \in Requests |->
           IF tx[c].used = d THEN "used"
           ELSE IF tx[c].otp /\ d = c THEN "unused" ELSE otps[d]]
    /\ tx' = [tx EXCEPT ![c] = NoWrites]
    /\ To(c, "done")
    /\ UNCHANGED <<redis, lapsed, down, home, loop, phone, entered, reply, given, faults>>

-----------------------------------------------------------------------------
(* Time and failures. *)

\* OTP_EXPIRE_SECONDS pass, for the Redis key and for expires_at; that is far
\* longer than a request takes.
Lapse(d) ==
    /\ step[d] = "done" /\ d \notin lapsed
    /\ redis[phone[d]] = d \/ otps[d] = "unused"
    /\ lapsed' = lapsed \cup {d}
    /\ redis' = [f \in Phones |-> IF redis[f] = d THEN None ELSE redis[f]]
    /\ UNCHANGED <<users, otps, down, home, loop, step, phone, entered, tx, reply, given, faults>>

\* Redis goes away, and comes back with or without its keys.
RedisDown ==
    /\ ~down /\ Fault /\ down' = TRUE
    /\ UNCHANGED <<stores, home, loop, step, phone, entered, tx, reply, given>>

RedisUp ==
    /\ down /\ down' = FALSE
    /\ redis' \in {redis, [f \in Phones |-> None]}
    /\ UNCHANGED <<users, otps, lapsed, home, loop, step, phone, entered, tx, reply, given, faults>>

\* A process dies with every request it has in hand, and is started again.
ProcessCrash(p) ==
    LET lost == {c \in Requests : home[c] = p /\ step[c] \notin {"idle", "done"}} IN
    /\ lost # {} /\ Fault
    /\ step' = [c \in Requests |-> IF c \in lost THEN "done" ELSE step[c]]
    /\ tx' = [c \in Requests |-> IF c \in lost THEN NoWrites ELSE tx[c]]
    /\ loop' = [loop EXCEPT ![p] = None]
    /\ UNCHANGED <<stores, down, home, phone, entered, reply, given>>

-----------------------------------------------------------------------------

Handle(c) ==
    \/ LoginFetch(c) \/ LoginLookup(c) \/ LoginInsert(c) \/ LoginSave(c)
    \/ VerifyCurrent(c) \/ VerifyCompare(c) \/ VerifyConsume(c)
    \/ VerifyDelete(c) \/ VerifyMark(c)
    \/ Dispatch(c) \/ CommitLogin(c)

\* A client sends a code that some answer contained, or a wrong one (that a
\* verification itself would name: no login generated it).
CodesKnown == {given[d] : d \in {e \in Requests : reply[e] = "code"}}

Begin(c) ==
    \E f \in Phones :
        LoginStart(c, f) \/ \E d \in CodesKnown \cup {c} : VerifyStart(c, f, d)

Next ==
    \/ \E c \in Requests : Begin(c) \/ Handle(c) \/ Lapse(c)
    \/ RedisDown \/ RedisUp
    \/ \E p \in Processes : ProcessCrash(p)

Spec == Init /\ [][Next]_vars

\* Handlers and threads run on, and a request that stays ready gets its turn of
\* the event loop.  Nothing else is fair: no client need come, Redis need not
\* go or return.
FairSpec == Spec /\ \A c \in Requests : WF_vars(Handle(c))
=============================================================================
