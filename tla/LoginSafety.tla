----------------------------- MODULE LoginSafety -----------------------------
(* What a login by one-time code guarantees, and what it is said to. *)
EXTENDS OtpLogin

Steps ==
    {"idle", "fetch", "lookup", "insert", "save", "current", "compare", "consume",
     "delete", "mark", "respond", "commit", "done"}

Replies ==
    {"none", "code", "token", "error", "userNotFound", "otpExpired", "invalidOtp"}

\* Every variable keeps its type, and the requests that are in a handler are
\* exactly those that the event loop of their process runs: one at a time.
LoginTypeOK ==
    /\ redis \in [Phones -> Requests \cup {None}]
    /\ users \subseteq Phones
    /\ otps \in [Requests -> {"absent", "unused", "used"}]
    /\ lapsed \subseteq Requests
    /\ step \in [Requests -> Steps]
    /\ phone \in [Requests -> Phones \cup {None}]
    /\ entered \in [Requests -> Requests \cup {None}]
    /\ tx \in [Requests -> [user : BOOLEAN, otp : BOOLEAN, used : Requests \cup {None}]]
    /\ reply \in [Requests -> Replies]
    /\ given \in [Requests -> Requests \cup {None}]
    /\ faults \in 0 .. MaxFaults
    /\ \A c \in Requests :
           loop[home[c]] = c <=> step[c] \notin {"idle", "respond", "commit", "done"}

OneProcess == \A c, d \in Requests : home[c] = home[d]

\* A token is given for a code that was made for that phone and for a user row
\* that is committed, whichever stores the three reads of a verification came
\* from and whatever failed, expired or was overwritten between them.
TokenBelongs ==
    \A c \in Requests : reply[c] = "token" =>
        phone[entered[c]] = phone[c] /\ phone[c] \in users

\* A code logs in once: in one process, while nothing fails, no second
\* verification gets between the reads and the delete of the first.
CodeLogsInOnce ==
    OneProcess /\ faults = 0 =>
        \A c, d \in Requests :
            reply[c] = "token" /\ reply[d] = "token" /\ entered[c] = entered[d] => c = d

\* The code in an answer is the phone's code until it is used or expires: in
\* one process, while nothing fails, no later login puts another in its place.
AnsweredCodeStands ==
    OneProcess /\ faults = 0 =>
        \A c \in Requests : reply[c] = "code" =>
            \/ redis[phone[c]] = given[c]
            \/ given[c] \in lapsed
            \/ \E d \in Requests : reply[d] = "token" /\ entered[d] = given[c]

\* While nothing fails the processes always get through what they were sent: no
\* handler waits, event loop in hand, for a transaction that only its event
\* loop can commit.
RequestsEnd ==
    []<>(faults > 0 \/ \A c \in Requests : step[c] \in {"idle", "done"})

-----------------------------------------------------------------------------

\* The readme: the codes fall back to PostgreSQL when Redis is unavailable;
\* here, a login or a verification that meets an outage still ends.
RequestsEndWithoutRedis ==
    \A c \in Requests : step[c] # "idle" ~> step[c] = "done"
=============================================================================
