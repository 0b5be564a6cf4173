---------------------------- MODULE LoginProofs ----------------------------
(***************************************************************************)
(* Proofs about LoginSafety, for any number of phones, requests, processes *)
(* and failures: a token belongs to its phone, and in one process, while   *)
(* nothing fails, a code logs in once and an answered code stands.         *)
(***************************************************************************)
EXTENDS LoginSafety, TLAPS

-----------------------------------------------------------------------------
(* The invariant. *)

\* The steps of a request whose handler has returned, or was cut off.
After == {"respond", "commit", "done"}

Handling == {"fetch", "lookup", "insert", "save", "current", "compare", "consume",
             "delete", "mark"}

TypeInv ==
    /\ LoginTypeOK
    /\ home \in [Requests -> Processes]
    /\ loop \in [Processes -> Requests \cup {None}]

\* A code that is stored was made by a login of that phone which has ended.
StoresOK ==
    /\ \A f \in Phones : redis[f] # None => phone[redis[f]] = f /\ step[redis[f]] \in After
    /\ \A d \in Requests : otps[d] # "absent" => step[d] = "done"
    /\ \A c \in Requests : tx[c].used # None => step[tx[c].used] = "done"

\* Code entered[c] was made for the phone request c names, a user's.
Checked(c) ==
    /\ entered[c] \in Requests /\ phone[entered[c]] = phone[c] /\ phone[c] \in users
    /\ step[entered[c]] \in After

RequestOK(c) ==
    /\ step[c] # "idle" => phone[c] \in Phones
    /\ step[c] \notin After => reply[c] = "none"
    /\ step[c] \in {"current", "compare", "consume", "delete", "mark"} =>
           entered[c] \in Requests /\ phone[c] \in users
    /\ step[c] \in {"consume", "delete", "mark"} \/ reply[c] = "token" => Checked(c)
    /\ step[c] = "mark" => step[entered[c]] = "done"
    /\ reply[c] = "code" => given[c] \in Requests

BaseInv == TypeInv /\ StoresOK /\ \A c \in Requests : RequestOK(c)

LEMMA InitBase == Init => BaseInv
  <1> SUFFICES ASSUME Init PROVE BaseInv
      OBVIOUS
  <1>1. TypeInv
      BY LoginAssumption DEF Init, TypeInv, LoginTypeOK, Steps, Replies, NoWrites
  <1>2. StoresOK
      BY DEF Init, StoresOK, NoWrites
  <1>3. \A c \in Requests : RequestOK(c)
      BY DEF Init, RequestOK, After
  <1> QED BY <1>1, <1>2, <1>3 DEF BaseInv

-----------------------------------------------------------------------------
(* Where a step of request c leads. *)

Moves(c) == Begin(c) \/ Handle(c)

LEMMA CodesAreRequests ==
    ASSUME BaseInv, NEW c \in Requests, NEW d \in CodesKnown \cup {c}
    PROVE  d \in Requests
  BY DEF BaseInv, RequestOK, CodesKnown

\* What either store answers is a code, or says that there is none.
LEMMA OtpAnswers ==
    ASSUME BaseInv, NEW f \in Phones, NEW v, GetOtp(f, v), v \in Requests
    PROVE  phone[v] = f /\ step[v] \in After
  <1>1. CASE v = redis[f]
      BY <1>1, LoginAssumption DEF BaseInv, StoresOK
  <1>2. CASE v = ActiveOtp(f)
    <2>1. v \in ActiveOtps(f)
        BY <1>2, LoginAssumption DEF ActiveOtp
    <2> QED BY <2>1 DEF ActiveOtps, BaseInv, StoresOK, After
  <1> QED BY <1>1, <1>2 DEF GetOtp, Key

\* One request's step is no other's, and the event loop is handed over whole.
LEMMA Aside ==
    ASSUME TypeInv, NEW c \in Requests, Moves(c)
    PROVE  /\ home' = home /\ step[c] # "done"
           /\ \A d \in Requests \ {c} :
                  /\ step'[d] = step[d] /\ phone'[d] = phone[d] /\ entered'[d] = entered[d]
                  /\ tx'[d] = tx[d] /\ reply'[d] = reply[d] /\ given'[d] = given[d]
           /\ step[c] # "idle" => phone'[c] = phone[c] /\ entered'[c] = entered[c]
  <1> USE DEF TypeInv, LoginTypeOK, To, On, Return, Fail, Take, Free
  <1>1. CASE \E f \in Phones : LoginStart(c, f)
      BY <1>1 DEF LoginStart
  <1>2. CASE \E f \in Phones, d \in CodesKnown \cup {c} : VerifyStart(c, f, d)
      BY <1>2 DEF VerifyStart
  <1>3. CASE LoginFetch(c) \/ LoginLookup(c) \/ LoginInsert(c) \/ LoginSave(c)
      BY <1>3 DEF LoginFetch, LoginLookup, LoginInsert, LoginSave
  <1>4. CASE VerifyCurrent(c) \/ VerifyCompare(c)
      BY <1>4 DEF VerifyCurrent, VerifyCompare
  <1>5. CASE VerifyConsume(c) \/ VerifyDelete(c) \/ VerifyMark(c)
      BY <1>5 DEF VerifyConsume, VerifyDelete, VerifyMark
  <1>6. CASE Dispatch(c) \/ CommitLogin(c)
      BY <1>6 DEF Dispatch, CommitLogin
  <1> QED BY <1>1, <1>2, <1>3, <1>4, <1>5, <1>6 DEF Moves, Begin, Handle

LEMMA LoopMoves ==
    ASSUME TypeInv, NEW c \in Requests, Moves(c)
    PROVE  \/ /\ step[c] = "idle" /\ LoopFree(c)
              /\ step'[c] \in Handling /\ Take(c)
           \/ /\ step[c] \in Handling \/ (step[c] = "idle" /\ LoopFree(c))
              /\ step'[c] \in After /\ Free(c)
           \/ /\ loop' = loop
              /\ \/ step[c] \in Handling /\ step'[c] \in Handling
                 \/ step[c] \in {"respond", "commit"} /\ step'[c] \in After
  <1> USE DEF TypeInv, LoginTypeOK, Handling, After, To, On, Return, Fail
  <1>1. CASE \E f \in Phones : LoginStart(c, f)
      BY <1>1 DEF LoginStart
  <1>2. CASE \E f \in Phones, d \in CodesKnown \cup {c} : VerifyStart(c, f, d)
      BY <1>2 DEF VerifyStart
  <1>3. CASE LoginFetch(c) \/ LoginLookup(c) \/ LoginInsert(c) \/ LoginSave(c)
      BY <1>3 DEF LoginFetch, LoginLookup, LoginInsert, LoginSave
  <1>4. CASE VerifyCurrent(c) \/ VerifyCompare(c)
      BY <1>4 DEF VerifyCurrent, VerifyCompare
  <1>5. CASE VerifyConsume(c) \/ VerifyDelete(c) \/ VerifyMark(c)
      BY <1>5 DEF VerifyConsume, VerifyDelete, VerifyMark
  <1>6. CASE Dispatch(c) \/ CommitLogin(c)
      BY <1>6 DEF Dispatch, CommitLogin
  <1> QED BY <1>1, <1>2, <1>3, <1>4, <1>5, <1>6 DEF Moves, Begin, Handle

RunsLoop == \A c \in Requests : loop[home[c]] = c <=> step[c] \in Handling

LEMMA Runs == TypeInv => RunsLoop
  BY DEF TypeInv, LoginTypeOK, RunsLoop, Handling, Steps

LEMMA LoopHere ==
    ASSUME TypeInv, NEW c \in Requests, Moves(c)
    PROVE  /\ loop' \in [Processes -> Requests \cup {None}]
           /\ \A d \in Requests : loop'[home'[d]] = d <=>
                                      step'[d] \notin {"idle", "respond", "commit", "done"}
  <1> DEFINE H == {"idle", "respond", "commit", "done"}
  <1>0. /\ \A d \in Requests : loop[home[d]] = d <=> step[d] \notin H
        /\ \A d \in Requests : home[d] \in Processes
        /\ home' = home /\ \A d \in Requests \ {c} : step'[d] = step[d]
        /\ loop \in [Processes -> Requests \cup {None}]
      BY Aside DEF TypeInv, LoginTypeOK
  <1>1. CASE step[c] = "idle" /\ LoopFree(c) /\ step'[c] \in Handling /\ Take(c)
      BY <1>0, <1>1, LoginAssumption DEF LoopFree, Take, Handling
  <1>2. CASE /\ step[c] \in Handling \/ (step[c] = "idle" /\ LoopFree(c))
             /\ step'[c] \in After /\ Free(c)
      BY <1>0, <1>2, LoginAssumption DEF LoopFree, Free, Handling, After
  <1>3. CASE /\ loop' = loop
             /\ \/ step[c] \in Handling /\ step'[c] \in Handling
                \/ step[c] \in {"respond", "commit"} /\ step'[c] \in After
      BY <1>0, <1>3 DEF Handling, After
  <1> QED BY <1>1, <1>2, <1>3, LoopMoves

\* How a handler hands on the event loop, the request and its answer.
RowOK == [user : BOOLEAN, otp : BOOLEAN, used : Requests \cup {None}]

HandTyped ==
    /\ step \in [Requests -> Steps] /\ tx \in [Requests -> RowOK]
    /\ reply \in [Requests -> Replies] /\ given \in [Requests -> Requests \cup {None}]

LEMMA HandOver ==
    ASSUME HandTyped, NEW c \in Requests, NEW next \in Steps, NEW answer \in Replies,
           NEW code \in Requests \cup {None}
    PROVE  /\ On(c, next) => HandTyped'
           /\ To(c, next) /\ UNCHANGED <<tx, reply, given>> => HandTyped'
           /\ Return(c, answer, code) /\ UNCHANGED tx => HandTyped'
           /\ Fail(c, answer) => HandTyped'
  <1>0. NoWrites \in RowOK
      BY DEF NoWrites, RowOK
  <1>1. To(c, next) => step' \in [Requests -> Steps]
      BY DEF To, HandTyped
  <1>2. To(c, "respond") \/ To(c, "done") => step' \in [Requests -> Steps]
      BY DEF To, HandTyped, Steps
  <1>3. On(c, next) => HandTyped'
      BY <1>1 DEF On, HandTyped
  <1>4. To(c, next) /\ UNCHANGED <<tx, reply, given>> => HandTyped'
      BY <1>1 DEF HandTyped
  <1>5. Return(c, answer, code) /\ UNCHANGED tx => HandTyped'
      BY <1>2 DEF Return, HandTyped
  <1>6. Fail(c, answer) => HandTyped'
      BY <1>0, <1>2 DEF Fail, HandTyped
  <1> QED BY <1>3, <1>4, <1>5, <1>6

LEMMA TypeHere ==
    ASSUME BaseInv, NEW c \in Requests, Moves(c)
    PROVE  TypeInv'
  <1> DEFINE Stored == /\ redis \in [Phones -> Requests \cup {None}]
                       /\ users \subseteq Phones
                       /\ otps \in [Requests -> {"absent", "unused", "used"}]
                       /\ lapsed \subseteq Requests
             Sent == /\ phone \in [Requests -> Phones \cup {None}]
                     /\ entered \in [Requests -> Requests \cup {None}]
                     /\ faults \in 0 .. MaxFaults
  <1>0. /\ Stored /\ Sent /\ HandTyped /\ MaxFaults \in Nat
        /\ step[c] # "idle" => phone[c] \in Phones
        /\ step[c] \in {"consume", "mark"} => entered[c] \in Requests
      BY LoginAssumption DEF BaseInv, RequestOK, TypeInv, LoginTypeOK, HandTyped, RowOK
  <1>1. (Fault => faults' \in 0 .. MaxFaults) /\ (UNCHANGED faults => faults' \in 0 .. MaxFaults)
      BY <1>0 DEF Fault
  <1>2. ASSUME Stored', Sent', HandTyped' PROVE TypeInv'
    <2>1. home' \in [Requests -> Processes]
        BY Aside DEF BaseInv, TypeInv
    <2>2. LoginTypeOK'
        BY <1>2, LoopHere DEF BaseInv, LoginTypeOK, HandTyped, RowOK
    <2> QED BY <2>1, <2>2, LoopHere DEF TypeInv, BaseInv
  <1>3. \A answer \in Replies : Fail(c, answer) => HandTyped'
      BY <1>0, HandOver DEF Steps
  <1>4. /\ \A next \in Steps : On(c, next) => HandTyped'
        /\ \A next \in Steps : To(c, next) /\ UNCHANGED <<tx, reply, given>> => HandTyped'
      BY <1>0, HandOver DEF Replies
  <1>5. \A answer \in Replies, code \in Requests \cup {None} :
            Return(c, answer, code) /\ UNCHANGED tx => HandTyped'
      BY <1>0, HandOver DEF Steps
  <1>6. \A f \in Phones, v \in Answers : GetOtp(f, v) => faults' \in 0 .. MaxFaults
      BY <1>1 DEF GetOtp, Served, Refused
  <1>7. \A f \in Phones, v \in Requests \cup {None} :
            Put(f, v) => redis' \in [Phones -> Requests \cup {None}]
      BY <1>0 DEF Put, Key
  <1>8. UNCHANGED stores => Stored'
      BY <1>0 DEF stores
  <1>9. ASSUME NEW f \in Phones, LoginStart(c, f) PROVE TypeInv'
    <2>1. Sent'
        BY <1>0, <1>6, <1>9 DEF LoginStart
    <2>2. HandTyped'
        BY <1>3, <1>4, <1>9 DEF LoginStart, Steps, Replies
    <2> QED BY <1>2, <1>8, <1>9, <2>1, <2>2 DEF LoginStart
  <1>10. ASSUME NEW f \in Phones, NEW d \in CodesKnown \cup {c}, VerifyStart(c, f, d)
         PROVE TypeInv'
    <2>1. Sent'
        BY <1>0, <1>1, <1>10, CodesAreRequests DEF VerifyStart
    <2>2. HandTyped'
        BY <1>3, <1>4, <1>10 DEF VerifyStart, Steps, Replies
    <2> QED BY <1>2, <1>8, <1>10, <2>1, <2>2 DEF VerifyStart
  <1>11. CASE LoginFetch(c)
    <2>1. Sent'
        BY <1>0, <1>6, <1>11 DEF LoginFetch
    <2>2. HandTyped'
        BY <1>3, <1>5, <1>11 DEF LoginFetch, Replies
    <2> QED BY <1>2, <1>8, <1>11, <2>1, <2>2 DEF LoginFetch
  <1>12. CASE LoginLookup(c)
    <2>1. HandTyped'
        BY <1>4, <1>12 DEF LoginLookup, Steps
    <2> QED BY <1>0, <1>1, <1>2, <1>8, <1>12, <2>1 DEF LoginLookup
  <1>13. CASE LoginInsert(c)
    <2>1. [tx EXCEPT ![c].user = TRUE] \in [Requests -> RowOK]
        BY <1>0 DEF HandTyped, RowOK
    <2>2. HandTyped'
        BY <1>0, <1>3, <1>13, <2>1 DEF LoginInsert, HandTyped, To, Steps, Replies
    <2> QED BY <1>0, <1>1, <1>2, <1>8, <1>13, <2>2 DEF LoginInsert
  <1>14. CASE LoginSave(c)
    <2>1. [tx EXCEPT ![c].otp = TRUE] \in [Requests -> RowOK]
        BY <1>0 DEF HandTyped, RowOK
    <2>2. HandTyped'
        BY <1>0, <1>14, <2>1 DEF LoginSave, HandTyped, Return, To, Steps, Replies
    <2>3. Stored' /\ Sent'
        BY <1>0, <1>1, <1>7, <1>14 DEF LoginSave, Served, Refused
    <2> QED BY <1>2, <2>2, <2>3
  <1>15. CASE VerifyCurrent(c)
    <2>1. Sent'
        BY <1>0, <1>6, <1>15 DEF VerifyCurrent
    <2>2. HandTyped'
        BY <1>3, <1>4, <1>15 DEF VerifyCurrent, Steps, Replies
    <2> QED BY <1>2, <1>8, <1>15, <2>1, <2>2 DEF VerifyCurrent
  <1>16. CASE VerifyCompare(c)
    <2>1. Sent'
        BY <1>0, <1>6, <1>16 DEF VerifyCompare
    <2>2. HandTyped'
        BY <1>3, <1>4, <1>16 DEF VerifyCompare, Steps, Replies
    <2> QED BY <1>2, <1>8, <1>16, <2>1, <2>2 DEF VerifyCompare
  <1>17. CASE VerifyConsume(c)
    <2>1. Sent'
        BY <1>0, <1>1, <1>17 DEF VerifyConsume, Served, Refused
    <2>2. HandTyped'
        BY <1>4, <1>5, <1>17 DEF VerifyConsume, Steps, Replies
    <2> QED BY <1>2, <1>8, <1>17, <2>1, <2>2 DEF VerifyConsume
  <1>18. CASE VerifyDelete(c)
    <2>1. Stored' /\ Sent'
        BY <1>0, <1>1, <1>7, <1>18 DEF VerifyDelete, Served, Refused
    <2>2. HandTyped'
        BY <1>3, <1>5, <1>18 DEF VerifyDelete, Replies
    <2> QED BY <1>2, <2>1, <2>2
  <1>19. CASE VerifyMark(c)
    <2>1. [tx EXCEPT ![c].used = entered[c]] \in [Requests -> RowOK]
        BY <1>0, <1>19 DEF HandTyped, RowOK, VerifyMark
    <2>2. HandTyped'
        BY <1>0, <1>19, <2>1 DEF VerifyMark, HandTyped, Return, To, Steps, Replies
    <2> QED BY <1>0, <1>1, <1>2, <1>8, <1>19, <2>2 DEF VerifyMark
  <1>20. CASE Dispatch(c)
    <2>1. HandTyped'
        BY <1>4, <1>20 DEF Dispatch, Steps
    <2> QED BY <1>0, <1>1, <1>2, <1>8, <1>20, <2>1 DEF Dispatch
  <1>21. CASE CommitLogin(c)
    <2>1. HandTyped'
        BY <1>0, <1>21 DEF CommitLogin, HandTyped, RowOK, NoWrites, To, Steps
    <2>2. Stored' /\ Sent'
        BY <1>0, <1>1, <1>21 DEF CommitLogin
    <2> QED BY <1>2, <2>1, <2>2
  <1> QED BY <1>9, <1>10, <1>11, <1>12, <1>13, <1>14, <1>15, <1>16, <1>17, <1>18, <1>19,
             <1>20, <1>21 DEF Moves, Begin, Handle

-----------------------------------------------------------------------------
(* What the stores hold, and what the requests know, after a step of c. *)

\* A request whose handler has returned never runs again.
LEMMA AfterStays ==
    ASSUME BaseInv, NEW c \in Requests, Moves(c), NEW d \in Requests
    PROVE  /\ step[d] \in After => step'[d] \in After
           /\ step[d] = "done" => step'[d] = "done"
           /\ step[d] # "idle" => phone'[d] = phone[d] /\ entered'[d] = entered[d]
  <1>1. CASE d # c
      BY <1>1, Aside DEF BaseInv
  <1>2. CASE d = c
      BY <1>2, Aside, LoopMoves DEF BaseInv, After, Handling
  <1> QED BY <1>1, <1>2

\* A code under a key was put there by its own login, as its last call.
LEMMA PutsHere ==
    ASSUME BaseInv, NEW c \in Requests, Moves(c), NEW f \in Phones, redis'[f] # redis[f]
    PROVE  /\ f = phone[c]
           /\ \/ LoginSave(c) /\ redis'[f] = c /\ step'[c] = "respond"
              \/ VerifyDelete(c) /\ redis'[f] = None
  <1> USE DEF BaseInv, TypeInv, LoginTypeOK, stores
  <1>1. CASE Begin(c)
      BY <1>1 DEF Begin, LoginStart, VerifyStart
  <1>2. CASE LoginFetch(c) \/ LoginLookup(c) \/ LoginInsert(c)
      BY <1>2 DEF LoginFetch, LoginLookup, LoginInsert
  <1>3. CASE LoginSave(c)
      BY <1>3 DEF LoginSave, Put, Key, Return, To
  <1>4. CASE VerifyCurrent(c) \/ VerifyCompare(c) \/ VerifyConsume(c) \/ VerifyMark(c)
      BY <1>4 DEF VerifyCurrent, VerifyCompare, VerifyConsume, VerifyMark
  <1>5. CASE VerifyDelete(c)
      BY <1>5 DEF VerifyDelete, Put, Key
  <1>6. CASE Dispatch(c) \/ CommitLogin(c)
      BY <1>6 DEF Dispatch, CommitLogin
  <1> QED BY <1>1, <1>2, <1>3, <1>4, <1>5, <1>6 DEF Moves, Handle

\* Rows of otps change with a commit, and transactions write before it.
LEMMA WritesHere ==
    ASSUME BaseInv, NEW c \in Requests, Moves(c)
    PROVE  /\ ~CommitLogin(c) => otps' = otps /\ users' = users
           /\ users \subseteq users'
           /\ \/ tx'[c].used \in {tx[c].used, None}
              \/ VerifyMark(c) /\ tx'[c].used = entered[c]
  <1> USE DEF BaseInv, TypeInv, LoginTypeOK, stores, On, Return, Fail, NoWrites
  <1>1. CASE \E f \in Phones : LoginStart(c, f)
      BY <1>1 DEF LoginStart
  <1>2. CASE \E f \in Phones, d \in CodesKnown \cup {c} : VerifyStart(c, f, d)
      BY <1>2 DEF VerifyStart
  <1>3. CASE LoginFetch(c) \/ LoginLookup(c)
      BY <1>3 DEF LoginFetch, LoginLookup
  <1>4. CASE LoginInsert(c)
      BY <1>4 DEF LoginInsert
  <1>5. CASE LoginSave(c)
      BY <1>5 DEF LoginSave
  <1>6. CASE VerifyCurrent(c) \/ VerifyCompare(c)
      BY <1>6 DEF VerifyCurrent, VerifyCompare
  <1>7. CASE VerifyConsume(c) \/ VerifyDelete(c)
      BY <1>7 DEF VerifyConsume, VerifyDelete
  <1>8. CASE VerifyMark(c)
      BY <1>8 DEF VerifyMark
  <1>9. CASE Dispatch(c)
      BY <1>9 DEF Dispatch
  <1>10. CASE CommitLogin(c)
      BY <1>10 DEF CommitLogin
  <1> QED BY <1>1, <1>2, <1>3, <1>4, <1>5, <1>6, <1>7, <1>8, <1>9, <1>10
          DEF Moves, Begin, Handle

LEMMA StoresHere ==
    ASSUME BaseInv, NEW c \in Requests, Moves(c)
    PROVE  StoresOK'
  <1>1. ASSUME NEW f \in Phones, redis'[f] # None
        PROVE  phone'[redis'[f]] = f /\ step'[redis'[f]] \in After
    <2>1. CASE redis'[f] = redis[f]
      <3>1. redis[f] \in Requests /\ phone[redis[f]] = f /\ step[redis[f]] \in After
          BY <1>1, <2>1 DEF BaseInv, StoresOK, TypeInv, LoginTypeOK
      <3> QED BY <2>1, <3>1, AfterStays DEF After
    <2>2. CASE redis'[f] # redis[f]
      <3>1. LoginSave(c) /\ redis'[f] = c /\ step'[c] = "respond" /\ f = phone[c]
          BY <1>1, <2>2, PutsHere
      <3>2. phone'[c] = phone[c]
          BY <3>1, AfterStays DEF LoginSave
      <3> QED BY <3>1, <3>2 DEF After
    <2> QED BY <2>1, <2>2
  <1>2. ASSUME NEW d \in Requests, otps'[d] # "absent" PROVE step'[d] = "done"
    <2>1. CASE CommitLogin(c)
      <3>1. \/ tx[c].used = d
            \/ d = c
            \/ otps[d] # "absent"
          BY <1>2, <2>1 DEF CommitLogin
      <3>2. d = c => step'[d] = "done"
          BY <2>1 DEF CommitLogin, To, BaseInv, TypeInv, LoginTypeOK
      <3>3. tx[c].used = d \/ otps[d] # "absent" => step[d] = "done"
          BY LoginAssumption DEF BaseInv, StoresOK
      <3> QED BY <3>1, <3>2, <3>3, AfterStays
    <2>2. CASE ~CommitLogin(c)
        BY <1>2, <2>2, WritesHere, AfterStays DEF BaseInv, StoresOK
    <2> QED BY <2>1, <2>2
  <1>3. ASSUME NEW d \in Requests, tx'[d].used # None PROVE step'[tx'[d].used] = "done"
    <2>1. CASE tx'[d].used = tx[d].used
      <3>1. tx[d].used \in Requests /\ step[tx[d].used] = "done"
          BY <1>3, <2>1 DEF BaseInv, StoresOK, TypeInv, LoginTypeOK
      <3> QED BY <2>1, <3>1, AfterStays
    <2>2. CASE tx'[d].used # tx[d].used
      <3>1. d = c /\ VerifyMark(c) /\ tx'[d].used = entered[c]
          BY <1>3, <2>2, WritesHere, Aside DEF BaseInv
      <3>2. entered[c] \in Requests /\ step[entered[c]] = "done"
          BY <3>1 DEF VerifyMark, BaseInv, RequestOK
      <3> QED BY <3>1, <3>2, AfterStays
    <2> QED BY <2>1, <2>2
  <1> QED BY <1>1, <1>2, <1>3 DEF StoresOK

\* What a request knows of its code, another request's step leaves true.
LEMMA CheckedStays ==
    ASSUME BaseInv, NEW c \in Requests, Moves(c), NEW d \in Requests, Checked(d),
           step[d] # "idle"
    PROVE  Checked(d)'
  BY AfterStays, WritesHere DEF Checked, After

LEMMA OthersHere ==
    ASSUME BaseInv, NEW c \in Requests, Moves(c), NEW d \in Requests \ {c}
    PROVE  RequestOK(d)'
  <1>1. /\ step'[d] = step[d] /\ phone'[d] = phone[d] /\ entered'[d] = entered[d]
        /\ reply'[d] = reply[d] /\ given'[d] = given[d]
      BY Aside DEF BaseInv
  <1>2. RequestOK(d)
      BY DEF BaseInv
  <1>3. users \subseteq users'
      BY WritesHere
  <1>4. step[d] \in {"consume", "delete", "mark"} \/ reply[d] = "token" =>
            Checked(d) /\ step[d] # "idle"
      BY <1>2 DEF RequestOK, After
  <1>5. step[d] \in {"consume", "delete", "mark"} \/ reply[d] = "token" => Checked(d)'
      BY <1>4, CheckedStays
  <1>6. step[d] = "mark" => entered[d] \in Requests /\ step[entered[d]] = "done"
      BY <1>2 DEF RequestOK
  <1>7. step[d] = "mark" => step'[entered[d]] = "done"
      BY <1>6, AfterStays
  <1> QED BY <1>1, <1>2, <1>3, <1>5, <1>7 DEF RequestOK

\* What the request itself knows after its step.
LEMMA OwnHere ==
    ASSUME BaseInv, NEW c \in Requests, Moves(c)
    PROVE  RequestOK(c)'
  <1>0. /\ RequestOK(c)
        /\ users \subseteq users'
        /\ step[c] # "idle" =>
               phone'[c] = phone[c] /\ entered'[c] = entered[c] /\ phone[c] \in Phones
        /\ Checked(c) /\ step[c] # "idle" => Checked(c)'
      BY WritesHere, AfterStays, CheckedStays DEF BaseInv, RequestOK
  <1>t. step \in [Requests -> Steps] /\ reply \in [Requests -> Replies]
        /\ given \in [Requests -> Requests \cup {None}]
        /\ phone \in [Requests -> Phones \cup {None}]
        /\ entered \in [Requests -> Requests \cup {None}]
      BY DEF BaseInv, TypeInv, LoginTypeOK
  <1> USE DEF After
  <1>1. ASSUME NEW f \in Phones, LoginStart(c, f) PROVE RequestOK(c)'
    <2>1. phone'[c] = f /\ reply[c] = "none"
        BY <1>0, <1>t, <1>1 DEF LoginStart, RequestOK
    <2>2. \/ step'[c] \in {"lookup", "fetch"} /\ reply'[c] = "none"
          \/ step'[c] = "done" /\ reply'[c] = "error"
        BY <1>t, <1>1, <2>1 DEF LoginStart, To, Fail
    <2> QED BY <2>1, <2>2 DEF RequestOK
  <1>2. ASSUME NEW f \in Phones, NEW d \in CodesKnown \cup {c}, VerifyStart(c, f, d)
        PROVE RequestOK(c)'
    <2>1. phone'[c] = f /\ reply[c] = "none" /\ entered'[c] = d /\ d \in Requests
        BY <1>0, <1>t, <1>2, CodesAreRequests DEF VerifyStart, RequestOK
    <2>2. \/ step'[c] = "current" /\ reply'[c] = "none" /\ f \in users'
          \/ step'[c] = "done" /\ reply'[c] = "userNotFound"
        BY <1>t, <1>2, <2>1 DEF VerifyStart, To, Fail, stores
    <2> QED BY <2>1, <2>2 DEF RequestOK
  <1>3. CASE LoginFetch(c)
    <2>1. \/ step'[c] = "respond" /\ reply'[c] = "code" /\ given'[c] \in Requests
          \/ step'[c] = "done" /\ reply'[c] = "error"
        BY <1>t, <1>3 DEF LoginFetch, Return, Fail, To
    <2>2. phone'[c] \in Phones
        BY <1>0, <1>3 DEF LoginFetch
    <2> QED BY <2>1, <2>2 DEF RequestOK
  <1>4. CASE LoginLookup(c) \/ LoginInsert(c)
    <2>1. \/ step'[c] \in {"save", "insert"} /\ reply'[c] = reply[c]
          \/ step'[c] = "done" /\ reply'[c] = "error"
        BY <1>t, <1>4 DEF LoginLookup, LoginInsert, On, Fail, To
    <2>2. phone'[c] \in Phones /\ reply[c] = "none"
        BY <1>0, <1>4 DEF LoginLookup, LoginInsert, RequestOK
    <2> QED BY <2>1, <2>2 DEF RequestOK
  <1>5. CASE LoginSave(c)
    <2>1. step'[c] = "respond" /\ reply'[c] = "code" /\ given'[c] = c
        BY <1>t, <1>5 DEF LoginSave, Return, To
    <2>2. phone'[c] \in Phones
        BY <1>0, <1>5 DEF LoginSave
    <2> QED BY <2>1, <2>2 DEF RequestOK
  <1>6. CASE VerifyCurrent(c)
    <2>1. \/ step'[c] = "compare" /\ reply'[c] = reply[c]
          \/ step'[c] = "done" /\ reply'[c] \in {"otpExpired", "error"}
        BY <1>t, <1>6 DEF VerifyCurrent, On, Fail, To
    <2>2. /\ phone'[c] \in Phones /\ reply[c] = "none"
          /\ entered'[c] \in Requests /\ phone'[c] \in users'
        BY <1>0, <1>6 DEF VerifyCurrent, RequestOK
    <2> QED BY <2>1, <2>2 DEF RequestOK
  <1>7. CASE VerifyCompare(c)
    <2>1. /\ phone'[c] \in Phones /\ reply[c] = "none" /\ phone[c] \in Phones
          /\ entered'[c] \in Requests /\ phone'[c] \in users'
          /\ entered[c] \in Requests /\ phone[c] \in users /\ step[c] # "idle"
        BY <1>0, <1>7 DEF VerifyCompare, RequestOK
    <2>2. PICK v \in Answers : /\ GetOtp(phone[c], v)
                               /\ \/ v = entered[c] /\ On(c, "consume")
                                  \/ v = Ambiguous /\ Fail(c, "error")
                                  \/ v \notin {entered[c], Ambiguous} /\ Fail(c, "invalidOtp")
        BY <1>7 DEF VerifyCompare
    <2>3. CASE v = entered[c] /\ On(c, "consume")
      <3>1. Checked(c)
          BY <2>1, <2>2, <2>3, OtpAnswers DEF Checked
      <3>2. step'[c] = "consume" /\ reply'[c] = "none"
          BY <1>t, <2>1, <2>3 DEF On, To
      <3> QED BY <1>0, <2>1, <3>1, <3>2 DEF RequestOK
    <2>4. CASE Fail(c, "error") \/ Fail(c, "invalidOtp")
      <3>1. step'[c] = "done" /\ reply'[c] \in {"error", "invalidOtp"}
          BY <1>t, <2>4 DEF Fail, To
      <3> QED BY <2>1, <3>1 DEF RequestOK
    <2> QED BY <2>2, <2>3, <2>4
  <1>8. CASE VerifyConsume(c)
    <2>1. /\ phone'[c] \in Phones /\ reply[c] = "none"
          /\ entered[c] \in Requests /\ entered'[c] = entered[c] /\ phone'[c] \in users' /\ Checked(c)'
        BY <1>0, <1>8 DEF VerifyConsume, RequestOK
    <2>2. \/ step'[c] = "delete" /\ reply'[c] = reply[c]
          \/ /\ step'[c] = "mark" /\ reply'[c] = reply[c]
             /\ entered[c] \in ActiveOtps(phone[c])
          \/ step'[c] = "respond" /\ reply'[c] = "token"
        BY <1>t, <1>8 DEF VerifyConsume, On, Return, To
    <2>3. entered[c] \in ActiveOtps(phone[c]) => step[entered[c]] = "done"
        BY DEF ActiveOtps, BaseInv, StoresOK
    <2>4. entered[c] \in ActiveOtps(phone[c]) => step'[entered'[c]] = "done"
        BY <2>1, <2>3, AfterStays
    <2> QED BY <2>1, <2>2, <2>4 DEF RequestOK
  <1>9. CASE VerifyDelete(c) \/ VerifyMark(c)
    <2>1. phone'[c] \in Phones /\ Checked(c)'
        BY <1>0, <1>9 DEF VerifyDelete, VerifyMark, RequestOK
    <2>2. \/ step'[c] = "respond" /\ reply'[c] = "token"
          \/ step'[c] = "done" /\ reply'[c] = "error"
        BY <1>t, <1>9 DEF VerifyDelete, VerifyMark, Return, Fail, To
    <2> QED BY <2>1, <2>2 DEF RequestOK
  <1>10. CASE Dispatch(c) \/ CommitLogin(c)
    <2>1. /\ step[c] \in {"respond", "commit"} /\ step'[c] \in {"commit", "done"}
          /\ reply'[c] = reply[c] /\ given'[c] = given[c]
        BY <1>t, <1>10 DEF Dispatch, CommitLogin, On, To
    <2> QED BY <1>0, <2>1 DEF RequestOK
  <1> QED BY <1>1, <1>2, <1>3, <1>4, <1>5, <1>6, <1>7, <1>8, <1>9, <1>10
          DEF Moves, Begin, Handle

-----------------------------------------------------------------------------
(* The other steps, and the invariant of every behaviour. *)

LEMMA HereBase ==
    ASSUME BaseInv, NEW c \in Requests, Moves(c)
    PROVE  BaseInv'
  BY TypeHere, StoresHere, OwnHere, OthersHere DEF BaseInv

LEMMA LapseBase ==
    ASSUME BaseInv, NEW d \in Requests, Lapse(d)
    PROVE  BaseInv'
  <1> USE DEF Lapse
  <1>1. redis' \in [Phones -> Requests \cup {None}] /\ lapsed' \subseteq Requests
      BY DEF BaseInv, TypeInv, LoginTypeOK
  <1>2. TypeInv'
      BY <1>1 DEF BaseInv, TypeInv, LoginTypeOK
  <1>3. \A f \in Phones : redis'[f] # None => redis'[f] = redis[f]
      BY DEF BaseInv, TypeInv, LoginTypeOK
  <1>4. StoresOK'
      BY <1>3 DEF BaseInv, StoresOK
  <1>5. \A c \in Requests : RequestOK(c)'
      BY DEF BaseInv, RequestOK, Checked
  <1> QED BY <1>2, <1>4, <1>5 DEF BaseInv

LEMMA RedisBase == BaseInv /\ (RedisDown \/ RedisUp) => BaseInv'
  <1> SUFFICES ASSUME BaseInv, RedisDown \/ RedisUp PROVE BaseInv'
      OBVIOUS
  <1>1. /\ UNCHANGED <<users, otps, lapsed, home, loop, step, phone, entered, tx, reply, given>>
        /\ faults' = faults \/ (faults < MaxFaults /\ faults' = faults + 1)
        /\ redis' = redis \/ redis' = [f \in Phones |-> None]
      BY DEF RedisDown, RedisUp, Fault, stores
  <1>2. faults' \in 0 .. MaxFaults
      BY <1>1, LoginAssumption DEF BaseInv, TypeInv, LoginTypeOK
  <1>3. redis' \in [Phones -> Requests \cup {None}]
      BY <1>1 DEF BaseInv, TypeInv, LoginTypeOK
  <1>4. TypeInv'
      BY <1>1, <1>2, <1>3 DEF BaseInv, TypeInv, LoginTypeOK
  <1>5. \A f \in Phones : redis'[f] # None => redis'[f] = redis[f]
      BY <1>1
  <1>6. StoresOK'
      BY <1>1, <1>5 DEF BaseInv, StoresOK
  <1>7. \A c \in Requests : RequestOK(c)'
      BY <1>1 DEF BaseInv, RequestOK, Checked
  <1> QED BY <1>4, <1>6, <1>7 DEF BaseInv

LEMMA CrashBase ==
    ASSUME BaseInv, NEW p \in Processes, ProcessCrash(p)
    PROVE  BaseInv'
  <1> DEFINE lost == {c \in Requests : home[c] = p /\ step[c] \notin {"idle", "done"}}
  <1>1. /\ step' = [c \in Requests |-> IF c \in lost THEN "done" ELSE step[c]]
        /\ tx' = [c \in Requests |-> IF c \in lost THEN NoWrites ELSE tx[c]]
        /\ loop' = [loop EXCEPT ![p] = None]
        /\ UNCHANGED <<redis, users, otps, lapsed, down, home, phone, entered, reply, given>>
        /\ faults < MaxFaults /\ faults' = faults + 1
      BY DEF ProcessCrash, stores, Fault
  <1>t. TypeInv
      BY DEF BaseInv
  <1>2. \A c \in Requests :
            /\ step'[c] = step[c] \/ (step'[c] = "done" /\ step[c] # "idle")
            /\ step[c] \in After => step'[c] \in After
            /\ step[c] = "done" => step'[c] = "done"
            /\ tx'[c] = tx[c] \/ tx'[c].used = None
      BY <1>1 DEF After, NoWrites
  <1> HIDE DEF lost
  <1>3. faults' \in 0 .. MaxFaults
      BY <1>1, <1>t, LoginAssumption DEF TypeInv, LoginTypeOK
  <1>4. step' \in [Requests -> Steps]
      BY <1>1, <1>t DEF TypeInv, LoginTypeOK, Steps
  <1>5. tx' \in [Requests -> [user : BOOLEAN, otp : BOOLEAN, used : Requests \cup {None}]]
      BY <1>1, <1>t DEF TypeInv, LoginTypeOK, NoWrites
  <1>6. loop' \in [Processes -> Requests \cup {None}]
      BY <1>1, <1>t DEF TypeInv
  <1>7. ASSUME NEW c \in Requests
        PROVE  loop'[home'[c]] = c <=> step'[c] \notin {"idle", "respond", "commit", "done"}
    <2>0. loop[home[c]] = c <=> step[c] \notin {"idle", "respond", "commit", "done"}
        BY <1>t DEF TypeInv, LoginTypeOK
    <2>1. CASE home[c] = p
      <3>1. step'[c] \in {"idle", "done"}
          BY <1>1, <2>1 DEF lost
      <3>2. loop'[home'[c]] = None
          BY <1>1, <1>t, <2>1 DEF TypeInv
      <3> QED BY <3>1, <3>2, LoginAssumption
    <2>2. CASE home[c] # p
      <3>1. step'[c] = step[c]
          BY <1>1, <2>2 DEF lost
      <3>2. loop'[home'[c]] = loop[home[c]]
          BY <1>1, <1>t, <2>2 DEF TypeInv
      <3> QED BY <2>0, <3>1, <3>2
    <2> QED BY <2>1, <2>2
  <1>8. TypeInv'
      BY <1>1, <1>t, <1>3, <1>4, <1>5, <1>6, <1>7 DEF TypeInv, LoginTypeOK
  <1>9. \A f \in Phones : redis[f] # None => redis[f] \in Requests
      BY <1>t DEF TypeInv, LoginTypeOK
  <1>10. \A c \in Requests : tx[c].used # None => tx[c].used \in Requests
      BY <1>t DEF TypeInv, LoginTypeOK
  <1>11. StoresOK'
      BY <1>1, <1>2, <1>9, <1>10 DEF BaseInv, StoresOK
  <1>12. ASSUME NEW c \in Requests PROVE RequestOK(c)'
    <2>1. RequestOK(c)
        BY DEF BaseInv
    <2>2. Checked(c) => Checked(c)'
        BY <1>1, <1>2 DEF Checked
    <2>3. step'[c] = step[c] => RequestOK(c)'
        BY <1>1, <1>2, <2>1, <2>2 DEF RequestOK, Checked
    <2>4. step'[c] = "done" /\ step[c] # "idle" => RequestOK(c)'
        BY <1>1, <1>2, <2>1, <2>2 DEF RequestOK, After
    <2> QED BY <1>2, <2>3, <2>4
  <1> QED BY <1>8, <1>11, <1>12 DEF BaseInv

LEMMA NextBase == BaseInv /\ [Next]_vars => BaseInv'
  <1> SUFFICES ASSUME BaseInv, [Next]_vars PROVE BaseInv'
      OBVIOUS
  <1>1. ASSUME NEW c \in Requests, Begin(c) \/ Handle(c) PROVE BaseInv'
      BY <1>1, HereBase DEF Moves
  <1>2. CASE UNCHANGED vars
      BY <1>2 DEF vars, stores, BaseInv, TypeInv, LoginTypeOK, StoresOK, RequestOK, Checked
  <1> QED BY <1>1, <1>2, LapseBase, RedisBase, CrashBase DEF Next

LEMMA BaseHolds == Spec => []BaseInv
  BY InitBase, NextBase, PTL DEF Spec

\* Every variable keeps its type, and the handlers that are running are those
\* that the event loops run: async routes that call blocking code never share
\* the loop of their process (auth_routes.py).
THEOREM LoginTypeCorrect == Spec => []LoginTypeOK
  <1>1. BaseInv => LoginTypeOK
      BY DEF BaseInv, TypeInv
  <1> QED BY <1>1, BaseHolds, PTL

\* A token is for a code of that phone and for a committed users row, whichever
\* stores the three reads of a verification came from, however many requests,
\* processes, outages and crashes came between them (verify_otp and
\* verify_and_consume).
THEOREM TokensBelong == Spec => []TokenBelongs
  <1>1. BaseInv => TokenBelongs
      BY DEF BaseInv, RequestOK, Checked, TokenBelongs
  <1> QED BY <1>1, BaseHolds, PTL

-----------------------------------------------------------------------------
(* One process, and nothing fails. *)

Alone == OneProcess /\ faults = 0

\* No code of the phone while a login is about to generate one; none but the
\* code at hand while a verification consumes it, and that one is not used.
QuietOK(c) ==
    /\ step[c] \in {"lookup", "insert", "save"} => redis[phone[c]] = None
    /\ step[c] # "mark"
    /\ step[c] \in {"consume", "delete"} =>
           /\ redis[phone[c]] \in {entered[c], None}
           /\ \A d \in Requests : reply[d] = "token" => entered[d] # entered[c]
    /\ reply[c] = "token" => redis[phone[c]] # entered[c]

QuietInv ==
    /\ Alone => ~down /\ \A c \in Requests : QuietOK(c)
    /\ CodeLogsInOnce /\ AnsweredCodeStands

LEMMA InitQuiet == Init => QuietInv
  BY DEF Init, QuietInv, QuietOK, CodeLogsInOnce, AnsweredCodeStands

\* While one handler of the process is at work, all that another request can
\* do is to commit.
LEMMA OnlyOneWorks ==
    ASSUME BaseInv, OneProcess, NEW c \in Requests, Moves(c),
           NEW d \in Requests \ {c}, step[d] \in Handling
    PROVE  UNCHANGED <<redis, reply>>
  <1>1. loop[home[d]] = d /\ home[c] = home[d] /\ c # d
      BY Runs DEF BaseInv, RunsLoop, OneProcess
  <1>2. ~LoopFree(c)
      BY <1>1, LoginAssumption DEF LoopFree
  <1>3. step[c] \notin Handling
      BY <1>1, Runs DEF BaseInv, RunsLoop
  <1>4. step[c] \in {"respond", "commit"}
      BY <1>2, <1>3, LoopMoves DEF BaseInv
  <1>5. Dispatch(c) \/ CommitLogin(c)
      BY <1>4 DEF Moves, Begin, Handle, LoginStart, VerifyStart, LoginFetch, LoginLookup,
                  LoginInsert, LoginSave, VerifyCurrent, VerifyCompare, VerifyConsume,
                  VerifyDelete, VerifyMark
  <1> QED BY <1>2, <1>5 DEF Dispatch, CommitLogin

\* Neither processes nor failures are undone.
LEMMA StillAlone ==
    ASSUME BaseInv, NEW c \in Requests, Moves(c), Alone'
    PROVE  Alone
  <1>1. home' = home
      BY Aside DEF BaseInv
  <1>2. faults' = faults \/ faults' = faults + 1
    <2> USE DEF Fault, Served, Refused, GetOtp
    <2>1. CASE Begin(c)
        BY <2>1 DEF Begin, LoginStart, VerifyStart
    <2>2. CASE LoginFetch(c) \/ LoginLookup(c) \/ LoginInsert(c) \/ LoginSave(c)
        BY <2>2 DEF LoginFetch, LoginLookup, LoginInsert, LoginSave
    <2>3. CASE VerifyCurrent(c) \/ VerifyCompare(c) \/ VerifyConsume(c)
        BY <2>3 DEF VerifyCurrent, VerifyCompare, VerifyConsume
    <2>4. CASE VerifyDelete(c) \/ VerifyMark(c) \/ Dispatch(c) \/ CommitLogin(c)
        BY <2>4 DEF VerifyDelete, VerifyMark, Dispatch, CommitLogin
    <2> QED BY <2>1, <2>2, <2>3, <2>4 DEF Moves, Handle
  <1>3. faults = 0
      BY <1>2 DEF Alone, BaseInv, TypeInv, LoginTypeOK
  <1> QED BY <1>1, <1>3 DEF Alone, OneProcess

\* Redis answers every call of such a step.
LEMMA RedisAnswers ==
    ASSUME BaseInv, NEW c \in Requests, Moves(c), Alone', ~down
    PROVE  /\ ~down' /\ ~Refused
           /\ \A f \in Phones, v \in Answers : GetOtp(f, v) => v = redis[f]
  <1>1. down' = down
    <2>1. CASE Begin(c)
        BY <2>1 DEF Begin, LoginStart, VerifyStart
    <2> QED BY <2>1 DEF Moves, Handle, LoginFetch, LoginLookup, LoginInsert, LoginSave,
                        VerifyCurrent, VerifyCompare, VerifyConsume, VerifyDelete,
                        VerifyMark, Dispatch, CommitLogin
  <1>2. ~Refused
      BY DEF Refused, Fault, Alone, BaseInv, TypeInv, LoginTypeOK
  <1> QED BY <1>1, <1>2 DEF GetOtp, Key

\* An answer is given once; a token is given by the verification that consumes.
LEMMA AnswersStay ==
    ASSUME BaseInv, NEW c \in Requests, Moves(c)
    PROVE  /\ lapsed' = lapsed
           /\ \A d \in Requests : reply[d] # "none" =>
                  /\ reply'[d] = reply[d] /\ given'[d] = given[d] /\ step[d] \in After
                  /\ phone'[d] = phone[d] /\ entered'[d] = entered[d]
           /\ reply'[c] = "token" /\ reply[c] # "token" =>
                  step[c] \in {"consume", "delete", "mark"}
           /\ reply'[c] = "code" /\ reply[c] # "code" => LoginFetch(c) \/ LoginSave(c)
  <1> USE DEF On, Return, Fail, stores
  <1>t. reply \in [Requests -> Replies] /\ given \in [Requests -> Requests \cup {None}]
      BY DEF BaseInv, TypeInv, LoginTypeOK
  <1>1. lapsed' = lapsed
    <2>1. CASE Begin(c)
        BY <2>1 DEF Begin, LoginStart, VerifyStart
    <2> QED BY <2>1 DEF Moves, Handle, LoginFetch, LoginLookup, LoginInsert, LoginSave,
                        VerifyCurrent, VerifyCompare, VerifyConsume, VerifyDelete,
                        VerifyMark, Dispatch, CommitLogin
  <1>2. ASSUME NEW d \in Requests, reply[d] # "none"
        PROVE  /\ reply'[d] = reply[d] /\ given'[d] = given[d] /\ step[d] \in After
               /\ phone'[d] = phone[d] /\ entered'[d] = entered[d]
    <2>1. step[d] \in After
        BY <1>2 DEF BaseInv, RequestOK
    <2>2. CASE d = c
      <3>1. Dispatch(c) \/ CommitLogin(c)
          BY <2>1, <2>2 DEF Moves, Begin, Handle, LoginStart, VerifyStart, LoginFetch,
             LoginLookup, LoginInsert, LoginSave, VerifyCurrent, VerifyCompare,
             VerifyConsume, VerifyDelete, VerifyMark, After
      <3> QED BY <2>1, <2>2, <3>1 DEF Dispatch, CommitLogin
    <2>3. CASE d # c
        BY <2>1, <2>3, Aside DEF BaseInv
    <2> QED BY <2>2, <2>3
  <1>3. /\ reply'[c] = "token" /\ reply[c] # "token" =>
               step[c] \in {"consume", "delete", "mark"}
        /\ reply'[c] = "code" /\ reply[c] # "code" => LoginFetch(c) \/ LoginSave(c)
    <2>1. CASE \E f \in Phones : LoginStart(c, f)
        BY <1>t, <2>1 DEF LoginStart
    <2>2. CASE \E f \in Phones, d \in CodesKnown \cup {c} : VerifyStart(c, f, d)
        BY <1>t, <2>2 DEF VerifyStart
    <2>3. CASE LoginFetch(c) \/ LoginSave(c)
        BY <1>t, <2>3 DEF LoginFetch, LoginSave
    <2>4. CASE LoginLookup(c) \/ LoginInsert(c)
        BY <1>t, <2>4 DEF LoginLookup, LoginInsert
    <2>5. CASE VerifyCurrent(c) \/ VerifyCompare(c)
        BY <1>t, <2>5 DEF VerifyCurrent, VerifyCompare
    <2>6. CASE VerifyConsume(c) \/ VerifyDelete(c) \/ VerifyMark(c)
        BY <1>t, <2>6 DEF VerifyConsume, VerifyDelete, VerifyMark
    <2>7. CASE Dispatch(c) \/ CommitLogin(c)
        BY <2>7 DEF Dispatch, CommitLogin
    <2> QED BY <2>1, <2>2, <2>3, <2>4, <2>5, <2>6, <2>7 DEF Moves, Begin, Handle
  <1> QED BY <1>1, <1>2, <1>3

LEMMA QuietOthers ==
    ASSUME BaseInv, QuietInv, Alone, NEW c \in Requests, Moves(c), NEW d \in Requests \ {c}
    PROVE  QuietOK(d)'
  <1>1. QuietOK(d) /\ OneProcess /\ TypeInv
      BY DEF QuietInv, Alone, BaseInv
  <1>2. /\ step'[d] = step[d] /\ phone'[d] = phone[d] /\ entered'[d] = entered[d]
        /\ reply'[d] = reply[d]
      BY <1>1, Aside
  <1>3. CASE step[d] \in Handling
    <2>1. redis' = redis /\ reply' = reply
        BY <1>1, <1>3, OnlyOneWorks
    <2>2. \A e \in Requests : reply[e] = "token" => entered'[e] = entered[e]
        BY AnswersStay
    <2> QED BY <1>1, <1>2, <2>1, <2>2 DEF QuietOK
  <1>4. CASE step[d] \notin Handling
    <2>1. ASSUME reply[d] = "token" PROVE redis'[phone[d]] # entered[d]
      <3>1. redis[phone[d]] # entered[d]
          BY <1>1, <2>1 DEF QuietOK
      <3>2. /\ phone[d] \in Phones /\ entered[d] \in Requests /\ step[entered[d]] \in After
            /\ phone[entered[d]] = phone[d]
          BY <2>1 DEF BaseInv, RequestOK, Checked, After
      <3>3. CASE redis'[phone[d]] # redis[phone[d]]
        <4>1. \/ LoginSave(c) /\ redis'[phone[d]] = c
              \/ redis'[phone[d]] = None
            BY <3>2, <3>3, PutsHere
        <4> QED BY <3>2, <4>1, LoginAssumption DEF LoginSave, After
      <3> QED BY <3>1, <3>3
    <2>2. step[d] \notin {"lookup", "insert", "save", "consume", "delete", "mark"}
        BY <1>4 DEF Handling
    <2> QED BY <1>2, <2>1, <2>2 DEF QuietOK
  <1> QED BY <1>3, <1>4

LEMMA QuietOwn ==
    ASSUME BaseInv, QuietInv, Alone, Alone', NEW c \in Requests, Moves(c)
    PROVE  QuietOK(c)'
  <1>1. /\ QuietOK(c) /\ ~down /\ RequestOK(c)
        /\ \A d \in Requests : QuietOK(d) /\ RequestOK(d)
        /\ step[c] # "idle" => phone'[c] = phone[c] /\ entered'[c] = entered[c]
      BY AfterStays DEF QuietInv, BaseInv
  <1>2. ~Refused /\ \A f \in Phones, v \in Answers : GetOtp(f, v) => v = redis[f]
      BY <1>1, RedisAnswers
  <1>t. /\ step \in [Requests -> Steps] /\ reply \in [Requests -> Replies]
        /\ redis \in [Phones -> Requests \cup {None}]
        /\ phone \in [Requests -> Phones \cup {None}]
        /\ entered \in [Requests -> Requests \cup {None}]
      BY DEF BaseInv, TypeInv, LoginTypeOK
  <1>3. ASSUME NEW f \in Phones, LoginStart(c, f) PROVE QuietOK(c)'
    <2>1. phone'[c] = f /\ redis' = redis /\ reply[c] = "none"
        BY <1>1, <1>t, <1>3 DEF LoginStart, stores, RequestOK, After
    <2>2. PICK v \in Answers : /\ GetOtp(f, v)
                               /\ \/ v = Ambiguous /\ Fail(c, "error")
                                  \/ /\ v # Ambiguous
                                     /\ To(c, IF v = None THEN "lookup" ELSE "fetch") /\ Take(c)
                                     /\ UNCHANGED <<tx, reply, given>>
        BY <1>3 DEF LoginStart
    <2>3. v = redis[f]
        BY <1>2, <2>2
    <2>4. \/ step'[c] = "lookup" /\ redis'[f] = None /\ reply'[c] = "none"
          \/ step'[c] \in {"fetch", "done"} /\ reply'[c] \in {"none", "error"}
        BY <1>t, <2>1, <2>2, <2>3 DEF To, Fail
    <2> QED BY <2>1, <2>4 DEF QuietOK
  <1>4. ASSUME NEW f \in Phones, NEW d \in CodesKnown \cup {c}, VerifyStart(c, f, d)
        PROVE QuietOK(c)'
    <2>1. step'[c] \in {"current", "done"} /\ reply'[c] \in {"none", "userNotFound"}
        BY <1>1, <1>t, <1>4 DEF VerifyStart, To, Fail, RequestOK, After
    <2> QED BY <2>1 DEF QuietOK
  <1>5. CASE LoginFetch(c) \/ LoginSave(c) \/ VerifyCurrent(c)
    <2>1. /\ step'[c] \in {"respond", "done", "compare"}
          /\ reply'[c] \in {"none", "code", "otpExpired", "error"}
        BY <1>1, <1>t, <1>5 DEF LoginFetch, LoginSave, VerifyCurrent, On, Return, To, Fail,
                                RequestOK, After
    <2> QED BY <2>1 DEF QuietOK
  <1>6. CASE LoginLookup(c) \/ LoginInsert(c)
    <2>1. redis' = redis /\ redis[phone[c]] = None /\ phone'[c] = phone[c]
        BY <1>1, <1>6 DEF LoginLookup, LoginInsert, stores, QuietOK
    <2>2. step'[c] \in {"save", "insert", "done"} /\ reply'[c] \in {"none", "error"}
        BY <1>1, <1>t, <1>6 DEF LoginLookup, LoginInsert, On, To, Fail, RequestOK, After
    <2> QED BY <2>1, <2>2 DEF QuietOK
  <1>7. CASE VerifyCompare(c)
    <2>1. /\ step[c] = "compare" /\ redis' = redis /\ reply[c] = "none" /\ phone[c] \in Phones
          /\ entered[c] \in Requests /\ phone'[c] = phone[c] /\ entered'[c] = entered[c]
        BY <1>1, <1>7 DEF VerifyCompare, stores, RequestOK, After
    <2>2. PICK v \in Answers : /\ GetOtp(phone[c], v)
                               /\ \/ v = entered[c] /\ On(c, "consume")
                                  \/ v = Ambiguous /\ Fail(c, "error")
                                  \/ v \notin {entered[c], Ambiguous} /\ Fail(c, "invalidOtp")
        BY <1>7 DEF VerifyCompare
    <2>3. CASE v = entered[c] /\ On(c, "consume")
      <3>1. redis[phone[c]] = entered[c] /\ phone[entered[c]] = phone[c]
          BY <1>2, <2>1, <2>2, <2>3, OtpAnswers
      <3>2. step'[c] = "consume" /\ reply' = reply
          BY <1>t, <2>3 DEF On, To
      <3>3. ASSUME NEW d \in Requests, reply[d] = "token"
            PROVE  entered'[d] = entered[d] /\ entered[d] # entered[c]
        <4>1. redis[phone[d]] # entered[d] /\ phone[entered[d]] = phone[d]
            BY <1>1, <3>3 DEF QuietOK, RequestOK, Checked
        <4> QED BY <3>1, <3>3, <4>1, AnswersStay
      <3> QED BY <2>1, <3>1, <3>2, <3>3 DEF QuietOK
    <2>4. CASE Fail(c, "error") \/ Fail(c, "invalidOtp")
      <3>1. step'[c] = "done" /\ reply'[c] \in {"error", "invalidOtp"}
          BY <1>t, <2>4 DEF Fail, To
      <3> QED BY <3>1 DEF QuietOK
    <2> QED BY <2>2, <2>3, <2>4
  <1>8. CASE VerifyConsume(c)
    <2>1. /\ step[c] = "consume" /\ redis' = redis /\ reply[c] = "none"
          /\ phone'[c] = phone[c] /\ entered'[c] = entered[c]
        BY <1>1, <1>8 DEF VerifyConsume, stores, RequestOK, After
    <2>2. \/ redis[phone[c]] = entered[c] /\ On(c, "delete")
          \/ redis[phone[c]] # entered[c] /\ Return(c, "token", None)
        BY <1>2, <1>8 DEF VerifyConsume, Key
    <2>3. CASE redis[phone[c]] = entered[c] /\ On(c, "delete")
      <3>1. step'[c] = "delete" /\ reply' = reply
          BY <1>t, <2>3 DEF On, To
      <3>2. \A d \in Requests : reply[d] = "token" =>
                entered'[d] = entered[d] /\ entered[d] # entered[c]
          BY <1>1, <2>1, AnswersStay DEF QuietOK
      <3> QED BY <2>1, <2>3, <3>1, <3>2 DEF QuietOK
    <2>4. CASE redis[phone[c]] # entered[c] /\ Return(c, "token", None)
      <3>1. step'[c] = "respond"
          BY <1>t, <2>4 DEF Return, To
      <3> QED BY <2>1, <2>4, <3>1 DEF QuietOK
    <2> QED BY <2>2, <2>3, <2>4
  <1>9. CASE VerifyDelete(c)
    <2>1. /\ step[c] = "delete" /\ phone'[c] = phone[c] /\ entered'[c] = entered[c]
          /\ entered[c] \in Requests /\ phone[c] \in Phones
        BY <1>1, <1>9 DEF VerifyDelete, RequestOK
    <2>2. Put(phone[c], None) /\ Return(c, "token", None)
        BY <1>2, <1>9 DEF VerifyDelete
    <2>3. redis'[phone[c]] = None /\ step'[c] = "respond"
        BY <1>t, <2>1, <2>2 DEF Put, Key, Return, To
    <2> QED BY <2>1, <2>3, LoginAssumption DEF QuietOK
  <1>10. CASE Dispatch(c) \/ CommitLogin(c)
    <2>1. /\ step[c] # "idle" /\ redis' = redis /\ reply'[c] = reply[c]
          /\ step'[c] \in {"commit", "done"}
        BY <1>t, <1>10 DEF Dispatch, CommitLogin, On, To, stores
    <2> QED BY <1>1, <2>1 DEF QuietOK
  <1>11. ~VerifyMark(c)
      BY <1>1 DEF VerifyMark, QuietOK
  <1> QED BY <1>3, <1>4, <1>5, <1>6, <1>7, <1>8, <1>9, <1>10, <1>11 DEF Moves, Begin, Handle

\* Two verifications of one code: the second finds the key without it.
LEMMA OnceHere ==
    ASSUME BaseInv, QuietInv, Alone, NEW c \in Requests, Moves(c),
           NEW d \in Requests, NEW e \in Requests, reply'[d] = "token", reply'[e] = "token",
           entered'[d] = entered'[e]
    PROVE  d = e
  <1>1. QuietOK(c) /\ CodeLogsInOnce /\ OneProcess /\ faults = 0 /\ TypeInv
      BY DEF QuietInv, Alone, BaseInv
  <1>2. ASSUME NEW a \in Requests \ {c}, reply'[a] = "token"
        PROVE  reply[a] = "token" /\ entered'[a] = entered[a]
      BY <1>1, <1>2, Aside
  <1>3. CASE reply[c] = "token"
    <2>1. entered'[c] = entered[c]
        BY <1>3, AnswersStay
    <2> QED BY <1>1, <1>2, <1>3, <2>1 DEF CodeLogsInOnce
  <1>4. CASE reply[c] # "token" /\ reply'[c] = "token"
    <2>1. step[c] \in {"consume", "delete"}
        BY <1>1, <1>4, AnswersStay DEF QuietOK
    <2>2. entered'[c] = entered[c]
        BY <2>1, AfterStays
    <2>3. \A a \in Requests : reply[a] = "token" => entered[a] # entered[c]
        BY <1>1, <2>1 DEF QuietOK
    <2>4. \A a \in Requests \ {c} : reply'[a] = "token" => entered'[a] # entered'[c]
        BY <1>2, <2>2, <2>3
    <2> QED BY <1>1, <1>2, <2>4 DEF CodeLogsInOnce
  <1>5. CASE reply'[c] # "token"
      BY <1>1, <1>2, <1>5 DEF CodeLogsInOnce
  <1> QED BY <1>3, <1>4, <1>5

\* An answered code: the key still holds it, or it has lapsed, or been used.
LEMMA StandsHere ==
    ASSUME BaseInv, QuietInv, Alone, Alone', NEW c \in Requests, Moves(c),
           NEW e \in Requests, reply'[e] = "code"
    PROVE  \/ redis'[phone'[e]] = given'[e]
           \/ given'[e] \in lapsed'
           \/ \E d \in Requests : reply'[d] = "token" /\ entered'[d] = given'[e]
  <1>1. /\ QuietOK(c) /\ AnsweredCodeStands /\ OneProcess /\ faults = 0 /\ TypeInv /\ ~down
        /\ RequestOK(c) /\ RequestOK(e)
      BY DEF QuietInv, Alone, BaseInv
  <1>2. ~Refused /\ \A f \in Phones, v \in Answers : GetOtp(f, v) => v = redis[f]
      BY <1>1, RedisAnswers
  <1>t. /\ given \in [Requests -> Requests \cup {None}] /\ reply \in [Requests -> Replies]
        /\ redis \in [Phones -> Requests \cup {None}]
      BY <1>1 DEF TypeInv, LoginTypeOK
  <1>3. CASE reply[e] # "code"
    <2>1. e = c
        BY <1>1, <1>3, Aside
    <2>2. LoginFetch(c) \/ LoginSave(c)
        BY <1>3, <2>1, AnswersStay
    <2>3. phone'[c] = phone[c] /\ phone[c] \in Phones
        BY <1>1, <2>2 DEF LoginFetch, LoginSave, RequestOK
    <2>4. CASE LoginFetch(c)
      <3>1. PICK v \in Answers :
                /\ GetOtp(phone[c], v)
                /\ (v \in Requests /\ Return(c, "code", v)) \/ Fail(c, "error")
          BY <2>4 DEF LoginFetch
      <3>2. ~Fail(c, "error")
          BY <1>t, <2>1 DEF Fail
      <3>3. given'[c] = v /\ v = redis[phone[c]]
          BY <1>2, <1>t, <2>3, <3>1, <3>2 DEF Return
      <3>4. redis' = redis
          BY <2>4 DEF LoginFetch, stores
      <3> QED BY <2>1, <2>3, <3>3, <3>4
    <2>5. CASE LoginSave(c)
      <3>1. Put(phone[c], c) /\ Return(c, "code", c)
          BY <1>2, <2>5 DEF LoginSave
      <3> QED BY <1>t, <2>1, <2>3, <3>1 DEF Put, Key, Return
    <2> QED BY <2>2, <2>4, <2>5
  <1>4. CASE reply[e] = "code"
    <2>1. /\ given'[e] = given[e] /\ phone'[e] = phone[e] /\ lapsed' = lapsed
          /\ given[e] \in Requests /\ phone[e] \in Phones
        BY <1>1, <1>4, AnswersStay DEF RequestOK, After
    <2>2. CASE given[e] \in lapsed
        BY <2>1, <2>2
    <2>3. CASE \E d \in Requests : reply[d] = "token" /\ entered[d] = given[e]
        BY <2>1, <2>3, AnswersStay
    <2>4. CASE redis[phone[e]] = given[e]
      <3>1. CASE redis'[phone[e]] = redis[phone[e]]
          BY <2>1, <2>4, <3>1
      <3>2. CASE redis'[phone[e]] # redis[phone[e]]
        <4>1. phone[e] = phone[c] /\ (LoginSave(c) \/ VerifyDelete(c))
            BY <2>1, <3>2, PutsHere
        <4>2. ~LoginSave(c)
            BY <1>1, <2>1, <2>4, <4>1, LoginAssumption DEF LoginSave, QuietOK
        <4>3. VerifyDelete(c)
            BY <4>1, <4>2
        <4>4. entered[c] = given[e] /\ entered'[c] = entered[c]
            BY <1>1, <2>1, <2>4, <4>1, <4>3, LoginAssumption DEF VerifyDelete, QuietOK
        <4>5. Return(c, "token", None)
            BY <1>2, <4>3 DEF VerifyDelete
        <4>6. reply'[c] = "token"
            BY <1>t, <4>5 DEF Return
        <4> QED BY <2>1, <4>4, <4>6
      <3> QED BY <3>1, <3>2
    <2> QED BY <1>1, <1>4, <2>2, <2>3, <2>4 DEF AnsweredCodeStands
  <1> QED BY <1>3, <1>4

LEMMA QuietHere ==
    ASSUME BaseInv, QuietInv, NEW c \in Requests, Moves(c)
    PROVE  QuietInv'
  <1>1. CASE Alone'
    <2>1. Alone
        BY <1>1, StillAlone
    <2>2. ~down'
        BY <1>1, <2>1, RedisAnswers DEF QuietInv
    <2>3. \A d \in Requests : QuietOK(d)'
        BY <1>1, <2>1, QuietOwn, QuietOthers
    <2>4. CodeLogsInOnce'
        BY <2>1, OnceHere DEF CodeLogsInOnce
    <2>5. AnsweredCodeStands'
        BY <1>1, <2>1, StandsHere DEF AnsweredCodeStands
    <2> QED BY <2>2, <2>3, <2>4, <2>5 DEF QuietInv
  <1>2. CASE ~Alone'
      BY <1>2 DEF QuietInv, Alone, CodeLogsInOnce, AnsweredCodeStands
  <1> QED BY <1>1, <1>2

\* Time takes a code away, and never brings one back.
LEMMA LapseQuiet ==
    ASSUME BaseInv, QuietInv, NEW d \in Requests, Lapse(d)
    PROVE  QuietInv'
  <1> USE DEF Lapse
  <1>1. CASE Alone
    <2>0. /\ \A c \in Requests : QuietOK(c) /\ RequestOK(c)
          /\ ~down /\ CodeLogsInOnce /\ AnsweredCodeStands
        BY <1>1 DEF QuietInv, BaseInv
    <2>1. \A f \in Phones : redis'[f] = (IF redis[f] = d THEN None ELSE redis[f])
        OBVIOUS
    <2>2. ASSUME NEW c \in Requests PROVE QuietOK(c)'
      <3>1. /\ step[c] # "idle" => phone[c] \in Phones
            /\ reply[c] = "token" => entered[c] \in Requests /\ step[c] # "idle"
            /\ QuietOK(c)
          BY <2>0 DEF RequestOK, Checked, After
      <3> QED BY <2>1, <3>1, LoginAssumption DEF QuietOK
    <2>3. AnsweredCodeStands'
      <3>1. ASSUME NEW c \in Requests, reply[c] = "code"
            PROVE  \/ redis'[phone[c]] = given[c]
                   \/ given[c] \in lapsed'
                   \/ \E e \in Requests : reply[e] = "token" /\ entered[e] = given[c]
        <4>1. phone[c] \in Phones
            BY <2>0, <3>1 DEF RequestOK, After
        <4> QED BY <1>1, <2>0, <2>1, <3>1, <4>1 DEF AnsweredCodeStands, Alone
      <3> QED BY <3>1 DEF AnsweredCodeStands
    <2>4. ~down' /\ CodeLogsInOnce'
        BY <2>0 DEF CodeLogsInOnce, OneProcess
    <2> QED BY <2>2, <2>3, <2>4 DEF QuietInv
  <1>2. CASE ~Alone
      BY <1>2 DEF QuietInv, Alone, CodeLogsInOnce, AnsweredCodeStands, OneProcess
  <1> QED BY <1>1, <1>2

LEMMA FaultsQuiet ==
    ASSUME BaseInv, QuietInv, RedisDown \/ RedisUp \/ \E p \in Processes : ProcessCrash(p)
    PROVE  QuietInv'
  <1>1. ~Alone'
    <2>1. CASE RedisDown \/ \E p \in Processes : ProcessCrash(p)
        BY <2>1 DEF RedisDown, ProcessCrash, Fault, Alone, BaseInv, TypeInv, LoginTypeOK
    <2>2. CASE RedisUp
        BY <2>2 DEF RedisUp, QuietInv, Alone, OneProcess
    <2> QED BY <2>1, <2>2
  <1> QED BY <1>1 DEF QuietInv, Alone, CodeLogsInOnce, AnsweredCodeStands

LEMMA NextQuiet == BaseInv /\ QuietInv /\ [Next]_vars => QuietInv'
  <1> SUFFICES ASSUME BaseInv, QuietInv, [Next]_vars PROVE QuietInv'
      OBVIOUS
  <1>1. ASSUME NEW c \in Requests, Begin(c) \/ Handle(c) PROVE QuietInv'
      BY <1>1, QuietHere DEF Moves
  <1>2. CASE UNCHANGED vars
      BY <1>2 DEF vars, stores, QuietInv, QuietOK, Alone, OneProcess, CodeLogsInOnce,
                  AnsweredCodeStands
  <1> QED BY <1>1, <1>2, LapseQuiet, FaultsQuiet DEF Next

LEMMA QuietHolds == Spec => []QuietInv
  BY BaseHolds, InitQuiet, NextQuiet, PTL DEF Spec

\* In one process, while nothing fails, a code logs in once, though it is read
\* three times before it is deleted and time may pass between the reads: the
\* event loop is not handed on (auth_routes.py, otp_service.py).
THEOREM CodesLogInOnce == Spec => []CodeLogsInOnce
  <1>1. QuietInv => CodeLogsInOnce
      BY DEF QuietInv
  <1> QED BY <1>1, QuietHolds, PTL

\* In one process, while nothing fails, the code in an answer stays the phone's
\* until it is used or its time is over: no other login comes between
\* has_active_otp and save_otp.
THEOREM AnsweredCodesStand == Spec => []AnsweredCodeStands
  <1>1. QuietInv => AnsweredCodeStands
      BY DEF QuietInv
  <1> QED BY <1>1, QuietHolds, PTL
=============================================================================
