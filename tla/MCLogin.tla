------------------------------ MODULE MCLogin ------------------------------
(* Small instances of OtpLogin for TLC. *)
EXTENDS LoginSafety, TLC

CONSTANTS f1, f2, q1, q2, q3, p1, p2

\* All requests on one process.
Single == q1 :> p1 @@ q2 :> p1 @@ q3 :> p1

\* One process or two; requests are alike, so it does not matter which of
\* them is sent to the other process.
OneOrTwo == {Single, q1 :> p1 @@ q2 :> p1 @@ q3 :> p2}
One == {Single}

\* No phone is known, the second one is, or both are.
NoneOrSome == {{}, {f2}, {f1, f2}}
NewPhone == {{}}
=============================================================================
