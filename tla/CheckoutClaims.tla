--------------------------- MODULE CheckoutClaims ---------------------------
(***************************************************************************)
(* What the repository's documents, docstrings and tests say of the        *)
(* workflow and the code does not do.  Each is refuted by a run.           *)
(***************************************************************************)
EXTENDS CheckoutSessions

Final == {"CONFIRMED", "CANCELLED", "EXPIRED"}

\* lock_and_transition's docstring: a status that has moved on is not blindly
\* overwritten; here, a reservation that is over stays what it became.
FinalStatusStays ==
    [][\A r \in Reservations :
          resv[r].status \in Final => resv'[r].status = resv[r].status]_vars

\* ARCHITECTURE, Scenario 2: when a provider fails at creation, everything
\* the reservation holds is released.
FailedCreateLetsGo ==
    \A c \in Requests : result[c] = "failed" =>
        \A i \in Cart(target[c]) : item[i].status \notin Holding

\* ARCHITECTURE, Confirm Reservation: when some items fail to confirm, the
\* reservation is still moved to CONFIRMED and the caller gets
\* ReservationConfirmationIncompleteError.  (Of a checkout that was completed:
\* no item is still HELD_LOCAL.)
IncompleteIsConfirmed ==
    \A c \in Requests :
        /\ result[c] = "incomplete"
        /\ \A i \in Cart(target[c]) : item[i].status # "HELD_LOCAL"
        => resv[target[c]].status = "CONFIRMED"
=============================================================================
