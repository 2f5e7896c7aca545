------------------------------ MODULE Shipment ------------------------------
(***************************************************************************)
(* What tracking promises about a booking, whatever the freight provider   *)
(* (FP) says and however often it is asked: the booking shows nothing that *)
(* the FP has not reported, and what it shows of a delivery is final.      *)
(***************************************************************************)

CONSTANTS Statuses,   \* the statuses that FP events map to, NoStatus among them
          Initial     \* the status before anything is reported

VARIABLES reported,   \* the statuses the FP has ever reported
          shown       \* the status of the booking

promise == <<reported, shown>>

Init == reported = {} /\ shown = Initial

Report == \E s \in Statuses : reported' = reported \cup {s} /\ UNCHANGED shown

\* A delivery that does not cover all lines may be shown as a partial one.
Show ==
    /\ shown # "Delivered"
    /\ \/ shown' \in reported
       \/ "Delivered" \in reported /\ shown' = "Partially Delivered"
    /\ UNCHANGED reported

Next == Report \/ Show

Spec == Init /\ [][Next]_promise
=============================================================================
