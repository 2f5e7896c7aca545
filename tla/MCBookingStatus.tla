-------------------------- MODULE MCBookingStatus --------------------------
(***************************************************************************)
(* Instances of BookingStatus for TLC: which handlers run together.        *)
(***************************************************************************)
EXTENDS BookingStatus, TLC

Symmetric == Permutations(Requests)

\* Every handler that records what it does.
AllCreateKinds == CreateKinds

\* The writers of whole rows that can race with a delivery, the page's form
\* among them; not the edits of the history itself.
LockingKinds == {"track", "change", "fpCancel", "plainBook", "form", "scan"}
=============================================================================
