-------------------------- MODULE MCPaymentChannel --------------------------
(***************************************************************************)
(* Bounds for PaymentChannel.                                              *)
(***************************************************************************)
EXTENDS PaymentChannel

\* Calls differ in their name only: let them start in one order.
CallsInOrder == \A k, c \in Calls : (k < c /\ pc'[c] # "idle") => pc'[k] # "idle"
=============================================================================
