-------------------------- MODULE MCPaymentEvents ---------------------------
(* PaymentEvents with payments and threads as model values. *)
EXTENDS PaymentEvents
=============================================================================
