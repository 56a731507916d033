------------------------------ MODULE MCCheckout ------------------------------
(* Instances of Checkout for TLC. *)
EXTENDS Checkout, TLC

CONSTANTS t1, t2, s1, s2, c1, c2, w1, x1
===============================================================================
