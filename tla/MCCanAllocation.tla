--------------------------- MODULE MCCanAllocation ---------------------------
(* Two boards with one device each, and a hub with two images: one image     *)
(* that leaks leaves none for the second device.  A tick is 400 ms.          *)
EXTENDS CanAllocation

OneEach == [d \in Devices |-> IF d = 1 THEN "b1" ELSE "b2"]
=============================================================================
