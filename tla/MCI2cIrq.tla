------------------------------ MODULE MCI2cIrq ------------------------------
(* Two bytes each way, so that a transfer has a first and a last byte; three *)
(* stamps, so that a byte left over from either of the last two exchanges is *)
(* told apart from one of the current exchange.                              *)
EXTENDS I2cIrq

TwoBytes    == 2
ThreeStamps == 3
=============================================================================
