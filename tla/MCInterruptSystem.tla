------------------------- MODULE MCInterruptSystem -------------------------
(* Instances of InterruptSystem for TLC. *)
EXTENDS InterruptSystem

\* No CLK input is triggered.
TimersOnly == {}

\* Channel 1 counts what channel 0 or the tape triggers (CTC_DIO, CTC9).
CounterOne == {1}
=============================================================================
