--------------------------- MODULE MCCallbackList ---------------------------
(* Instances of CallbackList for TLC. *)
EXTENDS CallbackList

\* Time constants; no event is added for the very instant.
SomeOffsets == {1, 2}

\* timer3 and the WAV player add events with offset 0 as well.
WithZero == {0, 2}

\* An instruction may take more T-states than an offset is long.
SomeTicks == {1, 3}
=============================================================================
