----------------------------- MODULE EventQueue -----------------------------
(***************************************************************************)
(* What the callback list of KCemu (src/src/kc/cb_list.cc) promises to the *)
(* emulation loop and to the devices: an event fires once, not before its  *)
(* time, in the order of the times, and in the order of arrival when the   *)
(* times are equal.                                                        *)
(*                                                                         *)
(* The code keeps absolute times, 64 bits of T-states since power-on.      *)
(* Here a due time is relative to the processor's counter: it falls when   *)
(* the counter advances.                                                   *)
(***************************************************************************)
EXTENDS Integers, Sequences

CONSTANTS Callbacks, \* the objects that can be called
          Null,      \* the listener of an event that was removed
          Offsets,   \* the offsets passed to addCallback
          Ticks,     \* the T-states one instruction may take
          Capacity   \* at most so many events wait

VARIABLES events, \* the events that wait, in order of arrival
          phase   \* "cpu", "run" (run_callbacks), or the callback that runs

vars == <<events, phase>>

Event == [due : Int, cb : Callbacks \cup {Null}]

Init == events = <<>> /\ phase = "cpu"

\* A callback or an instruction of the guest (an output to a device) runs.
Active == phase = "cpu" \/ phase \in Callbacks

\* z80ex_step() takes t T-states; then run_callbacks() starts.
Instruction(t) ==
  /\ phase = "cpu"
  /\ events' = [i \in DOMAIN events |-> [events[i] EXCEPT !.due = @ - t]]
  /\ phase' = "run"

\* The next event: the earliest one that is due, the oldest of equals.
IsNext(i) ==
  /\ events[i].due <= 0
  /\ \A j \in DOMAIN events :
       \/ events[i].due < events[j].due
       \/ events[i].due = events[j].due /\ i <= j

Fire ==
  /\ phase = "run"
  /\ \E i \in DOMAIN events :
       /\ IsNext(i)
       /\ events' = SubSeq(events, 1, i - 1) \o SubSeq(events, i + 1, Len(events))
       /\ phase' = IF events[i].cb = Null THEN "run" ELSE events[i].cb

\* The callback returns.
Return == phase \in Callbacks /\ phase' = "run" /\ UNCHANGED events

\* Nothing is due any more: back to the processor.
Done == /\ phase = "run"
        /\ \A i \in DOMAIN events : events[i].due > 0
        /\ phase' = "cpu"
        /\ UNCHANGED events

Add(offset, c) ==
  /\ Active
  /\ Len(events) < Capacity
  /\ events' = Append(events, [due |-> offset, cb |-> c])
  /\ UNCHANGED phase

\* A device goes away; its events still take their turn, but call nobody.
RemoveListener(c) ==
  /\ Active
  /\ events' = [i \in DOMAIN events |->
                  IF events[i].cb = c THEN [events[i] EXCEPT !.cb = Null]
                                      ELSE events[i]]
  /\ UNCHANGED phase

\* The system is reset from inside a callback (the user interface's).
Clear == phase \in Callbacks /\ events' = <<>> /\ UNCHANGED phase

Loop == (\E t \in Ticks : Instruction(t)) \/ Fire \/ Return \/ Done

Devices == \/ \E c \in Callbacks, o \in Offsets : Add(o, c)
           \/ \E c \in Callbacks : RemoveListener(c)
           \/ Clear

Next == Loop \/ Devices

Spec == Init /\ [][Next]_vars /\ WF_vars(Loop)

-----------------------------------------------------------------------------

TypeOK == /\ events \in Seq(Event)
          /\ Len(events) <= Capacity
          /\ phase \in {"cpu", "run"} \cup Callbacks

Waiting(c) == \E i \in DOMAIN events : events[i].cb = c

\* A callback that waits is called, unless it is withdrawn first.
EventuallyCalled == \A c \in Callbacks : Waiting(c) ~> (phase = c \/ ~Waiting(c))
=============================================================================
