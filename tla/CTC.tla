-------------------------------- MODULE CTC --------------------------------
(***************************************************************************)
(* The counters and timers of KCemu's CTC (src/src/kc/ctc.cc): how the     *)
(* guest programs a channel, and how a channel keeps itself going with     *)
(* events on the callback list.  What follows when a channel reaches zero  *)
(* and its interrupt is enabled is in the module InterruptSystem.          *)
(*                                                                         *)
(* An event on the list cannot be withdrawn.  The code gives it the value  *)
(* that _irq_valid of its channel has, and adds 4 to _irq_valid to         *)
(* invalidate what is on the list; a callback with an old value is         *)
(* ignored.  All that matters is whether the value is still the current    *)
(* one: the field live of an event.                                        *)
(*                                                                         *)
(* The list is the one of the module CallbackList: sorted by time, equal   *)
(* times in order of arrival, and times relative to the counter of the     *)
(* processor.                                                              *)
(***************************************************************************)
EXTENDS Integers, Sequences, FiniteSets

CONSTANTS
  Channels,   \* the number of channels: 4 in the code
  Cascade,    \* the channels that irq_0 .. irq_3 of a machine's CTC trigger
  Triggered,  \* the channels that a timer of the machine triggers (timer3.cc)
  Clocks,     \* what counter_value_0 .. 3 of the machines return: the period of
              \* the CLK input of every channel, 0 if it has none
  Values,     \* the time constants the guest writes: some of 0 .. Full - 1
  Full,       \* what 0 stands for: 256
  P16, P256,  \* the prescalers
  Late,       \* the offset added to the first period: 4
  Ticks,      \* the T-states an instruction may take
  MaxEvents   \* the guest writes only when so many events wait at most

ASSUME ChannelsAssumption ==
  /\ Channels \in Nat \ {0}
  /\ Cascade \in [0 .. (Channels - 1) -> SUBSET (0 .. (Channels - 1))]
  /\ Triggered \subseteq 0 .. (Channels - 1)
  /\ Clocks \subseteq [0 .. (Channels - 1) -> Nat]
ASSUME TimeAssumption ==
  /\ {Full, P16, P256} \subseteq Nat \ {0} /\ P16 < P256
  /\ Values \subseteq 0 .. (Full - 1)
  /\ Late \in Nat /\ Ticks \subseteq Nat \ {0} /\ MaxEvents \in Nat

VARIABLES
  clk,         \* the CLK inputs of this machine: one of Clocks
  mode,        \* the bit MODE of _control of every channel
  prescaler,   \* the bit PRESCALER
  constant,    \* the bit CONSTANT: the next byte written is a time constant
  reset,       \* the bit RESET
  value,       \* _value
  timer_value, \* _timer_value
  events,      \* the events on the callback list, in its order
  phase,       \* the processor executes, or the callbacks run
  loaded,      \* the mode a time constant was written for since the last reset,
               \* "none" without (history)
  elapsed,     \* the time since the last zero count, or the load (history)
  started      \* the period that began then (history)

control == <<clk, mode, prescaler, constant, reset>>
history == <<loaded, elapsed, started>>
vars    == <<control, value, timer_value, events, phase, history>>

Channel == 0 .. (Channels - 1)
Word    == Full * P256   \* _value and _timer_value are of the type word_t

Init == /\ clk \in Clocks
        /\ mode = [c \in Channel |-> "timer"]
        /\ prescaler = [c \in Channel |-> P256]
        /\ constant = [c \in Channel |-> FALSE]
        /\ reset = [c \in Channel |-> TRUE]
        /\ value = [c \in Channel |-> 0]
        /\ timer_value = [c \in Channel |-> 0]
        /\ events = <<>>
        /\ phase = "cpu"
        /\ loaded = [c \in Channel |-> "none"]
        /\ elapsed = [c \in Channel |-> 0]
        /\ started = [c \in Channel |-> 0]

-----------------------------------------------------------------------------
(***************************************************************************)
(* The callback list.                                                      *)
(***************************************************************************)

Live(c) == {i \in DOMAIN events : events[i].ch = c /\ events[i].live}

\* _irq_valid[c] += 4: what is on the list s for channel c is of no effect.
Invalidated(s, c) ==
  [i \in DOMAIN s |-> IF s[i].ch = c THEN [s[i] EXCEPT !.live = FALSE] ELSE s[i]]

\* add_callback() walks over the events that are not later than the new one.
Place(s, offset) ==
  CHOOSE k \in 0 .. Len(s) : /\ \A i \in 1 .. k : s[i].due <= offset
                             /\ k < Len(s) => s[k + 1].due > offset

\* add_callback() with the current value of _irq_valid[c].
Added(s, c, offset) ==
  LET k == Place(s, offset)
  IN     SubSeq(s, 1, k) \o <<[ch |-> c, live |-> TRUE, due |-> offset]>>
      \o SubSeq(s, k + 1, Len(s))

\* The list after t T-states.
Passed(s, t) == [i \in DOMAIN s |-> [s[i] EXCEPT !.due = @ - t]]

\* CTC::handle_counter_mode: a channel whose CLK input has a period counts it
\* by an event.
CounterMode(s, c, v) ==
  IF clk[c] = 0 THEN s ELSE Added(Invalidated(s, c), c, clk[c] * v)

-----------------------------------------------------------------------------
(***************************************************************************)
(* The guest writes to a channel: CTC::c_out.                              *)
(***************************************************************************)

\* The time constant v in mode m with prescaler p.  The largest one does not
\* fit into a word.
TimeConstant(m, p, v) ==
  CASE m = "counter" -> v
    [] m = "timer" /\ v # 0 -> v * p
    [] m = "timer" /\ v = 0 /\ p = P16 -> Full * P16
    [] OTHER -> Word - 1

\* The time from one zero count to the next.
Period(c, tv) == IF mode[c] = "timer" THEN tv ELSE clk[c] * tv

GuestWrites == phase = "cpu" /\ Len(events) <= MaxEvents

\* Mutant of LoadedEvents: the former event stays valid.
LoadedEventsAdd(c, tv) ==
  IF mode[c] = "counter" THEN CounterMode(events, c, tv)
                         ELSE Added(events, c, tv + Late)

\* The events once a channel is started.
LoadedEvents(c, tv) ==
  IF mode[c] = "counter" THEN CounterMode(events, c, tv)
                         ELSE Added(Invalidated(events, c), c, tv + Late)

\* A time constant, after a control word that announced it.
Load(c, v) ==
  /\ GuestWrites
  /\ constant[c]
  /\ constant' = [constant EXCEPT ![c] = FALSE]
  /\ reset' = [reset EXCEPT ![c] = FALSE]
  /\ LET tv == TimeConstant(mode[c], prescaler[c], v)
     IN  /\ timer_value' = [timer_value EXCEPT ![c] = tv]
         /\ value' = [value EXCEPT ![c] = tv]
         /\ events' = LoadedEvents(c, tv)
         /\ IF mode[c] = "counter" /\ clk[c] = 0
              THEN UNCHANGED <<elapsed, started>>
              ELSE /\ elapsed' = [elapsed EXCEPT ![c] = IF mode[c] = "timer" THEN -Late ELSE 0]
                   /\ started' = [started EXCEPT ![c] = Period(c, tv)]
  /\ loaded' = [loaded EXCEPT ![c] = mode[c]]
  /\ UNCHANGED <<clk, mode, prescaler, phase>>

\* A reset of the channel stops it.
ControlEvents(c, r) == IF r THEN Invalidated(events, c) ELSE events

\* A control word with mode m, prescaler p and the bits CONSTANT and RESET.
ControlWord(c, m, p, const, r) ==
  /\ GuestWrites
  /\ ~constant[c]
  /\ mode' = [mode EXCEPT ![c] = m]
  /\ prescaler' = [prescaler EXCEPT ![c] = p]
  /\ constant' = [constant EXCEPT ![c] = const]
  /\ reset' = [reset EXCEPT ![c] = r]
  /\ value' = IF r THEN [value EXCEPT ![c] = timer_value[c]] ELSE value
  /\ events' = ControlEvents(c, r)
  /\ loaded' = [loaded EXCEPT ![c] = IF r \/ @ = "none" THEN "none"
                                       ELSE IF m = "counter" THEN m ELSE @]
  /\ UNCHANGED <<clk, timer_value, phase, elapsed, started>>

Writes(c) ==
  \/ \E v \in Values : Load(c, v)
  \/ \E m \in {"timer", "counter"}, p \in {P16, P256}, const, r \in BOOLEAN :
       ControlWord(c, m, p, const, r)

-----------------------------------------------------------------------------
(***************************************************************************)
(* Time.                                                                   *)
(***************************************************************************)

\* Z80::run: an instruction takes t T-states, then run_callbacks() starts.
Instruction(t) ==
  /\ phase = "cpu"
  /\ phase' = "run"
  /\ events' = Passed(events, t)
  /\ elapsed' = [c \in Channel |-> IF Live(c) = {} THEN 0 ELSE elapsed[c] + t]
  /\ started' = [c \in Channel |-> IF Live(c) = {} THEN 0 ELSE started[c]]
  /\ UNCHANGED <<control, value, timer_value, loaded>>

Done == /\ phase = "run"
        /\ \A i \in DOMAIN events : events[i].due > 0
        /\ phase' = "cpu"
        /\ UNCHANGED <<control, value, timer_value, events, history>>

\* The value of a counter after CTC::trigger; a word, so that 0 wraps around.
Decremented(k) == (value[k] - 1) % Word
Counted(k) == IF Decremented(k) > 0 THEN Decremented(k) ELSE timer_value[k]

\* CTC::trigger, called for the channels of ks: they count when they are in
\* counter mode.
Trigger(ks) ==
  value' = [k \in Channel |-> IF k \in ks /\ mode[k] = "counter" THEN Counted(k)
                                                                 ELSE value[k]]

\* Timer3::callback and the like.
ClockTrigger(c) ==
  /\ phase = "run"
  /\ c \in Triggered
  /\ Trigger({c})
  /\ UNCHANGED <<control, timer_value, events, phase, history>>

\* The next event is at the head of the list and due.
IsNext(c, live) ==
  /\ phase = "run"
  /\ events # <<>>
  /\ Head(events).due <= 0 /\ Head(events).ch = c /\ Head(events).live = live

\* CTC::callback with an old value of _irq_valid.
StaleCallback(c) ==
  /\ IsNext(c, FALSE)
  /\ events' = Tail(events)
  /\ UNCHANGED <<control, value, timer_value, phase, history>>

\* Mutant of TimerCallback: one shot.
TimerCallbackOnce(c) ==
  /\ IsNext(c, TRUE)
  /\ mode[c] = "timer"
  /\ Trigger(Cascade[c])
  /\ events' = Tail(events)
  /\ elapsed' = [elapsed EXCEPT ![c] = 0]
  /\ started' = [started EXCEPT ![c] = timer_value[c]]
  /\ UNCHANGED <<control, timer_value, phase, loaded>>

\* Mutant of TimerCallback: the offset of the first period again and again.
TimerCallbackLate(c) ==
  /\ IsNext(c, TRUE)
  /\ mode[c] = "timer"
  /\ Trigger(Cascade[c])
  /\ events' = Added(Tail(events), c, timer_value[c] + Late)
  /\ elapsed' = [elapsed EXCEPT ![c] = 0]
  /\ started' = [started EXCEPT ![c] = timer_value[c]]
  /\ UNCHANGED <<control, timer_value, phase, loaded>>

\* CTC::callback in timer mode: irq_0 .. irq_3 of the machine, an interrupt,
\* and the next period.
TimerCallback(c) ==
  /\ IsNext(c, TRUE)
  /\ mode[c] = "timer"
  /\ Trigger(Cascade[c])
  /\ events' = Added(Tail(events), c, timer_value[c])
  /\ elapsed' = [elapsed EXCEPT ![c] = 0]
  /\ started' = [started EXCEPT ![c] = timer_value[c]]
  /\ UNCHANGED <<control, timer_value, phase, loaded>>

\* CTC::callback in counter mode: without an interrupt, and with a next period
\* only if there is a CLK input.
CounterCallback(c) ==
  /\ IsNext(c, TRUE)
  /\ mode[c] = "counter"
  /\ Trigger(Cascade[c])
  /\ events' = CounterMode(Tail(events), c, timer_value[c])
  /\ elapsed' = [elapsed EXCEPT ![c] = 0]
  /\ started' = [started EXCEPT ![c] = Period(c, timer_value[c])]
  /\ UNCHANGED <<control, timer_value, phase, loaded>>

\* Z80::reset clears the list, then CTC::reset; from a callback.
Reset ==
  /\ phase = "run"
  /\ mode' = [c \in Channel |-> "timer"]
  /\ prescaler' = [c \in Channel |-> P256]
  /\ constant' = [c \in Channel |-> FALSE]
  /\ reset' = [c \in Channel |-> TRUE]
  /\ value' = [c \in Channel |-> 0]
  /\ timer_value' = [c \in Channel |-> 0]
  /\ events' = <<>>
  /\ loaded' = [c \in Channel |-> "none"]
  /\ UNCHANGED <<clk, phase, elapsed, started>>

Callback(c) == StaleCallback(c) \/ TimerCallback(c) \/ CounterCallback(c)

Loop == \/ \E t \in Ticks : Instruction(t)
        \/ Done
        \/ \E c \in Channel : Callback(c)

Next == \/ Loop
        \/ \E c \in Channel : Writes(c) \/ ClockTrigger(c)
        \/ Reset

Spec == Init /\ [][Next]_vars /\ WF_vars(Loop)

-----------------------------------------------------------------------------
(***************************************************************************)
(* Properties.                                                             *)
(***************************************************************************)

\* The values of the registers fit into a word; the list is sorted.
TypeOK ==
  /\ clk \in Clocks
  /\ mode \in [Channel -> {"timer", "counter"}]
  /\ prescaler \in [Channel -> {P16, P256}]
  /\ {constant, reset} \subseteq [Channel -> BOOLEAN]
  /\ loaded \in [Channel -> {"none", "timer", "counter"}]
  /\ {value, timer_value} \subseteq [Channel -> 0 .. (Word - 1)]
  /\ events \in Seq([ch : Channel, live : BOOLEAN, due : Int])
  /\ phase \in {"cpu", "run"}
  /\ \A i, j \in DOMAIN events : i < j => events[i].due <= events[j].due

\* A channel has one valid event at most, whatever the guest writes to it and
\* when: a second one would double its rate.
OneLiveEvent == \A c \in Channel : Cardinality(Live(c)) <= 1

\* A channel in reset does not count time, and its event comes to nothing: no
\* callback takes effect until the guest has loaded a constant again.
SilentInReset == \A c \in Channel : Live(c) # {} => loaded[c] # "none" /\ ~reset[c]

\* The events of the channels: well-formed, one valid event at most, none in reset.
EventsInOrder == TypeOK /\ OneLiveEvent /\ SilentInReset

\* A timer reaches zero when its period is over, the first one counted from the
\* load plus the offset: not before, and by less than an instruction later; a
\* period of a counter with a CLK input that is made a timer while it counts
\* ends when the counter would have.
ZeroOnTime ==
  \A c \in Channel : TimerCallback(c) /\ started[c] > 0 =>
    \E t \in Ticks : elapsed[c] \in started[c] .. (started[c] + t - 1)
OnTime == [][ZeroOnTime]_vars

\* "mapping from 0 to 256 is done in c_out()" (ctc.cc): the constant of a
\* counter is never 0.
ConstantMapped ==
  \A c \in Channel : loaded[c] # "none" /\ mode[c] = "counter" => timer_value[c] # 0

\* A timer that was started, and that the guest leaves alone, reaches zero again
\* and again; unless a constant 0 was written to a counter.
KeepsCounting ==
  []ConstantMapped =>
    \A c \in Channel :
      <>[](loaded[c] = "timer") /\ <>[][~Writes(c)]_vars
        => []<><<TimerCallback(c)>>_vars

\* The channels never keep the callback list busy: the processor gets its next
\* turn, unless a constant 0 was written to a counter.
ProcessorGoesOn == []ConstantMapped => []<>(phase = "cpu")
=============================================================================
