------------------------------ MODULE Keyboard3 ------------------------------
(***************************************************************************)
(* The keyboard of the KC 85/2-4 (keyb3.cc): a remote control whose words  *)
(* are told by the time between two pulses.  A key is sent as the events   *)
(* of a whole transmission, two equal words, and again until it is         *)
(* released; a second key waits for the end of the transmission.           *)
(*                                                                         *)
(* Times are those of the code; between two events the user may press and  *)
(* release keys.  A key's name stands for its code, the bits to send.      *)
(***************************************************************************)
EXTENDS Integers, Sequences, FiniteSets, SequencesExt

CONSTANTS Codes      \* the keys, and the bits of each one's code

KeyboardAssumption == \A k \in DOMAIN Codes : Codes[k] \in Seq({0, 1})

Keys == DOMAIN Codes
None == "none"       \* -1

\* KEY_CYCLES_BIT_0, _BIT_1, _T_W and _T_DW.
Gap(bit) == IF bit = 1 THEN 12544 ELSE 8960
WordGap == 25088
EndGap == 34048

VARIABLES
  key,       \* _key: the key that is sent
  lock,      \* _lock: the key that waits
  keysym,    \* _keysym: the symbol of the last key, and whether Control changed it
  release,   \* _release
  control,   \* _control
  offset,    \* _replay_offset
  events,    \* the keyboard's events, in the order in which they come
  held,      \* the keys that the user holds
  heard,     \* history: the gaps between the pulses of this transmission
  since      \* the time since the last pulse
vars == <<key, lock, keysym, release, control, offset, events, held, heard, since>>

Symbol(k, c) == [key |-> k, changed |-> c]
Idle == /\ key = None /\ lock = None /\ release = FALSE /\ control = FALSE
        /\ keysym = Symbol(None, FALSE) /\ offset = 12800

Init == Idle /\ events = <<>> /\ held = {} /\ heard = <<>> /\ since = 0

\* add_callback keeps the list in the order of time.
Event(at, kind) == [at |-> at, kind |-> kind]
InOrder(list) == SortSeq(list, LAMBDA x, y : x.at < y.at)

Word(k) == [i \in DOMAIN Codes[k] |-> Gap(Codes[k][i])]
Transmission(k) == Word(k) \o <<WordGap>> \o Word(k)

\* sendKey: a pulse now, one after each gap, and the end.
SendKey(list, k) ==
  LET gaps == Transmission(k)
      At(n) == FoldLeft(+, 0, SubSeq(gaps, 1, n))
      pulses == [n \in 1 .. Len(gaps) + 1 |-> Event(At(n - 1), "pulse")]
      end == Event(At(Len(gaps)) + EndGap, "end")
  IN InOrder(Append(list \o pulses, end))

\* Mutant of Press: a key is sent at once, also while another one is.
PressNow(k) ==
  /\ held' = held \cup {k}
  /\ release' = FALSE
  /\ keysym' = Symbol(k, control)
  /\ key' = k /\ events' = SendKey(events, k)
  /\ UNCHANGED <<lock, control, offset, heard, since>>

\* keyPressed, by the user or by the repetition of the host.  With Control a letter
\* becomes another symbol.
Press(k) ==
  /\ held' = held \cup {k}
  /\ release' = FALSE
  /\ keysym' = Symbol(k, control)
  /\ IF key = None
       THEN key' = k /\ events' = SendKey(events, k) /\ UNCHANGED lock
       ELSE lock' = k /\ UNCHANGED <<key, events>>
  /\ UNCHANGED <<control, offset, heard, since>>

\* keyReleased, with the symbol on the key.
Release(k) ==
  /\ k \in held /\ held' = held \ {k}
  /\ release' = (release \/ keysym = Symbol(k, FALSE))
  /\ UNCHANGED <<key, lock, keysym, control, offset, events, heard, since>>

\* keyReleased(-1): the window loses the focus.
FocusOut ==
  /\ held' = {} /\ release' = TRUE
  /\ UNCHANGED <<key, lock, keysym, control, offset, events, heard, since>>

Control ==
  /\ control' = ~control
  /\ UNCHANGED <<key, lock, keysym, release, offset, events, held, heard, since>>

\* Mutant of End: the key that waits is sent although it was released, and so for ever.
EndLocked(rest) ==
  LET next == IF lock # None THEN lock ELSE IF release THEN None ELSE key
  IN /\ lock' = None /\ release' = FALSE /\ key' = next
     /\ events' = IF next = None THEN InOrder(Append(rest, Event(offset, "replay")))
                  ELSE SendKey(rest, next)
     /\ heard' = <<>>

\* The end of a transmission: the key that waits, the same key again, or none.
End(rest) ==
  LET next == IF release THEN None ELSE IF lock # None THEN lock ELSE key
  IN /\ lock' = None /\ release' = FALSE /\ key' = next
     /\ events' = IF next = None THEN InOrder(Append(rest, Event(offset, "replay")))
                  ELSE SendKey(rest, next)
     /\ heard' = <<>>

\* Keyboard3::callback.
Callback ==
  /\ events # <<>>
  /\ LET e    == Head(events)
         rest == [i \in 1 .. Len(events) - 1 |-> [events[i + 1] EXCEPT !.at = @ - e.at]]
     IN CASE e.kind = "pulse" ->
               /\ heard' = Append(heard, IF heard = <<>> THEN 0 ELSE since + e.at)
               /\ since' = 0 /\ events' = rest
               /\ UNCHANGED <<key, lock, release, offset>>
          [] e.kind = "end" -> End(rest) /\ since' = 0 /\ UNCHANGED offset
          [] e.kind = "replay" ->
               /\ offset' = 25600 /\ events' = rest
               /\ since' = IF heard = <<>> THEN 0 ELSE since + e.at
               /\ UNCHANGED <<key, lock, release, heard>>
  /\ UNCHANGED <<keysym, control, held>>

\* Z80::reset clears the callback list and calls Keyboard3::reset.
Reset ==
  /\ key' = None /\ lock' = None /\ release' = FALSE /\ control' = FALSE
  /\ keysym' = Symbol(None, FALSE) /\ offset' = 12800
  /\ events' = <<>> /\ heard' = <<>> /\ since' = 0
  /\ UNCHANGED held

User == FocusOut \/ Control \/ \E k \in Keys : Press(k) \/ Release(k)
Next == Callback \/ User \/ Reset
Spec == Init /\ [][Next]_vars /\ WF_vars(Callback)

-----------------------------------------------------------------------------
(* Properties.                                                             *)

TypeOK ==
  /\ {key, lock, keysym.key} \subseteq Keys \cup {None}
  /\ {keysym.changed, release, control} \subseteq BOOLEAN
  /\ offset \in {12800, 25600} /\ held \subseteq Keys
  /\ \A i \in 1 .. Len(events) - 1 : events[i].at <= events[i + 1].at

\* What the machine hears is the key, twice and whole, however the user types meanwhile:
\* there is one transmission at a time, as sendKey puts all of its events on the list at
\* once and nothing tells them from those of another one.
WordsWhole ==
  /\ IsPrefix(heard, <<0>> \o (IF key = None THEN <<>> ELSE Transmission(key)))
  /\ (\E i \in DOMAIN events : events[i].kind = "end") <=> key # None
  /\ \A i \in DOMAIN events : events[i].kind = "end" => Len(heard) + i - 1 -
       Cardinality({j \in 1 .. i : events[j].kind = "replay"}) = Len(Transmission(key)) + 1

\* Once the user holds no key the keyboard falls silent, unless he types on, or the last
\* key was pressed with Control: keyReleased does not know the symbol that keyPressed made
\* of it.
FallsSilent ==
  (held = {} /\ ~keysym.changed) ~> (key = None \/ held # {} \/ keysym.changed)
=============================================================================
