-------------------------------- MODULE Tape --------------------------------
(***************************************************************************)
(* The tape deck (tape.cc): playing a file of the archive as the signal of *)
(* a recorder, edge by edge, and recording the signal of a machine.  Two   *)
(* emulators are connected by a cable: what the deck of one plays, the     *)
(* deck of the other records.                                              *)
(*                                                                         *)
(* Times are those of the code.  A byte is a number below 2^Width.  The    *)
(* user starts a tape when it stands, with the recorder started just       *)
(* before; he stops it and winds it whenever he likes.                     *)
(***************************************************************************)
EXTENDS Integers, Sequences, SequencesExt

CONSTANTS
  Files,      \* the files of the archive, in order: sequences of bytes
  Formats,    \* of "kc", "z1013" and "bic"
  Width,      \* the bits of a byte (8)
  Block,      \* the bytes of a block after its number (128), KC 85 and KC 87
  Unit,       \* the bytes of a block (36), Z 1013
  Header,     \* the bytes before the second pilot tone (16), BIC
  Long,       \* waves of a long pilot tone (4000; of a Z 1013's second one 1000)
  Short,      \* waves of the tone between two blocks (200)
  Lead,       \* waves before a block (20), Z 1013
  Locked,     \* half waves after which a recorder has found the tone (100)
  MaxStarts,  \* how often the user starts a tape,
  MaxSeeks    \* and winds it

TapeAssumption ==
  /\ Formats \subseteq {"kc", "z1013", "bic"}
  /\ {Width, Block, Unit, Header, Long, Short, Lead, Locked} \subseteq Nat \ {0}
  /\ MaxStarts \in Nat /\ MaxSeeks \in Nat
  /\ \A i \in DOMAIN Files : Files[i] \in Seq(0 .. 2 ^ Width - 1)
  \* BIC: a recorder that takes the second pilot tone for ones of a byte finds it after
  \* that byte.
  /\ "bic" \in Formats => 2 * Long >= 4 * (Width + 3) + Locked

Byte == 0 .. 2 ^ Width - 1
Zero == 364          \* BIT_0
One == 729           \* BIT_1
Separator == 1458    \* BIT_S
Pause == 20001       \* longer than any half wave

VARIABLES
  format,    \* the kind of both machines
  power,     \* _power of the player: the guest's motor switch
  deck,      \* the player
  edges,     \* its events on the callback list, with the time from one to the next
  gap,       \* the time since the recorder heard an edge
  rec,       \* the recorder
  played,    \* history: the bytes that were sent since the tape was started
  hand       \* how often the user has started and wound
vars == <<format, power, deck, edges, gap, rec, played, hand>>

Bit(byte, k) == (byte \div 2 ^ k) % 2
Shifted(byte, bit) == byte \div 2 + bit * 2 ^ (Width - 1)

\* One more byte than number, data and checksum, as _buf[130] is sent: its first bit.
BlockSize == Block + 3

Init ==
  /\ format \in Formats
  /\ power = FALSE
  /\ deck = [play |-> FALSE, init |-> 0, bits |-> -1, byte |-> 0, crc |-> 0, count |-> 0,
             buf |-> <<>>, last |-> FALSE, is |-> <<>>, file |-> 1, state |-> 0, idx |-> 0,
             bytes |-> 0]
  /\ edges = <<>> /\ gap = Pause
  /\ rec = [on |-> FALSE, sync |-> 2, flip |-> 0, bits |-> -1, state |-> 0, count |-> 0,
            byte |-> 0, sum |-> 0, buf |-> <<>>, found |-> 0, phase |-> 0, first |-> FALSE,
            obit |-> 0, out |-> <<>>]
  /\ played = <<>> /\ hand = [starts |-> 0, seeks |-> 0]

-----------------------------------------------------------------------------
(* Playing: one more event from do_play.                                   *)

Edge(e, after) == [edge |-> e, after |-> after]
Wave(t) == <<Edge(1, t), Edge(0, t)>>
Add(events) == edges' = Tail(edges) \o events

\* Tape::play.
Started(i) ==
  [deck EXCEPT !.play = TRUE, !.init = Long, !.last = FALSE, !.state = 0,
               !.count = BlockSize, !.is = Files[i], !.file = i]

\* The checks of do_play for a KC, from top to bottom: the pilot tone,
Tone ==
  /\ deck.init > 0
  /\ Add(Wave(One))
  /\ deck' = [deck EXCEPT !.init = @ - 1, !.bits = IF deck.init = 1 THEN 0 ELSE @]
  /\ UNCHANGED played

\* the end of the file, when the deck goes on with the next one (tapeNext),
EndOfFile ==
  /\ deck.init = 0 /\ deck.count = BlockSize /\ deck.last
  /\ \/ deck.file = Len(Files) /\ Add(<<>>) /\ UNCHANGED deck
     \/ deck.file < Len(Files) /\ Add(<<Edge(2, Pause)>>) /\ deck' = Started(deck.file + 1)
  /\ UNCHANGED played

\* a new block, filled up with zeros,
Fetch ==
  /\ deck.init = 0 /\ deck.count = BlockSize /\ ~deck.last
  /\ LET buf  == [i \in 1 .. Block + 1 |-> IF i <= Len(deck.is) THEN deck.is[i] ELSE 0]
         rest == SubSeq(deck.is, Block + 2, Len(deck.is))
     IN /\ deck' = [deck EXCEPT !.buf = buf, !.is = rest, !.last = rest = <<>>, !.count = 0,
                                !.init = IF buf[1] > 1 THEN Short ELSE Long]
        /\ played' = played \o buf
  /\ Add(Wave(One))

\* and the bits of a byte, with a separator before each.
SendBit ==
  /\ deck.init = 0 /\ deck.count # BlockSize
  /\ \E beyond \in IF deck.bits = -1 /\ deck.count = Block + 2 THEN {0, 1} ELSE {0} :
       LET load == deck.bits = -1
           byte == CASE ~load -> deck.byte
                     [] deck.count = Block + 1 -> deck.crc
                     [] deck.count = Block + 2 -> beyond
                     [] OTHER -> deck.buf[deck.count + 1]
           bits == IF load THEN Width ELSE deck.bits
       IN /\ deck' = [deck EXCEPT
                !.byte = byte, !.bits = bits - 1,
                !.count = IF load THEN @ + 1 ELSE @,
                !.crc = CASE ~load \/ deck.count = Block + 1 -> @
                          [] deck.count = 0 -> 0
                          [] OTHER -> (@ + byte) % 2 ^ Width]
          /\ Add(Wave(IF bits = 0 THEN Separator
                      ELSE IF Bit(byte, Width - bits) = 1 THEN One ELSE Zero))
  /\ UNCHANGED played

PlayKC == Tone \/ EndOfFile \/ Fetch \/ SendBit

\* do_play_z1013: the pilot tone, the lead of a block, its start, and its bits.  The
\* first block may have a long lead behind it (a file with a header).
PlayZ1013 ==
  \/ /\ deck.state = 0
     /\ Add(Wave(1500))
     /\ deck' = IF deck.init > 0 THEN [deck EXCEPT !.init = @ - 1]
                ELSE [deck EXCEPT !.idx = Lead, !.bytes = 0, !.state = 1]
     /\ UNCHANGED played
  \/ /\ deck.state = 1
     /\ Add(Wave(1550))
     /\ deck' = IF deck.idx > 0 THEN [deck EXCEPT !.idx = @ - 1]
                ELSE [deck EXCEPT !.idx = Lead, !.state = 2]
     /\ UNCHANGED played
  \/ /\ deck.state = 2
     /\ Add(Wave(775))
     /\ deck' = [deck EXCEPT !.bits = 0, !.state = 3]
     /\ UNCHANGED played
  \/ /\ deck.state = 3 /\ deck.bits = 0 /\ deck.is = <<>>
     /\ Add(<<>>)
     /\ UNCHANGED <<deck, played>>
  \/ /\ deck.state = 3 /\ ~(deck.bits = 0 /\ deck.is = <<>>)
     /\ LET load  == deck.bits = 0
            byte  == IF load THEN Head(deck.is) ELSE deck.byte
            bytes == IF load THEN deck.bytes + 1 ELSE deck.bytes
            next  == [deck EXCEPT !.byte = byte, !.bytes = bytes, !.bits = (@ + 1) % Width,
                                  !.is = IF load THEN Tail(@) ELSE @]
        IN /\ Add(IF Bit(byte, deck.bits) = 1 THEN <<Edge(0, 775)>>
                  ELSE <<Edge(1, 387), Edge(0, 388)>>)
           /\ IF next.bits = 0 /\ bytes % Unit = 0
                THEN \E idx \in {Lead} \cup (IF bytes = Unit THEN {Long} ELSE {}) :
                       deck' = [next EXCEPT !.state = 1, !.idx = idx]
                ELSE deck' = next
           /\ played' = IF load THEN Append(played, byte) ELSE played

\* do_play_bic: the pilot tone, a start bit, eight bits and two stop bits.  The last
\* byte of the file is taken and not sent.
PlayBIC ==
  \/ /\ deck.init > 0
     /\ Add(Wave(600))
     /\ deck' = [deck EXCEPT !.init = @ - 1, !.state = 1,
                             !.bytes = IF deck.state = 0 THEN 0 ELSE @]
     /\ UNCHANGED played
  \/ /\ deck.init = 0
     /\ Add(Wave(1300))
     /\ deck' = [deck EXCEPT !.bits = 0, !.init = -1]
     /\ UNCHANGED played
  \/ /\ deck.init = -1 /\ deck.bits = 0 /\ Len(deck.is) <= 1
     /\ Add(<<>>)
     /\ deck' = [deck EXCEPT !.is = <<>>]
     /\ UNCHANGED played
  \/ /\ deck.init = -1 /\ ~(deck.bits = 0 /\ Len(deck.is) <= 1)
     /\ LET load  == deck.bits = 0
            byte  == IF load THEN Head(deck.is) ELSE deck.byte
            bytes == IF load THEN deck.bytes + 1 ELSE deck.bytes
            ends  == deck.bits = Width + 1
        IN /\ Add(IF deck.bits < Width /\ Bit(byte, deck.bits) = 0 THEN Wave(1300)
                  ELSE <<Edge(1, 600), Edge(1, 600), Edge(1, 600), Edge(0, 600)>>)
           /\ deck' = [deck EXCEPT
                !.byte = byte, !.bytes = bytes, !.is = IF load THEN Tail(@) ELSE @,
                !.bits = IF ends THEN 0 ELSE @ + 1,
                !.init = IF ~ends THEN @ ELSE IF bytes = Header THEN Long ELSE 0]
           /\ played' = IF load THEN Append(played, byte) ELSE played

-----------------------------------------------------------------------------
(* Recording: what tape_signal makes of a half wave of length d.           *)

\* Mutant of Recording: a block that was broken off goes on.
RecordingOn == [rec EXCEPT !.on = TRUE, !.sync = 2, !.flip = 0, !.count = 0, !.out = <<>>]

\* Tape::record.
Recording == [rec EXCEPT !.on = TRUE, !.sync = 2, !.flip = 0, !.count = 0, !.state = 0,
                         !.out = <<>>]

\* A byte is complete: number of the block, data, checksum, and one byte to skip.
ByteDone(r) ==
  CASE r.state = 0 -> [r EXCEPT !.state = 1, !.buf = <<r.byte>>, !.sum = 0]
    [] r.state = 1 ->
         LET next == [r EXCEPT !.buf = Append(@, r.byte), !.count = @ + 1,
                               !.sum = (@ + r.byte) % 2 ^ Width]
         IN IF next.count = Block THEN [next EXCEPT !.count = 0, !.state = 2] ELSE next
    [] r.state = 2 -> [r EXCEPT !.state = 3, !.out = IF r.sum = r.byte THEN @ \o r.buf ELSE @]
    [] r.state = 3 -> [r EXCEPT !.state = 0, !.sync = 2]

\* The number of bits left is not followed below -1: only a separator ends that.
RecordKC(r, d) ==
  LET type == IF d < (Zero + One) \div 2 THEN 0
              ELSE IF d > (Separator + One) \div 2 THEN 2 ELSE 1
      pair == [r EXCEPT !.flip = 0]
      left == IF r.bits = -1 THEN -1 ELSE r.bits - 1
      read == [pair EXCEPT !.byte = Shifted(@, type), !.bits = left]
  IN CASE r.sync > 0 /\ type = 2 ->
            [r EXCEPT !.sync = @ - 1, !.bits = Width, !.count = 0]
       [] r.sync > 0 -> r
       [] r.flip = 0 -> [r EXCEPT !.flip = 1]
       [] type = 2   -> [pair EXCEPT !.bits = Width]
       [] left = 0   -> ByteDone([read EXCEPT !.bits = -1])
       [] OTHER      -> read

\* tape_signal_z1013: the tone is found, a block begins, its start has a second half
\* wave, its bits come.  The static variables are not touched by record().
RecordZ1013(r, d) ==
  LET lost == [r EXCEPT !.phase = 0, !.found = Locked]
      tone == IF r.found = 0 THEN 0 ELSE IF d > 1200 THEN r.found - 1 ELSE Locked
      bit  == IF d > 580 THEN 1 ELSE 0
      next == [r EXCEPT !.first = FALSE, !.byte = Shifted(@, bit), !.bits = @ + 1]
      full == [next EXCEPT !.bits = 0, !.buf = Append(@, next.byte)]
  IN CASE d > 20000 -> lost
       [] r.phase = 0 -> IF tone = 0 THEN [r EXCEPT !.phase = 1, !.found = Locked]
                         ELSE [r EXCEPT !.found = tone]
       [] r.phase = 1 -> IF d > 1200 THEN r ELSE IF d < 580 THEN lost
                         ELSE [r EXCEPT !.phase = 2]
       [] r.phase = 2 -> IF d < 580 \/ d > 1200 THEN lost
                         ELSE [r EXCEPT !.phase = 3, !.buf = <<>>, !.bits = 0,
                                        !.first = FALSE]
       [] OTHER ->
            CASE d > 1200 -> lost
              [] bit = 0 /\ ~r.first -> [r EXCEPT !.first = TRUE]
              [] next.bits < Width -> [next EXCEPT !.first = bit = 1 /\ r.first]
              [] Len(full.buf) < Unit -> [full EXCEPT !.first = bit = 1 /\ r.first]
              [] OTHER -> [full EXCEPT !.phase = 1, !.buf = <<>>, !.out = @ \o full.buf,
                                       !.first = bit = 1 /\ r.first]

\* tape_signal_bic: the tone is found and ends; then eleven bits, a 1 in four equal half
\* waves and a 0 in two.
RecordBIC(r, d) ==
  LET type == IF d > 1000 THEN 0 ELSE 1
      flip == IF r.flip = 0 \/ r.obit = type THEN r.flip + 1 ELSE r.flip
      done == flip = (IF type = 1 THEN 4 ELSE 2)
      byte == IF done THEN r.byte \div 2 + type * 2 ^ (Width + 2) ELSE r.byte
      left == IF done THEN r.bits - 1 ELSE r.bits
      read == [r EXCEPT !.sync = -1, !.flip = IF done THEN 0 ELSE flip, !.byte = byte,
                        !.bits = left, !.obit = type]
      full == [read EXCEPT !.bits = Width + 3]
  IN CASE r.sync > 0 -> [r EXCEPT !.sync = IF type = 1 THEN @ - 1 ELSE Locked]
       [] r.sync = 0 /\ type = 1 -> [r EXCEPT !.bits = Width + 3, !.count = 0]
       [] left # 0 -> read
       [] byte % 2 = 1 -> [full EXCEPT !.sync = Locked]
       [] OTHER -> [full EXCEPT !.out = Append(@, (byte \div 2) % 2 ^ Width)]

Hear(d) ==
  IF ~rec.on THEN rec' = rec /\ gap' = IF d > Pause THEN Pause ELSE d
  ELSE /\ gap' = 0
       /\ rec' = CASE format = "kc"    -> RecordKC(rec, d)
                   [] format = "z1013" -> RecordZ1013(rec, d)
                   [] format = "bic"   -> RecordBIC(rec, d)

-----------------------------------------------------------------------------
(* The steps.                                                              *)

\* The user starts the recorder, and then the player.
Start(i) ==
  /\ edges = <<>> /\ hand.starts < MaxStarts
  /\ hand' = [hand EXCEPT !.starts = @ + 1]
  /\ rec' = Recording /\ gap' = Pause /\ played' = <<>>
  /\ deck' = Started(i)
  /\ edges' = <<Edge(2, 0)>>
  /\ UNCHANGED <<format, power>>

\* Tape::callback: the edge goes to the cable; a rising one does no more, and the first
\* one only if the motor is on.
Callback ==
  /\ edges # <<>>
  /\ LET e == Head(edges)
         d == gap + e.after
     IN IF ~deck.play
          THEN /\ edges' = Tail(edges)
               /\ gap' = IF d > Pause THEN Pause ELSE d
               /\ UNCHANGED <<deck, rec, played>>
          ELSE /\ Hear(d)
               /\ IF e.edge = 1 \/ (e.edge = 2 /\ ~power)
                    THEN edges' = Tail(edges) /\ UNCHANGED <<deck, played>>
                    ELSE CASE format = "kc"    -> PlayKC
                           [] format = "z1013" -> PlayZ1013
                           [] format = "bic"   -> PlayBIC
  /\ UNCHANGED <<format, power, hand>>

\* Tape::stop, of the player at any time, and of the recorder when the tape stands.
StopPlayer == /\ deck.play /\ deck' = [deck EXCEPT !.play = FALSE]
              /\ UNCHANGED <<format, power, edges, gap, rec, played, hand>>
StopRecorder == /\ edges = <<>> /\ rec.on /\ rec' = [rec EXCEPT !.on = FALSE]
                /\ UNCHANGED <<format, power, deck, edges, gap, played, hand>>

\* Tape::seek, to a multiple of the length of a block.
Seek(k) ==
  /\ ~deck.last /\ deck.play
  /\ hand.seeks < MaxSeeks /\ hand' = [hand EXCEPT !.seeks = @ + 1]
  /\ k * (Block + 1) <= Len(Files[deck.file])
  /\ deck' = [deck EXCEPT
        !.is = SubSeq(Files[deck.file], k * (Block + 1) + 1, Len(Files[deck.file]))]
  /\ UNCHANGED <<format, power, edges, gap, rec, played>>

\* Tape::power, when it makes a difference: before the first edge.
Power ==
  /\ edges # <<>> => Head(edges).edge = 2
  /\ power' = ~power /\ UNCHANGED <<format, deck, edges, gap, rec, played, hand>>

\* Z80::reset of the playing machine clears the callback list; the deck is not told, and
\* stands with _play set.
Reset ==
  /\ edges # <<>> /\ edges' = <<>>
  /\ UNCHANGED <<format, power, deck, gap, rec, played, hand>>

Next ==
  \/ Callback \/ StopPlayer \/ StopRecorder \/ Power \/ Reset
  \/ \E i \in DOMAIN Files : Start(i)
  \/ \E k \in 0 .. 2 : Seek(k)

Spec == Init /\ [][Next]_vars

-----------------------------------------------------------------------------
(* Properties.                                                             *)

TypeOK ==
  /\ format \in Formats /\ power \in BOOLEAN /\ gap \in 0 .. 2 * Pause
  /\ Len(edges) <= 4
  /\ deck.bits \in -1 .. Width + 1 /\ deck.count \in 0 .. BlockSize
  /\ rec.bits \in -1 .. Width + 3 /\ rec.out \in Seq(Byte)

\* The copy is the original: the recorder has the bytes that were sent, in order and none
\* made up, and while it listens it lacks no more than the block on its way.  The edges
\* are events on a list, the bits are told by the time between two of them, and of each
\* format both sides are in this file (do_play*, tape_signal*).
CopyIsTrue ==
  /\ IsPrefix(rec.out, played)
  /\ rec.on => Len(played) - Len(rec.out) <=
       (CASE format = "kc" -> Block + 1 [] format = "z1013" -> Unit [] format = "bic" -> 1)
=============================================================================
