-------------------------------- MODULE FDC --------------------------------
(***************************************************************************)
(* The floppy disk controller of KCemu (src/src/kc/fdc.cc, fdc_cmd.cc,     *)
(* floppy.cc): the phases of a command, the transfer of sectors, seeks     *)
(* that end by a timed event, and the index pulses of the selected drive.  *)
(* The ports around it (fdc4.cc, fdc7.cc, fdc9.cc, fdc0s.cc) differ in     *)
(* how the terminal count reaches the controller.                          *)
(*                                                                         *)
(* The guest obeys the main status register: it writes a command when the  *)
(* controller is idle, its arguments, then transfers bytes while the       *)
(* controller asks for them and reads the results.  Timed events fire in   *)
(* any order.  Heads, gaps and the bytes of a result other than its        *)
(* interrupt code are left out.                                            *)
(***************************************************************************)
EXTENDS Integers, Sequences, FiniteSets

CONSTANTS
  Guests,     \* for every machine, one of "D004", "FDC7", "FDC9" and "FDC0S": the
              \* commands the guest uses, the units and cylinders it addresses,
              \* and events: it selects a drive, or formats a sector, only when
              \* so many index or seek events wait at most
  Cylinders,  \* the cylinders of every disk image
  Sectors,    \* sectors per cylinder of every disk image, numbered from 1
  Size,       \* bytes per sector
  Data,       \* the values of a byte
  Blank       \* the content of the images at first: sectors by address

\* The arguments and results of the commands, the first byte included.
Args == [INVALID |-> 1, SPECIFY |-> 3, SENSE_DRIVE |-> 2, WRITE |-> 9, READ |-> 9,
         RECALIBRATE |-> 2, SENSE_INT |-> 1, READ_ID |-> 2, FORMAT |-> 6,
         SEEK |-> 3, SCAN |-> 9, READ_TRACK |-> 9]
Results == [INVALID |-> 1, SPECIFY |-> 0, SENSE_DRIVE |-> 1, WRITE |-> 7, READ |-> 7,
            RECALIBRATE |-> 0, SENSE_INT |-> 2, READ_ID |-> 7, FORMAT |-> 7,
            SEEK |-> 0, SCAN |-> 7, READ_TRACK |-> 7]

ASSUME FDCAssumption ==
  /\ DOMAIN Guests \subseteq {"D004", "FDC7", "FDC9", "FDC0S"}
  /\ \A m \in DOMAIN Guests : /\ Guests[m].units \subseteq 0 .. 3 /\ Guests[m].events \in Nat
                              /\ Guests[m].cylinders \subseteq Cylinders
                              /\ Guests[m].commands \subseteq DOMAIN Args
  /\ Cylinders \subseteq Nat /\ 0 \in Cylinders
  /\ {Sectors, Size} \subseteq Nat \ {0}
  /\ Blank \in [Cylinders \X (1 .. Sectors) -> [0 .. (Size - 1) -> Data]]

VARIABLES
  machine,   \* whose ports: one of DOMAIN Guests
  state,     \* _state; EXECUTE is left within the step that enters it
  cmd,       \* _cur_cmd, "none" after a reset
  w, r,      \* _w_idx and _r_idx of the command
  arg,       \* the arguments of a transfer: unit, cylinder, sector, end of track
  transfer,  \* _buf and _idx of the command, and the sectors it formatted
  result,    \* the interrupt code in _result[0] of the command
  dio, busy, \* the bits DIO and D0B .. D3B of _MSR
  gate,      \* the bits INT and IDX of _INPUT_GATE; INT is active low
  ic,        \* the interrupt code in _ST0
  tc,        \* _terminal_count
  unit,      \* _selected_unit
  pos,       \* cylinder and sector of every drive
  inserted,  \* the drives with a disk image
  content,   \* the sectors of the images
  seeks,     \* the seek events on the callback list, as <<unit, ok>> -> number
  selected,  \* _selected_device is not 0
  trains,    \* the index events on the callback list, by their value
  moved      \* the bytes this command has transferred (history): of a WRITE
             \* their values, of a READ their number

phases == <<state, cmd, w, r, arg>>
status == <<dio, busy, gate, ic>>
drives == <<machine, unit, pos, inserted, content>>
timed  == <<seeks, selected, trains>>
vars   == <<phases, transfer, result, status, tc, drives, timed, moved>>

Commands  == Guests[machine].commands
Addressed == Guests[machine].units
Reached   == Guests[machine].cylinders
MaxEvents == Guests[machine].events
Units     == UNION {Guests[m].units : m \in DOMAIN Guests}

Transfers == {"READ", "WRITE", "FORMAT", "SCAN"}
Address   == Cylinders \X (1 .. Sectors)
NoArgs    == [unit |-> 0, cyl |-> 0, sec |-> 1, eot |-> 1]
Empty     == [buf |-> <<>>, idx |-> 0, done |-> 0]
SeekEvent == Units \X BOOLEAN

\* FDC::init; the callback list was cleared before.  The commands keep their
\* fields, but set them again before they use them.
Fresh ==
  /\ state' = "IDLE" /\ cmd' = "none" /\ w' = 0 /\ r' = 0 /\ arg' = NoArgs
  /\ transfer' = Empty /\ result' = "none" /\ moved' = <<>>
  /\ dio' = FALSE /\ busy' = {} /\ gate' = [int |-> FALSE, idx |-> FALSE]
  /\ ic' = "normal" /\ tc' = FALSE
  /\ unit' = 0 /\ selected' = FALSE
  /\ seeks' = [e \in SeekEvent |-> 0] /\ trains' = [v \in {0, 1} |-> 0]

Init ==
  /\ machine \in DOMAIN Guests
  /\ state = "IDLE" /\ cmd = "none" /\ w = 0 /\ r = 0 /\ arg = NoArgs
  /\ transfer = Empty /\ result = "none" /\ moved = <<>>
  /\ dio = FALSE /\ busy = {} /\ gate = [int |-> FALSE, idx |-> FALSE]
  /\ ic = "normal" /\ tc = FALSE
  /\ unit = 0 /\ selected = FALSE
  /\ seeks = [e \in SeekEvent |-> 0] /\ trains = [v \in {0, 1} |-> 0]
  /\ pos = [u \in Units |-> [cyl |-> 0, sec |-> 1]]
  /\ inserted \in SUBSET Addressed
  /\ content = [u \in Units |-> Blank]

-----------------------------------------------------------------------------
(***************************************************************************)
(* Phases.                                                                 *)
(***************************************************************************)

\* FDC::set_state: the direction of the data phase is the command's choice.
SetState(s, d) ==
  /\ state' = s
  /\ dio' = CASE s = "RESULT" -> TRUE
              [] s = "DATA"   -> d
              [] OTHER        -> FALSE

\* FDC_CMD::finish_cmd for the command c.
Finish(c) == SetState(IF Results[c] > 0 THEN "RESULT" ELSE "IDLE", FALSE)

\* FDC_CMD::start: the first byte of a command.
Command(c) ==
  /\ state = "IDLE"
  /\ c \in Commands
  /\ Args[c] > 1
  /\ cmd' = c /\ w' = 1 /\ r' = 0
  /\ SetState("COMMAND", FALSE)
  /\ moved' = <<>>
  /\ UNCHANGED <<arg, transfer, result, busy, gate, ic, tc, drives, timed>>

\* FDC_CMD::write_arg, all but the last.
Argument ==
  /\ state = "COMMAND"
  /\ w + 1 < Args[cmd]
  /\ w' = w + 1
  /\ UNCHANGED <<state, cmd, r, arg, transfer, result, status, tc, drives, timed, moved>>

\* The last byte of the command c, and its arguments a.
LastByte(c, a) ==
  /\ c \in Commands
  /\ \/ state = "IDLE" /\ Args[c] = 1 /\ cmd' = c /\ r' = 0
     \/ state = "COMMAND" /\ c = cmd /\ w + 1 = Args[c] /\ UNCHANGED <<cmd, r>>
  /\ w' = Args[c]
  /\ arg' = IF c \in Transfers THEN a ELSE arg

\* Mutant of ReadResult: one too many.
ReadResultMore ==
  /\ state = "RESULT"
  /\ cmd # "none" /\ r < Results[cmd]
  /\ r' = r + 1
  /\ IF r + 1 > Results[cmd] THEN SetState("IDLE", FALSE) ELSE UNCHANGED <<state, dio>>
  /\ UNCHANGED <<cmd, w, arg, transfer, result, busy, gate, ic, tc, drives, timed, moved>>

\* FDC_CMD::read_result.
ReadResult ==
  /\ state = "RESULT"
  /\ cmd # "none" /\ r < Results[cmd]
  /\ r' = r + 1
  /\ IF r + 1 >= Results[cmd] THEN SetState("IDLE", FALSE) ELSE UNCHANGED <<state, dio>>
  /\ UNCHANGED <<cmd, w, arg, transfer, result, busy, gate, ic, tc, drives, timed, moved>>

-----------------------------------------------------------------------------
(***************************************************************************)
(* Commands without a data phase.                                          *)
(***************************************************************************)

\* add_callback() at the end of FDC::seek: without a disk the seek fails.
AddSeek(u) == seeks' = [seeks EXCEPT ![<<u, u \in inserted>>] = @ + 1]

\* FDC::seek of the drive u.
Seek(u, c, s) ==
  /\ pos' = [pos EXCEPT ![u] = [cyl |-> c, sec |-> s]]
  /\ AddSeek(u)
  /\ busy' = busy \cup {u}

\* RECALIBRATE and SEEK: the end is announced by an interrupt.
Move(c, a) ==
  /\ c \in {"RECALIBRATE", "SEEK"}
  /\ a.unit \notin busy
  /\ LastByte(c, a)
  /\ unit' = a.unit
  /\ IF c = "SEEK" THEN Seek(a.unit, a.cyl, 1) ELSE Seek(a.unit, 0, pos[a.unit].sec)
  /\ gate' = [gate EXCEPT !.int = FALSE]
  /\ Finish(c)
  /\ UNCHANGED <<transfer, result, ic, tc, machine, inserted, content, selected, trains, moved>>

\* The others; READ TRACK and the like do nothing and end.
Simple(c, a) ==
  /\ c \in {"INVALID", "SPECIFY", "SENSE_DRIVE", "SENSE_INT", "READ_ID", "READ_TRACK"}
  /\ LastByte(c, a)
  /\ unit' = IF c \in {"SENSE_DRIVE", "READ_ID"} THEN a.unit ELSE unit
  /\ ic' = IF c = "INVALID" THEN "invalid" ELSE ic
  /\ result' = IF c \in {"INVALID", "SENSE_INT", "READ_ID"} THEN ic' ELSE result
  /\ gate' = IF c = "READ_ID" THEN [gate EXCEPT !.int = FALSE] ELSE gate
  /\ Finish(c)
  /\ UNCHANGED <<transfer, busy, tc, machine, pos, inserted, content, timed, moved>>

-----------------------------------------------------------------------------
(***************************************************************************)
(* Commands with a data phase.                                             *)
(***************************************************************************)

Readable(u, c, s) == u \in inserted /\ <<c, s>> \in Address

\* execute() of READ DATA and SCAN EQUAL: the first sector is in the buffer.
FetchFirst(c, a) ==
  /\ c \in {"READ", "SCAN"}
  /\ LastByte(c, a)
  /\ unit' = a.unit
  /\ pos' = [pos EXCEPT ![a.unit] = [cyl |-> a.cyl, sec |-> a.sec]]
  /\ gate' = [gate EXCEPT !.int = FALSE]
  /\ IF Readable(a.unit, a.cyl, a.sec)
       THEN /\ SetState("DATA", c = "READ")
            /\ transfer' = [Empty EXCEPT !.buf = content[a.unit][<<a.cyl, a.sec>>]]
            /\ result' = ic
            /\ ic' = IF c = "READ" THEN "normal" ELSE ic
       ELSE /\ Finish(c)
            /\ ic' = "abnormal"
            /\ result' = "abnormal"
            /\ UNCHANGED transfer
  /\ moved' = <<>>
  /\ UNCHANGED <<busy, tc, inserted, content, machine, timed>>

\* Mutant of Accept: what is left of a transfer that was broken off.
AcceptRest(c, a) ==
  /\ c \in {"WRITE", "FORMAT"}
  /\ LastByte(c, a)
  /\ unit' = a.unit
  /\ gate' = [gate EXCEPT !.int = FALSE]
  /\ UNCHANGED transfer
  /\ result' = ic
  /\ SetState("DATA", c = "FORMAT")
  /\ moved' = <<>>
  /\ UNCHANGED <<busy, ic, tc, machine, pos, inserted, content, timed>>

\* execute() of WRITE DATA and FORMAT A TRACK; the latter does not set the
\* direction, which was that of a read while the command executed.
Accept(c, a) ==
  /\ c \in {"WRITE", "FORMAT"}
  /\ LastByte(c, a)
  /\ unit' = a.unit
  /\ gate' = [gate EXCEPT !.int = FALSE]
  /\ transfer' = Empty
  /\ result' = ic
  /\ SetState("DATA", c = "FORMAT")
  /\ moved' = <<>>
  /\ UNCHANGED <<busy, ic, tc, machine, pos, inserted, content, timed>>

\* READ DATA has read the sector and goes on with the next one.
AtEnd    == transfer.idx = Size
NextSec  == pos[unit].sec + 1
CanFetch == unit \in inserted /\ pos[unit].sec < Sectors

\* Mutant of Fetched: the index is reset to the last byte.
FetchedOn ==
  IF ~AtEnd THEN transfer
  ELSE [transfer EXCEPT !.buf = content[unit][<<pos[unit].cyl, NextSec>>], !.idx = Size - 1]

\* FDC_CMD_READ_DATA::fetch_next_sector.
Fetched ==
  IF ~AtEnd THEN transfer
  ELSE [transfer EXCEPT !.buf = content[unit][<<pos[unit].cyl, NextSec>>], !.idx = 0]

\* FDC_CMD_READ_DATA::read_byte with a byte left to read, the last one of the
\* last sector ends the command.
ReadByte ==
  /\ state = "DATA" /\ cmd = "READ"
  /\ AtEnd => CanFetch
  /\ transfer' = [Fetched EXCEPT !.idx = @ + 1]
  /\ pos' = IF AtEnd THEN [pos EXCEPT ![unit].sec = NextSec] ELSE pos
  /\ IF transfer'.idx = Size /\ (IF AtEnd THEN NextSec ELSE pos[unit].sec) = arg.eot
       THEN Finish(cmd) /\ ic' = "abnormal"
       ELSE UNCHANGED <<state, dio, ic>>
  /\ moved' = Append(moved, "read")
  /\ UNCHANGED <<cmd, w, r, arg, result, busy, gate, tc, unit, inserted, content, machine, timed>>

\* ... and without one: the guest gets FFh and finds the results.
ReadNothing ==
  /\ state = "DATA" /\ cmd = "READ"
  /\ AtEnd /\ ~CanFetch
  /\ Finish(cmd)
  /\ UNCHANGED <<cmd, w, r, arg, transfer, result, busy, gate, ic, tc, drives, timed, moved>>

\* The buffer with the next byte in it; a new buffer holds anything.
Stored(v) == [i \in 0 .. transfer.idx |-> IF i = transfer.idx THEN v ELSE transfer.buf[i]]

\* FDC_CMD_WRITE_DATA::write_byte.  A full buffer goes to the sector of the
\* arguments; the index is not reset, so that only one sector can be written.
WriteByte(v) ==
  /\ state = "DATA" /\ cmd = "WRITE"
  /\ transfer' = [transfer EXCEPT !.buf = Stored(v), !.idx = @ + 1]
  /\ IF transfer'.idx = Size
       THEN /\ pos' = [pos EXCEPT ![unit] = [cyl |-> arg.cyl, sec |-> arg.sec]]
            /\ content' = IF unit \notin inserted THEN content
                          ELSE [content EXCEPT ![unit][<<arg.cyl, arg.sec>>] = transfer'.buf]
       ELSE UNCHANGED <<pos, content>>
  /\ IF transfer'.idx = Size /\ arg.sec = arg.eot
       THEN Finish(cmd) /\ ic' = "abnormal"
       ELSE UNCHANGED <<state, dio, ic>>
  /\ moved' = Append(moved, v)
  /\ UNCHANGED <<cmd, w, r, arg, result, busy, gate, tc, unit, machine, inserted, timed>>

\* The sectors formatted once this one is.
Formatted == transfer.done + 1

\* FDC_CMD_FORMAT_A_TRACK::write_byte, and format() after the fourth byte: the
\* head moves to <<c, s>>, which is filled with v; eot is the number of sectors.
FormatByte(c, s, v) ==
  /\ state = "DATA" /\ cmd = "FORMAT"
  /\ transfer.idx = 3 => seeks[<<unit, TRUE>>] + seeks[<<unit, FALSE>>] <= MaxEvents
  /\ IF transfer.idx < 3
       THEN /\ transfer' = [transfer EXCEPT !.idx = @ + 1]
            /\ UNCHANGED <<state, dio, gate, busy, pos, content, seeks>>
       ELSE /\ transfer' = [transfer EXCEPT !.idx = 0, !.done = Formatted]
            /\ Seek(unit, c, s)
            /\ content' = IF unit \notin inserted THEN content
                          ELSE [content EXCEPT ![unit][<<c, s>>] = [i \in 0 .. (Size - 1) |-> v]]
            /\ gate' = [gate EXCEPT !.int = Formatted = arg.eot]
            /\ IF Formatted = arg.eot THEN Finish(cmd) ELSE UNCHANGED <<state, dio>>
  /\ UNCHANGED <<cmd, w, r, arg, result, ic, tc, unit, machine, inserted, selected, trains, moved>>

\* FDC_CMD_SCAN_EQUAL::write_byte: a difference ends the command.
ScanByte(v) ==
  /\ state = "DATA" /\ cmd = "SCAN"
  /\ transfer' = [transfer EXCEPT !.idx = @ + 1]
  /\ IF transfer.buf[transfer.idx] # v \/ transfer'.idx = Size
       THEN Finish(cmd) /\ result' = ic
       ELSE UNCHANGED <<state, dio, result>>
  /\ UNCHANGED <<cmd, w, r, arg, busy, gate, ic, tc, drives, timed, moved>>

Byte == \/ ReadByte \/ ReadNothing
        \/ \E v \in Data : WriteByte(v) \/ ScanByte(v)
        \/ \E c \in Reached, s \in 1 .. Sectors, v \in Data : FormatByte(c, s, v)

-----------------------------------------------------------------------------
(***************************************************************************)
(* The terminal count, reset, and the user's disks.                        *)
(***************************************************************************)

\* A program ends a transfer by it, or acknowledges the end of one.
Expected == cmd \in Transfers /\ state \in {"DATA", "RESULT"} /\ r = 0

\* FDC4::out and FDC9::out at F8h and 48h.
TerminalPort ==
  /\ machine \in {"D004", "FDC9"}
  /\ Expected
  /\ SetState("RESULT", FALSE)
  /\ gate' = [gate EXCEPT !.int = TRUE]
  /\ UNCHANGED <<cmd, w, r, arg, transfer, result, busy, ic, tc, drives, timed, moved>>

\* FDC9::out: the guest gives the controller up.
AbandonPort ==
  /\ machine = "FDC9"
  /\ Expected
  /\ SetState("IDLE", FALSE)
  /\ gate' = [gate EXCEPT !.int = TRUE]
  /\ UNCHANGED <<cmd, w, r, arg, transfer, result, busy, ic, tc, drives, timed, moved>>

\* FDC::set_terminal_count: the edge counts.
TerminalCount(level) ==
  /\ machine = "FDC7"
  /\ tc # level
  /\ level => Expected
  /\ tc' = level
  /\ IF ~level THEN UNCHANGED <<state, dio>>
     ELSE IF cmd = "none" THEN SetState("IDLE", FALSE)
     ELSE Finish(cmd)
  /\ UNCHANGED <<cmd, w, r, arg, transfer, result, busy, gate, ic, drives, timed, moved>>

\* FDC0S::out: the level never falls, and the result phase follows anyway.
TerminalBoth ==
  /\ machine = "FDC0S"
  /\ Expected
  /\ tc' = TRUE
  /\ SetState("RESULT", FALSE)
  /\ gate' = [gate EXCEPT !.int = TRUE]
  /\ UNCHANGED <<cmd, w, r, arg, transfer, result, busy, ic, drives, timed, moved>>

\* The processor of the controller is reset: its callback list, then FDC::reset.
Reset == Fresh /\ UNCHANGED <<machine, pos, inserted, content>>

\* Floppy::attach of an image, and without one.
Attach(u) ==
  /\ \/ u \notin inserted /\ inserted' = inserted \cup {u}
     \/ u \in inserted /\ inserted' = inserted \ {u}
  /\ UNCHANGED <<phases, transfer, result, status, tc, unit, machine, pos, content, timed, moved>>

-----------------------------------------------------------------------------
(***************************************************************************)
(* Timed events.                                                           *)
(***************************************************************************)

\* Mutant of SeekCallback: the drive that is selected now.
SeekCallbackSelected(e) ==
  /\ seeks[e] > 0
  /\ seeks' = [seeks EXCEPT ![e] = @ - 1]
  /\ busy' = busy \ {unit}
  /\ ic' = IF e[2] THEN "normal" ELSE "abnormal"
  /\ gate' = [gate EXCEPT !.int = TRUE]
  /\ UNCHANGED <<phases, transfer, result, dio, tc, drives, selected, trains, moved>>

\* FDC::callback_seek.
SeekCallback(e) ==
  /\ seeks[e] > 0
  /\ seeks' = [seeks EXCEPT ![e] = @ - 1]
  /\ busy' = busy \ {e[1]}
  /\ ic' = IF e[2] THEN "normal" ELSE "abnormal"
  /\ gate' = [gate EXCEPT !.int = TRUE]
  /\ UNCHANGED <<phases, transfer, result, dio, tc, drives, selected, trains, moved>>

\* FDC::drive_select, for the drives of us: the first index event.
DriveSelect(us) ==
  /\ machine = "D004"
  /\ selected' = (us \cap inserted # {})
  /\ IF selected' /\ ~selected
       THEN trains[0] + trains[1] <= MaxEvents /\ trains' = [trains EXCEPT ![0] = @ + 1]
       ELSE UNCHANGED trains
  /\ gate' = [gate EXCEPT !.idx = FALSE]
  /\ UNCHANGED <<phases, transfer, result, dio, busy, ic, tc, drives, seeks, moved>>

\* Mutant of NextIndex: an event follows only the end of the pulse.
NextIndexOnce(v) == IF selected /\ v = 1 THEN [trains EXCEPT ![v] = @ - 1, ![1 - v] = @ + 1]
                                         ELSE [trains EXCEPT ![v] = @ - 1]

\* add_callback() of FDC::callback_index: only while a drive is selected.
NextIndex(v) == IF selected THEN [trains EXCEPT ![v] = @ - 1, ![1 - v] = @ + 1]
                            ELSE [trains EXCEPT ![v] = @ - 1]

\* FDC::callback_index: the pulse begins and ends.
IndexCallback(v) ==
  /\ trains[v] > 0
  /\ trains' = NextIndex(v)
  /\ gate' = [gate EXCEPT !.idx = selected /\ v = 0]
  /\ UNCHANGED <<phases, transfer, result, dio, busy, ic, tc, drives, seeks, selected, moved>>

Guest ==
  \/ \E c \in Commands : Command(c)
  \/ Argument \/ ReadResult
  \/ \E u \in Addressed, cyl \in Reached, s, e \in 1 .. Sectors : \E c \in Commands :
       LET a == [unit |-> u, cyl |-> cyl, sec |-> s, eot |-> e]
       IN  \/ Move(c, a) \/ Simple(c, a) \/ FetchFirst(c, a)
           \/ (c = "WRITE" => s = e) /\ Accept(c, a)
  \/ Byte

Terminal ==
  \/ TerminalPort \/ AbandonPort \/ TerminalBoth
  \/ \E level \in BOOLEAN : TerminalCount(level)

Timed == \/ \E e \in SeekEvent : SeekCallback(e)
         \/ \E v \in {0, 1} : IndexCallback(v)

Next == \/ Guest \/ Terminal \/ Timed \/ Reset
        \/ \E us \in SUBSET Addressed : DriveSelect(us)
        \/ \E u \in Addressed : Attach(u)

\* The callback list is run after every instruction.
Spec == /\ Init /\ [][Next]_vars
        /\ \A v \in {0, 1} : WF_vars(IndexCallback(v))

-----------------------------------------------------------------------------
(***************************************************************************)
(* Properties.                                                             *)
(***************************************************************************)

\* The index of a transfer does not leave the buffer of a sector: the code stores
\* a byte before it compares the index.
TypeOK ==
  /\ state \in {"IDLE", "COMMAND", "DATA", "RESULT"}
  /\ cmd \in Commands \cup {"none"}
  /\ cmd # "none" => w \in 1 .. Args[cmd]
  /\ state = "DATA" => transfer.idx \in 0 .. IF cmd = "FORMAT" THEN 3 ELSE Size
  /\ result \in {"none", "normal", "abnormal", "invalid"}
  /\ ic \in {"normal", "abnormal", "invalid"}
  /\ busy \subseteq Units /\ inserted \subseteq Units
  /\ {dio, tc, selected} \subseteq BOOLEAN
  /\ seeks \in [SeekEvent -> Nat] /\ trains \in [{0, 1} -> Nat]
  /\ content \in [Units -> [Address -> [0 .. (Size - 1) -> Data]]]

\* "aborts the running command (mostly read/write) and goes into result phase"
\* (fdc.cc, terminal count): the result phase belongs to a command that still
\* has a result to read, so that it ends and the next command is heard.
ResultComplete == state = "RESULT" => cmd # "none" /\ r < Results[cmd]

\* Every phase has the data it works on, and every result phase ends.
PhasesSound == TypeOK /\ ResultComplete

\* The bytes of a READ DATA are those of its sectors in their order, from the
\* first of the arguments to the end of the track, also when a seek ends, or the
\* disk is taken out, in between.
ReadsInOrder ==
  [][ReadByte =>
       LET n  == Len(moved)
           at == arg.sec + n \div Size
       IN  /\ arg.sec <= arg.eot => at <= arg.eot
           /\ Fetched.buf[Fetched.idx] = content[arg.unit][<<arg.cyl, at>>][n % Size]]_vars

\* A disk changes by whole sectors only: a WRITE DATA changes the sector of its
\* arguments to the bytes the guest has sent with this command, in their order;
\* a write that was broken off leaves nothing, on the disk or in the buffer.
WritesWhole ==
  [][content' = content \/
     /\ cmd \in {"WRITE", "FORMAT"}
     /\ cmd = "WRITE" => Len(moved') = Size
     /\ cmd = "WRITE" =>
          content' = [content EXCEPT ![arg.unit][<<arg.cyl, arg.sec>>] =
                                       [i \in 0 .. (Size - 1) |-> moved'[i + 1]]]]_vars

\* "FDD number 0 is in the seek mode" (fdc.h): the busy bit of a drive is set
\* exactly while the event that ends its seek waits on the callback list; unless
\* the guest formats, which seeks for every sector and waits for none.
BusyWhileSeeking ==
  "FORMAT" \notin Commands => \A u \in Units : u \in busy <=> \E ok \in BOOLEAN : seeks[<<u, ok>>] > 0

\* While a drive stays selected its index pulses keep coming.
KeepsRotating ==
  (<>[]selected /\ <>[][\A us \in SUBSET Units : ~DriveSelect(us)]_vars) => []<>gate.idx
=============================================================================
