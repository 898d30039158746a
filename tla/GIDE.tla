-------------------------------- MODULE GIDE --------------------------------
(***************************************************************************)
(* The hard disk module of KCemu (src/src/kc/gide.cc): two drives in image *)
(* files of the host behind the registers of an IDE controller, with one   *)
(* sector buffer.                                                          *)
(*                                                                         *)
(* The indices of a transfer are static variables of in_data() and         *)
(* out_data(): no command and no reset sets them, so a program has to      *)
(* finish every transfer, as programs do here.  The code ignores the       *)
(* sector count, the output register with its reset bit, and two commands; *)
(* they and the clock are left out.                                        *)
(***************************************************************************)
EXTENDS Integers, Sequences

CONSTANTS
  Size,             \* bytes per sector
  Heads,            \* _hard_disk_config[].nr_of_heads
  Sectors,          \* _hard_disk_config[].nr_of_sectors
  CylinderLow,      \* the values a program writes to the low half of _cylinder
  CylinderHigh,     \* to the high half
  HeadNumbers,      \* to the head bits of the drive register
  SectorNumbers,    \* and to _sector
  Data,             \* the bytes a program writes
  Images,           \* the sets of drives whose image file is configured
  MaxCommands       \* transfers of a run

Filler == 229       \* e5, the byte of a sector that cannot be read
Drives == {0, 1}

(* What the constants are. *)
GIDEAssumption ==
  /\ Size \in Nat \ {0} /\ MaxCommands \in Nat
  /\ {Heads, Sectors} \subseteq [Drives -> 1 .. 16]
  /\ CylinderLow \cup CylinderHigh \cup SectorNumbers \subseteq 0 .. 255
  /\ HeadNumbers \subseteq 0 .. 15
  /\ Data \subseteq (1 .. 255) \ {Filler}
  /\ Images \subseteq SUBSET Drives

VARIABLES
  image,     \* the drives with an image file
  file,      \* the sectors of every image file, in order
  reg,       \* _drive, _cylinder, _head and _sector
  drq,       \* GIDE_STATUS_DATA_REQUEST in _status
  error,     \* _error
  buffer,    \* _sector_buffer
  inx, outx, \* the static x of in_data() and of out_data()
  program,   \* the transfer the program is in (history): its command, the
             \* address given, and the bytes it moved
  done,      \* the last transfer that was completed (history)
  commands   \* the transfers so far (history)

registers == <<reg, error>>
disk == <<image, file>>
history == <<program, done, commands>>
vars == <<disk, registers, drq, buffer, inx, outx, history>>

All(b) == [i \in 1 .. Size |-> b]
None == [cmd |-> "none"]

-----------------------------------------------------------------------------
\* Mutant of Place: the heads of a cylinder are forgotten.
PlaceHeadless(r) ==
  (r.sector - 1) + r.head * Sectors[r.drive] + r.cylinder * Sectors[r.drive]

(* The place of the sector in the image file, from 0; the sector number 0  *)
(* of the first track has none.                                            *)
Place(r) == (r.sector - 1) + r.head * Sectors[r.drive]
              + r.cylinder * Heads[r.drive] * Sectors[r.drive]

(* Reading the sector from the file: what cannot be read is filled.        *)
FileRead(r) ==
  IF r.drive \in image /\ Place(r) + 1 \in DOMAIN file[r.drive]
  THEN file[r.drive][Place(r) + 1] ELSE All(Filler)

(* Writing it: the file is made, and grows by zeros as it has to.          *)
FileWritten(f, r, content) ==
  LET n == Place(r) + 1
      grown == [i \in 1 .. (IF n > Len(f) THEN n ELSE Len(f)) |->
                  IF i \in DOMAIN f THEN f[i] ELSE All(0)]
  IN IF n = 0 THEN f ELSE [grown EXCEPT ![n] = content]

(* The constructor.  The buffer is not initialised.                        *)
Init ==
  /\ image \in Images /\ file = [d \in Drives |-> <<>>]
  /\ reg = [drive |-> 0, cylinder |-> 0, head |-> 0, sector |-> 0]
  /\ drq = TRUE /\ error = 0
  /\ buffer \in {All(b) : b \in Data}
  /\ inx = 0 /\ outx = 0
  /\ program = None /\ done = [done |-> "nothing"] /\ commands = 0

-----------------------------------------------------------------------------
(* The registers.  A program leaves the address alone while it writes.     *)
Settled == program.cmd # "WRITE"

OutSectorNumber ==
  /\ Settled
  /\ \E s \in SectorNumbers : reg' = [reg EXCEPT !.sector = s]
  /\ UNCHANGED <<disk, error, drq, buffer, inx, outx, history>>

OutCylinderLow ==
  /\ Settled
  /\ \E v \in CylinderLow :
       reg' = [reg EXCEPT !.cylinder = (@ \div 256) * 256 + v]
  /\ UNCHANGED <<disk, error, drq, buffer, inx, outx, history>>

OutCylinderHigh ==
  /\ Settled
  /\ \E v \in CylinderHigh :
       reg' = [reg EXCEPT !.cylinder = (@ % 256) + 256 * v]
  /\ UNCHANGED <<disk, error, drq, buffer, inx, outx, history>>

OutDriveHead ==
  /\ Settled
  /\ \E d \in Drives, h \in HeadNumbers :
       reg' = [reg EXCEPT !.drive = d, !.head = h]
  /\ UNCHANGED <<disk, error, drq, buffer, inx, outx, history>>

-----------------------------------------------------------------------------
(* The commands.  A program gives one when it is through with the last     *)
(* transfer, and for a sector of the drive.                                *)
Valid == {r \in [drive : Drives, head : HeadNumbers, sector : SectorNumbers,
                 cylinder : {l + 256 * h : l \in CylinderLow, h \in CylinderHigh}] :
            r.head < Heads[r.drive] /\ r.sector \in 1 .. Sectors[r.drive]}

Given(cmd) ==
  /\ program = None
  /\ commands < MaxCommands /\ commands' = commands + 1
  /\ program' = [cmd |-> cmd, at |-> reg, bytes |-> <<>>]
  /\ drq' = TRUE
  /\ UNCHANGED done

ReadSectors ==
  /\ Given("READ") /\ reg \in Valid
  /\ buffer' = FileRead(reg)
  /\ UNCHANGED <<disk, registers, inx, outx>>

WriteSectors ==
  /\ Given("WRITE") /\ reg \in Valid
  /\ UNCHANGED <<disk, registers, buffer, inx, outx>>

IdentifyDrive ==
  /\ Given("IDENTIFY")
  /\ error' = 0
  /\ buffer' = All(128 + reg.drive)
  /\ UNCHANGED <<disk, reg, inx, outx>>

ExecuteDiagnostics ==
  /\ program = None
  /\ error' = IF 1 \in image THEN 1 ELSE 129
  /\ UNCHANGED <<disk, reg, drq, buffer, inx, outx, history>>

-----------------------------------------------------------------------------
(* A byte of the data register.  The program reads or writes while the     *)
(* controller requests data.                                               *)
Moves(cmds, b) ==
  /\ drq /\ program.cmd \in cmds
  /\ LET bytes == Append(program.bytes, b)
     IN IF Len(bytes) < Size
        THEN program' = [program EXCEPT !.bytes = bytes] /\ UNCHANGED done
        ELSE /\ program' = None
             /\ done' = CASE program.cmd = "READ" ->
                          [done |-> "read", at |-> program.at, content |-> bytes]
                        [] program.cmd = "WRITE" ->
                          [done |-> "write", at |-> program.at, content |-> bytes]
                        [] OTHER -> done
  /\ UNCHANGED commands

Advanced(x) == IF x + 1 = Size THEN 0 ELSE x + 1

InData ==
  /\ Moves({"READ", "IDENTIFY"}, buffer[inx + 1])
  /\ inx' = Advanced(inx)
  /\ drq' = (inx + 1 # Size)
  /\ UNCHANGED <<disk, registers, buffer, outx>>

OutData ==
  /\ \E b \in Data :
       /\ Moves({"WRITE"}, b)
       /\ buffer' = [buffer EXCEPT ![outx + 1] = b]
  /\ outx' = Advanced(outx)
  /\ drq' = (outx + 1 # Size)
  /\ file' = IF outx + 1 = Size /\ reg.drive \in image
             THEN [file EXCEPT ![reg.drive] = FileWritten(@, reg, buffer')]
             ELSE file
  /\ UNCHANGED <<image, registers, inx>>

Next ==
  \/ OutSectorNumber \/ OutCylinderLow \/ OutCylinderHigh \/ OutDriveHead
  \/ ReadSectors \/ WriteSectors \/ IdentifyDrive \/ ExecuteDiagnostics
  \/ InData \/ OutData

Spec == Init /\ [][Next]_vars

-----------------------------------------------------------------------------
(* What the content of a sector stands for.  A sector nobody wrote reads   *)
(* as filler, or as zeros once the file has grown past it; both are blank. *)
Meaning(content) ==
  IF content = All(Filler) THEN All(0) ELSE content
=============================================================================
