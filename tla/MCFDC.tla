------------------------------- MODULE MCFDC -------------------------------
(***************************************************************************)
(* An instance of FDC for TLC: two cylinders of two sectors of two bytes,  *)
(* each with a content of its own at first.  The guest of a machine with   *)
(* FDC9 reads and writes, with FDC7 it formats, with FDC0S it seeks, reads *)
(* and compares on both cylinders, all three on one drive whose disk comes *)
(* and goes; that of a D004 moves the heads of two drives.                 *)
(***************************************************************************)
EXTENDS FDC

EveryPattern == [a \in {0, 1} \X (1 .. 2) |-> [i \in 0 .. 1 |-> IF i = 0 THEN a[1] ELSE a[2] - 1]]

Use(commands, units, cylinders, events) ==
  [commands |-> commands, units |-> units, cylinders |-> cylinders, events |-> events]
AllGuests ==
  [FDC9  |-> Use({"READ", "WRITE", "RECALIBRATE"}, {1}, {0}, 0),
   FDC7  |-> Use({"FORMAT"}, {1}, {0}, 0),
   FDC0S |-> Use({"SCAN", "READ", "SEEK"}, {1}, {0, 1}, 0),
   D004  |-> Use({"SEEK", "RECALIBRATE", "SENSE_INT", "READ_ID", "INVALID"}, {0, 1}, {0}, 1)]
=============================================================================
