----------------------------- MODULE MCStorage -----------------------------
(***************************************************************************)
(* Model checking what keeps data for a program: the tape archive and the  *)
(* hard disk GIDE.  They share no state: a behaviour works one of them,    *)
(* and the other stays as it is at first.                                  *)
(***************************************************************************)
EXTENDS KCTFile, TLC

\* The hard disk (module GIDE); the configuration gives a sector two bytes.
CONSTANTS Size, Heads, Sectors, CylinderLow, CylinderHigh, HeadNumbers, SectorNumbers, Data,
          Images, MaxCommands

VARIABLES part, image, sectors, reg, drq, error, buffer, inx, outx, program, done, commands
gide    == <<image, sectors, reg, drq, error, buffer, inx, outx, program, done, commands>>
storage == <<part, vars, gide>>

\* Names are only compared.
NamesAlike == Permutations(Names)

(* A drive with two heads of one sector, and one with one head of two.     *)
TwoThenOne == [d \in {0, 1} |-> 2 - d]
OneThenTwo == [d \in {0, 1} |-> 1 + d]

Gide == INSTANCE GIDE WITH file <- sectors

ASSUME DiskAssumption == Gide!GIDEAssumption

\* The buffer of the disk that is not worked is any of those it may have.
StorageInit ==
  /\ part \in {"archive", "gide"} /\ Init /\ Gide!Init
  /\ part = "archive" => buffer = Gide!All(CHOOSE b \in Data : TRUE)
StorageNext ==
  \/ part = "archive" /\ Next /\ UNCHANGED <<part, gide>>
  \/ part = "gide" /\ Gide!Next /\ UNCHANGED <<part, vars>>
StorageSpec == StorageInit /\ [][StorageNext]_storage

(* The two drives are a HardDisk: what a program reads from a sector is    *)
(* what it wrote there last, whatever it did to other sectors and to the   *)
(* registers in between.                                                   *)
Disk == INSTANCE HardDisk WITH
  Addresses <- Gide!Valid,
  Contents <- [1 .. Size -> Data],
  Blank <- Gide!All(0),
  stored <- {r \in Gide!Valid : r.drive \in image},
  store <- [r \in Gide!Valid |-> Gide!Meaning(Gide!FileRead(r))],
  last <- IF done.done = "read"
          THEN [done EXCEPT !.content = Gide!Meaning(@)] ELSE done

ImplementsDisk == Disk!Spec
=============================================================================
