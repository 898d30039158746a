------------------------------ MODULE HardDisk ------------------------------
(***************************************************************************)
(* What the GIDE module promises to a program that uses its two drives: a  *)
(* sector reads as it was written last.  A sector nobody wrote is Blank.   *)
(***************************************************************************)
CONSTANTS
  Addresses,  \* the drives' sectors
  Contents,   \* the contents a program writes
  Blank       \* the content of a sector that was not written

VARIABLES
  stored,     \* the sectors of drives with an image file: others keep nothing
  store,      \* the content of every sector
  last        \* the last transfer: what was done, where, and the content

vars == <<last, stored, store>>

Init == /\ stored \subseteq Addresses
        /\ store = [a \in Addresses |-> Blank]
        /\ last = [done |-> "nothing"]

(* A program writes a sector.                                              *)
Write(a, v) ==
  /\ last' = [done |-> "write", at |-> a, content |-> v]
  /\ store' = IF a \in stored THEN [store EXCEPT ![a] = v] ELSE store
  /\ UNCHANGED stored

(* A program reads a sector.                                               *)
Read(a) ==
  /\ last' = [done |-> "read", at |-> a, content |-> store[a]]
  /\ UNCHANGED <<stored, store>>

Next == \E a \in Addresses : Read(a) \/ \E v \in Contents : Write(a, v)

Spec == Init /\ [][Next]_vars
=============================================================================
