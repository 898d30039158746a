------------------------------ MODULE MCKCTFile ------------------------------
(* Instances of KCTFile for TLC. *)
EXTENDS KCTFile, TLC

\* Names are only compared.
NamesAlike == Permutations(Names)
=============================================================================
