------------------------------- MODULE Archive -------------------------------
(***************************************************************************)
(* What a tape archive (src/src/libtape/kct.cc) is to the tape deck        *)
(* (src/src/kc/tape.cc): files under distinct names, of which none changes *)
(* when another is added, renamed or removed.  KCTFile implements it in    *)
(* the blocks of one host file.                                            *)
(***************************************************************************)
CONSTANTS Names,  \* the names files have in the archive
          Lens,   \* the sizes of the files, in data blocks
          Absent  \* the content of a name that is not in the archive

VARIABLE files

Init == files = [n \in Names |-> Absent]

\* KCTFile::write() refuses a name that is in the archive.
Add(n, len) == files[n] = Absent /\ files' = [files EXCEPT ![n] = len]

Remove(n) == files[n] # Absent /\ files' = [files EXCEPT ![n] = Absent]

\* KCTFile::rename() refuses a name that is in the archive.
Rename(from, to) ==
  /\ files[from] # Absent
  /\ files[to] = Absent
  /\ files' = [files EXCEPT ![to] = files[from], ![from] = Absent]

Next == \/ \E n \in Names, len \in Lens : Add(n, len)
        \/ \E n \in Names : Remove(n)
        \/ \E from, to \in Names : Rename(from, to)

Spec == Init /\ [][Next]_files
=============================================================================
