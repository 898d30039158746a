------------------------------- MODULE KCTFile -------------------------------
(***************************************************************************)
(* The tape archive of KCemu, src/src/libtape/kct.cc, as the tape deck     *)
(* src/src/kc/tape.cc uses it.  One host file holds blocks: the header     *)
(* (which entry of which directory block is in use), the map of allocated  *)
(* blocks, directory blocks, and data blocks chained by a link.            *)
(*                                                                         *)
(* Header and map have a copy in memory.  An operation changes the copies  *)
(* and writes blocks in a fixed order; every write but the last is out     *)
(* when the next one seeks, the last waits in the stream's buffer.  So an  *)
(* operation leaves its writes in `todo', Flush lets them reach the disk   *)
(* one by one, and the emulator may be killed between any two of them.     *)
(* Every operation that goes on begins with a seek: it starts when `todo'  *)
(* is empty.  Host errors on reading and writing are not modelled.         *)
(***************************************************************************)
EXTENDS Integers, Sequences, FiniteSetsExt, Functions

CONSTANTS
  Names,        \* the names of files
  Lens,         \* sizes of files, in data blocks
  Blocks,       \* how many blocks the map can hold
  DirBlocks,    \* how many directory blocks the header has room for
  Slots,        \* entries in a directory block
  NoEntry,      \* the content of a directory entry that was never used
  RenameDialog, \* whether files are added through the dialog for a new name
  Crashes       \* whether the emulator may be killed

ASSUME SizeAssumption == /\ Blocks \in Nat /\ Blocks >= 2
                         /\ DirBlocks \in Nat \ {0} /\ Slots \in Nat \ {0}
                         /\ Lens \subseteq Nat \ {0}
ASSUME NoEntryAssumption == /\ NoEntry \notin [name : Names, len : Lens, first : Nat]
                            /\ NoEntry \notin Lens

VARIABLES
  header,  \* _header: per index the directory block and its used entries
  bam,     \* _bam: the allocated blocks
  dir,     \* _dir: the names, in the order of the header's entries
  file,    \* the host file as a read finds it: header, map, other blocks
  disk,    \* what of it has reached the disk
  todo,    \* the writes that have not reached the disk yet
  result,  \* what the last operation returned
  damaged  \* a write ran out of blocks when its file was half written

vars == <<header, bam, dir, file, disk, todo, result, damaged>>

Block == 0..(Blocks - 1)
Slot  == 0..(Slots - 1)
Index == 1..DirBlocks

\* Block 0 is the header and block 1 the map; 0 also ends a chain.
Reserved == {0, 1}

NoDirBlock == [block |-> 0, used |-> {}]
Unwritten  == [kind |-> "none"]

Header == [Index -> [block : Block, used : SUBSET Slot]]
Entry  == [name : Names, len : Lens, first : Block]
Content == {Unwritten}
           \cup [kind : {"dir"}, entry : [Slot -> Entry \cup {NoEntry}]]
           \cup [kind : {"data"}, link : Block, name : Names, len : Lens]
File == [header : Header, bam : SUBSET Block, block : [Block -> Content]]

\* create() allocates header and map.
Init == /\ header = [i \in Index |-> NoDirBlock]
        /\ bam = Reserved
        /\ dir = <<>>
        /\ file = [header |-> header, bam |-> bam,
                   block |-> [b \in Block |-> Unwritten]]
        /\ disk = file
        /\ todo = <<>>
        /\ result = "OK"
        /\ damaged = FALSE

-----------------------------------------------------------------------------
(* Writes.                                                                 *)

Put(part, at, value) == [part |-> part, at |-> at, value |-> value]

Written(d, w) ==
  CASE w.part = "header" -> [d EXCEPT !.header = w.value]
    [] w.part = "bam"    -> [d EXCEPT !.bam = w.value]
    [] w.part = "block"  -> [d EXCEPT !.block[w.at] = w.value]

\* The file d after the writes seq: what was written to a place last.
LastWrite(seq, part, at, before) ==
  LET K == {k \in DOMAIN seq : seq[k].part = part /\ seq[k].at = at}
  IN  IF K = {} THEN before ELSE seq[Max(K)].value
After(d, seq) ==
  [header |-> LastWrite(seq, "header", 0, d.header),
   bam    |-> LastWrite(seq, "bam", 1, d.bam),
   block  |-> [b \in Block |-> LastWrite(seq, "block", b, d.block[b])]]

\* An operation makes these writes; they are in the file at once.
Writes(seq) == todo' = seq /\ file' = After(file, seq)

Flush == /\ todo # <<>>
         /\ disk' = Written(disk, Head(todo))
         /\ todo' = Tail(todo)
         /\ UNCHANGED <<header, bam, dir, file, result, damaged>>

\* The numbers below n that are in S, in ascending order.
Ascending(S, n) ==
  LET scan[k \in 0..n] == IF k = 0 THEN <<>>
                          ELSE IF k - 1 \in S THEN Append(scan[k - 1], k - 1)
                                              ELSE scan[k - 1]
  IN  scan[n]

\* The free blocks of a map, the lowest first (bam_block_find_free).
FreeBlocks(map) == Ascending(Block \ map, Blocks)

-----------------------------------------------------------------------------
(* The directory.                                                          *)

\* The used entries of a header, and in the order of readdir().
Used(h)   == {p \in Index \X Slot : p[2] \in h[p[1]].used}
Row(h, i) == LET slots == Ascending(h[i].used, Slots)
             IN  [k \in DOMAIN slots |-> <<i, slots[k]>>]
Places(h) == LET rows[i \in 0..DirBlocks] ==
                   IF i = 0 THEN <<>> ELSE rows[i - 1] \o Row(h, i)
             IN  rows[DirBlocks]

\* A block that was allocated but not written shows no entry.
EntryAt(d, h, place) ==
  LET content == d.block[h[place[1]].block]
  IN  IF content.kind = "dir" THEN content.entry[place[2]] ELSE NoEntry

\* readdir() with a header h on a file d.
Listing(d, h) == [k \in DOMAIN Places(h) |-> EntryAt(d, h, Places(h)[k]).name]

\* The blocks of a chain that starts at b.  A block that was never written
\* and lies beyond the end of the file cannot be read; the buffer still
\* holds the block before it, which links to that block.
EndOfFile(d) == 1 + Max({1} \cup {b \in Block : d.block[b] # Unwritten})
Links(d) == [b \in Block |-> IF b = 0 THEN 0
                             ELSE IF d.block[b].kind = "data" THEN d.block[b].link
                             ELSE IF b >= EndOfFile(d) THEN b ELSE 0]
Walk(d, b) == LET step[k \in 0..Blocks] ==
                    IF k = 0 THEN b
                    ELSE LET at == step[k - 1] IN Links(d)[at]
              IN  step
Chain(d, b) == Range(Walk(d, b)) \ {0}

\* What read() returns of an entry: all its blocks hold its data.
Readable(d, e) ==
  LET step == Walk(d, e.first)
  IN  /\ e.len <= Blocks
      /\ step[e.len] = 0
      /\ \A k \in 0..(e.len - 1) : /\ step[k] # 0
                                   /\ d.block[step[k]].kind = "data"
                                   /\ d.block[step[k]].len = e.len

\* The blocks that belong to the archive's directory and files.
EntriesOf(d, h) == {EntryAt(d, h, p) : p \in Used(h)}
DirBlocksOf(h)  == {h[i].block : i \in Index} \ {0}
DataOf(d, h, p) == Chain(d, EntryAt(d, h, p).first)
BlocksOf(d, h)  == DirBlocksOf(h)
                   \cup UNION {Chain(d, e.first) : e \in EntriesOf(d, h) \ {NoEntry}}

\* The directory: each of its blocks is allocated and has one index, and one
\* that is in use can be read.
DirSound(d, h, map) ==
  /\ Reserved \subseteq map
  /\ DirBlocksOf(h) \subseteq map \ Reserved
  /\ \A i \in Index : h[i].used # {} =>
       h[i].block # 0 /\ d.block[h[i].block].kind = "dir"
  /\ \A i, j \in Index : h[i].block = h[j].block => i = j \/ h[i].block = 0

\* The files: every entry is that of a file that can be read, all its blocks
\* are allocated, and it shares none with the directory or another file.
FilesSound(d, h, map) ==
  /\ \A p \in Used(h) : /\ EntryAt(d, h, p) # NoEntry
                        /\ Readable(d, EntryAt(d, h, p))
                        /\ DataOf(d, h, p) \subseteq map \ (Reserved \cup DirBlocksOf(h))
  /\ \A p, q \in Used(h) : p # q => DataOf(d, h, p) \cap DataOf(d, h, q) = {}

Sound(d, h, map) == DirSound(d, h, map) /\ FilesSound(d, h, map)

-----------------------------------------------------------------------------
(* write().                                                                *)

Ready == todo = <<>> /\ ~damaged

\* The index whose directory block takes the next entry.
Open == {i \in Index : header[i].used # Slot}

DirBlockWith(content, slot, e) ==
  [kind  |-> "dir",
   entry |-> [s \in Slot |-> IF s = slot THEN e
                             ELSE IF content.kind = "dir" THEN content.entry[s]
                                                          ELSE NoEntry]]

\* The data blocks of a file on the blocks of chain: all of them when the
\* chain is long enough, else one less, for the block with no successor is
\* allocated but not written.
DataWrites(chain, n, len) ==
  [k \in 1..(IF Len(chain) = len THEN len ELSE Len(chain) - 1) |->
     Put("block", chain[k],
         [kind |-> "data", name |-> n, len |-> len,
          link |-> IF k = len THEN 0 ELSE chain[k + 1]])]

Refused(code, map) ==
  /\ result' = code
  /\ bam' = map
  /\ UNCHANGED <<header, file, disk, todo, damaged>>

\* Mutant of Store: the directory block is not marked in the map.
StoreUnallocated(n, len, i, at, slot, free, before) ==
  LET chain   == SubSeq(free, 1, Min({len, Len(free)}))
      entry   == [name |-> n, len |-> len, first |-> chain[1]]
      content == IF header[i].block = 0 THEN Unwritten ELSE file.block[at]
      full    == Len(chain) < len
  IN  /\ header' = [header EXCEPT ![i] = [block |-> at, used |-> @.used \cup {slot}]]
      /\ bam' = bam \cup Range(chain)
      /\ Writes(before
                 \o <<Put("header", 0, header'),
                      Put("block", at, DirBlockWith(content, slot, entry))>>
                 \o DataWrites(chain, n, len)
                 \o IF full THEN <<>> ELSE <<Put("bam", 1, bam')>>)
      /\ result' = IF full THEN "IO" ELSE "OK"
      /\ damaged' = full
      /\ UNCHANGED disk

\* Mutant of Store: the directory block is cleared before it is filled.
StoreClearsFirst(n, len, i, at, slot, free, before) ==
  LET chain   == SubSeq(free, 1, Min({len, Len(free)}))
      entry   == [name |-> n, len |-> len, first |-> chain[1]]
      content == IF header[i].block = 0 THEN Unwritten ELSE file.block[at]
      full    == Len(chain) < len
  IN  /\ header' = [header EXCEPT ![i] = [block |-> at, used |-> @.used \cup {slot}]]
      /\ bam' = bam \cup {at} \cup Range(chain)
      /\ Writes(before
                 \o <<Put("header", 0, header'),
                      Put("block", at, DirBlockWith(Unwritten, slot, entry)),
                      Put("block", at, DirBlockWith(content, slot, entry))>>
                 \o DataWrites(chain, n, len)
                 \o IF full THEN <<>> ELSE <<Put("bam", 1, bam')>>)
      /\ result' = IF full THEN "IO" ELSE "OK"
      /\ damaged' = full
      /\ UNCHANGED disk

\* The entry is placed in slot of index i, whose block is at; free are the
\* blocks for the data; before are the writes that went ahead.
Store(n, len, i, at, slot, free, before) ==
  LET chain   == SubSeq(free, 1, Min({len, Len(free)}))
      entry   == [name |-> n, len |-> len, first |-> chain[1]]
      content == IF header[i].block = 0 THEN Unwritten ELSE file.block[at]
      full    == Len(chain) < len
  IN  /\ header' = [header EXCEPT ![i] = [block |-> at, used |-> @.used \cup {slot}]]
      /\ bam' = bam \cup {at} \cup Range(chain)
      /\ Writes(before
                 \o <<Put("header", 0, header'),
                      Put("block", at, DirBlockWith(content, slot, entry))>>
                 \o DataWrites(chain, n, len)
                 \o IF full THEN <<>> ELSE <<Put("bam", 1, bam')>>)
      /\ result' = IF full THEN "IO" ELSE "OK"
      /\ damaged' = full
      /\ UNCHANGED disk

\* dirent_allocate() and the data, in a directory block that exists.
WriteInOldBlock(n, len, i, free) ==
  Store(n, len, i, header[i].block, Min(Slot \ header[i].used), free, <<>>)

\* The first free block becomes the directory block.
WriteInNewBlock(n, len, i, free) ==
  Store(n, len, i, free[1], 0, Tail(free),
        <<Put("bam", 1, bam \cup {free[1], free[2]})>>)

WriteNew(n, len) ==
  LET free == FreeBlocks(bam)
      i    == Min(Open)
      full == free = <<>>
  IN  IF full THEN Refused("IO", bam)
      ELSE IF Open = {} \/ (header[i].block = 0 /\ Len(free) = 1)
           THEN Refused("NOMEM", bam \cup {free[1]})
      ELSE IF header[i].block = 0 THEN WriteInNewBlock(n, len, i, free)
                                  ELSE WriteInOldBlock(n, len, i, free)

\* Mutant of Exists: nobody looks for the name.
ExistsNever(n) == FALSE

Exists(n) == n \in Range(Listing(file, header))

Write(n, len) ==
  IF Exists(n) THEN Refused("EXIST", bam) ELSE WriteNew(n, len)

\* Tape::add(), Tape::add_raw(), Tape::stop() after a recording: write(),
\* then update_tape_list().  The dialog for another name leads to
\* Tape::add_file(): write() reads the directory before the change and
\* nothing reads it afterwards.
Add(n, len, dialog) ==
  /\ Ready
  /\ Write(n, len)
  /\ dir' = IF dialog THEN Listing(file, header) ELSE Listing(file', header')

-----------------------------------------------------------------------------
(* remove(), rename().                                                     *)

\* find_entry() finds a name in _dir, translate_index() the place in the
\* header that has the same number.
NumberOf(n) == Min({k \in DOMAIN dir : dir[k] = n})
PlaceOf(n) == Places(header)[NumberOf(n)]

Listed(n) == n \in Range(dir)

\* The header without an entry; a directory block without any is given up.
HeaderWithout(place) ==
  LET left == header[place[1]].used \ {place[2]}
  IN  [header EXCEPT ![place[1]] =
         IF left = {} THEN NoDirBlock ELSE [@ EXCEPT !.used = left]]

Remove(n) ==
  /\ Ready
  /\ Listed(n)
  /\ LET place == PlaceOf(n)
         e     == EntryAt(file, header, place)
         given == IF HeaderWithout(place)[place[1]] = NoDirBlock
                  THEN {header[place[1]].block} ELSE {}
     IN  /\ header' = HeaderWithout(place)
         /\ bam' = bam \ (given \cup Chain(file, e.first))
         /\ Writes(<<Put("header", 0, header'), Put("bam", 1, bam')>>)
         /\ dir' = Listing(file, header')
  /\ result' = "OK"
  /\ UNCHANGED <<disk, damaged>>

Rename(from, to) ==
  /\ Ready
  /\ ~Listed(to) /\ Listed(from)
  /\ LET place   == PlaceOf(from)
         at      == header[place[1]].block
         entry   == [EntryAt(file, header, place) EXCEPT !.name = to]
     IN  Writes(<<Put("block", at, DirBlockWith(file.block[at], place[2], entry))>>)
  /\ dir' = Listing(file', header)
  /\ result' = "OK"
  /\ UNCHANGED <<header, bam, disk, damaged>>

\* Tape::detach() and Tape::attach(): the copies are read from the file.
Reopen == /\ todo = <<>>
          /\ header' = file.header
          /\ bam' = file.bam
          /\ dir' = Listing(file, file.header)
          /\ result' = "OK"
          /\ UNCHANGED <<file, disk, todo, damaged>>

\* The emulator is killed and the archive attached again.  What becomes of
\* an archive whose file does not fit together, or which lists a name twice,
\* is not followed up.
Restart == /\ Crashes
           /\ Sound(disk, disk.header, disk.bam)
           /\ IsInjective(Listing(disk, disk.header))
           /\ header' = disk.header
           /\ bam' = disk.bam
           /\ dir' = Listing(disk, disk.header)
           /\ file' = disk
           /\ todo' = <<>>
           /\ result' = "OK"
           /\ damaged' = FALSE
           /\ UNCHANGED disk

\* How files are added.
Dialogs == IF RenameDialog THEN BOOLEAN ELSE {FALSE}

Next == \/ Flush
        \/ \E n \in Names, len \in Lens, dialog \in Dialogs : Add(n, len, dialog)
        \/ \E n \in Names : Remove(n)
        \/ \E from, to \in Names : Rename(from, to)
        \/ Reopen
        \/ Restart

Spec == Init /\ [][Next]_vars
-----------------------------------------------------------------------------

BlockWrite ==
  [part : {"header"}, at : {0}, value : Header]
    \cup [part : {"bam"}, at : {1}, value : SUBSET Block]
    \cup [part : {"block"}, at : Block, value : Content]

TypeOK == /\ header \in Header
          /\ bam \in SUBSET Block
          /\ dir \in Seq(Names)
          /\ file \in File /\ disk \in File
          /\ todo \in Seq(BlockWrite)
          /\ result \in {"OK", "EXIST", "IO", "NOMEM"}
          /\ damaged \in BOOLEAN

\* Unless a write stopped halfway, the archive fits together once everything
\* is written: each entry leads to its data, no block belongs to two files,
\* and none of them is free (kct.cc, write and remove).
ArchiveSound == TypeOK /\ (~damaged => Sound(file, header, bam))

\* Space is lost only when a file finds no room in the directory
\* (dirent_allocate returns after write has taken the first block), or when
\* the emulator is killed.
LostSpaceOnlyOnNoMem ==
  [][LET lost == bam \ BlocksOf(file, header)
         lostThen == bam' \ BlocksOf(file', header')
     IN  \/ UNCHANGED <<header, bam, file>>
         \/ damaged' \/ result' = "NOMEM" \/ Restart
         \/ lostThen \subseteq lost]_vars

\* A file that an operation leaves alone can be read from the disk after
\* every single write of it, so a killed emulator spares it.
OnDisk(d) == {e \in EntriesOf(d, d.header) : e # NoEntry /\ Readable(d, e)}
OthersSurvive ==
  [][\A e \in OnDisk(disk) \cap OnDisk(file) :
       Chain(disk, e.first) = Chain(file, e.first) => e \in OnDisk(disk')]_vars

\* A file that is on the disk with its blocks allocated does not lose them
\* while it is listed: remove() takes the entry from the header before it
\* frees the blocks.
StaysAllocated ==
  [][\A e \in OnDisk(disk) \cap OnDisk(disk') :
       Chain(disk, e.first) \subseteq disk.bam
         => Chain(disk', e.first) \subseteq disk'.bam]_vars

\* Nothing is lost: no file that an operation or a kill does not concern, no
\* block of a file, and no space but in the two cases.
NothingLost == OthersSurvive /\ StaysAllocated /\ LostSpaceOnlyOnNoMem

\* The files as the deck sees them.
files ==
  LET whole == {e \in EntriesOf(file, header) : Readable(file, e)}
  IN  [n \in Names |-> IF \E e \in whole : e.name = n
                         THEN (CHOOSE e \in whole : e.name = n).len ELSE NoEntry]

\* The blocks implement the files under their names until the emulator is
\* killed; then a file that was removed may be listed again, as the header is
\* written before the directory block that still has its entry.
A == INSTANCE Archive WITH Absent <- NoEntry
IsArchive == A!Init /\ [][UNCHANGED <<header, file>> \/ A!Next \/ Restart]_files

\* remove(name): "Remove file from tapefile" (man/man1/kctape.1:39), that
\* file and no other.
RemoveTakesNamed ==
  [][\A n, m \in Names : Remove(n) /\ m # n => files'[m] = files[m]]_vars
=============================================================================
