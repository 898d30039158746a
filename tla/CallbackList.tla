---------------------------- MODULE CallbackList ----------------------------
(***************************************************************************)
(* The callback list of KCemu (src/src/kc/cb_list.cc): a singly linked     *)
(* list of entries sorted by time, whose entries come from a free list     *)
(* that grows by a block when it is empty, driven by the emulation loop of *)
(* src/src/kc/z80.cc.  An entry goes back to the free list before its      *)
(* callback is called, so the callback may get the same entry for its next *)
(* event.                                                                  *)
(*                                                                         *)
(* The module implements EventQueue.  Entries are numbers, and 0 is NULL.  *)
(* As there, times are relative to the processor's counter, so that they   *)
(* fall when it advances.                                                  *)
(***************************************************************************)
EXTENDS Integers, Sequences, FiniteSets, SequencesExt

CONSTANTS Callbacks, Null, Offsets, Ticks, Capacity, \* as in EventQueue
          AllocSize,                                 \* CALLBACK_LIST_ALLOC_SIZE
          MaxEntries                                 \* entries the heap can give

ASSUME NullAssumption == Null \notin Callbacks
ASSUME PhaseAssumption == {"cpu", "run"} \cap (Callbacks \cup {Null}) = {}
ASSUME TimeAssumption == /\ Offsets \subseteq Nat
                         /\ Ticks \subseteq Nat \ {0}
                         /\ Capacity \in Nat
ASSUME AllocAssumption == AllocSize \in Nat \ {0} /\ MaxEntries \in Nat

VARIABLES
  list,    \* CallbackList::_list
  free,    \* CallbackListEntry::_free_list
  heap,    \* the entries 1 .. heap have been allocated
  next,    \* _next of every entry
  value,   \* _value of every entry, relative to the counter
  cb,      \* _cb of every entry
  phase,   \* as in EventQueue
  arrived  \* the entries on the list in order of arrival (history)

memory == <<free, heap, next>>
vars   == <<list, memory, value, cb, phase, arrived>>

Entry == 1 .. MaxEntries

\* The entry behind the last one of s, or h, if there is one.
Extended(links, h, s) ==
  LET e == IF s = <<>> THEN h ELSE links[Last(s)]
  IN  IF e = 0 THEN s ELSE Append(s, e)

\* The entries from h on, in the order of the links.
Path(links, h) ==
  LET walk[k \in 0 .. MaxEntries] ==
        IF k = 0 THEN <<>> ELSE Extended(links, h, walk[k - 1])
  IN  walk[MaxEntries]
From(h) == Path(next, h)

\* The sequence s without the entry e.
Without(s, e) ==
  LET k == CHOOSE i \in DOMAIN s : s[i] = e
  IN  SubSeq(s, 1, k - 1) \o SubSeq(s, k + 1, Len(s))

Init == /\ list = 0 /\ free = 0 /\ heap = 0
        /\ next = [e \in Entry |-> 0]
        /\ value = [e \in Entry |-> 0]
        /\ cb = [e \in Entry |-> Null]
        /\ phase = "cpu"
        /\ arrived = <<>>

-----------------------------------------------------------------------------
(***************************************************************************)
(* The memory of the entries.                                              *)
(***************************************************************************)

\* CallbackListEntry::operator new takes the head of the free list; or, when
\* that is empty, one more entry from the heap after a block of AllocSize for
\* the free list (alloc_entries).
Fresh == IF free # 0 THEN free ELSE heap + AllocSize + 1

\* The links once the block is chained.
LinksWithFresh ==
  [e \in Entry |-> IF free = 0 /\ e \in (heap + 2) .. (heap + AllocSize)
                     THEN e - 1 ELSE next[e]]

New == /\ Fresh \in Entry
       /\ IF free # 0
            THEN free' = next[free] /\ UNCHANGED heap
            ELSE free' = heap + AllocSize /\ heap' = heap + AllocSize + 1

\* CallbackListEntry::operator delete for the entries s, one after the other:
\* each becomes the head of the free list.
Deleted(s, e) == \E k \in DOMAIN s : s[k] = e
LinksWithout(s) ==
  [e \in Entry |-> IF Deleted(s, e)
                     THEN LET k == CHOOSE k \in DOMAIN s : s[k] = e
                          IN  IF k = 1 THEN free ELSE s[k - 1]
                     ELSE next[e]]

\* Mutant of Delete: the entries are not chained to the free list.
DeleteUnchained(s) ==
  /\ UNCHANGED <<next, heap>>
  /\ free' = IF s = <<>> THEN free ELSE Last(s)
  /\ value' = [e \in Entry |-> IF Deleted(s, e) THEN 0 ELSE value[e]]
  /\ cb' = [e \in Entry |-> IF Deleted(s, e) THEN Null ELSE cb[e]]

\* What a deleted entry held is never read again and forgotten here.
Delete(s) ==
  /\ next' = LinksWithout(s)
  /\ free' = IF s = <<>> THEN free ELSE Last(s)
  /\ value' = [e \in Entry |-> IF Deleted(s, e) THEN 0 ELSE value[e]]
  /\ cb' = [e \in Entry |-> IF Deleted(s, e) THEN Null ELSE cb[e]]
  /\ UNCHANGED heap

-----------------------------------------------------------------------------
(***************************************************************************)
(* The operations of the list.                                             *)
(***************************************************************************)

Active == phase = "cpu" \/ phase \in Callbacks

\* The entry that a new one with time v is put behind: the first one followed
\* by a later one, else the last.
Behind(p, v) ==
  LET s == From(list)
  IN  \E k \in 1 .. Len(s) :
        /\ p = s[k]
        /\ k < Len(s) => value[s[k + 1]] > v
        /\ \A j \in 1 .. (k - 1) : value[s[j + 1]] <= v

\* CallbackList::add_callback.
Add(v, c) ==
  /\ Active
  /\ Len(arrived) < Capacity
  /\ New
  /\ value' = [value EXCEPT ![Fresh] = v]
  /\ cb' = [cb EXCEPT ![Fresh] = c]
  /\ arrived' = Append(arrived, Fresh)
  /\ IF list = 0 \/ value[list] > v
       THEN /\ list' = Fresh
            /\ next' = [LinksWithFresh EXCEPT ![Fresh] = list]
       ELSE \E p \in Entry :
              /\ Behind(p, v)
              /\ next' = [LinksWithFresh EXCEPT ![Fresh] = next[p], ![p] = Fresh]
              /\ UNCHANGED list
  /\ UNCHANGED phase

\* Mutant of Fire: _next is read from the deleted entry.
FireReadsDeleted ==
  /\ phase = "run"
  /\ list # 0
  /\ value[list] <= 0
  /\ list' = free
  /\ Delete(<<list>>)
  /\ phase' = IF cb[list] = Null THEN "run" ELSE cb[list]
  /\ arrived' = IF Contains(arrived, list) THEN Without(arrived, list) ELSE arrived

\* One turn of the loop of CallbackList::run_callbacks: the entry is deleted,
\* and then its callback, if it still has one, is called.
Fire ==
  /\ phase = "run"
  /\ list # 0
  /\ value[list] <= 0
  /\ list' = next[list]
  /\ Delete(<<list>>)
  /\ phase' = IF cb[list] = Null THEN "run" ELSE cb[list]
  /\ arrived' = Without(arrived, list)

\* The loop ends.
Done == /\ phase = "run"
        /\ list # 0 => value[list] > 0
        /\ phase' = "cpu"
        /\ UNCHANGED <<list, memory, value, cb, arrived>>

Return == /\ phase \in Callbacks
          /\ phase' = "run"
          /\ UNCHANGED <<list, memory, value, cb, arrived>>

\* Z80::run: an instruction takes t T-states, and the callbacks are run.
Instruction(t) ==
  /\ phase = "cpu"
  /\ value' = [e \in Entry |-> IF Contains(From(list), e) THEN value[e] - t
                                                          ELSE value[e]]
  /\ phase' = "run"
  /\ UNCHANGED <<list, memory, cb, arrived>>

\* Mutant of RemoveListener: only the first of its events.
RemoveListenerOnce(c) ==
  /\ Active
  /\ \E e \in Entry :
       /\ Contains(From(list), e) /\ cb[e] = c
       /\ cb' = [cb EXCEPT ![e] = Null]
  /\ UNCHANGED <<list, memory, value, phase, arrived>>

\* CallbackList::remove_callback_listener.
RemoveListener(c) ==
  /\ Active
  /\ cb' = [e \in Entry |-> IF Contains(From(list), e) /\ cb[e] = c
                              THEN Null ELSE cb[e]]
  /\ UNCHANGED <<list, memory, value, phase, arrived>>

\* CallbackList::clear, called by Z80::reset from inside a callback.
Clear ==
  /\ phase \in Callbacks
  /\ list' = 0
  /\ Delete(From(list))
  /\ arrived' = <<>>
  /\ UNCHANGED phase

Loop == (\E t \in Ticks : Instruction(t)) \/ Fire \/ Return \/ Done

Devices == \/ \E c \in Callbacks, o \in Offsets : Add(o, c)
           \/ \E c \in Callbacks : RemoveListener(c)
           \/ Clear

Next == Loop \/ Devices

Spec == Init /\ [][Next]_vars /\ WF_vars(Loop)

-----------------------------------------------------------------------------

TypeOK == /\ {list, free, heap} \subseteq 0 .. MaxEntries
          /\ next \in [Entry -> 0 .. MaxEntries]
          /\ value \in [Entry -> Int]
          /\ cb \in [Entry -> Callbacks \cup {Null}]
          /\ phase \in {"cpu", "run"} \cup Callbacks
          /\ arrived \in Seq(Entry)

\* Every allocated entry is on the list or on the free list, on one of them
\* only and only once: none leaks, and none is used after its delete.
EntriesPartitioned ==
  LET s == From(list) \o From(free)
  IN  Len(s) = heap /\ ToSet(s) = 1 .. heap

\* The list is what arrived, sorted by time; equal times keep their order.
SortedByTime ==
  LET s == From(list)
  IN  /\ ToSet(s) = ToSet(arrived) /\ Len(s) = Len(arrived)
      /\ \A i, j \in DOMAIN s : i < j =>
           \/ value[s[i]] < value[s[j]]
           \/ /\ value[s[i]] = value[s[j]]
              /\ \E k, l \in DOMAIN arrived :
                   k < l /\ arrived[k] = s[i] /\ arrived[l] = s[j]

\* What the list has to be at any moment, also in the middle of a callback.
ListSound == TypeOK /\ EntriesPartitioned /\ SortedByTime

\* The events of the abstract queue: the entries in order of arrival.
Queue == INSTANCE EventQueue
           WITH events <- [i \in DOMAIN arrived |->
                             [due |-> value[arrived[i]], cb |-> cb[arrived[i]]]]

\* The list implements the event queue, its liveness included.
ImplementsQueue == Queue!Spec

\* A device that asks to be called at the very instant is called by the same
\* run_callbacks(), so one that always does so keeps the processor for good.
\* When they stop doing that, whoever waits is called.
AddAtOnce == \E c \in Callbacks : Add(0, c)
EventuallyCalled == <>[][~AddAtOnce]_vars => Queue!EventuallyCalled
=============================================================================
