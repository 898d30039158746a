------------------------------ MODULE Memory4 ------------------------------
(***************************************************************************)
(* The address space of the KC 85/5 (KCemu, src/src/kc/memory.cc,          *)
(* memory4.cc, ports4.cc, pio4.cc) and the memory modules in its slots     *)
(* (module.cc, mod_ram.cc, mod_segm.cc).                                   *)
(*                                                                         *)
(* What lies at an address is decided by groups of memory areas.  Every    *)
(* page has a list of them, sorted by priority, and the first active one   *)
(* is the one the processor sees.  The processor does not look at the      *)
(* lists: it goes through a pointer per page, which reload_mem_ptr()       *)
(* computes, and whoever changes a group has to call that.                 *)
(*                                                                         *)
(* The guest sets switches with four output ports.  Each remembers what    *)
(* was written to it, and passes on the bits that changed, one after the   *)
(* other.  Six pages stand for the 64 of the code: one for each range of   *)
(* addresses that is switched on its own.                                  *)
(***************************************************************************)
EXTENDS Integers, Sequences, FiniteSets

Seqs == INSTANCE SequencesExt

CONSTANTS
  Blocks,   \* the blocks of RAM 8 the machine has: 0 .. 15
  Roms,     \* the ROMs it has at c000: 0 .. 3
  Slots,    \* the kind of module for every slot: "ram" or "segmented"
  Address,  \* the number of every slot: addr >> 8 of its control port
  Output,   \* what the guest writes to each port
  Bytes     \* what it writes to the control port of a module

VARIABLES
  list,    \* MemAreaPtr::_l of every page, the groups of its areas
  active,  \* the groups that are active
  ro,      \* the groups that are read-only
  read,    \* _memrptr of every page, as the group it points to
  write,   \* _memwptr
  switch,  \* the fields of Memory4
  latch,   \* what the ports keep: Ports4::inout and PIO::_value
  val,     \* ModuleInterface::_val of the module in every slot
  group,   \* its _group
  set      \* the value every switch was last set to (history)

memory == <<list, active, ro, read, write>>
vars   == <<memory, switch, latch, val, group, set>>

-----------------------------------------------------------------------------
(***************************************************************************)
(* Ports.  The byte written to a port is a record of its fields, which are *)
(* looked at in this order.                                                *)
(***************************************************************************)

Fields == [A   |-> <<"caos_e", "ram_0", "irm", "write_0", "basic">>,
           B   |-> <<"ram_8", "write_8">>,
           P84 |-> <<"color", "screen", "segment">>,
           P86 |-> <<"ram_4", "write_4", "rom", "caos_c">>]
Ports  == DOMAIN Fields
Field  == UNION {Seqs!ToSet(Fields[p]) : p \in Ports}

ASSUME Memory4Assumption ==
  /\ Blocks \subseteq 0 .. 15 /\ 0 \in Blocks
  /\ Roms \subseteq 0 .. 3
  /\ DOMAIN Address = DOMAIN Slots /\ DOMAIN Bytes = DOMAIN Slots
  /\ \A s \in DOMAIN Slots : Slots[s] \in {"ram", "segmented"} /\ Address[s] \in 8 .. 255
  /\ DOMAIN Slots \cap {"-", "RAM_0", "RAM_4", "RAM_8", "IRM", "IRM_X", "CAOS_C", "CAOS_E",
                        "USER"} = {}
  /\ \A s \in DOMAIN Slots :
       Bytes[s] \subseteq [on : BOOLEAN, we : BOOLEAN, base : {"0000", "4000", "8000", "c000"},
                           segment : 0 .. 15]
  /\ DOMAIN Output = Ports
  /\ Output["A"] \subseteq [caos_e : BOOLEAN, ram_0 : BOOLEAN, irm : BOOLEAN,
                            write_0 : BOOLEAN, basic : BOOLEAN]
  /\ Output["B"] \subseteq [ram_8 : BOOLEAN, write_8 : BOOLEAN]
  /\ Output["P84"] \subseteq [color : BOOLEAN, screen : BOOLEAN, segment : 0 .. 15]
  /\ Output["P86"] \subseteq [ram_4 : BOOLEAN, write_4 : BOOLEAN, rom : 0 .. 3,
                              caos_c : BOOLEAN]

\* A port that was never written to, a slot or _group that is empty.
Empty == <<>>

-----------------------------------------------------------------------------
(***************************************************************************)
(* Groups.  A group is a name and a number.                                *)
(***************************************************************************)

Page == {"0000", "4000", "8000", "a800", "c000", "e000"}

\* The group of the address space without memory.
Nothing == <<"-", 0>>

Ram8(b)     == <<"RAM_8", b>>
User(r)     == <<"USER", r>>
Irm(i)      == <<"IRM", i>>    \* i = 2 * screen + color
IrmUpper(i) == <<"IRM_X", i>>

\* What init_memory_groups() adds, in this order, of the groups the machine has.
Initially ==
  [k \in 1 .. 33 |->
     CASE k = 1 -> Nothing
       [] k = 2 -> <<"RAM_0", 0>>
       [] k = 3 -> <<"RAM_4", 0>>
       [] k \in 4 .. 19 -> Ram8(k - 4)
       [] k \in 20 .. 23 -> Irm(k - 20)
       [] k \in 24 .. 27 -> IrmUpper(k - 24)
       [] k = 28 -> <<"CAOS_C", 0>>
       [] k = 29 -> <<"CAOS_E", 0>>
       [] k \in 30 .. 33 -> User(33 - k)]

Onboard ==
  {Nothing, <<"RAM_0", 0>>, <<"RAM_4", 0>>, <<"CAOS_C", 0>>, <<"CAOS_E", 0>>}
    \cup {Ram8(b) : b \in Blocks} \cup {User(r) : r \in Roms}
    \cup {Irm(i) : i \in 0 .. 3} \cup {IrmUpper(i) : i \in 0 .. 3}

\* The group a module registers: that of its slot, with the segment it shows.
Modules == {<<s, n>> : s \in DOMAIN Slots, n \in 0 .. 15}
Group   == Onboard \cup Modules

\* The priority of a group; a segmented module has that of the slot 10.
Prio(g) ==
  CASE g[1] \in DOMAIN Slots -> IF Slots[g[1]] = "ram" THEN Address[g[1]] ELSE 16
    [] g[1] = "RAM_0" -> 0
    [] g[1] \in {"IRM", "IRM_X"} -> 1
    [] g[1] \in {"CAOS_C", "CAOS_E", "USER"} -> 2
    [] g[1] = "RAM_8" -> 3
    [] g[1] = "RAM_4" -> 4
    [] g = Nothing -> 256

PagesOf(g) ==
  CASE g = Nothing -> Page
    [] g[1] = "RAM_0" -> {"0000"}
    [] g[1] = "RAM_4" -> {"4000"}
    [] g[1] = "RAM_8" -> {"8000", "a800"}
    [] g[1] = "IRM" -> {"8000"}
    [] g[1] = "IRM_X" -> {"a800"}
    [] g[1] \in {"CAOS_C", "USER"} -> {"c000"}
    [] g[1] = "CAOS_E" -> {"e000"}

\* The 16 KByte of a module that begin at base.
PagesFrom(base) ==
  CASE base \in {"0000", "4000"} -> {base}
    [] base = "8000" -> {"8000", "a800"}
    [] base = "c000" -> {"c000", "e000"}

ReadOnly == {g \in Onboard : g[1] \in {"CAOS_C", "CAOS_E", "USER"}} \cup {Nothing}

-----------------------------------------------------------------------------
(***************************************************************************)
(* Memory.  m is the state of the lists, groups and pointers.              *)
(***************************************************************************)

State == [list |-> list, active |-> active, ro |-> ro, read |-> read, write |-> write,
          switch |-> switch]

\* MemAreaPtr::add: behind the areas of the same priority.
Place(l, g) ==
  CHOOSE n \in 0 .. Len(l) : /\ \A k \in 1 .. n : Prio(l[k]) <= Prio(g)
                             /\ n < Len(l) => Prio(l[n + 1]) > Prio(g)
Inserted(l, g) ==
  SubSeq(l, 1, Place(l, g)) \o <<g>> \o SubSeq(l, Place(l, g) + 1, Len(l))

\* Memory::unregister_memory at one page, where a group is once or not at all.
Found(l, g) == CHOOSE n \in DOMAIN l : l[n] = g
Removed(l, g) ==
  IF \E n \in DOMAIN l : l[n] = g
  THEN SubSeq(l, 1, Found(l, g) - 1) \o SubSeq(l, Found(l, g) + 1, Len(l))
  ELSE l

\* MemAreaPtr::get_read_ptr; Nothing is in every list and always active.
FirstOf(l, groups) ==
  l[CHOOSE n \in DOMAIN l : l[n] \in groups /\ \A k \in 1 .. n - 1 : l[k] \notin groups]
First(m, p) == FirstOf(m.list[p], m.active)

\* Memory::reload_mem_ptr.
Reload(m) ==
  LET first == [p \in Page |-> First(m, p)]
  IN  [m EXCEPT !.read  = first,
                !.write = [p \in Page |-> IF first[p] \in m.ro THEN Nothing ELSE first[p]]]

\* MemAreaGroup::set_active and set_readonly.
SetActive(m, g, on)   == [m EXCEPT !.active = IF on THEN @ \cup {g} ELSE @ \ {g}]
SetReadOnly(m, g, on) == [m EXCEPT !.ro = IF on THEN @ \cup {g} ELSE @ \ {g}]

\* Of the groups gs, those of on become active.
SetActiveOf(m, gs, on) == [m EXCEPT !.active = (@ \ gs) \cup (on \cap gs)]

\* Memory::register_memory and Memory::unregister_memory.
Register(m, g, pages, readonly) ==
  Reload(SetReadOnly(SetActive(
    [m EXCEPT !.list = [p \in Page |-> IF p \in pages THEN Inserted(m.list[p], g)
                                                      ELSE m.list[p]]],
    g, TRUE), g, readonly))

Unregister(m, g) ==
  Reload([m EXCEPT !.list   = [p \in Page |-> Removed(m.list[p], g)],
                   !.active = @ \ {g},
                   !.ro     = @ \ {g}])

-----------------------------------------------------------------------------
(***************************************************************************)
(* The switches of Memory4.                                                *)
(***************************************************************************)

Index(sw) == (IF sw.screen THEN 2 ELSE 0) + (IF sw.color THEN 1 ELSE 0)

\* Memory4::configureIRM: above a800 the shared segment, unless the ROM of
\* CAOS at e000 is off and that at c000 on.
ConfigureIRM(m) ==
  LET sw == m.switch
      i  == IF sw.caos_e \/ ~sw.caos_c THEN 0 ELSE Index(sw)
  IN  SetActiveOf(m, {IrmUpper(k) : k \in 0 .. 3}, IF sw.irm THEN {IrmUpper(i)} ELSE {})

\* Memory4::enableIRM, and what enableCOLOR and enableSCREEN_1 make of it.
EnableIRM(m) ==
  Reload(ConfigureIRM(
    SetActiveOf(m, {Irm(k) : k \in 0 .. 3},
                IF m.switch.irm THEN {Irm(Index(m.switch))} ELSE {})))

\* Mutant of EnableCAOS: the segment above a800 is not configured.
EnableCAOSAlone(m, name, on) == Reload(SetActive(m, <<name, 0>>, on))

\* Memory4::enableCAOS_C and enableCAOS_E.
EnableCAOS(m, name, on) == Reload(ConfigureIRM(SetActive(m, <<name, 0>>, on)))

\* Memory4::configureRAM_8.  A block the machine does not have shows nothing.
ConfigureRAM_8(m) ==
  Reload(SetActiveOf(m, {Ram8(b) : b \in Blocks},
                     IF m.switch.ram_8 THEN {Ram8(m.switch.block)} ELSE {}))

\* Memory4::configureROM_C.
ConfigureROM_C(m) ==
  Reload(SetActiveOf(m, {User(r) : r \in Roms},
                     IF m.switch.basic THEN {User(m.switch.rom)} ELSE {}))

\* Memory4::protectRAM_8.
ProtectRAM_8(m, on) ==
  Reload([m EXCEPT !.ro = IF on THEN @ \cup {Ram8(b) : b \in Blocks}
                                ELSE @ \ {Ram8(b) : b \in Blocks}])

\* Memory4::selectRAM_8: the block of a segment.
BlockOf(segment) == (segment - 2) % 16

\* PIO4::change_A and change_B, Ports4::change_0x84 and change_0x86: the field f
\* changed to v.
Change(m, f, v) ==
  LET sw == [m EXCEPT !.switch = [k \in DOMAIN @ |-> IF k = f THEN v ELSE @[k]]]
  IN  CASE f = "caos_e"  -> EnableCAOS(sw, "CAOS_E", v)
        [] f = "caos_c"  -> EnableCAOS(sw, "CAOS_C", v)
        [] f \in {"irm", "color", "screen"} -> EnableIRM(sw)
        [] f = "ram_0"   -> Reload(SetActive(m, <<"RAM_0", 0>>, v))
        [] f = "write_0" -> Reload(SetReadOnly(m, <<"RAM_0", 0>>, ~v))
        [] f = "ram_4"   -> Reload(SetActive(m, <<"RAM_4", 0>>, v))
        [] f = "write_4" -> Reload(SetReadOnly(m, <<"RAM_4", 0>>, ~v))
        [] f = "ram_8"   -> ConfigureRAM_8(sw)
        [] f = "segment" -> ConfigureRAM_8([m EXCEPT !.switch.block = BlockOf(v)])
        [] f = "write_8" -> ProtectRAM_8(m, ~v)
        [] f \in {"basic", "rom"} -> ConfigureROM_C(sw)

-----------------------------------------------------------------------------

Becomes(m) == /\ list' = m.list /\ active' = m.active /\ ro' = m.ro
              /\ read' = m.read /\ write' = m.write
              /\ switch' = m.switch

\* The switches and the groups after Memory4::reset.  The write protection of
\* the RAM is not among them.
AtReset == [caos_c |-> FALSE, caos_e |-> TRUE, irm |-> TRUE, color |-> FALSE,
            screen |-> FALSE, ram_8 |-> TRUE, block |-> 0, basic |-> FALSE, rom |-> 3]

ActiveAtReset == {Nothing, <<"RAM_0", 0>>, <<"RAM_4", 0>>, Ram8(0), Irm(0), IrmUpper(0),
                  <<"CAOS_E", 0>>}

ResetMemory(m) ==
  Reload([m EXCEPT !.switch = AtReset,
                   !.active = (@ \ Onboard) \cup ActiveAtReset])

SetAtReset == [f \in Field |->
                 CASE f \in DOMAIN AtReset -> AtReset[f]
                   [] f = "segment" -> 2
                   [] f \in {"ram_0", "ram_4", "write_0", "write_4", "write_8"} -> TRUE]

\* The groups of a page after init_memory_groups().
OnPage(p) ==
  LET l[k \in 0 .. 33] ==
        IF k = 0 THEN <<>>
        ELSE IF Initially[k] \in Onboard /\ p \in PagesOf(Initially[k])
             THEN Inserted(l[k - 1], Initially[k]) ELSE l[k - 1]
  IN  l[33]

\* Memory4::init_5 and its call of reset().
Init ==
  LET m == ResetMemory([list |-> [p \in Page |-> OnPage(p)],
                        active |-> {}, ro |-> ReadOnly, read |-> <<>>, write |-> <<>>,
                        switch |-> AtReset])
  IN  /\ list = m.list /\ active = m.active /\ ro = m.ro
      /\ read = m.read /\ write = m.write
      /\ switch = m.switch
      /\ latch = [p \in Ports |-> Empty]
      /\ val = [s \in DOMAIN Slots |-> Empty]
      /\ group = [s \in DOMAIN Slots |-> Empty]
      /\ set = SetAtReset

\* The fields that change; all of them with the first write.
Changed(p, v) ==
  {f \in Seqs!ToSet(Fields[p]) : latch[p] = Empty \/ latch[p][f] # v[f]}

\* What the k-th of the fields does, of which no port has more than five.
Turn(m, p, v, k) ==
  IF k \in DOMAIN Fields[p] /\ Fields[p][k] \in Changed(p, v)
  THEN Change(m, Fields[p][k], v[Fields[p][k]]) ELSE m

\* The guest writes v to port p: PIO::out_A_DATA and out_B_DATA of a port that
\* outputs, Ports4::out.
Out(p, v) ==
  /\ latch' = [latch EXCEPT ![p] = v]
  /\ Becomes(Turn(Turn(Turn(Turn(Turn(State, p, v, 1), p, v, 2), p, v, 3), p, v, 4), p, v, 5))
  /\ set' = [f \in Field |-> IF f \in Changed(p, v) THEN v[f] ELSE set[f]]
  /\ UNCHANGED <<val, group>>

\* Z80::reset: Memory4::reset, and PIO::reset for the ports A and B.  Ports4 is
\* not told.
Reset ==
  /\ Becomes(ResetMemory(State))
  /\ latch' = [p \in Ports |-> IF p \in {"A", "B"} /\ latch[p] # Empty
                                 THEN [f \in DOMAIN latch[p] |-> FALSE] ELSE latch[p]]
  /\ set' = [f \in Field |-> IF f \in {"write_0", "write_4", "write_8"} THEN set[f]
                                                                       ELSE SetAtReset[f]]
  /\ UNCHANGED <<val, group>>

-----------------------------------------------------------------------------
(***************************************************************************)
(* Modules.                                                                *)
(***************************************************************************)

\* A control byte: the bit 0, the write enable, the base and the segment.
Off == [on |-> FALSE, we |-> FALSE, base |-> "0000", segment |-> 0]

\* The module of slot s unregisters what it has registered.
Without(s) == IF group[s] = Empty THEN State ELSE Unregister(State, group[s])

\* ModuleList::insert: a new module; the one that was in the slot is deleted.
Insert(s) ==
  /\ val' = [val EXCEPT ![s] = Off]
  /\ group' = [group EXCEPT ![s] = Empty]
  /\ Becomes(Without(s))
  /\ UNCHANGED <<latch, set>>

\* A module of RAM shows up with either bit, a segmented one with bit 0.
Shows(s, v) == v.on \/ (Slots[s] = "ram" /\ v.we)

\* ModuleRAM::m_out, ModuleSegmentedMemory::m_out.
ModuleOut(s, v) ==
  /\ val[s] # Empty /\ val[s] # v
  /\ val' = [val EXCEPT ![s] = v]
  /\ IF Shows(s, v)
       THEN LET g == <<s, v.segment>>
            IN  /\ group' = [group EXCEPT ![s] = g]
                /\ Becomes(Register(Without(s), g, PagesFrom(v.base), ~v.we))
       ELSE /\ group' = [group EXCEPT ![s] = Empty]
            /\ Becomes(Without(s))
  /\ UNCHANGED <<latch, set>>

\* Mutant of Pull: the destructor forgets the group.
PullSilently(s) ==
  /\ val[s] # Empty
  /\ val' = [val EXCEPT ![s] = Empty]
  /\ group' = [group EXCEPT ![s] = Empty]
  /\ UNCHANGED <<memory, switch, latch, set>>

\* Module::remove: the module is deleted, and its memory.
Pull(s) ==
  /\ val[s] # Empty
  /\ val' = [val EXCEPT ![s] = Empty]
  /\ group' = [group EXCEPT ![s] = Empty]
  /\ Becomes(Without(s))
  /\ UNCHANGED <<latch, set>>

Plugging(s) == Insert(s) \/ Pull(s)

Guest == \/ \E p \in Ports : \E v \in Output[p] : Out(p, v)
         \/ \E s \in DOMAIN Slots : \E v \in Bytes[s] : ModuleOut(s, v)

Next == Guest \/ (\E s \in DOMAIN Slots : Plugging(s)) \/ Reset

Spec == Init /\ [][Next]_vars

-----------------------------------------------------------------------------
(***************************************************************************)
(* Properties.                                                             *)
(***************************************************************************)

\* The types; the block of RAM 8 is one the code can compare with.
TypeOK ==
  /\ \A p \in Page : Seqs!ToSet(list[p]) \subseteq Group /\ Seqs!IsInjective(list[p])
  /\ active \subseteq Group /\ ro \subseteq Group
  /\ read \in [Page -> Group] /\ write \in [Page -> Group]
  /\ DOMAIN switch = DOMAIN AtReset
  /\ switch.block \in 0 .. 15 /\ switch.rom \in 0 .. 3
  /\ \A p \in Ports : latch[p] = Empty \/ DOMAIN latch[p] = Seqs!ToSet(Fields[p])
  /\ \A s \in DOMAIN Slots : group[s] = Empty \/ group[s] \in Modules

\* The pointers the processor goes through are never stale: they point to what
\* the lists and flags say, and a write hits what a read would show, or nothing.
PointersFresh ==
  \A p \in Page : /\ read[p] = First(State, p)
                  /\ write[p] = IF read[p] \in ro THEN Nothing ELSE read[p]

\* The memory of a module that was pulled out is not reachable any more.
NoDanglingMemory ==
  \A p \in Page : \A g \in {read[p], write[p]} \cup Seqs!ToSet(list[p]) :
    g[1] \in DOMAIN Slots => group[g[1]] = g

\* The groups that the settings of the switches put at a page.
Wanted(p) ==
  LET i == Index(set)
  IN  {g \in Onboard :
         /\ p \in PagesOf(g)
         /\ CASE g = Nothing      -> TRUE
              [] g[1] = "RAM_0"  -> set.ram_0
              [] g[1] = "RAM_4"  -> set.ram_4
              [] g[1] = "RAM_8"  -> set.ram_8 /\ g[2] = (set.segment + 14) % 16
              [] g[1] = "IRM"    -> set.irm /\ g[2] = i
              [] g[1] = "IRM_X"  -> set.irm /\ g[2] = IF set.caos_c /\ ~set.caos_e THEN i ELSE 0
              [] g[1] = "CAOS_C" -> set.caos_c
              [] g[1] = "CAOS_E" -> set.caos_e
              [] g[1] = "USER"   -> set.basic /\ g[2] = set.rom}
      \cup {<<s, val[s].segment>> : s \in {t \in DOMAIN Slots :
              val[t] # Empty /\ Shows(t, val[t]) /\ p \in PagesFrom(val[t].base)}}

\* In front of the BASIC ROM and its kind lies the ROM of CAOS.
Rank(g) == 2 * Prio(g) + (IF g[1] = "USER" THEN 1 ELSE 0)

Protected(g) ==
  \/ g \in ReadOnly
  \/ g[1] = "RAM_0" /\ ~set.write_0
  \/ g[1] = "RAM_4" /\ ~set.write_4
  \/ g[1] = "RAM_8" /\ ~set.write_8
  \/ g[1] \in DOMAIN Slots /\ ~val[g[1]].we

\* What the processor reads and writes at a page depends only on what every
\* switch was last set to and on the last control byte of every module, not on
\* the order in which the guest got there: "default, shared segment in screen 0 /
\* pixel" (memory4.cc), for example, whichever of five switches came last.
MapFollowsSwitches ==
  \A p \in Page : \E g \in Wanted(p) :
    /\ \A h \in Wanted(p) \ {g} : Rank(g) < Rank(h)
    /\ read[p] = g
    /\ write[p] = IF Protected(g) THEN Nothing ELSE g
=============================================================================
