------------------------------ MODULE PortMap ------------------------------
(***************************************************************************)
(* The input and output ports of KCemu (src/src/kc/ports.cc) and the       *)
(* modules that answer to them (mod_rtc.cc, mod_fdc.cc, mod_gdc.cc,        *)
(* mod_ramf.cc, mod_raf.cc, mod_dio.cc, mod_m052.cc, ...), which the user  *)
(* puts into the slots of the machine and pulls out of them (mod_list.cc,  *)
(* module.cc).                                                             *)
(*                                                                         *)
(* Every port has a list of groups, sorted by priority, and a pointer to   *)
(* the interface of the first one, which reload_prt_ptr() computes.  A     *)
(* port stands here for all the ports of a group; no two groups of one     *)
(* machine overlap in part.  All groups are active: the code never         *)
(* deactivates one.  What a module adds to the memory is in Memory4, what  *)
(* it adds to the daisy chain in HotPlug.                                  *)
(***************************************************************************)
EXTENDS Integers, Sequences, FiniteSets, TLC

CONSTANTS
  Slots,     \* the slots of the machine
  Kinds,     \* the modules there are for it
  Machine,   \* the ports its own chips answer to
  MaxMade    \* modules made in a run, the ones that were refused too

(* Modules of which there can be one, which count themselves; that make a  *)
(* global object; that the guest switches on and off; the others register  *)
(* their ports when they are put in.                                       *)
Single   == {"rtc", "fdc", "gdc"}
Global   == {"fdc", "gdc"}
Switched == {"dio", "vdip", "m052"}
Other    == {"ramf", "raf", "js"}

(* The ports of a kind: the first port of each of its groups.              *)
PortsOf(k) ==
  CASE k = "rtc" -> {"70"}
    [] k = "fdc" -> {"f0"}
    [] k = "gdc" -> {"18"}
    [] k = "raf" -> {"20"}
    [] k = "js" -> {"90"}
    [] k = "dio" -> {"00", "04"}
    [] k = "vdip" -> {"04"}
    [] k = "m052" -> {"28", "2c"}
    [] k = "ramf" -> {"98", "58"}

PortMapAssumption ==
  /\ Kinds \subseteq Single \cup Switched \cup Other
  /\ MaxMade \in Nat

Port == Machine \cup UNION {PortsOf(k) : k \in Kinds}

VARIABLES
  list,    \* _port_list of every port
  ptr,     \* _port_ptr of every port
  alive,   \* the interfaces that have not been deleted
  count,   \* _count of the catalogue's module, of every single kind
  drives,  \* _disk_a and _disk_b: the ports of RAM floppies still free
  global,  \* fdc_fdc and gdc
  slots,   \* Module::_module: what is in every slot
  made     \* modules made so far (history)

state == [list |-> list, ptr |-> ptr, alive |-> alive, count |-> count,
          drives |-> drives, global |-> global]
vars == <<list, ptr, alive, count, drives, global, slots, made>>

Null == [kind |-> "null", n |-> 0]
Chip == [kind |-> "chip", n |-> 0]
Empty == [kind |-> "empty", n |-> 0, ports |-> {}]
Group(obj, prio) == [obj |-> obj, prio |-> prio]

-----------------------------------------------------------------------------
(* Ports.  r is the state they work on.                                    *)

\* Mutant of Reloaded: a port without a new first group keeps its pointer.
ReloadedNot(r) ==
  [r EXCEPT !.ptr = [p \in Port |-> IF Len(r.list[p]) > 1 THEN Head(r.list[p]).obj ELSE @[p]]]

(* reload_prt_ptr                                                          *)
Reloaded(r) == [r EXCEPT !.ptr = [p \in Port |-> Head(r.list[p]).obj]]

(* insert: before the first group of a greater priority.                   *)
Place(l, prio) ==
  CHOOSE n \in 0 .. Len(l) : /\ \A k \in 1 .. n : l[k].prio <= prio
                             /\ n < Len(l) => l[n + 1].prio > prio
Inserted(l, g) ==
  SubSeq(l, 1, Place(l, g.prio)) \o <<g>> \o SubSeq(l, Place(l, g.prio) + 1, Len(l))

(* std::list::remove of the group of an object, which is there once.       *)
Found(l, obj) == CHOOSE n \in DOMAIN l : l[n].obj = obj
Without(l, obj) ==
  IF \E k \in DOMAIN l : l[k].obj = obj
  THEN SubSeq(l, 1, Found(l, obj) - 1) \o SubSeq(l, Found(l, obj) + 1, Len(l))
  ELSE l

Register(r, ports, obj, prio) ==
  Reloaded([r EXCEPT !.list =
    [p \in Port |-> IF p \in ports THEN Inserted(@[p], Group(obj, prio)) ELSE @[p]]])

Unregister(r, ports, obj) ==
  Reloaded([r EXCEPT !.list =
    [p \in Port |-> IF p \in ports THEN Without(@[p], obj) ELSE @[p]]])

-----------------------------------------------------------------------------
(* The constructors and destructors of the modules.  m is a module.        *)

(* The object that answers to the module's ports: a chip of its own, the   *)
(* module, or the global object it makes.                                  *)
Interface(m) == [kind |-> m.kind, n |-> m.n]

(* A module that is refused has no ports.                                  *)
New(r, k, n) ==
  LET room == CASE k \in Single -> r.count[k] = 0 /\ (k = "fdc" => r.global["fdc"] = Null)
                [] k = "ramf" -> r.drives # {}
                [] OTHER -> TRUE
      ports == CASE ~room \/ k \in Switched -> {}
                 [] room /\ k = "ramf" -> {IF "98" \in r.drives THEN "98" ELSE "58"}
                 [] OTHER -> PortsOf(k) IN
  [kind |-> k, n |-> n, ports |-> ports, valid |-> room]

Construct(r, m) ==
  LET obj == Interface(m)
      s == [r EXCEPT
              !.alive = IF m.kind \in Global /\ ~m.valid THEN @ ELSE @ \cup {obj},
              !.count = IF m.kind \in Single THEN [@ EXCEPT ![m.kind] = 1] ELSE @,
              !.drives = IF m.kind = "ramf" THEN @ \ m.ports ELSE @,
              !.global = IF m.kind \in Global /\ m.valid THEN [@ EXCEPT ![m.kind] = obj] ELSE @] IN
  IF m.ports = {} THEN s ELSE Register(s, m.ports, obj, 0)

Released(r, m) == IF m.ports = {} THEN r ELSE Unregister(r, m.ports, Interface(m))

(* What a module gives back when it was accepted.                          *)
Freed(r, m) ==
  [r EXCEPT !.count = IF m.kind \in Single /\ m.valid THEN [@ EXCEPT ![m.kind] = 0] ELSE @,
            !.drives = IF m.kind = "ramf" THEN @ \cup m.ports ELSE @]

(* The display controller is deleted whichever module goes, the floppy     *)
(* controller only with the one that has its port.                         *)
Destruct(r, m) ==
  LET s == IF m.kind \in Switched THEN r ELSE Released(r, m)
      gone == IF m.kind = "gdc" THEN r.global["gdc"]
              ELSE IF m.kind = "fdc" /\ ~m.valid THEN Null
              ELSE Interface(m) IN
  Freed([s EXCEPT !.alive = (@ \ {gone}) \cup {Null},
                  !.global = [k \in DOMAIN @ |-> IF @[k] = gone THEN Null ELSE @[k]]], m)

-----------------------------------------------------------------------------
Apply(r) ==
  /\ list' = r.list /\ ptr' = r.ptr /\ alive' = r.alive
  /\ count' = r.count /\ drives' = r.drives /\ global' = r.global

Init ==
  LET bare == [p \in Port |-> <<Group(Null, 256)>>]
      own  == [p \in Port |-> IF p \in Machine THEN <<Group(Chip, 10)>> \o bare[p] ELSE bare[p]] IN
  /\ list = own
  /\ ptr = [p \in Port |-> Head(own[p]).obj]
  /\ alive = {Null, Chip}
  /\ count = [k \in Single |-> 0]
  /\ drives = {"98", "58"}
  /\ global = [k \in Global |-> Null]
  /\ slots = [s \in Slots |-> Empty]
  /\ made = 0

(* ModuleList::insert with a module: the new one is made first; when it is *)
(* valid it takes the place of the old one, otherwise it is deleted.       *)
Insert(s, k) ==
  LET m == New(state, k, made + 1)
      r == Construct(state, m) IN
  /\ made < MaxMade /\ made' = made + 1
  /\ IF m.valid
     THEN /\ Apply(IF slots[s] = Empty THEN r ELSE Destruct(r, slots[s]))
          /\ slots' = [slots EXCEPT ![s] = m]
     ELSE /\ Apply(Destruct(r, m))
          /\ UNCHANGED slots

(* ModuleList::insert without one.                                         *)
Remove(s) ==
  /\ slots[s] # Empty
  /\ Apply(Destruct(state, slots[s]))
  /\ slots' = [slots EXCEPT ![s] = Empty]
  /\ UNCHANGED made

(* m_out of a module that the guest switches.  Its destructor does not     *)
(* give the ports back: the user switches it off before he pulls it out.   *)
SwitchOn(s) ==
  /\ slots[s].kind \in Switched /\ slots[s].ports = {}
  /\ Apply(Register(state, PortsOf(slots[s].kind), Interface(slots[s]), 0))
  /\ slots' = [slots EXCEPT ![s].ports = PortsOf(slots[s].kind)]
  /\ UNCHANGED made
SwitchOff(s) ==
  /\ slots[s].kind \in Switched /\ slots[s].ports # {}
  /\ Apply(Released(state, slots[s]))
  /\ slots' = [slots EXCEPT ![s].ports = {}]
  /\ UNCHANGED made

Careful(s) == slots[s].kind \in Switched => slots[s].ports = {}
Next == \E s \in Slots :
  \/ Careful(s) /\ \E k \in Kinds : Insert(s, k)
  \/ Careful(s) /\ Remove(s)
  \/ SwitchOn(s)
  \/ SwitchOff(s)
Spec == Init /\ [][Next]_vars

-----------------------------------------------------------------------------
In(k) == {s \in Slots : slots[s].kind = k}

(* No output of the guest reaches an object that has been deleted, in      *)
(* whatever order modules are put in, refused, replaced, switched and      *)
(* pulled out.                                                             *)
NoDeadPort == \A p \in Port : ptr[p] \in alive

(* "Display registered ports but don't list the fallback entry that comes  *)
(* as the last entry": so it is, and a port answers with what is in the    *)
(* slots and switched on, before the chips of the machine.                 *)
PortsAreModules ==
  \A p \in Port :
    /\ list[p][Len(list[p])].obj = Null
    /\ {list[p][k].obj : k \in DOMAIN list[p]}
         = {Null} \cup (IF p \in Machine THEN {Chip} ELSE {})
           \cup {Interface(slots[s]) : s \in {t \in Slots : p \in slots[t].ports}}
    /\ (\E s \in Slots : p \in slots[s].ports) => ptr[p] \notin {Null, Chip}
=============================================================================
