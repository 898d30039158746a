------------------------------ MODULE HotPlug ------------------------------
(***************************************************************************)
(* Modules that come and go while the machine runs (KCemu,                 *)
(* src/src/kc/daisy.cc, ic.cc, mod_dio.cc, mod_vdip.cc, module.cc): the    *)
(* guest switches a module on and off with an output to its slot, which    *)
(* puts the module's chips at the end of the daisy chain and takes them    *)
(* out again, and the user pulls it out of the slot, which deletes them.   *)
(*                                                                         *)
(* DaisyChain and InterruptSystem have a fixed chain and follow the steps  *)
(* of a RETI one by one.  Here the chain is what it is in the code, a list *)
(* of pointers to circuits with pointers to their neighbours, and a RETI   *)
(* is one step.                                                            *)
(***************************************************************************)
EXTENDS Integers, Sequences, FiniteSets

CONSTANTS Base,     \* the chips of the machine, which stay: a sequence
          Modules,  \* the modules, each with the sequence of its chips
          Timers,   \* the chips that go on requesting when switched off
          Null      \* the pointer to no chip

Seqs == INSTANCE SequencesExt

Chips == Seqs!ToSet(Base) \cup UNION {Seqs!ToSet(Modules[m]) : m \in DOMAIN Modules}

HotPlugAssumption ==
  /\ Base # <<>>
  /\ Timers \subseteq Chips
  /\ Null \notin Chips

VARIABLES
  chain,   \* DaisyChain::_daisy_chain_list
  next,    \* InterfaceCircuit::_next
  prev,    \* InterfaceCircuit::_prev
  ic,      \* _iei, _ieo_reti, _irqreq and _irqactive of every circuit
  line,    \* the bits of Z80::_irq_line
  on,      \* the modules that are switched on (their ports are registered)
  slots,   \* the modules that are in a slot
  crashed  \* iei() called itself without end

vars == <<chain, next, prev, ic, line, on, slots, crashed>>

ChipsOf(m) == Seqs!ToSet(Modules[m])
Member     == Seqs!ToSet(chain)
Alive      == Seqs!ToSet(Base) \cup UNION {ChipsOf(m) : m \in slots}

-----------------------------------------------------------------------------
(***************************************************************************)
(* Signals along the links.  s is the state of all circuits, nx the links. *)
(***************************************************************************)

\* InterfaceCircuit::ieo.
Ieo(s, c) == s[c].reti \/ (s[c].iei /\ ~(s[c].req \/ s[c].active))

\* The circuits from c on; each one once, should the links close a ring.
Path(nx, c) ==
  LET p[k \in 0 .. Cardinality(Chips)] ==
        IF k = 0 THEN IF c = Null THEN <<>> ELSE <<c>>
        ELSE LET q == p[k - 1]
                 d == IF q = <<>> THEN Null ELSE nx[Seqs!Last(q)]
             IN  IF d = Null \/ Seqs!Contains(q, d) THEN q ELSE Append(q, d)
  IN  p[Cardinality(Chips)]

\* iei() of c would call itself again.
Endless(nx, c) == /\ c # Null
                  /\ nx[Seqs!Last(Path(nx, c))] # Null

\* InterfaceCircuit::iei of c with the value v, and what follows from it.
Input(nx, s, c, v) ==
  Seqs!FoldLeft(LAMBDA t, d : [t EXCEPT ![d].iei =
                                 IF d = c THEN v
                                 ELSE Ieo(t, CHOOSE e \in Seqs!ToSet(Path(nx, c)) : nx[e] = d)],
                s, Path(nx, c))

\* The circuit passes on what it puts out.
Ripple(s, c) == Input(next, s, next[c], Ieo(s, c))

Selected(s, c) == s[c].iei /\ ~Ieo(s, c)

-----------------------------------------------------------------------------

Fresh == [iei |-> FALSE, reti |-> FALSE, req |-> FALSE, active |-> FALSE]

\* KC::KC adds the chips of the machine.
Init == /\ chain = Base
        /\ next = [c \in Chips |->
                     IF \E k \in 1 .. (Len(Base) - 1) : Base[k] = c
                       THEN Base[Seqs!SelectInSeq(Base, LAMBDA e : e = c) + 1] ELSE Null]
        /\ prev = [c \in Chips |->
                     IF \E k \in 2 .. Len(Base) : Base[k] = c
                       THEN Base[Seqs!SelectInSeq(Base, LAMBDA e : e = c) - 1] ELSE Null]
        /\ ic = [c \in Chips |-> [Fresh EXCEPT !.iei = (c \in Seqs!ToSet(Base))]]
        /\ line = {}
        /\ on = {} /\ slots = {}
        /\ crashed = FALSE

\* ModuleList::insert with a module: new chips.
Insert(m) ==
  /\ m \notin slots
  /\ slots' = slots \cup {m}
  /\ next' = [c \in Chips |-> IF c \in ChipsOf(m) THEN Null ELSE next[c]]
  /\ prev' = [c \in Chips |-> IF c \in ChipsOf(m) THEN Null ELSE prev[c]]
  /\ ic' = [c \in Chips |-> IF c \in ChipsOf(m) THEN Fresh ELSE ic[c]]
  /\ line' = line \ ChipsOf(m)
  /\ UNCHANGED <<chain, on, crashed>>

\* ModuleList::insert without a module, Module::remove: the module is deleted
\* and its chips with it.  No destructor of theirs takes them out of the chain:
\* a module that is pulled out while it is switched on leaves pointers to what
\* was deleted, and what follows from that is not modelled.
Pull(m) ==
  /\ m \in slots \ on
  /\ slots' = slots \ {m}
  /\ UNCHANGED <<chain, next, prev, ic, line, on, crashed>>

\* What the guest changes in the links and circuits, step by step.
Plugged == [chain |-> chain, next |-> next, prev |-> prev, ic |-> ic, crashed |-> crashed]

\* DaisyChain::add_last of c: the old link of c is cleared at the very end.
AddLast(g, c) ==
  LET last == Seqs!Last(g.chain)
      nx   == [g.next EXCEPT ![last] = c]
  IN  [chain   |-> Append(g.chain, c),
       next    |-> [nx EXCEPT ![c] = Null],
       prev    |-> [g.prev EXCEPT ![c] = last],
       ic      |-> Input(nx, g.ic, c, Ieo(g.ic, last)),
       crashed |-> g.crashed \/ Endless(nx, c)]

\* Mutant of TakeOut: the neighbour behind is not told.
TakeOutSilently(g, c) ==
  [g EXCEPT !.chain = SelectSeq(@, LAMBDA e : e # c),
            !.next[g.prev[c]] = g.next[c]]

\* DaisyChain::remove of a chip that is not the first: its neighbours are
\* linked; what the chip itself points to stays.
TakeOut(g, c) ==
  LET p == g.prev[c]
      n == g.next[c]
      nx == [g.next EXCEPT ![p] = n]
  IN  [chain   |-> SelectSeq(g.chain, LAMBDA e : e # c),
       next    |-> nx,
       prev    |-> IF n = Null THEN g.prev ELSE [g.prev EXCEPT ![n] = p],
       ic      |-> Input(nx, g.ic, n, Ieo(g.ic, p)),
       crashed |-> g.crashed \/ Endless(nx, n)]

Becomes(g) == /\ chain' = g.chain /\ next' = g.next /\ prev' = g.prev
              /\ ic' = g.ic /\ crashed' = g.crashed

\* ModuleDIO::m_out and the like, with bit 0 set.
SwitchOn(m) ==
  /\ m \in slots \ on
  /\ on' = on \cup {m}
  /\ Becomes(Seqs!FoldLeft(AddLast, Plugged, Modules[m]))
  /\ UNCHANGED <<line, slots>>

\* ... and with bit 0 clear.
SwitchOff(m) ==
  /\ m \in on
  /\ on' = on \ {m}
  /\ Becomes(Seqs!FoldLeft(TakeOut, Plugged, Modules[m]))
  /\ UNCHANGED <<line, slots>>

-----------------------------------------------------------------------------

\* The circuits and the line after irq() of c.
Requested(s, c) == Ripple([s EXCEPT ![c].req = TRUE], c)

\* InterfaceCircuit::irq.
Irq(c) ==
  /\ c \in Alive /\ (c \in Member \/ c \in Timers)
  /\ ~ic[c].req /\ ~ic[c].active
  /\ ic' = Requested(ic, c)
  /\ line' = IF ic[c].iei THEN line \cup {c} ELSE line
  /\ crashed' = Endless(next, next[c])
  /\ UNCHANGED <<chain, next, prev, on, slots>>

\* The circuit that InterfaceCircuit::ack finds, from the back of the chain.
Found(c) == /\ c \in Member /\ Selected(ic, c)
            /\ \A d \in Member : Selected(ic, d) =>
                 Seqs!SelectInSeq(chain, LAMBDA e : e = d)
                   <= Seqs!SelectInSeq(chain, LAMBDA e : e = c)

\* DaisyChain::irq_ack: with or without more that waits inside the chip.
IrqAck(c, more) ==
  /\ line # {}
  /\ Found(c)
  /\ ic' = [ic EXCEPT ![c].req = FALSE, ![c].active = TRUE]
  /\ line' = IF more THEN line ELSE line \ {c}
  /\ UNCHANGED <<chain, next, prev, on, slots, crashed>>

\* InterfaceCircuit::reti_ED.
RetiED(s, c) ==
  IF Selected(s, c) /\ ~s[c].active
    THEN Input(next, [s EXCEPT ![c].reti = TRUE], next[c], TRUE)
    ELSE s

\* InterfaceCircuit::reti_4D up to the call for _prev; the chips of again
\* request anew.
Reti4DPre(s, c, again) ==
  IF Selected(s, c) /\ s[c].active
    THEN LET t == [s EXCEPT ![c].req = FALSE, ![c].active = FALSE]
         IN  Ripple(IF c \in again THEN Requested(t, c) ELSE t, c)
    ELSE s

\* The rest of InterfaceCircuit::reti_4D.
Reti4DPost(s, c) ==
  LET t == IF s[c].reti THEN Ripple([s EXCEPT ![c].reti = FALSE], c) ELSE s
  IN  IF t[c].req THEN Ripple(t, c) ELSE t

\* DaisyChain::reti.
Reti(again) ==
  LET back == Seqs!Reverse(chain)
      s1   == Seqs!FoldLeft(LAMBDA s, c : RetiED(s, c), ic, back)
      s2   == Seqs!FoldLeft(LAMBDA s, c : Reti4DPre(s, c, again), s1, back)
      s3   == Seqs!FoldLeft(LAMBDA s, c : Reti4DPost(s, c), s2, chain)
  IN  /\ \E c \in Member : ic[c].active
      /\ again \subseteq {c \in Member : s1[c].active /\ Selected(s1, c)}
      /\ ic' = s3
      /\ line' = line \cup again \cup {c \in Member : s3[c].req /\ Selected(s3, c)}
      /\ UNCHANGED <<chain, next, prev, on, slots, crashed>>

Devices == \E c \in Chips : Irq(c)

Cpu == \/ \E c \in Chips, more \in BOOLEAN : IrqAck(c, more)
       \/ \E again \in SUBSET Member : Reti(again)

Plugging == \E m \in DOMAIN Modules : Insert(m) \/ Pull(m) \/ SwitchOn(m) \/ SwitchOff(m)

Next == ~crashed /\ (Devices \/ Cpu \/ Plugging)

Spec == Init /\ [][Next]_vars

-----------------------------------------------------------------------------
(***************************************************************************)
(* Properties.                                                             *)
(***************************************************************************)

\* The types; a circuit is in the chain once at most.
TypeOK ==
  /\ chain \in Seq(Chips) /\ Cardinality(Member) = Len(chain)
  /\ next \in [Chips -> Chips \cup {Null}] /\ prev \in [Chips -> Chips \cup {Null}]
  /\ ic \in [Chips -> [iei : BOOLEAN, reti : BOOLEAN, req : BOOLEAN, active : BOOLEAN]]
  /\ line \subseteq Chips
  /\ on \subseteq DOMAIN Modules /\ slots \subseteq DOMAIN Modules
  /\ crashed \in BOOLEAN

\* The pointers of the circuits in the chain are the list, in both directions,
\* and never close a ring, along which iei() would call itself without end:
\* "separated interrupt daisy chain handling so it can be used from module code"
\* (ChangeLog).
LinksAreTheList ==
  /\ ~crashed
  /\ \A k \in DOMAIN chain :
       /\ next[chain[k]] = IF k = Len(chain) THEN Null ELSE chain[k + 1]
       /\ prev[chain[k]] = IF k = 1 THEN Null ELSE chain[k - 1]

\* "input value of the daisy chain" (include/kc/ic.h): a circuit in the chain
\* has the output of the one in front as its input, whatever was plugged and
\* unplugged, requested and acknowledged before.
InputsAreOutputs ==
  \A k \in DOMAIN chain :
    ic[chain[k]].iei = IF k = 1 THEN TRUE ELSE Ieo(ic, chain[k - 1])
=============================================================================
