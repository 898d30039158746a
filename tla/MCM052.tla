------------------------------- MODULE MCM052 -------------------------------
(***************************************************************************)
(* Model checking the two halves of the module M052: USB (VDIP) and        *)
(* network (KCNET, KCNETCommand).  They share no state: a behaviour works  *)
(* one part, and the others stay as they are at first.                     *)
(***************************************************************************)
EXTENDS VDIP

CONSTANTS
  Cells, Values, MaxCount,  \* of the port: KCNETCommand
  MaxSends, MaxPortResets   \* of the port: commands and resets

VARIABLES
  part,
  sock, mem, trains, host, peer, up, resets,
  command, pointer, memory, ip, status, caller, read, promised, sent
sockets   == <<sock, mem, trains, host, peer, up, resets>>
registers == <<command, pointer, memory, ip, status, caller, read, promised, sent>>
m052      == <<part, vars, sockets, registers>>

-----------------------------------------------------------------------------
(* VDIP: a program that polls works with the files of a root; and one that *)
(* waits for interrupts, while the user changes the root and the program   *)
(* switches the module.                                                    *)
Line(op, name, to, n) == [op |-> op, name |-> name, to |-> to, n |-> n]
File(content, w) == [kind |-> "file", content |-> content, writable |-> w]
Folder == [kind |-> "dir", content |-> <<>>, writable |-> TRUE]

(* A root with a file of two bytes and a directory with one in it.         *)
OneRoot ==
  {[p \in {<<"r">>, <<"r", "f">>, <<"r", "d">>, <<"r", "d", "g">>} |->
      CASE p = <<"r", "f">> -> File(<<"01", "02">>, TRUE)
        [] p = <<"r", "d", "g">> -> File(<<"01">>, FALSE)
        [] OTHER -> Folder]}

Whole == {Line("CD", n, "", 0) : n \in {"d", ".."}}
  \cup {Line(op, n, "", 0) : op \in {"DIR", "OPR", "OPW", "RD", "DLF"}, n \in {"f", "g"}}
  \cup {Line("RDF", "", "", n) : n \in {1, 3}} \cup {Line("WRF", "", "", n) : n \in {1, 2}}
  \cup {Line(op, n, "", 0) : op \in {"MKD", "DLD"}, n \in {"d", "e"}}
  \cup {Line("DIRT", "d", "", 0), Line("DIR", "", "", 0), Line("E", "", "", 0)}
  \cup {Line("SEK", "", "", 1), Line("CLF", "", "", 0), Line("REN", "f", "g", 0)}

(* Commands of every kind.                                                 *)
Few == {Line("DIR", "", "", 0), Line("CD", "d", "", 0), Line("OPW", "f", "", 0),
        Line("WRF", "", "", 2), Line("SCS", "", "", 0)}

OneRootOnly == {"r"}
Plug == INSTANCE VDIP WITH
  Commands <- Few, Hosts <- OneRoot, Roots <- {"", "r", "s"}, Switches <- TRUE,
  Bytes <- {"03"}, Polls <- FALSE, MaxCommands <- 4, MaxEvents <- 2

-----------------------------------------------------------------------------
(* KCNET: one socket, opened twice, both rings are filled more than once;  *)
(* two sockets that share the event; the port, byte by byte.               *)
Rings == INSTANCE KCNET WITH
  N <- 1, Ring <- 3, Kinds <- {"tcp", "udp"}, Chunk <- 2, MaxBytes <- 5, MaxSent <- 4,
  MaxOpens <- 2, MaxResets <- 1, guest <- peer
Two == INSTANCE KCNET WITH
  N <- 2, Ring <- 2, Kinds <- {"tcp", "udp"}, Chunk <- 1, MaxBytes <- 3, MaxSent <- 1,
  MaxOpens <- 1, MaxResets <- 0, guest <- peer
Port == INSTANCE KCNETCommand WITH
  MaxCommands <- MaxSends, MaxResets <- MaxPortResets,
  cmd <- command, mem <- memory, program <- caller, got <- read, count <- sent

ASSUME RootStays == ~Switches /\ \E r \in Roots : Roots = {r}
ASSUME Plug!VDIPAssumption
ASSUME Rings!KCNETAssumption /\ Two!KCNETAssumption
ASSUME PortAssumption == Port!KCNETCommandAssumption

M052Init ==
  /\ part \in {"files", "plug", "rings", "two", "port"}
  /\ IF part = "plug" THEN Plug!Init ELSE Init
  /\ IF part = "two" THEN Two!Init ELSE Rings!Init
  /\ Port!Init
M052Next ==
  \/ part = "files" /\ Next /\ UNCHANGED <<part, sockets, registers>>
  \/ part = "plug" /\ Plug!Next /\ UNCHANGED <<part, sockets, registers>>
  \/ part = "rings" /\ Rings!Next /\ UNCHANGED <<part, vars, registers>>
  \/ part = "two" /\ Two!Next /\ UNCHANGED <<part, vars, registers>>
  \/ part = "port" /\ Port!Next /\ UNCHANGED <<part, vars, sockets>>
M052Spec ==
  /\ M052Init /\ [][M052Next]_m052
  /\ WF_vars(part = "files" /\ Guest) /\ WF_vars(part = "files" /\ Strobe)
  /\ WF_vars(part = "plug" /\ Plug!Guest) /\ WF_vars(part = "plug" /\ Plug!Strobe)
  /\ WF_sockets(part = "two" /\ Two!Callback)
  /\ \A i \in 0 .. 1 : WF_sockets(part = "two" /\ Two!Receive(i))

\* The properties of the parts.
AnswersWhole    == [][part = "files" => TakenWhole]_vars
AnswersCome     == /\ part = "files" => Answered
                   /\ part = "plug" => Plug!Announced
DataInOrder     == part = "rings" => Rings!DataInOrder
EverySocketServed ==
  \A i \in 0 .. 1 : []<>(part = "two" => Two!AllRead(i))
CommandsAreSteps == part = "port" => Port!CommandsAreSteps
=============================================================================
