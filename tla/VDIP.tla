-------------------------------- MODULE VDIP --------------------------------
(***************************************************************************)
(* The USB module of KCemu (src/src/kc/vdip.cc, vdip_cmd.cc, pio_vdip.cc): *)
(* a program on the guest sends lines of commands, byte by byte, through a *)
(* PIO with the handshake signals RD#, WR#, RXF# and TXE#, and gets their  *)
(* answers the same way.  The commands work on a directory of the host,    *)
(* the root, which the user attaches and detaches.  A strobe of the PIO,   *)
(* an event on the callback list, announces a byte to a program that works *)
(* with interrupts.                                                        *)
(*                                                                         *)
(* A symbol stands for what is one thing to the program: a command with    *)
(* its parameters, the end of a line, a byte of a file, a prompt or an     *)
(* error.  Times, sizes of the disk and the host's buffers are left out.   *)
(* The program opens a file only when none is open, reads only from a file *)
(* opened for reading, and switches the module off when no strobe is due:  *)
(* otherwise the code uses a closed file or a null pointer.                *)
(***************************************************************************)
EXTENDS Integers, Sequences, FiniteSets
LOCAL Seqs == INSTANCE SequencesExt

CONSTANTS
  Commands,     \* the commands the program sends: [op, name, to, n]
  Hosts,        \* the file systems of the host at first: entries by path
  Roots,        \* the roots the user attaches; "" detaches
  Switches,     \* TRUE: the program switches the module off and on
  Bytes,        \* the bytes the program writes to a file
  Polls,        \* TRUE: the program polls RXF#; FALSE: it waits for strobes
  MaxCommands,  \* lines, attachments and switchings of a run
  MaxEvents     \* the program reads on when at most so many strobes are due

Nothing == [op |-> "nothing"]
CR == [op |-> "CR"]
Data(b) == [op |-> "data", byte |-> b]
Pad == "ff"

\* What the host keeps under a path.
Entry == [kind : {"file", "dir"}, content : Seq(STRING), writable : BOOLEAN]

VDIPAssumption ==
  /\ Commands \subseteq [op : STRING \ {"data"}, name : STRING, to : STRING, n : Nat]
  /\ \A h \in Hosts : DOMAIN h \subseteq Seq(STRING) /\ h \in [DOMAIN h -> Entry]
  /\ Roots \cup Bytes \subseteq STRING
  /\ {Switches, Polls} \subseteq BOOLEAN
  /\ {MaxCommands, MaxEvents} \subseteq Nat
ASSUME VDIPIsAssumed == VDIPAssumption

VARIABLES
  pio,     \* _pio is set
  ext,     \* _pio_ext: 1 TXE# is low, 2 RXF# is low, 0 neither
  strobes, \* the strobes due on the callback list
  irq,     \* the PIO holds an interrupt for the program
  input,   \* _input_data
  line,    \* _input_buffer
  latch,   \* _output
  output,  \* _output_buffer
  cmd,     \* _cmd; of a WRF also _wrf_len
  root,    \* _root
  dev,     \* _cwd, _file, _short_command_set, _binary_mode, the host's files,
           \* and _response while a command is executed
  program, \* the symbols it still has to send, its place in the handshake,
           \* whether it waits for an answer, and has written to the PIO
  answer,  \* the answer that was made last (history)
  got,     \* what the program got of it (history)
  wrf,     \* the file before the last WRF and what came since (history)
  count    \* the lines, attachments and switchings so far (history)

port == <<pio, ext, strobes, irq>>
buffers == <<input, line, latch, output>>
history == <<answer, got, wrf, count>>
vars == <<port, buffers, cmd, root, dev, program, history>>

NoFile == [path |-> <<>>]
NoCommand == [op |-> "none"]
NoWrf == [path |-> <<>>]

-----------------------------------------------------------------------------
(* Answers.  d is the device with the answer so far.                       *)
Said(d, a) == [d EXCEPT !.answer = @ \o a]
Prompted(d) == Said(d, <<IF d.short THEN ">" ELSE "D:\\>">>)
Failed(d, error) == Said(d, <<error>>)

(* The host: the entry of a path, and what the commands ask of it.         *)
Path(d, name) == <<root>> \o d.cwd \o <<name>>
Exists(d, p) == p \in DOMAIN d.host
IsDir(d, p) == Exists(d, p) /\ d.host[p].kind = "dir"
IsFile(d, p) == Exists(d, p) /\ d.host[p].kind = "file"
Parent(p) == SubSeq(p, 1, Len(p) - 1)
Under(p, q) == Len(q) >= Len(p) /\ SubSeq(q, 1, Len(p)) = p
Children(d, p) == {q \in DOMAIN d.host : Len(q) = Len(p) + 1 /\ Under(p, q)}
Names(d, p) == Seqs!SetToSeq({q[Len(q)] : q \in Children(d, p)})

Made(d, p, entry) ==
  [d EXCEPT !.host = [q \in DOMAIN @ \cup {p} |-> IF q = p THEN entry ELSE @[q]]]
Removed(d, p) == [d EXCEPT !.host = [q \in DOMAIN @ \ {p} |-> @[q]]]
Opened(d, p, mode, pos) ==
  [d EXCEPT !.file = [path |-> p, pos |-> pos, eof |-> FALSE, mode |-> mode]]

\* Mutant of Put: the file grows, whatever its position.
PutAtEnd(d, b) ==
  IF d.file = NoFile \/ d.file.mode = "r" THEN d
  ELSE [d EXCEPT !.host[d.file.path].content = Append(@, b), !.file.pos = @ + 1]

(* A byte written to the open file: nothing if it is open for reading.     *)
Put(d, b) ==
  IF d.file = NoFile \/ d.file.mode = "r" THEN d
  ELSE LET old == d.host[d.file.path].content
           at == d.file.pos + 1
           new == [i \in 1 .. (IF at > Len(old) THEN at ELSE Len(old)) |->
                     IF i = at THEN b ELSE IF i \in DOMAIN old THEN old[i] ELSE "00"]
       IN [d EXCEPT !.host[d.file.path].content = new, !.file.pos = at]
-----------------------------------------------------------------------------
(* The commands.  Each gives the device with its answer.                   *)
Dir(d, c) ==
  LET here == <<root>> \o d.cwd
      told == Said(d, <<"\r">>)
  IN CASE c.name # "" /\ Exists(d, Path(d, c.name)) -> Prompted(Said(told, <<c.name>>))
       [] c.name # "" /\ ~Exists(d, Path(d, c.name)) -> Failed(told, "Command Failed")
       [] c.name = "" /\ IsDir(d, here) -> Prompted(Said(told, Names(d, here)))
       [] OTHER -> told

Cd(d, c) ==
  CASE c.name = "." -> Prompted(d)
    [] c.name = ".." -> Prompted([d EXCEPT !.cwd = IF @ = <<>> THEN @ ELSE Parent(@)])
    [] c.name = "/" -> Prompted([d EXCEPT !.cwd = <<>>])
    [] c.name \notin {".", "..", "/"} /\ Exists(d, Path(d, c.name)) ->
         Prompted([d EXCEPT !.cwd = Append(@, c.name)])
    [] OTHER -> Failed(d, "Command Failed")

Clf(d, c) ==
  IF d.file = NoFile THEN Failed(d, "Command Failed")
  ELSE Prompted([d EXCEPT !.file = NoFile])

Opr(d, c) ==
  LET p == Path(d, c.name)
  IN IF Exists(d, p) THEN Prompted(Opened(d, p, "r", 0)) ELSE Failed(d, "Invalid")

Opw(d, c) ==
  LET p == Path(d, c.name)
  IN CASE IsDir(d, p) -> Failed(d, "Invalid")
       [] IsFile(d, p) /\ ~d.host[p].writable -> Failed(d, "Read Only")
       [] IsFile(d, p) /\ d.host[p].writable ->
            Prompted(Opened(d, p, "w", Len(d.host[p].content)))
       [] ~Exists(d, p) /\ IsDir(d, Parent(p)) ->
            Prompted(Opened(Made(d, p, [kind |-> "file", content |-> <<>>,
                                        writable |-> TRUE]), p, "w", 0))
       [] OTHER -> Failed(d, "Command Failed")

(* A parameter of four bytes is lost when one of them is a space, at which *)
(* the line is split, or a carriage return, at which it ends.              *)
Length(n) == IF n \in {13, 32} THEN 0 ELSE n

Rdf(d, c) ==
  IF d.file = NoFile THEN Failed(d, "Invalid")
  ELSE IF d.file.eof THEN Failed(d, "Command Failed")
  ELSE LET n == Length(c.n)
           content == d.host[d.file.path].content
           left == IF d.file.pos > Len(content) THEN 0 ELSE Len(content) - d.file.pos
           bytes == [i \in 1 .. n |-> IF i <= left THEN content[d.file.pos + i] ELSE Pad]
       IN Prompted(Said([d EXCEPT !.file.pos = IF n <= left THEN @ + n ELSE @ + left,
                                  !.file.eof = n > left /\ IsFile(d, d.file.path)],
                        bytes))

Sek(d, c) ==
  IF d.file = NoFile THEN Failed(d, "Invalid")
  ELSE IF d.file.eof THEN Failed(d, "Command Failed")
  ELSE Prompted([d EXCEPT !.file.pos = Length(c.n)])

(* The data follow; the prompt comes with the last of them.                *)
Wrf(d, c) == IF d.file = NoFile THEN Failed(d, "File Open") ELSE d

Dirt(d, c) ==
  IF Exists(d, Path(d, c.name))
  THEN Prompted(Said(d, <<"\r", c.name>>)) ELSE Failed(d, "Command Failed")

Mkd(d, c) ==
  LET p == Path(d, c.name)
  IN IF d.file # NoFile THEN Failed(d, "File Open")
     ELSE IF Exists(d, p) \/ ~IsDir(d, Parent(p)) THEN Failed(d, "Command Failed")
     ELSE Prompted(Made(d, p, [kind |-> "dir", content |-> <<>>, writable |-> TRUE]))

Dld(d, c) ==
  LET p == Path(d, c.name)
  IN IF d.file # NoFile THEN Failed(d, "File Open")
     ELSE IF ~IsDir(d, p) THEN Failed(d, "Command Failed")
     ELSE IF Children(d, p) # {} THEN Failed(d, "Dir Not Empty")
     ELSE Prompted(Removed(d, p))

Dlf(d, c) ==
  LET p == Path(d, c.name)
  IN IF d.file # NoFile THEN Failed(d, "File Open")
     ELSE IF ~Exists(d, p) \/ ~d.host[p].writable THEN Failed(d, "Read Only")
     ELSE IF IsDir(d, p) THEN Failed(d, "Invalid")
     ELSE Prompted(Removed(d, p))

(* No prompt follows the content; reading a directory gives nothing.       *)
Rd(d, c) ==
  LET p == Path(d, c.name)
  IN IF d.file # NoFile THEN Failed(d, "File Open")
     ELSE IF ~Exists(d, p) THEN Failed(d, "Command Failed")
     ELSE Said(d, d.host[p].content)

Ren(d, c) ==
  LET from == Path(d, c.name)  to == Path(d, c.to)
      moved(q) == IF Under(from, q) THEN to \o SubSeq(q, Len(from) + 1, Len(q)) ELSE q
  IN IF d.file # NoFile THEN Failed(d, "File Open")
     ELSE IF Exists(d, from) /\ ~Exists(d, to) /\ IsDir(d, Parent(to))
     THEN Prompted([d EXCEPT !.host =
            [q \in {moved(r) : r \in DOMAIN @} |->
               @[CHOOSE r \in DOMAIN @ : moved(r) = q]]])
     ELSE Failed(d, "Command Failed")

CommandSet(d, short) == Prompted([d EXCEPT !.short = short])
Mode(d, binary) == Prompted([d EXCEPT !.binary = binary])

(* exec(): nothing is done without a disk.                                 *)
Executed(d, c) ==
  IF root = "" THEN Failed(d, "No Disk") ELSE
  CASE c.op = "DIR" -> Dir(d, c)    [] c.op = "CD" -> Cd(d, c)
    [] c.op = "CLF" -> Clf(d, c)    [] c.op = "OPR" -> Opr(d, c)
    [] c.op = "OPW" -> Opw(d, c)    [] c.op = "RDF" -> Rdf(d, c)
    [] c.op = "SEK" -> Sek(d, c)    [] c.op = "WRF" -> Wrf(d, c)
    [] c.op = "DIRT" -> Dirt(d, c)  [] c.op = "MKD" -> Mkd(d, c)
    [] c.op = "DLD" -> Dld(d, c)    [] c.op = "DLF" -> Dlf(d, c)
    [] c.op = "RD" -> Rd(d, c)      [] c.op = "REN" -> Ren(d, c)
    [] c.op \in {"SCS", "ECS"} -> CommandSet(d, c.op = "SCS")
    [] c.op \in {"IPH", "IPA"} -> Mode(d, c.op = "IPH")
    [] c.op \in {"E", "e"} -> Said(d, <<c.op, "\r">>)
    [] c.op \in {"IDD", "FWV"} -> Prompted(Said(d, <<c.op>>))
    [] c.op = "EMPTY" -> Prompted(d)
    [] OTHER -> Failed(d, "Bad Command")

(* handle_input() of the command that is active: WRF takes a byte; any     *)
(* other takes no notice.  _wrf_len counts down; below 0 it has wrapped.   *)
ByteOf(b) == CASE b.op = "data" -> b.byte [] b = CR -> "0d" [] OTHER -> Pad

Handled(d, b) ==
  IF cmd.op # "WRF" THEN d
  ELSE IF cmd.n = 1 THEN Prompted(Put(d, ByteOf(b))) ELSE Put(d, ByteOf(b))

-----------------------------------------------------------------------------
(* The signals.  An answer replaces what is left of the one before.        *)
\* Mutant of Announce: the strobe is forgotten.
AnnounceQuietly(a, due) ==
  /\ output' = a /\ ext' = 2 /\ strobes' = due
  /\ answer' = a /\ got' = <<>>

Announce(a, due) ==
  /\ output' = a /\ ext' = 2 /\ strobes' = due + 1
  /\ answer' = a /\ got' = <<>>

(* reset(), with _pio set or not: it forgets everything but the command.   *)
Greeting == <<"On-Line">> \o (IF root = "" THEN <<>> ELSE <<"Device Detected">>)
              \o <<"D:\\>">>

Fresh(d) == [d EXCEPT !.cwd = <<>>, !.file = NoFile, !.short = FALSE, !.binary = TRUE]

Program == [send |-> <<>>, step |-> "idle", waits |-> FALSE, started |-> FALSE]

Init ==
  /\ pio = FALSE /\ ext = 0 /\ strobes = 0 /\ irq = FALSE
  /\ input = Nothing /\ line = <<>> /\ latch = Pad
  /\ root \in Roots \ {""} /\ output = Greeting
  /\ cmd = NoCommand
  /\ \E h \in Hosts : dev = [cwd |-> <<>>, file |-> NoFile, short |-> FALSE,
                             binary |-> TRUE, host |-> h, answer |-> <<>>]
  /\ program = Program
  /\ answer = output /\ got = <<>> /\ wrf = NoWrf /\ count = 0

(* The module is switched on or off: the PIO is registered, or taken away. *)
SwitchOn ==
  /\ ~pio /\ pio' = TRUE
  /\ Announce(Greeting, strobes)
  /\ input' = Nothing /\ line' = <<>> /\ latch' = Pad
  /\ dev' = Fresh(dev)
  /\ program' = Program
  /\ irq' = FALSE
  /\ UNCHANGED <<cmd, root, wrf, count>>

SwitchOff ==
  /\ Switches /\ count < MaxCommands /\ count' = count + 1
  /\ pio /\ strobes = 0 /\ program.step = "idle"
  /\ pio' = FALSE /\ ext' = 0 /\ irq' = FALSE
  /\ input' = Nothing /\ line' = <<>> /\ latch' = Pad
  /\ output' = Greeting /\ answer' = Greeting /\ got' = <<>>
  /\ dev' = Fresh(dev)
  /\ UNCHANGED <<strobes, cmd, root, program, wrf>>

(* The user attaches another root, or detaches it: set_root().             *)
SetRoot ==
  /\ count < MaxCommands /\ count' = count + 1
  /\ \E r \in Roots \ {root} :
       /\ root' = r
       /\ IF pio /\ (root = "") # (r = "")
          THEN Announce(<<IF r = "" THEN "Device Removed" ELSE "Device Detected">>, strobes)
          ELSE UNCHANGED <<output, ext, strobes, answer, got>>
  /\ UNCHANGED <<pio, irq, input, line, latch, cmd, dev, program, wrf>>

(* The strobe of the PIO: an interrupt for a program that waits for it.    *)
Strobe ==
  /\ strobes > 0 /\ strobes' = strobes - 1
  /\ irq' = (~Polls /\ pio)
  /\ UNCHANGED <<pio, ext, buffers, cmd, root, dev, program, history>>
-----------------------------------------------------------------------------
(* write_end(): a symbol arrives, and a line is executed at its end.       *)
Arrived(b, due) ==
  LET c == CASE line = <<>> -> [op |-> "EMPTY"]
             [] Len(line) = 1 /\ line[1] \in Commands -> line[1]
             [] OTHER -> [op |-> "UNKNOWN"]
      runs == cmd = NoCommand /\ b = CR
      d == IF cmd # NoCommand THEN Handled(dev, b)
           ELSE IF runs THEN Executed(dev, c) ELSE dev
      active == IF runs THEN IF c.op = "WRF" THEN [op |-> "WRF", n |-> Length(c.n)]
                             ELSE [op |-> c.op]
                ELSE IF cmd.op = "WRF" THEN [cmd EXCEPT !.n = @ - 1] ELSE cmd
  IN /\ dev' = [d EXCEPT !.answer = <<>>]
     /\ IF active # NoCommand /\ d.answer # <<>>
        THEN /\ Announce(d.answer, due)
             /\ line' = <<>> /\ cmd' = NoCommand /\ input' = b
        ELSE /\ line' = IF cmd = NoCommand /\ b \notin {Nothing, CR}
                        THEN Append(line, b) ELSE line
             /\ input' = IF cmd = NoCommand /\ b # CR THEN Nothing ELSE b
             /\ cmd' = active /\ strobes' = due
             /\ UNCHANGED <<output, ext, answer, got>>
     /\ wrf' = IF runs /\ d.file # NoFile /\ c.op = "WRF"
               THEN [path |-> d.file.path, content |-> d.host[d.file.path].content,
                     pos |-> d.file.pos, mode |-> d.file.mode, sent |-> <<>>]
               ELSE IF wrf # NoWrf /\ cmd.op = "WRF"
               THEN [wrf EXCEPT !.sent = Append(@, ByteOf(b))]
               ELSE IF d.file = NoFile THEN NoWrf ELSE wrf

(* The first output to port B changes all its bits: RD# and WR# as well.   *)
Start ==
  /\ pio /\ ~program.started
  /\ program' = [program EXCEPT !.started = TRUE]
  /\ Arrived(input, strobes + 1)
  /\ UNCHANGED <<pio, irq, latch, root, count>>

(* The program reads a byte: RD# falls, the byte is taken, RD# rises.      *)
LatchByte ==
  /\ pio /\ program.started /\ program.step = "idle" /\ ext = 2
  /\ Polls \/ irq
  /\ strobes <= MaxEvents
  /\ program' = [program EXCEPT !.step = "latched"]
  /\ irq' = FALSE
  /\ IF output = <<>> THEN UNCHANGED <<latch, output>>
     ELSE latch' = Head(output) /\ output' = Tail(output)
  /\ UNCHANGED <<pio, ext, strobes, input, line, cmd, root, dev, history>>

ReadByte ==
  /\ program.step = "latched"
  /\ program' = [program EXCEPT !.step = "taken"]
  /\ got' = Append(got, latch) /\ latch' = Pad
  /\ UNCHANGED <<port, input, line, output, cmd, root, dev, answer, wrf, count>>

Errors == {"Bad Command", "Command Failed", "Invalid", "Read Only", "File Open",
           "Dir Not Empty", "No Disk"}
Refused == got # <<>> /\ got[Len(got)] \in Errors

\* Mutant of ReadEnd: the last byte is forgotten.
ReadEndEarly ==
  /\ program.step = "taken"
  /\ IF Len(output) <= 1
     THEN /\ ext' = 1 /\ UNCHANGED strobes
          /\ program' = [program EXCEPT !.step = "idle", !.waits = FALSE]
     ELSE /\ strobes' = strobes + 1 /\ UNCHANGED ext
          /\ program' = [program EXCEPT !.step = "idle"]
  /\ UNCHANGED <<pio, irq, buffers, cmd, root, dev, history>>

ReadEnd ==
  /\ program.step = "taken"
  /\ IF output = <<>>
     THEN /\ ext' = 1 /\ UNCHANGED strobes
          /\ program' = [program EXCEPT !.step = "idle",
               !.waits = @ /\ program.send # <<>> /\ ~Refused,
               !.send = IF Refused THEN <<>> ELSE @]
     ELSE /\ strobes' = strobes + 1 /\ UNCHANGED ext
          /\ program' = [program EXCEPT !.step = "idle"]
  /\ UNCHANGED <<pio, irq, buffers, cmd, root, dev, history>>

(* An interrupt finds nothing to read.                                     *)
Ignore ==
  /\ irq /\ program.step = "idle" /\ ext # 2
  /\ irq' = FALSE
  /\ UNCHANGED <<pio, ext, strobes, buffers, cmd, root, dev, program, history>>

(* The program writes a line, and after a WRF the data: for each symbol    *)
(* WR# rises and falls, while TXE# is low.                                 *)
SendLine ==
  /\ program.started /\ program.step = "idle" /\ ext = 1
  /\ ~program.waits
  /\ count < MaxCommands /\ count' = count + 1
  /\ \E c \in Commands :
       /\ c.op \in {"OPR", "OPW"} => dev.file = NoFile
       /\ c.op = "RDF" /\ dev.file # NoFile => dev.file.mode = "r"
       /\ \E data \in [1 .. (IF c.op = "WRF" THEN c.n ELSE 0) -> Bytes] :
            program' = [program EXCEPT !.waits = TRUE,
              !.send = (IF c.op = "EMPTY" THEN <<CR>>
                        ELSE IF c.n = 13 THEN <<c, CR, CR>> ELSE <<c, CR>>)
                       \o [i \in DOMAIN data |-> Data(data[i])]]
  /\ UNCHANGED <<port, buffers, cmd, root, dev, answer, got, wrf>>

WriteByte ==
  /\ pio /\ program.started /\ program.step = "idle" /\ ext = 1
  /\ program.send # <<>>
  /\ input' = Head(program.send)
  /\ program' = [program EXCEPT !.step = "strobed", !.send = Tail(@)]
  /\ UNCHANGED <<port, line, latch, output, cmd, root, dev, history>>

WriteEnd ==
  /\ program.step = "strobed"
  /\ program' = [program EXCEPT !.step = "idle"]
  /\ Arrived(input, strobes)
  /\ UNCHANGED <<pio, irq, latch, root, count>>

Guest == \/ Start \/ LatchByte \/ ReadByte \/ ReadEnd \/ Ignore
         \/ WriteByte \/ WriteEnd

Next == Guest \/ SendLine \/ Strobe \/ SetRoot \/ SwitchOn \/ SwitchOff

Spec == Init /\ [][Next]_vars

(* A program goes on with the handshake it began, and events come in time. *)
FairSpec == Spec /\ WF_vars(Guest) /\ WF_vars(Strobe)

-----------------------------------------------------------------------------
(* A program that takes all it is offered gets every answer whole and in   *)
(* order before the next begins.                                           *)
TakenWhole == got' = <<>> /\ got # <<>> => got = answer

(* While a file is open, what a WRF wrote to it is there: its bytes, in    *)
(* order, from the place where the file was, and everything else as it was *)
(* before; nothing if the file was opened for reading.                     *)
Overlay(content, pos, sent) ==
  LET end == pos + Len(sent)
  IN [i \in 1 .. (IF sent # <<>> /\ end > Len(content) THEN end ELSE Len(content)) |->
        IF i > pos /\ i <= end THEN sent[i - pos]
        ELSE IF i \in DOMAIN content THEN content[i] ELSE "00"]

WritesLand ==
  wrf # NoWrf /\ dev.file.path = wrf.path =>
    dev.host[wrf.path].content =
      Overlay(wrf.content, wrf.pos, IF wrf.mode = "w" THEN wrf.sent ELSE <<>>)

(* A program that waits for the answer to its line gets one; except that   *)
(* an RD of nothing has no answer, and its command stays for ever.         *)
Answered == program.waits ~> ~program.waits \/ cmd.op = "RD"

(* Whatever the user does with the root, the bytes that wait for a program *)
(* that reads only when it is interrupted are announced until none is left *)
(* or the module is switched off.                                          *)
Announced == pio /\ output # <<>> ~> output = <<>> \/ ~pio
=============================================================================
