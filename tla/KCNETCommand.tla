---------------------------- MODULE KCNETCommand ---------------------------
(***************************************************************************)
(* The commands of the network module of KCemu (src/src/kc/kcnet/          *)
(* kcnet.cc, pio_net.cc): the program on the guest reaches the memory of   *)
(* the network chip through one port, a byte at a time: a command, its     *)
(* arguments, then the data in one direction.                              *)
(*                                                                         *)
(* What the sockets do with the memory is in KCNET.  A command that only   *)
(* answers with a constant is read_link or, with more bytes, read_timer.   *)
(* The program asks for at least one byte, clears the chip with WRITE_BYTE *)
(* and never sends READ_ERROR: with the others the code is stuck in the    *)
(* command, or goes on in one it has deleted.                              *)
(***************************************************************************)
EXTENDS Integers, Sequences

CONSTANTS
  Cells,        \* bytes of the memory
  Values,       \* the bytes the program writes
  MaxCount,     \* bytes of one transfer
  MaxCommands,  \* commands the program sends
  MaxResets     \* resets of the machine

Addresses == 0 .. Cells - 1

KCNETCommandAssumption ==
  /\ {Cells, MaxCount, MaxCommands} \subseteq Nat \ {0} /\ Cells <= 128
  /\ MaxCount <= 255 /\ Values \subseteq 0 .. 255 /\ MaxResets \in Nat

VARIABLES
  cmd,      \* _command: its code, phase, arguments, counter and result
  pointer,  \* _mem_ptr
  mem,      \* _mem
  ip,       \* _ip_addr, of one index
  status,   \* _status
  program,  \* the bytes the program will write and how many it will read
  got,      \* what it has read for its command (history)
  promised, \* the memory, the pointer, the address and the answer that the
            \* command is for (history)
  count     \* commands and resets so far (history)

vars == <<cmd, pointer, mem, ip, status, program, got, promised, count>>
chip == <<pointer, mem, ip, status>>

-----------------------------------------------------------------------------
None == [op |-> "none", phase |-> "finished", args |-> <<>>, left |-> 0, result |-> <<>>]
Codes == {"write_bytes", "read_bytes", "set_pointer", "write_byte", "read_byte",
          "write_ipaddr", "read_ipaddr", "read_link", "read_timer"}
Arguments(op) ==
  CASE op \in {"write_bytes", "read_bytes", "set_pointer", "read_byte"} -> 2
    [] op = "write_byte" -> 3
    [] op = "write_ipaddr" -> 5
    [] op = "read_ipaddr" -> 1
    [] OTHER -> 0

Cleared == [a \in Addresses |-> 0]
Zero == <<0, 0, 0, 0>>
Constant(op) == IF op = "read_link" THEN <<1>> ELSE <<0, 0>>

Init ==
  /\ cmd = None /\ pointer = 0 /\ mem = Cleared /\ ip = Zero /\ status = 0
  /\ program = [out |-> <<>>, in |-> 0]
  /\ got = <<>>
  /\ promised = [mem |-> Cleared, pointer |-> 0, ip |-> Zero, answer |-> <<>>]
  /\ count = [commands |-> 0, resets |-> 0]

(* mem_write: bit 7 of the mode register clears the chip, and the command  *)
(* with it.                                                                *)
Clears(a, v) == a = 0 /\ v >= 128
Store(a, v) ==
  IF Clears(a, v) THEN mem' = Cleared /\ pointer' = 0 /\ status' = 0
  ELSE mem' = [mem EXCEPT ![a] = v] /\ UNCHANGED status

Next16(p) == (p + 1) % Cells

(* A command has its arguments: execute().                                 *)
Execute(op, args) ==
  LET word == (args[1] + 256 * args[2]) % Cells IN
  CASE op = "write_bytes" ->
         /\ cmd' = [cmd EXCEPT !.phase = "write", !.args = args, !.left = args[1] + 256 * args[2]]
         /\ UNCHANGED chip
    [] op = "read_bytes" ->
         /\ cmd' = [cmd EXCEPT !.phase = "read", !.args = args, !.left = args[1] + 256 * args[2]]
         /\ status' = 128 /\ UNCHANGED <<pointer, mem, ip>>
    [] op = "set_pointer" ->
         /\ pointer' = word
         /\ cmd' = [cmd EXCEPT !.phase = "finished", !.args = args]
         /\ UNCHANGED <<mem, ip, status>>
    [] op = "write_byte" ->
         /\ Store(word, args[3])
         /\ IF Clears(word, args[3]) THEN cmd' = None
            ELSE cmd' = [cmd EXCEPT !.phase = "finished", !.args = args] /\ UNCHANGED pointer
         /\ UNCHANGED ip
    [] op = "write_ipaddr" ->
         /\ ip' = IF args[1] < 8 THEN SubSeq(args, 2, 5) ELSE ip
         /\ cmd' = [cmd EXCEPT !.phase = "finished", !.args = args]
         /\ UNCHANGED <<pointer, mem, status>>
    [] op = "read_byte" ->
         /\ cmd' = [cmd EXCEPT !.phase = "read", !.args = args, !.result = <<mem[word]>>]
         /\ status' = 128 /\ UNCHANGED <<pointer, mem, ip>>
    [] op = "read_ipaddr" ->
         /\ cmd' = [cmd EXCEPT !.phase = "read", !.args = args,
                               !.result = IF args[1] < 8 THEN ip ELSE Zero]
         /\ status' = 128 /\ UNCHANGED <<pointer, mem, ip>>

(* A byte for an idle module is a command; an unknown one leaves none.     *)
NewCommand(b) ==
  IF b \notin Codes THEN cmd' = None /\ UNCHANGED chip
  ELSE IF Arguments(b) > 0 THEN cmd' = [None EXCEPT !.op = b, !.phase = "args"] /\ UNCHANGED chip
  ELSE /\ cmd' = [None EXCEPT !.op = b, !.phase = "read", !.result = Constant(b)]
       /\ status' = 128 /\ UNCHANGED <<pointer, mem, ip>>

Argument(b) ==
  LET args == Append(cmd.args, b) IN
  CASE Len(cmd.args) >= Arguments(cmd.op) -> UNCHANGED <<cmd, chip>>
    [] Len(args) < Arguments(cmd.op) -> cmd' = [cmd EXCEPT !.args = args] /\ UNCHANGED chip
    [] OTHER -> Execute(cmd.op, args)

DataByte(b) ==
  IF cmd.left = 0 THEN UNCHANGED <<cmd, chip>>
  ELSE /\ mem' = [mem EXCEPT ![pointer] = b]
       /\ pointer' = Next16(pointer)
       /\ cmd' = [cmd EXCEPT !.left = @ - 1, !.phase = IF cmd.left = 1 THEN "finished" ELSE @]
       /\ UNCHANGED <<ip, status>>

Write(b) ==
  CASE cmd.phase = "finished" -> NewCommand(b)
    [] cmd.phase = "write" -> DataByte(b)
    [] OTHER -> Argument(b)

Read(b) ==
  CASE cmd.op = "read_bytes" /\ cmd.left > 0 ->
         /\ b = mem[pointer]
         /\ pointer' = Next16(pointer)
         /\ cmd' = [cmd EXCEPT !.left = @ - 1, !.phase = IF cmd.left = 1 THEN "finished" ELSE @]
         /\ UNCHANGED <<mem, ip, status>>
    [] cmd.op # "read_bytes" /\ cmd.result # <<>> ->
         /\ b = Head(cmd.result)
         /\ cmd' = [cmd EXCEPT !.result = Tail(@), !.phase = IF Len(cmd.result) = 1 THEN "finished" ELSE @]
         /\ UNCHANGED chip
    [] OTHER -> b = 0 /\ UNCHANGED <<cmd, chip>>

-----------------------------------------------------------------------------
(* The program.  p is what has been promised so far.                       *)
DataOf(n) == [1 .. n -> {v \in Values : v < 128}]

Send(out, in, q) ==
  /\ program = [out |-> <<>>, in |-> 0] /\ count.commands < MaxCommands
  /\ program' = [out |-> out, in |-> in]
  /\ promised' = q /\ got' = <<>>
  /\ count' = [count EXCEPT !.commands = @ + 1]
  /\ UNCHANGED <<cmd, chip>>

Quiet == [promised EXCEPT !.answer = <<>>]
Stored(p, data) ==
  [a \in Addresses |->
     IF \E k \in DOMAIN data : (p + k - 1) % Cells = a
     THEN data[CHOOSE k \in DOMAIN data :
                 (p + k - 1) % Cells = a /\ \A l \in DOMAIN data : (p + l - 1) % Cells = a => l <= k]
     ELSE promised.mem[a]]

SendWrite == \E n \in 1 .. MaxCount : \E data \in DataOf(n) :
  Send(<<"write_bytes", n, 0>> \o data, 0,
       [Quiet EXCEPT !.mem = Stored(promised.pointer, data),
                     !.pointer = (@ + n) % Cells])
SendRead == \E n \in 1 .. MaxCount :
  Send(<<"read_bytes", n, 0>>, n,
       [promised EXCEPT !.answer = [k \in 1 .. n |-> promised.mem[(promised.pointer + k - 1) % Cells]],
                        !.pointer = (@ + n) % Cells])
SendPointer == \E a \in Addresses : Send(<<"set_pointer", a, 0>>, 0, [Quiet EXCEPT !.pointer = a])
SendWriteByte == \E a \in Addresses, v \in Values :
  Send(<<"write_byte", a, 0, v>>, 0,
       IF a = 0 /\ v >= 128 THEN [Quiet EXCEPT !.mem = Cleared, !.pointer = 0]
       ELSE [Quiet EXCEPT !.mem[a] = v])
SendReadByte == \E a \in Addresses :
  Send(<<"read_byte", a, 0>>, 1, [promised EXCEPT !.answer = <<promised.mem[a]>>])
SendAddress == \E v \in Values : LET addr == <<v, 0, 0, 1>> IN
  Send(<<"write_ipaddr", 0>> \o addr, 0, [Quiet EXCEPT !.ip = addr])
SendAsk ==
  \/ Send(<<"read_ipaddr", 0>>, 4, [promised EXCEPT !.answer = promised.ip])
  \/ \E op \in {"read_link", "read_timer"} :
       Send(<<op>>, Len(Constant(op)), [promised EXCEPT !.answer = Constant(op)])

WriteByte ==
  /\ program.out # <<>>
  /\ Write(Head(program.out))
  /\ program' = [program EXCEPT !.out = Tail(@)]
  /\ UNCHANGED <<got, promised, count>>
ReadByte ==
  /\ program.out = <<>> /\ program.in > 0 /\ status = 128
  /\ \E b \in 0 .. 255 : Read(b) /\ got' = Append(got, b)
  /\ program' = [program EXCEPT !.in = @ - 1]
  /\ UNCHANGED <<promised, count>>

\* Mutant of Dropped: the command survives the reset.
DroppedNever == UNCHANGED cmd
Dropped == cmd' = None

(* The machine is reset: the program starts again, the chip keeps its      *)
(* memory.                                                                 *)
Reset ==
  /\ count.resets < MaxResets
  /\ Dropped /\ pointer' = 0 /\ status' = 0
  /\ program' = [out |-> <<>>, in |-> 0] /\ got' = <<>>
  /\ promised' = [mem |-> mem, pointer |-> 0, ip |-> ip, answer |-> <<>>]
  /\ count' = [count EXCEPT !.resets = @ + 1]
  /\ UNCHANGED <<mem, ip>>

Next ==
  \/ SendWrite \/ SendRead \/ SendPointer \/ SendWriteByte \/ SendReadByte
  \/ SendAddress \/ SendAsk
  \/ WriteByte \/ ReadByte
  \/ Reset
Spec == Init /\ [][Next]_vars

-----------------------------------------------------------------------------
AtCommand == program.out = <<>> /\ program.in = 0

(* The module and the program agree where they are: when the program is    *)
(* between two commands the module waits for one, so a byte of data is     *)
(* never taken for a command nor a command for data, whatever the machine  *)
(* was doing when it was reset.                                            *)
InStep ==
  /\ AtCommand => cmd.phase = "finished"
  /\ program.in > 0 /\ program.out = <<>> => cmd.phase = "read"

(* A command does what it is for, however many bytes it takes: the memory, *)
(* the pointer and the answer are those of one step, and in step it stays. *)
CommandsAreSteps ==
  /\ InStep
  /\ AtCommand =>
       /\ mem = promised.mem /\ pointer = promised.pointer /\ ip = promised.ip
       /\ got = promised.answer
=============================================================================
