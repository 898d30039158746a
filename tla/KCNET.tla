------------------------------- MODULE KCNET -------------------------------
(***************************************************************************)
(* The network module of KCemu (src/src/kc/kcnet/kcnet.cc, tcp.cc, udp.cc, *)
(* socket.cc): the sockets of the network chip.  The program on the guest  *)
(* writes commands into the registers of a socket and copies data from and *)
(* to its two rings in the memory of the chip; an event on the callback    *)
(* list moves data between the rings and the sockets of the host.          *)
(*                                                                         *)
(* A register keeps its value, the bytes of both rings one memory; the     *)
(* interrupt register, addresses and ports are left out, and raw IP too.   *)
(* The guest's read pointer counts modulo the ring, which divides 2^16.    *)
(* A command with what belongs to it, the copying and the pointers, is one *)
(* step: the event does not touch what it uses.  The program clears the    *)
(* chip after a reset of the machine before it uses it, takes what it has  *)
(* received before it closes a socket (CLOSE keeps the register with the   *)
(* received size), and closes a socket before it opens it again.           *)
(***************************************************************************)
EXTENDS Integers, Sequences, TLC
LOCAL Seqs == INSTANCE SequencesExt

CONSTANTS
  N,            \* sockets
  Ring,         \* bytes of a ring
  Kinds,        \* the protocols the program uses: "tcp", "udp"
  Chunk,        \* the host's peers send at most so many bytes at once
  MaxBytes,     \* bytes a peer sends on a connection
  MaxSent,      \* bytes the program sends on a connection
  MaxOpens,     \* times the program opens a socket
  MaxResets     \* resets

Sockets == 0 .. N - 1

KCNETAssumption ==
  /\ {N, Ring, Chunk, MaxBytes, MaxSent, MaxOpens} \subseteq Nat \ {0}
  /\ Chunk < Ring /\ MaxSent <= 2 * Ring
  /\ Kinds \subseteq {"tcp", "udp"}
  /\ MaxResets \in Nat

VARIABLES
  sock,    \* per socket: its registers, the pointers of the code, its object
  mem,     \* _mem: the rings for sending, then those for receiving
  trains,  \* the events of the module on the callback list
  host,    \* per socket: the peer on the host's side, what is on its way
  guest,   \* per socket: what the program sees of its connection (history)
  up,      \* the program has cleared the chip since the machine was reset
  resets   \* resets so far (history)

vars == <<sock, mem, trains, host, guest, up, resets>>

-----------------------------------------------------------------------------
TxBase(i) == i * Ring
RxBase(i) == (N + i) * Ring
Addresses == 0 .. 2 * N * Ring - 1

(* A place of the ring at base, and a memory with data written from there. *)
At(base, pointer) == base + (pointer % Ring)
Written(m, base, pointer, data) ==
  [a \in {At(base, pointer + k) : k \in 0 .. Len(data) - 1} |->
     data[((a - base - pointer) % Ring) + 1]] @@ m

Header == -1      \* the eight bytes before a datagram
Closed == [sr |-> "closed", rsize |-> 0, rxrd |-> 0, wr |-> 0]
NoObject == [kind |-> "none", fd |-> FALSE, pend |-> <<>>]
NoPeer == [peer |-> "none", inbox |-> <<>>, sent |-> <<>>, taken |-> <<>>]
Unused == [open |-> FALSE, kind |-> "none", opens |-> 0, read |-> <<>>, put |-> <<>>]

(* The bytes of socket i that wait for the program, and what a chunk of    *)
(* the host looks like to it.                                              *)
Unread(i) == [k \in 1 .. sock[i].rsize |-> mem[At(RxBase(i), sock[i].rxrd + k - 1)]]
Wire(kind, chunk) == IF kind = "udp" THEN <<Header>> \o chunk ELSE chunk

(* A socket without its object, and one that has just got one.             *)
Released(s) == NoObject @@ s
Created(s, kind) ==
  [s EXCEPT !.kind = kind, !.fd = TRUE, !.pend = <<>>, !.rptr = 0, !.oldw = 0]

Init ==
  /\ sock = [i \in Sockets |-> NoObject @@ Closed @@ [rptr |-> 0, oldw |-> 0]]
  /\ mem = [a \in Addresses |-> 0]
  /\ trains = 1 /\ up = FALSE /\ resets = 0
  /\ host = [i \in Sockets |-> NoPeer]
  /\ guest = [i \in Sockets |-> Unused]

-----------------------------------------------------------------------------
(* The event.  r is what it works on, stop that it has returned.           *)

(* TCP::is_open: the code connects each time it asks.                      *)
IsOpen(s, h) == s.kind = "udp" \/ (s.fd /\ h.peer \in {"up", "closed"})
Refused(s, h) == s.kind = "tcp" /\ h.peer = "refused"

(* TCP::poll and UDP::poll, of a socket that is open.                      *)
Polled(s, h) ==
  CASE s.pend # <<>> -> [s |-> s, h |-> h]
    [] s.pend = <<>> /\ h.inbox # <<>> ->
         [s |-> [s EXCEPT !.pend = Wire(s.kind, Head(h.inbox))],
          h |-> [h EXCEPT !.inbox = Tail(@)]]
    [] OTHER -> [s |-> [s EXCEPT !.fd = @ /\ h.peer # "closed"], h |-> h]

\* Mutant of Stored: the pointer does not come back to the start of the ring.
StoredPast(r, i) ==
  LET s == r.sock[i] IN
  [r EXCEPT
     !.sock[i] = [s EXCEPT !.pend = <<>>, !.rsize = Len(s.pend),
                           !.rptr = (@ + Len(s.pend)) % (Ring + 1)],
     !.mem = Written(@, RxBase(i), s.rptr, s.pend)]

(* The data go into the ring, at the code's pointer.                       *)
Stored(r, i) ==
  LET s == r.sock[i] IN
  [r EXCEPT
     !.sock[i] = [s EXCEPT !.pend = <<>>, !.rsize = Len(s.pend),
                           !.rptr = (@ + Len(s.pend)) % Ring],
     !.mem = Written(@, RxBase(i), s.rptr, s.pend)]

Established(s) == [s EXCEPT !.sr = IF @ = "init" THEN "established" ELSE @]

\* Mutant of NotOpen: the sockets after it are not looked at.
NotOpenStops(r, i) ==
  [r EXCEPT !.sock[i].fd = @ /\ ~Refused(r.sock[i], r.host[i]), !.stop = TRUE]

(* A connection that was refused is closed, the loop goes on.              *)
NotOpen(r, i) == [r EXCEPT !.sock[i].fd = @ /\ ~Refused(r.sock[i], r.host[i])]

(* What the loop does for a socket.                                        *)
Served(r, i) ==
  LET s == Established(r.sock[i])
      p == Polled(s, r.host[i])
      q == [r EXCEPT !.sock[i] = p.s, !.host[i] = p.h] IN
  IF r.stop \/ s.kind = "none" THEN r
  ELSE IF ~IsOpen(s, r.host[i]) THEN NotOpen(r, i)
  ELSE IF s.rsize # 0 THEN [q EXCEPT !.stop = TRUE]
  ELSE IF p.s.pend = <<>> THEN q ELSE Stored(q, i)

(* The code goes over the sockets four times.  (The set of one element     *)
(* makes TLC evaluate each step once.)                                     *)
Loop ==
  LET after[k \in 0 .. 4 * N] ==
        IF k = 0 THEN [sock |-> sock, mem |-> mem, host |-> host, stop |-> FALSE]
        ELSE CHOOSE r \in {Served(q, (k - 1) % N) : q \in {after[k - 1]}} : TRUE IN
  after[4 * N]

Callback ==
  /\ trains > 0
  /\ \E r \in {Loop} : sock' = r.sock /\ mem' = r.mem /\ host' = r.host
  /\ UNCHANGED <<trains, guest, up, resets>>

-----------------------------------------------------------------------------
(* The commands of the program.                                            *)

Open(i, kind) ==
  /\ up /\ ~guest[i].open /\ guest[i].opens < MaxOpens
  /\ sock' = [sock EXCEPT ![i].sr = IF kind = "tcp" THEN "init" ELSE "udp", ![i].rxrd = 0]
  /\ guest' = [guest EXCEPT ![i] = [Unused EXCEPT !.open = TRUE, !.kind = kind,
                                                  !.opens = guest[i].opens + 1]]
  /\ UNCHANGED <<mem, trains, host, up, resets>>

Connect(i) ==
  /\ up /\ guest[i].open /\ sock[i].sr = "init" /\ sock[i].kind = "none"
  /\ sock' = [sock EXCEPT ![i] = Created(@, "tcp")]
  /\ host' = [host EXCEPT ![i] = [NoPeer EXCEPT !.peer = "connecting"]]
  /\ UNCHANGED <<mem, trains, guest, up, resets>>

(* SEND is done: the next one starts where this one ended.                 *)
Taken(s, pointer) == [s EXCEPT !.oldw = pointer]

(* The program copies n bytes into its ring and sends them.  A datagram    *)
(* needs no connection: the first one makes the host's socket.  The code   *)
(* reads past the end of the ring where the program went on at its start.  *)
(* Without a socket of the host the bytes go to descriptor 0.              *)
Send(i, n) ==
  LET data == [k \in 1 .. n |-> 1000 + 100 * guest[i].opens + Len(guest[i].put) + k]
      filled == Written(mem, TxBase(i), sock[i].wr, data)
      pointer == sock[i].wr + n
      s == IF sock[i].kind = "none" THEN Created(sock[i], "udp") ELSE sock[i]
      h == IF sock[i].kind = "none" THEN [NoPeer EXCEPT !.peer = "up"] ELSE host[i]
      bytes == [k \in 1 .. pointer - s.oldw |-> filled[TxBase(i) + s.oldw + k - 1]] IN
  /\ up /\ guest[i].open /\ sock[i].sr \in {"established", "udp"}
  /\ pointer <= MaxSent
  /\ mem' = filled
  /\ sock' = [sock EXCEPT ![i] = Taken([s EXCEPT !.wr = pointer], pointer)]
  /\ host' = [host EXCEPT ![i] = IF s.fd THEN [h EXCEPT !.taken = @ \o bytes] ELSE h]
  /\ guest' = [guest EXCEPT ![i].put = IF s.fd THEN @ \o data ELSE @]
  /\ UNCHANGED <<trains, up, resets>>

(* The program copies what has been received and frees it with RECV.       *)
Receive(i) ==
  /\ up /\ guest[i].open /\ sock[i].rsize > 0
  /\ guest' = [guest EXCEPT ![i].read = @ \o Unread(i)]
  /\ sock' = [sock EXCEPT ![i].rsize = 0, ![i].rxrd = (@ + sock[i].rsize) % Ring]
  /\ UNCHANGED <<mem, trains, host, up, resets>>

Close(i) ==
  /\ up /\ guest[i].open /\ sock[i].rsize = 0
  /\ sock' = [sock EXCEPT ![i] = [Released(@) EXCEPT
                 !.sr = "closed", !.wr = IF sock[i].kind = "none" THEN @ ELSE 0]]
  /\ host' = [host EXCEPT ![i] = NoPeer]
  /\ guest' = [guest EXCEPT ![i].open = FALSE]
  /\ UNCHANGED <<mem, trains, up, resets>>

(* A reset of the machine keeps the memory of the chip; the program clears *)
(* it with bit 7 of the mode register.  Each puts an event on the callback *)
(* list and takes none off.                                                *)
Disconnected ==
  /\ trains' = trains + 1
  /\ host' = [i \in Sockets |-> NoPeer]
  /\ guest' = [i \in Sockets |-> [guest[i] EXCEPT !.open = FALSE]]
Reset ==
  /\ resets < MaxResets /\ resets' = resets + 1
  /\ sock' = [i \in Sockets |-> Released(sock[i])]
  /\ up' = FALSE
  /\ Disconnected
  /\ UNCHANGED mem
SoftReset ==
  /\ \/ ~up /\ UNCHANGED resets
     \/ resets < MaxResets /\ resets' = resets + 1
  /\ sock' = [i \in Sockets |-> Closed @@ Released(sock[i])]
  /\ mem' = [a \in Addresses |-> 0]
  /\ up' = TRUE
  /\ Disconnected

-----------------------------------------------------------------------------
(* The peers on the host's side.                                           *)
Answer(i) ==
  /\ host[i].peer = "connecting"
  /\ \E p \in {"up", "refused"} : host' = [host EXCEPT ![i].peer = p]
  /\ UNCHANGED <<sock, mem, trains, guest, up, resets>>
PeerSends(i) ==
  /\ host[i].peer = "up"
  /\ \E n \in 1 .. Chunk :
       LET from == 100 * guest[i].opens + Len(host[i].sent)
           chunk == [k \in 1 .. n |-> from + k] IN
       /\ Len(host[i].sent) + n <= MaxBytes
       /\ host' = [host EXCEPT ![i].inbox = Append(@, chunk),
                               ![i].sent = @ \o Wire(sock[i].kind, chunk)]
  /\ UNCHANGED <<sock, mem, trains, guest, up, resets>>
PeerCloses(i) ==
  /\ host[i].peer = "up" /\ sock[i].kind = "tcp"
  /\ host' = [host EXCEPT ![i].peer = "closed"]
  /\ UNCHANGED <<sock, mem, trains, guest, up, resets>>

Program(i) ==
  \/ \E kind \in Kinds : Open(i, kind)
  \/ Connect(i)
  \/ \E n \in 1 .. Chunk : Send(i, n)
  \/ Receive(i)
  \/ Close(i)
Peer(i) == Answer(i) \/ PeerSends(i) \/ PeerCloses(i)
Next == Callback \/ Reset \/ SoftReset \/ \E i \in Sockets : Program(i) \/ Peer(i)

(* The event is on the callback list with a time, so it is called; the     *)
(* program reads what it sees has been received.                           *)
Fairness == WF_vars(Callback) /\ \A i \in Sockets : WF_vars(Receive(i))
Spec == Init /\ [][Next]_vars
FairSpec == Spec /\ Fairness

-----------------------------------------------------------------------------
Coming(i) == Seqs!FoldLeft(LAMBDA a, c : a \o Wire(sock[i].kind, c), <<>>, host[i].inbox)

(* What a peer sends reaches the program once and in order: what it has    *)
(* read, what waits in its ring, what the host's socket holds and what is  *)
(* on its way are together what was sent, also when the ring starts again, *)
(* when several sockets are served and when a socket is opened again.      *)
ReceivedInOrder ==
  \A i \in Sockets : guest[i].open =>
    guest[i].read \o Unread(i) \o sock[i].pend \o Coming(i) = host[i].sent

(* The peer gets what the program sends on a connection, once and in       *)
(* order, as long as it fits into the ring (SEND reads on past its end).   *)
SentInOrder ==
  \A i \in Sockets : guest[i].open /\ sock[i].wr <= Ring => host[i].taken = guest[i].put

(* Both directions, for the rings of every socket.                         *)
DataInOrder == ReceivedInOrder /\ SentInOrder

(* No socket starves behind another: as long as the program reads what it  *)
(* gets, it again and again has all a socket's peer has sent.              *)
AllRead(i) == guest[i].open => guest[i].read = host[i].sent
EverySocketServed == \A i \in Sockets : []<>AllRead(i)
=============================================================================
