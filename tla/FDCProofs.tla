----------------------------- MODULE FDCProofs -----------------------------
(***************************************************************************)
(* Theorems about FDC, for any disks, any guests and any number of waiting *)
(* events: what TLC checks of a result phase, of the busy bits and of the  *)
(* sectors written, on disks of four sectors.                              *)
(***************************************************************************)
EXTENDS FDC, TLAPS

-----------------------------------------------------------------------------
(* The phases.                                                             *)

\* A command is there until its last result is read, and has given none before the result
\* phase.
PhaseInv ==
  /\ machine \in DOMAIN Guests
  /\ cmd \in Commands \cup {"none"}
  /\ r \in Nat
  /\ state \in {"IDLE", "COMMAND", "DATA", "RESULT"}
  /\ state \in {"COMMAND", "DATA"} => cmd # "none" /\ r = 0
  /\ state = "RESULT" => cmd # "none" /\ r < Results[cmd]

LEMMA KnownCommands ==
  ASSUME PhaseInv
  PROVE  Commands \subseteq DOMAIN Args
BY FDCAssumption DEF PhaseInv, Commands

\* The commands and their results.
LEMMA ResultsAreNumbers ==
  ASSUME NEW c \in DOMAIN Args
  PROVE  /\ Results[c] \in Nat
         /\ c # "none"
         /\ c \in Transfers => Results[c] > 0
BY DEF Args, Results, Transfers

\* A command that has given no result may end.
LEMMA FinishKeeps ==
  ASSUME PhaseInv, NEW c \in Commands, Finish(c), machine' = machine, cmd' = c, r' = 0
  PROVE  PhaseInv'
<1>1. c \in DOMAIN Args
  BY KnownCommands
<1>2. Results[c] \in Nat /\ c # "none"
  BY <1>1, ResultsAreNumbers
<1>. QED
  BY <1>2 DEF PhaseInv, Finish, SetState, Commands

LEMMA PhaseInvKept ==
  ASSUME PhaseInv, [Next]_vars
  PROVE  PhaseInv'
<1>. USE DEF PhaseInv, Commands
<1>a. \A c \in Commands : c \in DOMAIN Args /\ c # "none" /\ Results[c] \in Nat
  BY KnownCommands, ResultsAreNumbers
<1>b. \A c \in Commands : c \in Transfers => Results[c] > 0
  BY KnownCommands, ResultsAreNumbers
<1>1. ASSUME UNCHANGED <<machine, cmd, r, state>>
      PROVE  PhaseInv'
  BY <1>1
<1>2. ASSUME NEW c \in Commands, Command(c)
      PROVE  PhaseInv'
  BY <1>a, <1>2 DEF Command, SetState, drives
<1>3. CASE Argument
  BY <1>1, <1>3 DEF Argument, drives
<1>4. CASE ReadResult
  <2>1. Results[cmd] \in Nat /\ UNCHANGED <<machine, cmd>> /\ r' = r + 1
    BY <1>a, <1>4 DEF ReadResult, drives
  <2>2. CASE r + 1 >= Results[cmd]
    BY <1>4, <2>1, <2>2 DEF ReadResult, SetState
  <2>3. CASE ~(r + 1 >= Results[cmd])
    <3>1. UNCHANGED state /\ r + 1 < Results[cmd]
      BY <1>4, <2>1, <2>3 DEF ReadResult
    <3>2. state = "RESULT"
      BY <1>4 DEF ReadResult
    <3>. QED
      BY <2>1, <3>1, <3>2
  <2>. QED
    BY <2>2, <2>3
<1>5. ASSUME NEW c \in Commands, NEW a, Move(c, a) \/ Simple(c, a)
      PROVE  PhaseInv'
  <2>1. cmd' = c /\ r' = 0 /\ machine' = machine /\ Finish(c)
    BY <1>5 DEF Move, Simple, LastByte
  <2>. QED
    BY <2>1, FinishKeeps
<1>6. ASSUME NEW c \in Commands, NEW a, FetchFirst(c, a) \/ Accept(c, a)
      PROVE  PhaseInv'
  <2>1. cmd' = c /\ r' = 0 /\ machine' = machine
    BY <1>6 DEF FetchFirst, Accept, LastByte
  <2>2. CASE Finish(c)
    BY <2>1, <2>2, FinishKeeps
  <2>3. CASE state' = "DATA"
    BY <1>a, <2>1, <2>3
  <2>. QED
    BY <1>6, <2>2, <2>3 DEF FetchFirst, Accept, SetState
<1>7. ASSUME state = "DATA", UNCHANGED <<machine, cmd, r>>, Finish(cmd) \/ UNCHANGED state
      PROVE  PhaseInv'
  <2>1. CASE Finish(cmd)
    BY <1>7, <2>1, FinishKeeps
  <2>2. CASE UNCHANGED state
    BY <1>1, <1>7, <2>2
  <2>. QED
    BY <1>7, <2>1, <2>2
<1>8. CASE Byte
  <2>1. CASE ReadByte \/ ReadNothing
    BY <1>7, <2>1 DEF ReadByte, ReadNothing, drives
  <2>2. ASSUME NEW v \in Data, WriteByte(v) \/ ScanByte(v)
        PROVE  PhaseInv'
    BY <1>7, <2>2 DEF WriteByte, ScanByte, drives
  <2>3. ASSUME NEW c, NEW s, NEW v, FormatByte(c, s, v)
        PROVE  PhaseInv'
    BY <1>7, <2>3 DEF FormatByte
  <2>. QED
    BY <1>8, <2>1, <2>2, <2>3 DEF Byte
<1>9. CASE Terminal
  <2>1. CASE TerminalPort \/ TerminalBoth
    BY <1>b, <2>1 DEF TerminalPort, TerminalBoth, Expected, SetState, drives
  <2>2. CASE AbandonPort
    BY <2>2 DEF AbandonPort, SetState, drives
  <2>3. ASSUME NEW level \in BOOLEAN, TerminalCount(level)
        PROVE  PhaseInv'
    <3>1. CASE ~level
      BY <1>1, <2>3, <3>1 DEF TerminalCount, drives
    <3>2. CASE level
      <4>1. cmd \in Commands /\ cmd # "none" /\ r = 0 /\ Finish(cmd)
        BY <1>a, <2>3, <3>2 DEF TerminalCount, Expected, Transfers
      <4>. QED
        BY <2>3, <4>1, FinishKeeps DEF TerminalCount, drives
    <3>. QED
      BY <3>1, <3>2
  <2>. QED
    BY <1>9, <2>1, <2>2, <2>3 DEF Terminal
<1>10. CASE Timed
  BY <1>1, <1>10 DEF Timed, SeekCallback, IndexCallback, phases, drives
<1>11. CASE Reset
  BY <1>11 DEF Reset, Fresh
<1>12. ASSUME NEW us, DriveSelect(us) \/ Attach(us)
       PROVE  PhaseInv'
  BY <1>1, <1>12 DEF DriveSelect, Attach, phases, drives
<1>13. CASE UNCHANGED vars
  BY <1>1, <1>13 DEF vars, phases, drives
<1>14. CASE Guest
  <2>1. ASSUME NEW c \in Commands, NEW u, NEW cyl, NEW s, NEW e,
               LET a == [unit |-> u, cyl |-> cyl, sec |-> s, eot |-> e]
               IN  \/ Move(c, a) \/ Simple(c, a) \/ FetchFirst(c, a)
                   \/ (c = "WRITE" => s = e) /\ Accept(c, a)
        PROVE  PhaseInv'
    BY <1>5, <1>6, <2>1
  <2>. QED
    BY ONLY <1>14, <1>2, <1>3, <1>4, <1>8, <2>1, ZenonT(60) DEF Guest
<1>. QED
  BY <1>9, <1>10, <1>11, <1>12, <1>13, <1>14 DEF Next

\* A result phase has a result left to read, whatever the terminal counts of the machines
\* and the ends of the commands do: the controller always hears the next command.
THEOREM ResultsComplete == Spec => []ResultComplete
<1>1. Init => PhaseInv
  BY DEF Init, PhaseInv, Commands
<1>2. PhaseInv /\ [Next]_vars => PhaseInv'
  BY PhaseInvKept
<1>3. PhaseInv => ResultComplete
  BY DEF PhaseInv, ResultComplete
<1>. QED
  BY <1>1, <1>2, <1>3, PTL DEF Spec

-----------------------------------------------------------------------------
(* Seeks.                                                                  *)

\* A drive's busy bit counts its seek events, unless the guest formats: of a seek of a drive
\* that is seeking only FORMAT is capable.
Counted ==
  /\ busy \subseteq Units
  /\ seeks \in [SeekEvent -> Nat]
  /\ \A u \in Units : seeks[<<u, TRUE>>] + seeks[<<u, FALSE>>] = IF u \in busy THEN 1 ELSE 0
SeekInv == PhaseInv /\ ("FORMAT" \notin Commands => Counted)

LEMMA SeekEvents ==
  ASSUME NEW u \in Units, NEW ok \in BOOLEAN
  PROVE  <<u, ok>> \in SeekEvent
BY DEF SeekEvent

\* One more event, and the busy bit is set.
LEMMA CountedUp ==
  ASSUME Counted, NEW u \in Units, u \notin busy, NEW ok \in BOOLEAN,
         seeks' = [seeks EXCEPT ![<<u, ok>>] = @ + 1], busy' = busy \cup {u}
  PROVE  Counted'
<1>1. <<u, ok>> \in SeekEvent
  BY SeekEvents
<1>2. seeks' \in [SeekEvent -> Nat] /\ busy' \subseteq Units
  BY <1>1 DEF Counted
<1>3. ASSUME NEW x \in Units
      PROVE  seeks'[<<x, TRUE>>] + seeks'[<<x, FALSE>>] = IF x \in busy' THEN 1 ELSE 0
  <2>1. <<x, TRUE>> \in SeekEvent /\ <<x, FALSE>> \in SeekEvent
    BY SeekEvents
  <2>2. /\ seeks[<<x, TRUE>>] \in Nat /\ seeks[<<x, FALSE>>] \in Nat
        /\ seeks[<<x, TRUE>>] + seeks[<<x, FALSE>>] = IF x \in busy THEN 1 ELSE 0
    BY <2>1 DEF Counted
  <2>3. CASE x # u
    <3>1. <<u, ok>> # <<x, TRUE>> /\ <<u, ok>> # <<x, FALSE>>
      BY <2>3
    <3>2. seeks'[<<x, TRUE>>] = seeks[<<x, TRUE>>] /\ seeks'[<<x, FALSE>>] = seeks[<<x, FALSE>>]
      BY <2>1, <3>1 DEF Counted
    <3>. QED
      BY <2>2, <2>3, <3>2
  <2>4. CASE x = u
    <3>. SUFFICES seeks'[<<u, TRUE>>] + seeks'[<<u, FALSE>>] = IF u \in busy' THEN 1 ELSE 0
      BY <2>4
    <3>0. u \in busy'
      OBVIOUS
    <3>1. seeks[<<u, TRUE>>] = 0 /\ seeks[<<u, FALSE>>] = 0
      BY <2>2, <2>4
    <3>2. <<u, TRUE>> # <<u, FALSE>>
      OBVIOUS
    <3>3. CASE ok = TRUE
      <4>1. seeks'[<<u, TRUE>>] = seeks[<<u, TRUE>>] + 1 /\ seeks'[<<u, FALSE>>] = seeks[<<u, FALSE>>]
        BY <2>1, <2>4, <3>2, <3>3 DEF Counted
      <4>. QED
        BY ONLY <3>1, <3>0, <4>1
    <3>4. CASE ok = FALSE
      <4>1. seeks'[<<u, FALSE>>] = seeks[<<u, FALSE>>] + 1 /\ seeks'[<<u, TRUE>>] = seeks[<<u, TRUE>>]
        BY <2>1, <2>4, <3>2, <3>4 DEF Counted
      <4>. QED
        BY ONLY <3>1, <3>0, <4>1
    <3>. QED
      BY <3>3, <3>4
  <2>. QED
    BY <2>3, <2>4
<1>. QED
  BY <1>2, <1>3 DEF Counted

\* One event less, and the busy bit is reset.
LEMMA CountedDown ==
  ASSUME Counted, NEW u \in Units, NEW ok \in BOOLEAN, seeks[<<u, ok>>] > 0,
         seeks' = [seeks EXCEPT ![<<u, ok>>] = @ - 1], busy' = busy \ {u}
  PROVE  Counted'
<1>1. <<u, ok>> \in SeekEvent
  BY SeekEvents
<1>2. seeks' \in [SeekEvent -> Nat] /\ busy' \subseteq Units
  BY <1>1 DEF Counted
<1>3. ASSUME NEW x \in Units
      PROVE  seeks'[<<x, TRUE>>] + seeks'[<<x, FALSE>>] = IF x \in busy' THEN 1 ELSE 0
  <2>1. <<x, TRUE>> \in SeekEvent /\ <<x, FALSE>> \in SeekEvent
    BY SeekEvents
  <2>2. /\ seeks[<<x, TRUE>>] \in Nat /\ seeks[<<x, FALSE>>] \in Nat
        /\ seeks[<<x, TRUE>>] + seeks[<<x, FALSE>>] = IF x \in busy THEN 1 ELSE 0
    BY <2>1 DEF Counted
  <2>3. CASE x # u
    <3>1. <<u, ok>> # <<x, TRUE>> /\ <<u, ok>> # <<x, FALSE>>
      BY <2>3
    <3>2. seeks'[<<x, TRUE>>] = seeks[<<x, TRUE>>] /\ seeks'[<<x, FALSE>>] = seeks[<<x, FALSE>>]
      BY <2>1, <3>1 DEF Counted
    <3>. QED
      BY <2>2, <2>3, <3>2
  <2>4. CASE x = u
    <3>. SUFFICES seeks'[<<u, TRUE>>] + seeks'[<<u, FALSE>>] = IF u \in busy' THEN 1 ELSE 0
      BY <2>4
    <3>0. u \notin busy'
      OBVIOUS
    <3>00. /\ seeks[<<u, TRUE>>] \in Nat /\ seeks[<<u, FALSE>>] \in Nat
           /\ seeks[<<u, TRUE>>] + seeks[<<u, FALSE>>] \in {0, 1}
      BY <2>2, <2>4
    <3>1. <<u, TRUE>> # <<u, FALSE>>
      OBVIOUS
    <3>2. CASE ok = TRUE
      <4>1. seeks'[<<u, TRUE>>] = seeks[<<u, TRUE>>] - 1 /\ seeks'[<<u, FALSE>>] = seeks[<<u, FALSE>>]
        BY <2>1, <2>4, <3>1, <3>2 DEF Counted
      <4>2. seeks[<<u, TRUE>>] > 0
        BY <3>2
      <4>. QED
        BY ONLY <3>0, <3>00, <4>1, <4>2
    <3>3. CASE ok = FALSE
      <4>1. seeks'[<<u, FALSE>>] = seeks[<<u, FALSE>>] - 1 /\ seeks'[<<u, TRUE>>] = seeks[<<u, TRUE>>]
        BY <2>1, <2>4, <3>1, <3>3 DEF Counted
      <4>2. seeks[<<u, FALSE>>] > 0
        BY <3>3
      <4>. QED
        BY ONLY <3>0, <3>00, <4>1, <4>2
    <3>. QED
      BY <3>2, <3>3
  <2>. QED
    BY <2>3, <2>4
<1>. QED
  BY <1>2, <1>3 DEF Counted

\* FDC::seek of a drive that is not seeking.
LEMMA SeekCounted ==
  ASSUME Counted, NEW u \in Units, u \notin busy, NEW c, NEW s, Seek(u, c, s)
  PROVE  Counted'
<1>1. CASE u \in inserted
  <2>1. (u \in inserted) = TRUE
    BY <1>1
  <2>2. seeks' = [seeks EXCEPT ![<<u, TRUE>>] = @ + 1] /\ busy' = busy \cup {u}
    BY <2>1 DEF Seek, AddSeek
  <2>. QED
    BY <2>2, CountedUp
<1>2. CASE u \notin inserted
  <2>1. (u \in inserted) = FALSE
    BY <1>2
  <2>2. seeks' = [seeks EXCEPT ![<<u, FALSE>>] = @ + 1] /\ busy' = busy \cup {u}
    BY <2>1 DEF Seek, AddSeek
  <2>. QED
    BY <2>2, CountedUp
<1>. QED
  BY <1>1, <1>2

\* No event waits.
LEMMA NothingCounted ==
  ASSUME NEW none, none = [e \in SeekEvent |-> 0]
  PROVE  /\ none \in [SeekEvent -> Nat]
         /\ \A u \in Units : none[<<u, TRUE>>] + none[<<u, FALSE>>] = 0
<1>1. none \in [SeekEvent -> Nat]
  OBVIOUS
<1>2. ASSUME NEW u \in Units
      PROVE  none[<<u, TRUE>>] + none[<<u, FALSE>>] = 0
  <2>1. <<u, TRUE>> \in SeekEvent /\ <<u, FALSE>> \in SeekEvent
    BY SeekEvents
  <2>2. none[<<u, TRUE>>] = 0 /\ none[<<u, FALSE>>] = 0
    BY <2>1
  <2>. QED
    BY ONLY <2>2
<1>. QED
  BY <1>1, <1>2

LEMMA SeekInvKept ==
  ASSUME SeekInv, [Next]_vars
  PROVE  SeekInv'
<1>. SUFFICES ASSUME "FORMAT" \notin Commands'
              PROVE  Counted'
  BY PhaseInvKept DEF SeekInv
<1>1. ASSUME UNCHANGED machine, UNCHANGED <<busy, seeks>>
      PROVE  Counted'
  BY <1>1 DEF SeekInv, Counted, Commands
<1>2. ASSUME NEW c \in Commands, Command(c) \/ Argument \/ ReadResult
      PROVE  Counted'
  BY <1>1, <1>2 DEF Command, Argument, ReadResult, status, drives, timed
<1>3. ASSUME NEW u \in Addressed, NEW c, NEW a, a.unit = u, Move(c, a)
      PROVE  Counted'
  <2>1. u \in Units
    BY DEF Addressed, Units, SeekInv, PhaseInv
  <2>2. Counted
    BY <1>3 DEF SeekInv, Move, Commands
  <2>3. u \notin busy
    BY <1>3 DEF Move
  <2>4. PICK cyl, s : Seek(u, cyl, s)
    BY <1>3 DEF Move
  <2>. QED
    BY <2>1, <2>2, <2>3, <2>4, SeekCounted
<1>4. ASSUME NEW c, NEW a, Simple(c, a) \/ FetchFirst(c, a) \/ Accept(c, a)
      PROVE  Counted'
  BY <1>1, <1>4 DEF Simple, FetchFirst, Accept, timed
<1>5. CASE Byte
  <2>1. CASE ReadByte \/ ReadNothing
    BY <1>1, <2>1 DEF ReadByte, ReadNothing, drives, timed
  <2>2. ASSUME NEW v \in Data, WriteByte(v) \/ ScanByte(v)
        PROVE  Counted'
    BY <1>1, <2>2 DEF WriteByte, ScanByte, drives, timed
  <2>3. ASSUME NEW c, NEW s, NEW v, FormatByte(c, s, v)
        PROVE  Counted'
    <3>1. cmd = "FORMAT" /\ UNCHANGED machine
      BY <2>3 DEF FormatByte
    <3>2. "FORMAT" \in Commands'
      BY <3>1 DEF SeekInv, PhaseInv, Commands
    <3>. QED
      BY <3>2
  <2>. QED
    BY <1>5, <2>1, <2>2, <2>3 DEF Byte
<1>6. CASE Terminal
  <2>1. CASE TerminalPort \/ AbandonPort \/ TerminalBoth
    BY <1>1, <2>1 DEF TerminalPort, AbandonPort, TerminalBoth, drives, timed
  <2>2. ASSUME NEW level \in BOOLEAN, TerminalCount(level)
        PROVE  Counted'
    BY <1>1, <2>2 DEF TerminalCount, drives, timed
  <2>. QED
    BY <1>6, <2>1, <2>2 DEF Terminal
<1>7. ASSUME NEW e \in SeekEvent, SeekCallback(e)
      PROVE  Counted'
  <2>1. PICK u \in Units, ok \in BOOLEAN : e = <<u, ok>>
    BY DEF SeekEvent
  <2>2. Counted
    BY <1>7 DEF SeekCallback, SeekInv, Commands, drives
  <2>3. /\ seeks[<<u, ok>>] > 0
        /\ seeks' = [seeks EXCEPT ![<<u, ok>>] = @ - 1]
        /\ busy' = busy \ {u}
    BY <1>7, <2>1 DEF SeekCallback
  <2>. QED
    BY <2>2, <2>3, CountedDown
<1>8. ASSUME NEW v, IndexCallback(v)
      PROVE  Counted'
  BY <1>1, <1>8 DEF IndexCallback, drives
<1>9. CASE Reset
  <2>1. busy' = {} /\ seeks' = [e \in SeekEvent |-> 0]
    BY <1>9 DEF Reset, Fresh
  <2>2. /\ seeks' \in [SeekEvent -> Nat]
        /\ \A u \in Units : seeks'[<<u, TRUE>>] + seeks'[<<u, FALSE>>] = 0
    BY <2>1, NothingCounted
  <2>. QED
    BY <2>1, <2>2 DEF Counted
<1>10. ASSUME NEW us, DriveSelect(us) \/ Attach(us)
       PROVE  Counted'
  BY <1>1, <1>10 DEF DriveSelect, Attach, status, drives, timed
<1>11. CASE UNCHANGED vars
  BY <1>1, <1>11 DEF vars, status, drives, timed
<1>12. CASE Guest
  <2>1. ASSUME NEW c \in Commands, NEW u \in Addressed, NEW cyl, NEW s, NEW e,
               LET a == [unit |-> u, cyl |-> cyl, sec |-> s, eot |-> e]
               IN  \/ Move(c, a) \/ Simple(c, a) \/ FetchFirst(c, a)
                   \/ (c = "WRITE" => s = e) /\ Accept(c, a)
        PROVE  Counted'
    BY <1>3, <1>4, <2>1
  <2>2. CASE Argument \/ ReadResult
    BY <1>1, <2>2 DEF Argument, ReadResult, status, drives, timed
  <2>. QED
    BY ONLY <1>12, <1>2, <1>5, <2>1, <2>2, ZenonT(60) DEF Guest
<1>. QED
  BY <1>6, <1>7, <1>8, <1>9, <1>10, <1>11, <1>12 DEF Next, Timed

\* The busy bit of a drive tells the guest the truth: it is set exactly while the end of a
\* seek is on the callback list, also when the disk was changed under way.
THEOREM BusyBitsTrue == Spec => []BusyWhileSeeking
<1>1. Init => SeekInv
  <2>. SUFFICES ASSUME Init PROVE SeekInv
    OBVIOUS
  <2>1. PhaseInv
    BY DEF Init, PhaseInv, Commands
  <2>2. busy = {} /\ seeks = [e \in SeekEvent |-> 0]
    BY DEF Init
  <2>3. Counted
    BY <2>2, NothingCounted DEF Counted
  <2>. QED
    BY <2>1, <2>3 DEF SeekInv
<1>2. SeekInv /\ [Next]_vars => SeekInv'
  BY SeekInvKept
<1>3. SeekInv => BusyWhileSeeking
  <2>. SUFFICES ASSUME Counted, NEW u \in Units
                PROVE  u \in busy <=> \E ok \in BOOLEAN : seeks[<<u, ok>>] > 0
    BY DEF SeekInv, BusyWhileSeeking
  <2>1. seeks[<<u, TRUE>>] \in Nat /\ seeks[<<u, FALSE>>] \in Nat
    BY SeekEvents DEF Counted
  <2>2. seeks[<<u, TRUE>>] + seeks[<<u, FALSE>>] = IF u \in busy THEN 1 ELSE 0
    BY DEF Counted
  <2>3. CASE u \in busy
    <3>1. seeks[<<u, TRUE>>] > 0 \/ seeks[<<u, FALSE>>] > 0
      BY <2>1, <2>2, <2>3
    <3>. QED
      BY <2>3, <3>1
  <2>4. CASE u \notin busy
    <3>1. ~(seeks[<<u, TRUE>>] > 0) /\ ~(seeks[<<u, FALSE>>] > 0)
      BY <2>1, <2>2, <2>4
    <3>. QED
      BY <2>4, <3>1
  <2>. QED
    BY <2>3, <2>4
<1>. QED
  BY <1>1, <1>2, <1>3, PTL DEF Spec

-----------------------------------------------------------------------------
(* Sectors written.                                                        *)

\* While a WRITE DATA waits for bytes, its buffer holds those it has taken, in their order, and
\* has room; it writes one sector, of the drive of its arguments.
WriteInv ==
  state = "DATA" /\ cmd = "WRITE" =>
    /\ unit = arg.unit /\ arg.sec = arg.eot
    /\ moved \in Seq(Data) /\ Len(moved) < Size
    /\ transfer = [buf |-> transfer.buf, idx |-> Len(moved), done |-> 0]
    /\ \A i \in 0 .. (Len(moved) - 1) : transfer.buf[i] = moved[i + 1]

\* The byte v joins those that were taken.
LEMMA StoredInOrder ==
  ASSUME WriteInv, NEW v \in Data, WriteByte(v)
  PROVE  /\ moved' \in Seq(Data) /\ Len(moved') = Len(moved) + 1
         /\ transfer' = [buf |-> Stored(v), idx |-> Len(moved'), done |-> 0]
         /\ Stored(v) = [i \in 0 .. (Len(moved') - 1) |-> moved'[i + 1]]
<1>1. /\ moved \in Seq(Data) /\ Len(moved) \in Nat
      /\ transfer = [buf |-> transfer.buf, idx |-> Len(moved), done |-> 0]
      /\ \A i \in 0 .. (Len(moved) - 1) : transfer.buf[i] = moved[i + 1]
  BY DEF WriteInv, WriteByte
<1>2. moved' = Append(moved, v) /\ transfer' = [transfer EXCEPT !.buf = Stored(v), !.idx = @ + 1]
  BY DEF WriteByte
<1>3. moved' \in Seq(Data) /\ Len(moved') = Len(moved) + 1
  BY <1>1, <1>2
<1>4. transfer' = [buf |-> Stored(v), idx |-> Len(moved'), done |-> 0]
  <2>. DEFINE t == [transfer EXCEPT !.buf = Stored(v)]
  <2>1. t = [buf |-> Stored(v), idx |-> Len(moved), done |-> 0]
    BY <1>1
  <2>2. transfer' = [t EXCEPT !.idx = @ + 1]
    BY <1>2
  <2>. HIDE DEF t
  <2>3. [t EXCEPT !.idx = @ + 1] = [buf |-> Stored(v), idx |-> Len(moved) + 1, done |-> 0]
    BY <2>1
  <2>. QED
    BY <1>3, <2>2, <2>3
<1>5. Stored(v) = [i \in 0 .. Len(moved) |-> IF i = Len(moved) THEN v ELSE transfer.buf[i]]
  BY <1>1 DEF Stored
<1>6. \A i \in 0 .. Len(moved) : (IF i = Len(moved) THEN v ELSE transfer.buf[i]) = moved'[i + 1]
  <2>. SUFFICES ASSUME NEW i \in 0 .. Len(moved)
                PROVE  (IF i = Len(moved) THEN v ELSE transfer.buf[i]) = moved'[i + 1]
    OBVIOUS
  <2>1. CASE i = Len(moved)
    BY <1>1, <1>2, <2>1
  <2>2. CASE i # Len(moved)
    <3>1. i \in 0 .. (Len(moved) - 1)
      BY <1>1, <2>2
    <3>2. moved'[i + 1] = moved[i + 1]
      BY <1>1, <1>2, <3>1
    <3>. QED
      BY <1>1, <2>2, <3>1, <3>2
  <2>. QED
    BY <2>1, <2>2
<1>7. 0 .. (Len(moved') - 1) = 0 .. Len(moved)
  BY <1>1, <1>3
<1>. QED
  BY <1>3, <1>4, <1>5, <1>6, <1>7

LEMMA WriteInvKept ==
  ASSUME PhaseInv, WriteInv, [Next]_vars
  PROVE  WriteInv'
<1>0. \A c \in Commands : Results[c] > 0 \/ Results[c] = 0
  BY KnownCommands DEF Args, Results
<1>1. ASSUME UNCHANGED <<state, cmd, arg, transfer, unit, moved>>
      PROVE  WriteInv'
  BY <1>1 DEF WriteInv
<1>2. ASSUME state' # "DATA" \/ cmd' # "WRITE"
      PROVE  WriteInv'
  BY <1>2 DEF WriteInv
<1>3. ASSUME NEW c \in Commands, Finish(c)
      PROVE  WriteInv'
  BY <1>2, <1>3 DEF Finish, SetState
<1>4. ASSUME NEW c \in Commands, Command(c) \/ Argument \/ ReadResult
      PROVE  WriteInv'
  BY <1>1, <1>2, <1>4 DEF Command, Argument, ReadResult, SetState, drives
<1>5. ASSUME NEW c \in Commands, NEW a, Move(c, a) \/ Simple(c, a) \/ FetchFirst(c, a)
      PROVE  WriteInv'
  <2>1. CASE Move(c, a) \/ Simple(c, a)
    BY <1>3, <2>1 DEF Move, Simple
  <2>2. CASE FetchFirst(c, a)
    BY <1>2, <2>2 DEF FetchFirst, LastByte
  <2>. QED
    BY <1>5, <2>1, <2>2
<1>6. ASSUME NEW c \in Commands, NEW a, Accept(c, a), c = "WRITE" => a.sec = a.eot
      PROVE  WriteInv'
  <2>1. CASE c # "WRITE"
    BY <1>2, <1>6, <2>1 DEF Accept, LastByte
  <2>2. CASE c = "WRITE"
    <3>1. arg' = a /\ unit' = a.unit /\ moved' = <<>> /\ transfer' = Empty
      BY <1>6, <2>2 DEF Accept, LastByte, Transfers
    <3>2. moved' \in Seq(Data) /\ Len(moved') = 0 /\ 0 < Size
      BY <3>1, FDCAssumption
    <3>3. transfer' = [buf |-> transfer'.buf, idx |-> Len(moved'), done |-> 0]
      BY <3>1, <3>2 DEF Empty
    <3>4. 0 .. (Len(moved') - 1) = {}
      BY <3>2
    <3>. QED
      BY <1>6, <2>2, <3>1, <3>2, <3>3, <3>4 DEF WriteInv
  <2>. QED
    BY <2>1, <2>2
<1>7. ASSUME NEW v \in Data, WriteByte(v)
      PROVE  WriteInv'
  <2>1. /\ state = "DATA" /\ cmd = "WRITE" /\ UNCHANGED <<cmd, arg, unit>>
        /\ unit = arg.unit /\ arg.sec = arg.eot /\ Len(moved) < Size /\ Len(moved) \in Nat
    BY <1>7 DEF WriteByte, WriteInv
  <2>2. CASE transfer'.idx = Size
    <3>1. Finish(cmd)
      BY <1>7, <2>1, <2>2 DEF WriteByte
    <3>2. cmd \in Commands
      BY <2>1 DEF PhaseInv
    <3>. QED
      BY <1>3, <3>1, <3>2
  <2>3. CASE transfer'.idx # Size
    <3>1. Len(moved') < Size
      BY <1>7, <2>1, <2>3, StoredInOrder, FDCAssumption
    <3>2. /\ transfer' = [buf |-> transfer'.buf, idx |-> Len(moved'), done |-> 0]
          /\ \A i \in 0 .. (Len(moved') - 1) : transfer'.buf[i] = moved'[i + 1]
      BY <1>7, StoredInOrder
    <3>. QED
      BY <1>7, <2>1, <3>1, <3>2, StoredInOrder DEF WriteInv
  <2>. QED
    BY <2>2, <2>3
<1>8. CASE Byte
  <2>1. CASE ReadByte \/ ReadNothing
    BY <1>2, <2>1 DEF ReadByte, ReadNothing
  <2>2. ASSUME NEW v \in Data, ScanByte(v)
        PROVE  WriteInv'
    BY <1>2, <2>2 DEF ScanByte
  <2>3. ASSUME NEW c, NEW s, NEW v, FormatByte(c, s, v)
        PROVE  WriteInv'
    BY <1>2, <2>3 DEF FormatByte
  <2>. QED
    BY <1>7, <1>8, <2>1, <2>2, <2>3 DEF Byte
<1>9. CASE Terminal
  <2>1. CASE TerminalPort \/ AbandonPort \/ TerminalBoth
    BY <1>2, <2>1 DEF TerminalPort, AbandonPort, TerminalBoth, SetState
  <2>2. ASSUME NEW level \in BOOLEAN, TerminalCount(level)
        PROVE  WriteInv'
    <3>1. CASE level
      BY <1>2, <2>2, <3>1 DEF TerminalCount, Finish, SetState
    <3>2. CASE ~level
      BY <1>1, <2>2, <3>2 DEF TerminalCount, drives
    <3>. QED
      BY <3>1, <3>2
  <2>. QED
    BY <1>9, <2>1, <2>2 DEF Terminal
<1>10. CASE Timed
  BY <1>1, <1>10 DEF Timed, SeekCallback, IndexCallback, phases, drives
<1>11. CASE Reset
  BY <1>2, <1>11 DEF Reset, Fresh
<1>12. ASSUME NEW us, DriveSelect(us) \/ Attach(us)
       PROVE  WriteInv'
  BY <1>1, <1>12 DEF DriveSelect, Attach, phases, drives
<1>13. CASE UNCHANGED vars
  BY <1>1, <1>13 DEF vars, phases, drives
<1>14. CASE Guest
  <2>1. ASSUME NEW c \in Commands, NEW u, NEW cyl, NEW s, NEW e,
               LET a == [unit |-> u, cyl |-> cyl, sec |-> s, eot |-> e]
               IN  \/ Move(c, a) \/ Simple(c, a) \/ FetchFirst(c, a)
                   \/ (c = "WRITE" => s = e) /\ Accept(c, a)
        PROVE  WriteInv'
    BY <1>5, <1>6, <2>1
  <2>2. CASE Argument \/ ReadResult
    BY <1>1, <1>2, <2>2 DEF Argument, ReadResult, SetState, drives
  <2>. QED
    BY ONLY <1>14, <1>4, <1>8, <2>1, <2>2, ZenonT(60) DEF Guest
<1>. QED
  BY <1>9, <1>10, <1>11, <1>12, <1>13, <1>14 DEF Next

\* A WRITE DATA changes a whole sector, the one it was given, to the bytes sent with it.
THEOREM SectorsWrittenWhole == Spec => WritesWhole
<1>. DEFINE Whole == /\ cmd \in {"WRITE", "FORMAT"}
                     /\ cmd = "WRITE" => Len(moved') = Size
                     /\ cmd = "WRITE" =>
                          content' = [content EXCEPT ![arg.unit][<<arg.cyl, arg.sec>>] =
                                                       [i \in 0 .. (Size - 1) |-> moved'[i + 1]]]
<1>1. Init => PhaseInv /\ WriteInv
  BY DEF Init, PhaseInv, WriteInv, Commands
<1>2. PhaseInv /\ WriteInv /\ [Next]_vars => PhaseInv' /\ WriteInv'
  BY PhaseInvKept, WriteInvKept
<1>3. PhaseInv /\ WriteInv /\ [Next]_vars => [content' = content \/ Whole]_vars
  <2>. SUFFICES ASSUME WriteInv, Next, content' # content
                PROVE  Whole
    BY DEF vars, drives
  <2>1. ASSUME NEW v \in Data, WriteByte(v)
        PROVE  Whole
    <3>1. /\ cmd = "WRITE" /\ transfer'.idx = Size /\ unit = arg.unit
          /\ content' = [content EXCEPT ![unit][<<arg.cyl, arg.sec>>] = transfer'.buf]
      BY <2>1 DEF WriteByte, WriteInv
    <3>2. /\ transfer' = [buf |-> Stored(v), idx |-> Len(moved'), done |-> 0]
          /\ Stored(v) = [i \in 0 .. (Len(moved') - 1) |-> moved'[i + 1]]
      BY <2>1, StoredInOrder
    <3>3. transfer'.idx = Len(moved') /\ transfer'.buf = Stored(v)
      BY ONLY <3>2
    <3>4. Len(moved') = Size /\ transfer'.buf = [i \in 0 .. (Size - 1) |-> moved'[i + 1]]
      BY ONLY <3>1, <3>2, <3>3
    <3>. QED
      BY <3>1, <3>4
  <2>2. ASSUME NEW c, NEW s, NEW v, FormatByte(c, s, v)
        PROVE  Whole
    BY <2>2 DEF FormatByte
  <2>3. CASE ReadByte \/ ReadNothing
    BY <2>3 DEF ReadByte, ReadNothing, drives
  <2>4. ASSUME NEW v, ScanByte(v)
        PROVE  Whole
    BY <2>4 DEF ScanByte, drives
  <2>5. CASE Byte
    BY <2>1, <2>2, <2>3, <2>4, <2>5 DEF Byte
  <2>6. CASE Guest
    <3>1. ASSUME NEW c, Command(c) \/ Argument \/ ReadResult
          PROVE  FALSE
      BY <3>1 DEF Command, Argument, ReadResult, drives
    <3>2. ASSUME NEW c, NEW a, Move(c, a) \/ Simple(c, a) \/ FetchFirst(c, a) \/ Accept(c, a)
          PROVE  FALSE
      BY <3>2 DEF Move, Simple, FetchFirst, Accept
    <3>3. ASSUME NEW c, NEW u, NEW cyl, NEW s, NEW e,
                 LET a == [unit |-> u, cyl |-> cyl, sec |-> s, eot |-> e]
                 IN  \/ Move(c, a) \/ Simple(c, a) \/ FetchFirst(c, a)
                     \/ (c = "WRITE" => s = e) /\ Accept(c, a)
          PROVE  FALSE
      BY <3>2, <3>3
    <3>. QED
      BY ONLY <2>5, <2>6, <3>1, <3>3 DEF Guest
  <2>7. CASE Terminal
    BY <2>7 DEF Terminal, TerminalPort, AbandonPort, TerminalBoth, TerminalCount, drives
  <2>8. CASE Timed
    BY <2>8 DEF Timed, SeekCallback, IndexCallback, drives
  <2>9. CASE Reset
    BY <2>9 DEF Reset
  <2>10. ASSUME NEW us, DriveSelect(us) \/ Attach(us)
         PROVE  Whole
    BY <2>10 DEF DriveSelect, Attach, drives
  <2>. QED
    BY <2>6, <2>7, <2>8, <2>9, <2>10 DEF Next
<1>. QED
  BY <1>1, <1>2, <1>3, PTL DEF Spec, WritesWhole

-----------------------------------------------------------------------------
(***************************************************************************)
(* The types of the other fields.  That the index of a transfer stays in   *)
(* the buffer of a sector depends on the phases and on what was moved: a   *)
(* byte is stored before the index is compared with the size.              *)
(***************************************************************************)

WordInv == cmd # "none" => w \in 1 .. Args[cmd]

IndexInv ==
  /\ transfer = [buf |-> transfer.buf, idx |-> transfer.idx, done |-> transfer.done]
  /\ state = "DATA" => /\ transfer.idx \in 0 .. (IF cmd = "FORMAT" THEN 3 ELSE Size)
                       /\ cmd = "SCAN" => transfer.idx < Size

CodeInv ==
  /\ result \in {"none", "normal", "abnormal", "invalid"}
  /\ ic \in {"normal", "abnormal", "invalid"}
  /\ dio \in BOOLEAN /\ tc \in BOOLEAN /\ selected \in BOOLEAN

EventInv ==
  /\ busy \subseteq Units /\ inserted \subseteq Units
  /\ seeks \in [SeekEvent -> Nat] /\ trains \in [{0, 1} -> Nat]

ContentInv == content \in [Units -> [Address -> [0 .. (Size - 1) -> Data]]]

\* A transfer is on the drive of its arguments.
ArgInv ==
  state = "DATA" => /\ cmd \in Transfers /\ unit = arg.unit
                    /\ arg \in [unit : Units, cyl : Cylinders, sec : 1 .. Sectors, eot : 1 .. Sectors]

LEMMA WordInvKept ==
  ASSUME PhaseInv, WordInv, Next
  PROVE  WordInv'
<1>. USE DEF WordInv
<1>0. \A c \in Commands : c \in DOMAIN Args /\ c # "none" /\ Args[c] \in Nat /\ 1 <= Args[c]
  BY KnownCommands, ResultsAreNumbers DEF Args
<1>1. ASSUME UNCHANGED <<cmd, w>>
      PROVE  WordInv'
  BY <1>1
<1>2. ASSUME NEW c \in Commands, Command(c)
      PROVE  WordInv'
  BY <1>0, <1>2 DEF Command
<1>3. CASE Argument
  <2>1. cmd # "none" /\ cmd \in Commands
    BY <1>3 DEF Argument, PhaseInv
  <2>. QED
    BY <1>0, <1>3, <2>1 DEF Argument
<1>4. ASSUME NEW c \in Commands, NEW a, LastByte(c, a)
      PROVE  WordInv'
  BY <1>0, <1>4 DEF LastByte
<1>5. ASSUME NEW c \in Commands, NEW a,
             Move(c, a) \/ Simple(c, a) \/ FetchFirst(c, a) \/ Accept(c, a)
      PROVE  WordInv'
  BY <1>4, <1>5 DEF Move, Simple, FetchFirst, Accept
<1>6. CASE ReadResult \/ Byte \/ Terminal
  BY <1>1, <1>6 DEF ReadResult, Byte, ReadByte, ReadNothing, WriteByte, ScanByte, FormatByte,
                    Terminal, TerminalPort, AbandonPort, TerminalBoth, TerminalCount
<1>7. CASE Timed
  BY <1>1, <1>7 DEF Timed, SeekCallback, IndexCallback, phases
<1>8. CASE Reset
  BY <1>8 DEF Reset, Fresh
<1>9. ASSUME NEW us, DriveSelect(us) \/ Attach(us)
      PROVE  WordInv'
  BY <1>1, <1>9 DEF DriveSelect, Attach, phases
<1>10. CASE Guest
  <2>1. ASSUME NEW c \in Commands, NEW u, NEW cyl, NEW s, NEW e,
               LET a == [unit |-> u, cyl |-> cyl, sec |-> s, eot |-> e]
               IN  \/ Move(c, a) \/ Simple(c, a) \/ FetchFirst(c, a)
                   \/ (c = "WRITE" => s = e) /\ Accept(c, a)
        PROVE  WordInv'
    BY <1>5, <2>1
  <2>. QED
    BY ONLY <1>2, <1>3, <1>6, <1>10, <2>1, ZenonT(60) DEF Guest
<1>. QED
  BY <1>6, <1>7, <1>8, <1>9, <1>10 DEF Next

LEMMA IndexInvKept ==
  ASSUME PhaseInv, WriteInv, IndexInv, Next
  PROVE  IndexInv'
<1>0. Size \in Nat /\ Size > 0
  BY FDCAssumption
<1>1. ASSUME UNCHANGED transfer, state' # "DATA" \/ UNCHANGED <<state, cmd>>
      PROVE  IndexInv'
  BY <1>1 DEF IndexInv
<1>2. ASSUME NEW c \in Commands, Finish(c)
      PROVE  state' # "DATA"
  BY <1>2 DEF Finish, SetState
<1>3. ASSUME NEW c \in Commands, Command(c) \/ Argument \/ ReadResult
      PROVE  IndexInv'
  BY <1>1, <1>3 DEF Command, Argument, ReadResult, SetState
<1>4. ASSUME NEW c \in Commands, NEW a, Move(c, a) \/ Simple(c, a)
      PROVE  IndexInv'
  BY <1>1, <1>2, <1>4 DEF Move, Simple
<1>5. ASSUME transfer' = [buf |-> transfer'.buf, idx |-> 0, done |-> transfer'.done]
      PROVE  IndexInv'
  BY <1>0, <1>5 DEF IndexInv
<1>6. ASSUME NEW c \in Commands, NEW a, FetchFirst(c, a) \/ Accept(c, a)
      PROVE  IndexInv'
  <2>1. CASE FetchFirst(c, a) /\ Readable(a.unit, a.cyl, a.sec)
    BY <1>5, <2>1 DEF FetchFirst, Empty
  <2>2. CASE FetchFirst(c, a) /\ ~Readable(a.unit, a.cyl, a.sec)
    BY <1>1, <1>2, <2>2 DEF FetchFirst
  <2>3. CASE Accept(c, a)
    BY <1>5, <2>3 DEF Accept, Empty
  <2>. QED
    BY <1>6, <2>1, <2>2, <2>3
<1>7. ASSUME NEW i \in Nat, transfer' = [buf |-> transfer'.buf, idx |-> i, done |-> transfer'.done],
             state' = "DATA" => i <= (IF cmd' = "FORMAT" THEN 3 ELSE Size)
                                /\ (cmd' = "SCAN" => i < Size)
      PROVE  IndexInv'
  BY <1>0, <1>7 DEF IndexInv
<1>8. CASE ReadByte
  <2>1. transfer.idx \in 0 .. Size /\ cmd' = "READ"
    BY <1>8 DEF ReadByte, IndexInv
  <2>2. Fetched = [buf |-> Fetched.buf, idx |-> Fetched.idx, done |-> Fetched.done]
        /\ Fetched.idx \in Nat /\ Fetched.idx < Size
    <3>1. CASE AtEnd
      <4>1. Fetched = [transfer EXCEPT !.buf = content[unit][<<pos[unit].cyl, NextSec>>], !.idx = 0]
        BY <3>1 DEF Fetched
      <4>2. Fetched = [buf |-> content[unit][<<pos[unit].cyl, NextSec>>], idx |-> 0,
                       done |-> transfer.done]
        BY <4>1 DEF IndexInv
      <4>. QED
        BY <1>0, <4>2
    <3>2. CASE ~AtEnd
      <4>1. Fetched = transfer
        BY <3>2 DEF Fetched
      <4>. QED
        BY <1>0, <2>1, <3>2, <4>1 DEF AtEnd, IndexInv
    <3>. QED
      BY <3>1, <3>2
  <2>3. transfer' = [buf |-> Fetched.buf, idx |-> Fetched.idx + 1, done |-> Fetched.done]
    BY <1>8, <2>2 DEF ReadByte
  <2>4. Fetched.idx + 1 \in Nat /\ Fetched.idx + 1 <= Size
    BY <1>0, <2>2
  <2>. QED
    BY <1>7, <2>1, <2>3, <2>4
<1>9. CASE ReadNothing
  BY <1>1, <1>2, <1>9 DEF ReadNothing, PhaseInv
<1>10. ASSUME NEW v \in Data, WriteByte(v)
       PROVE  IndexInv'
  <2>1. /\ transfer' = [buf |-> Stored(v), idx |-> Len(moved'), done |-> 0]
        /\ moved' \in Seq(Data) /\ Len(moved') = Len(moved) + 1
    BY <1>10, StoredInOrder
  <2>2. Len(moved) < Size /\ moved \in Seq(Data) /\ cmd' = "WRITE"
    BY <1>10 DEF WriteInv, WriteByte
  <2>3. Len(moved') \in Nat /\ Len(moved') <= Size
    BY <1>0, <2>1, <2>2
  <2>. QED
    BY <1>7, <2>1, <2>2, <2>3
<1>11. ASSUME NEW v \in Data, ScanByte(v)
       PROVE  IndexInv'
  <2>1. transfer.idx \in Nat /\ transfer.idx < Size /\ cmd' = "SCAN" /\ cmd \in Commands
    BY <1>0, <1>11 DEF ScanByte, IndexInv, PhaseInv
  <2>2. transfer' = [buf |-> transfer.buf, idx |-> transfer.idx + 1, done |-> transfer.done]
    BY <1>11 DEF ScanByte, IndexInv
  <2>3. transfer.idx + 1 = Size => state' # "DATA"
    BY <1>2, <1>11, <2>1, <2>2 DEF ScanByte
  <2>4. transfer.idx + 1 \in Nat /\ transfer.idx + 1 <= Size
    BY <1>0, <2>1
  <2>. QED
    BY <1>0, <1>7, <2>1, <2>2, <2>3, <2>4
<1>12. ASSUME NEW c, NEW s, NEW v, FormatByte(c, s, v)
       PROVE  IndexInv'
  <2>1. transfer.idx \in 0 .. 3 /\ cmd' = "FORMAT"
    BY <1>12 DEF FormatByte, IndexInv
  <2>2. CASE transfer.idx < 3
    <3>1. transfer' = [buf |-> transfer.buf, idx |-> transfer.idx + 1, done |-> transfer.done]
      BY <1>12, <2>2 DEF FormatByte, IndexInv
    <3>2. transfer.idx + 1 \in Nat /\ transfer.idx + 1 <= 3
      BY <2>1, <2>2
    <3>. QED
      BY <1>7, <2>1, <3>1, <3>2
  <2>3. CASE ~(transfer.idx < 3)
    <3>1. transfer' = [transfer EXCEPT !.idx = 0, !.done = Formatted]
      BY <1>12, <2>3 DEF FormatByte
    <3>2. transfer' = [buf |-> transfer.buf, idx |-> 0, done |-> Formatted]
      BY <3>1 DEF IndexInv
    <3>. QED
      BY <1>5, <3>2
  <2>. QED
    BY <2>2, <2>3
<1>13. CASE Byte
  BY <1>8, <1>9, <1>10, <1>11, <1>12, <1>13 DEF Byte
<1>14. CASE Terminal
  <2>1. CASE TerminalPort \/ AbandonPort \/ TerminalBoth
    BY <1>1, <2>1 DEF TerminalPort, AbandonPort, TerminalBoth, SetState
  <2>2. ASSUME NEW level \in BOOLEAN, TerminalCount(level)
        PROVE  IndexInv'
    BY <1>1, <2>2 DEF TerminalCount, Finish, SetState
  <2>. QED
    BY <1>14, <2>1, <2>2 DEF Terminal
<1>15. CASE Timed
  BY <1>1, <1>15 DEF Timed, SeekCallback, IndexCallback, phases
<1>16. CASE Reset
  BY <1>5, <1>16 DEF Reset, Fresh, Empty
<1>17. ASSUME NEW us, DriveSelect(us) \/ Attach(us)
       PROVE  IndexInv'
  BY <1>1, <1>17 DEF DriveSelect, Attach, phases
<1>18. CASE Guest
  <2>1. ASSUME NEW c \in Commands, NEW u, NEW cyl, NEW s, NEW e,
               LET a == [unit |-> u, cyl |-> cyl, sec |-> s, eot |-> e]
               IN  \/ Move(c, a) \/ Simple(c, a) \/ FetchFirst(c, a)
                   \/ (c = "WRITE" => s = e) /\ Accept(c, a)
        PROVE  IndexInv'
    BY <1>4, <1>6, <2>1
  <2>2. CASE Argument \/ ReadResult
    BY <1>1, <2>2 DEF Argument, ReadResult, SetState
  <2>. QED
    BY ONLY <1>3, <1>13, <1>18, <2>1, <2>2, ZenonT(60) DEF Guest
<1>. QED
  BY <1>14, <1>15, <1>16, <1>17, <1>18 DEF Next

LEMMA CodeInvKept ==
  ASSUME PhaseInv, CodeInv, Next
  PROVE  CodeInv'
<1>. USE DEF CodeInv
<1>0. ASSUME NEW s, NEW d \in BOOLEAN, SetState(s, d)
      PROVE  dio' \in BOOLEAN
  BY <1>0 DEF SetState
<1>1. ASSUME NEW c, Finish(c)
      PROVE  dio' \in BOOLEAN
  BY <1>0, <1>1 DEF Finish
<1>2. ASSUME UNCHANGED <<tc, selected>>, UNCHANGED result \/ result' = ic \/ result' = ic' \/ result' = "abnormal",
             UNCHANGED ic \/ ic' \in {"normal", "abnormal", "invalid"}, dio' \in BOOLEAN
      PROVE  CodeInv'
  BY <1>2
<1>3. ASSUME NEW c \in Commands, Command(c)
      PROVE  CodeInv'
  BY <1>0, <1>3 DEF Command, timed
<1>4. CASE Argument
  BY <1>4 DEF Argument, status, timed
<1>5. CASE ReadResult
  BY <1>0, <1>5 DEF ReadResult, timed
<1>6. ASSUME NEW c, NEW a, Move(c, a)
      PROVE  CodeInv'
  BY <1>1, <1>6 DEF Move
<1>7. ASSUME NEW c, NEW a, Simple(c, a)
      PROVE  CodeInv'
  <2>1. UNCHANGED <<tc, selected>> /\ dio' \in BOOLEAN
    BY <1>1, <1>7 DEF Simple, timed
  <2>2. ic' \in {"normal", "abnormal", "invalid"}
    BY <1>7 DEF Simple
  <2>3. result' = ic' \/ UNCHANGED result
    BY <1>7 DEF Simple
  <2>. QED
    BY <2>1, <2>2, <2>3
<1>8. ASSUME NEW c, NEW a, FetchFirst(c, a)
      PROVE  CodeInv'
  <2>1. CASE Readable(a.unit, a.cyl, a.sec)
    <3>1. UNCHANGED <<tc, selected>> /\ dio' \in BOOLEAN /\ result' = ic
      BY <1>0, <1>8, <2>1 DEF FetchFirst, timed
    <3>2. ic' \in {"normal", "abnormal", "invalid"}
      BY <1>8, <2>1 DEF FetchFirst
    <3>. QED
      BY <3>1, <3>2
  <2>2. CASE ~Readable(a.unit, a.cyl, a.sec)
    BY <1>1, <1>8, <2>2 DEF FetchFirst, timed
  <2>. QED
    BY <2>1, <2>2
<1>9. ASSUME NEW c, NEW a, Accept(c, a)
      PROVE  CodeInv'
  BY <1>0, <1>9 DEF Accept, timed
<1>10. ASSUME UNCHANGED <<tc, result, selected>>, Finish(cmd) \/ UNCHANGED dio,
              UNCHANGED ic \/ ic' = "abnormal"
       PROVE  CodeInv'
  BY <1>1, <1>10
<1>11. CASE ReadByte \/ ReadNothing
  BY <1>10, <1>11 DEF ReadByte, ReadNothing, timed
<1>12. ASSUME NEW v \in Data, WriteByte(v)
       PROVE  CodeInv'
  BY <1>10, <1>12 DEF WriteByte, timed
<1>13. ASSUME NEW v \in Data, ScanByte(v)
       PROVE  CodeInv'
  BY <1>1, <1>13 DEF ScanByte, timed
<1>14. ASSUME NEW c, NEW s, NEW v, FormatByte(c, s, v)
       PROVE  CodeInv'
  BY <1>10, <1>14 DEF FormatByte
<1>15. CASE Byte
  BY <1>11, <1>12, <1>13, <1>14, <1>15 DEF Byte
<1>16. CASE Terminal
  <2>1. CASE TerminalPort \/ AbandonPort \/ TerminalBoth
    BY <1>0, <2>1 DEF TerminalPort, AbandonPort, TerminalBoth, timed
  <2>2. ASSUME NEW level \in BOOLEAN, TerminalCount(level)
        PROVE  CodeInv'
    BY <1>0, <1>1, <2>2 DEF TerminalCount, timed
  <2>. QED
    BY <1>16, <2>1, <2>2 DEF Terminal
<1>17. ASSUME NEW e, SeekCallback(e)
       PROVE  CodeInv'
  BY <1>17 DEF SeekCallback
<1>18. ASSUME NEW v, IndexCallback(v)
       PROVE  CodeInv'
  BY <1>18 DEF IndexCallback
<1>19. CASE Reset
  BY <1>19 DEF Reset, Fresh
<1>20. ASSUME NEW us, DriveSelect(us)
       PROVE  CodeInv'
  BY <1>20 DEF DriveSelect
<1>21. ASSUME NEW u, Attach(u)
       PROVE  CodeInv'
  BY <1>21 DEF Attach, status, timed
<1>22. CASE Guest
  <2>1. ASSUME NEW c \in Commands, NEW u, NEW cyl, NEW s, NEW e,
               LET a == [unit |-> u, cyl |-> cyl, sec |-> s, eot |-> e]
               IN  \/ Move(c, a) \/ Simple(c, a) \/ FetchFirst(c, a)
                   \/ (c = "WRITE" => s = e) /\ Accept(c, a)
        PROVE  CodeInv'
    BY <1>6, <1>7, <1>8, <1>9, <2>1
  <2>. QED
    BY ONLY <1>3, <1>4, <1>5, <1>15, <1>22, <2>1, ZenonT(60) DEF Guest
<1>. QED
  BY <1>16, <1>17, <1>18, <1>19, <1>20, <1>21, <1>22 DEF Next, Timed

LEMMA ArgInvKept ==
  ASSUME PhaseInv, ArgInv, Next
  PROVE  ArgInv'
<1>1. ASSUME state' # "DATA" \/ UNCHANGED <<state, cmd, unit, arg>>
      PROVE  ArgInv'
  BY <1>1 DEF ArgInv
<1>2. ASSUME NEW c, Finish(c)
      PROVE  ArgInv'
  BY <1>1, <1>2 DEF Finish, SetState
<1>3. ASSUME NEW c \in Commands, Command(c) \/ Argument \/ ReadResult
      PROVE  ArgInv'
  BY <1>1, <1>3 DEF Command, Argument, ReadResult, SetState, drives
<1>4. ASSUME NEW c, NEW a, Move(c, a) \/ Simple(c, a)
      PROVE  ArgInv'
  BY <1>2, <1>4 DEF Move, Simple
<1>5. ASSUME NEW c, NEW a \in [unit : Units, cyl : Cylinders, sec : 1 .. Sectors, eot : 1 .. Sectors],
             FetchFirst(c, a) \/ Accept(c, a)
      PROVE  ArgInv'
  <2>1. cmd' = c /\ c \in Transfers /\ arg' = a /\ unit' = a.unit
    BY <1>5 DEF FetchFirst, Accept, LastByte, Transfers
  <2>. QED
    BY <2>1 DEF ArgInv
<1>6. ASSUME UNCHANGED <<cmd, unit, arg>>, Finish(cmd) \/ UNCHANGED state
      PROVE  ArgInv'
  BY <1>1, <1>2, <1>6
<1>7. CASE Byte
  <2>1. CASE ReadByte \/ ReadNothing
    BY <1>6, <2>1 DEF ReadByte, ReadNothing, drives
  <2>2. ASSUME NEW v \in Data, WriteByte(v) \/ ScanByte(v)
        PROVE  ArgInv'
    BY <1>6, <2>2 DEF WriteByte, ScanByte, drives
  <2>3. ASSUME NEW c, NEW s, NEW v, FormatByte(c, s, v)
        PROVE  ArgInv'
    BY <1>6, <2>3 DEF FormatByte
  <2>. QED
    BY <1>7, <2>1, <2>2, <2>3 DEF Byte
<1>8. CASE Terminal
  <2>1. CASE TerminalPort \/ AbandonPort \/ TerminalBoth
    BY <1>1, <2>1 DEF TerminalPort, AbandonPort, TerminalBoth, SetState
  <2>2. ASSUME NEW level \in BOOLEAN, TerminalCount(level)
        PROVE  ArgInv'
    BY <1>1, <2>2 DEF TerminalCount, Finish, SetState, drives
  <2>. QED
    BY <1>8, <2>1, <2>2 DEF Terminal
<1>9. CASE Timed
  BY <1>1, <1>9 DEF Timed, SeekCallback, IndexCallback, phases, drives
<1>10. CASE Reset
  BY <1>1, <1>10 DEF Reset, Fresh
<1>11. ASSUME NEW us, DriveSelect(us) \/ Attach(us)
       PROVE  ArgInv'
  BY <1>1, <1>11 DEF DriveSelect, Attach, phases, drives
<1>12. CASE Guest
  <2>1. ASSUME NEW c \in Commands, NEW u \in Addressed, NEW cyl \in Reached,
               NEW s \in 1 .. Sectors, NEW e \in 1 .. Sectors,
               LET a == [unit |-> u, cyl |-> cyl, sec |-> s, eot |-> e]
               IN  \/ Move(c, a) \/ Simple(c, a) \/ FetchFirst(c, a)
                   \/ (c = "WRITE" => s = e) /\ Accept(c, a)
        PROVE  ArgInv'
    <3>1. u \in Units /\ cyl \in Cylinders
      BY FDCAssumption DEF Addressed, Units, Reached, PhaseInv
    <3>2. [unit |-> u, cyl |-> cyl, sec |-> s, eot |-> e]
            \in [unit : Units, cyl : Cylinders, sec : 1 .. Sectors, eot : 1 .. Sectors]
      BY <3>1
    <3>. QED
      BY <1>4, <1>5, <2>1, <3>2
  <2>2. CASE Argument \/ ReadResult
    BY <1>1, <2>2 DEF Argument, ReadResult, SetState, drives
  <2>. QED
    BY ONLY <1>12, <1>3, <1>7, <2>1, <2>2, ZenonT(60) DEF Guest
<1>. QED
  BY <1>8, <1>9, <1>10, <1>11, <1>12 DEF Next

LEMMA EventAdded ==
  ASSUME NEW e \in SeekEvent, seeks \in [SeekEvent -> Nat], seeks' = [seeks EXCEPT ![e] = @ + 1]
  PROVE  seeks' \in [SeekEvent -> Nat]
OBVIOUS

LEMMA EventInvKept ==
  ASSUME PhaseInv, ArgInv, EventInv, Next
  PROVE  EventInv'
<1>. USE DEF EventInv
<1>0. Addressed \subseteq Units
  BY DEF Addressed, Units, PhaseInv
<1>1. ASSUME UNCHANGED <<busy, inserted, seeks, trains>>
      PROVE  EventInv'
  BY <1>1
<1>2. ASSUME NEW c \in Commands, Command(c) \/ Argument \/ ReadResult
      PROVE  EventInv'
  BY <1>1, <1>2 DEF Command, Argument, ReadResult, status, drives, timed
<1>3. ASSUME NEW u, u \in Units, NEW c, NEW s, Seek(u, c, s), UNCHANGED <<inserted, trains>>
      PROVE  EventInv'
  <2>1. <<u, TRUE>> \in SeekEvent /\ <<u, FALSE>> \in SeekEvent
    BY <1>3, SeekEvents
  <2>2. CASE u \in inserted
    <3>1. (u \in inserted) = TRUE
      BY <2>2
    <3>2. seeks' = [seeks EXCEPT ![<<u, TRUE>>] = @ + 1] /\ busy' = busy \cup {u}
      BY <1>3, <3>1 DEF Seek, AddSeek
    <3>3. seeks' \in [SeekEvent -> Nat]
      BY <2>1, <3>2, EventAdded
    <3>. QED
      BY <1>3, <3>2, <3>3
  <2>3. CASE u \notin inserted
    <3>1. (u \in inserted) = FALSE
      BY <2>3
    <3>2. seeks' = [seeks EXCEPT ![<<u, FALSE>>] = @ + 1] /\ busy' = busy \cup {u}
      BY <1>3, <3>1 DEF Seek, AddSeek
    <3>3. seeks' \in [SeekEvent -> Nat]
      BY <2>1, <3>2, EventAdded
    <3>. QED
      BY <1>3, <3>2, <3>3
  <2>. QED
    BY <2>2, <2>3
<1>4. ASSUME NEW u \in Addressed, NEW c, NEW a, a.unit = u, Move(c, a)
      PROVE  EventInv'
  <2>1. PICK cyl, s : Seek(u, cyl, s)
    BY <1>4 DEF Move
  <2>. QED
    BY <1>0, <1>3, <1>4, <2>1 DEF Move
<1>5. ASSUME NEW c, NEW a, Simple(c, a) \/ FetchFirst(c, a) \/ Accept(c, a)
      PROVE  EventInv'
  BY <1>1, <1>5 DEF Simple, FetchFirst, Accept, timed
<1>6. ASSUME NEW c, NEW s, NEW v, FormatByte(c, s, v)
      PROVE  EventInv'
  <2>1. CASE transfer.idx < 3
    BY <1>1, <1>6, <2>1 DEF FormatByte
  <2>2. CASE ~(transfer.idx < 3)
    <3>1. unit \in Units
      BY <1>6 DEF FormatByte, ArgInv
    <3>. QED
      BY <1>3, <1>6, <2>2, <3>1 DEF FormatByte
  <2>. QED
    BY <2>1, <2>2
<1>7. CASE Byte
  <2>1. CASE ReadByte \/ ReadNothing
    BY <1>1, <2>1 DEF ReadByte, ReadNothing, drives, timed
  <2>2. ASSUME NEW v \in Data, WriteByte(v) \/ ScanByte(v)
        PROVE  EventInv'
    BY <1>1, <2>2 DEF WriteByte, ScanByte, drives, timed
  <2>. QED
    BY <1>6, <1>7, <2>1, <2>2 DEF Byte
<1>8. CASE Terminal
  <2>1. CASE TerminalPort \/ AbandonPort \/ TerminalBoth
    BY <1>1, <2>1 DEF TerminalPort, AbandonPort, TerminalBoth, drives, timed
  <2>2. ASSUME NEW level \in BOOLEAN, TerminalCount(level)
        PROVE  EventInv'
    BY <1>1, <2>2 DEF TerminalCount, drives, timed
  <2>. QED
    BY <1>8, <2>1, <2>2 DEF Terminal
<1>9. ASSUME NEW e \in SeekEvent, SeekCallback(e)
      PROVE  EventInv'
  BY <1>9 DEF SeekCallback, drives
<1>10. ASSUME NEW v \in {0, 1}, IndexCallback(v)
       PROVE  EventInv'
  <2>1. UNCHANGED <<busy, inserted, seeks>> /\ trains[v] \in Nat /\ trains[v] > 0
    BY <1>10 DEF IndexCallback, drives
  <2>2. trains' \in [{0, 1} -> Nat]
    <3>1. 1 - v \in {0, 1} /\ 1 - v # v /\ trains[1 - v] \in Nat
      OBVIOUS
    <3>2. CASE selected
      BY <1>10, <2>1, <3>1, <3>2 DEF IndexCallback, NextIndex
    <3>3. CASE ~selected
      BY <1>10, <2>1, <3>3 DEF IndexCallback, NextIndex
    <3>. QED
      BY <3>2, <3>3
  <2>. QED
    BY <2>1, <2>2
<1>11. CASE Reset
  BY <1>11 DEF Reset, Fresh
<1>12. ASSUME NEW us, DriveSelect(us)
       PROVE  EventInv'
  BY <1>12 DEF DriveSelect, drives
<1>13. ASSUME NEW u \in Addressed, Attach(u)
       PROVE  EventInv'
  BY <1>0, <1>13 DEF Attach, status, timed
<1>14. CASE Guest
  <2>1. ASSUME NEW c \in Commands, NEW u \in Addressed, NEW cyl, NEW s, NEW e,
               LET a == [unit |-> u, cyl |-> cyl, sec |-> s, eot |-> e]
               IN  \/ Move(c, a) \/ Simple(c, a) \/ FetchFirst(c, a)
                   \/ (c = "WRITE" => s = e) /\ Accept(c, a)
        PROVE  EventInv'
    BY <1>4, <1>5, <2>1
  <2>2. CASE Argument \/ ReadResult
    BY <1>1, <2>2 DEF Argument, ReadResult, status, drives, timed
  <2>. QED
    BY ONLY <1>2, <1>7, <1>14, <2>1, <2>2, ZenonT(60) DEF Guest
<1>. QED
  BY <1>8, <1>9, <1>10, <1>11, <1>12, <1>13, <1>14 DEF Next, Timed

\* The images: a write stores a sector of bytes, of which format() makes one.
LEMMA SectorStored ==
  ASSUME ContentInv, NEW u, NEW a, NEW b \in [0 .. (Size - 1) -> Data],
         content' = [content EXCEPT ![u][a] = b]
  PROVE  ContentInv'
<1>1. ASSUME NEW x \in Units
      PROVE  content'[x] \in [Address -> [0 .. (Size - 1) -> Data]]
  <2>1. content[x] \in [Address -> [0 .. (Size - 1) -> Data]]
    BY DEF ContentInv
  <2>2. CASE x = u
    <3>1. content'[x] = [content[x] EXCEPT ![a] = b]
      BY <2>2 DEF ContentInv
    <3>. QED
      BY <2>1, <3>1
  <2>3. CASE x # u
    BY <2>1, <2>3 DEF ContentInv
  <2>. QED
    BY <2>2, <2>3
<1>2. content' = [x \in Units |-> content'[x]]
  BY DEF ContentInv
<1>. QED
  BY <1>1, <1>2 DEF ContentInv

LEMMA ContentInvKept ==
  ASSUME PhaseInv, WriteInv, ContentInv, Next
  PROVE  ContentInv'
<1>1. ASSUME UNCHANGED content
      PROVE  ContentInv'
  BY <1>1 DEF ContentInv
<1>2. ASSUME NEW v \in Data, WriteByte(v)
      PROVE  ContentInv'
  <2>1. CASE transfer'.idx = Size /\ unit \in inserted
    <3>1. content' = [content EXCEPT ![unit][<<arg.cyl, arg.sec>>] = transfer'.buf]
      BY <1>2, <2>1 DEF WriteByte
    <3>2. /\ transfer' = [buf |-> Stored(v), idx |-> Len(moved'), done |-> 0]
          /\ Stored(v) = [i \in 0 .. (Len(moved') - 1) |-> moved'[i + 1]]
          /\ moved' \in Seq(Data)
      BY <1>2, StoredInOrder
    <3>3. transfer'.buf = [i \in 0 .. (Size - 1) |-> moved'[i + 1]] /\ Len(moved') = Size
      BY ONLY <2>1, <3>2
    <3>4. \A i \in 0 .. (Size - 1) : moved'[i + 1] \in Data
      BY <3>2, <3>3
    <3>5. transfer'.buf \in [0 .. (Size - 1) -> Data]
      BY <3>3, <3>4
    <3>. QED
      BY <3>1, <3>5, SectorStored
  <2>2. CASE ~(transfer'.idx = Size /\ unit \in inserted)
    BY <1>1, <1>2, <2>2 DEF WriteByte
  <2>. QED
    BY <2>1, <2>2
<1>3. ASSUME NEW c, NEW s, NEW v \in Data, FormatByte(c, s, v)
      PROVE  ContentInv'
  <2>1. [i \in 0 .. (Size - 1) |-> v] \in [0 .. (Size - 1) -> Data]
    OBVIOUS
  <2>2. \/ UNCHANGED content
        \/ content' = [content EXCEPT ![unit][<<c, s>>] = [i \in 0 .. (Size - 1) |-> v]]
    BY <1>3 DEF FormatByte
  <2>. QED
    BY <1>1, <2>1, <2>2, SectorStored
<1>4. CASE Byte
  <2>1. CASE ReadByte \/ ReadNothing
    BY <1>1, <2>1 DEF ReadByte, ReadNothing, drives
  <2>2. ASSUME NEW v \in Data, ScanByte(v)
        PROVE  ContentInv'
    BY <1>1, <2>2 DEF ScanByte, drives
  <2>. QED
    BY <1>2, <1>3, <1>4, <2>1, <2>2 DEF Byte
<1>5. CASE Guest
  <2>1. ASSUME NEW c, Command(c) \/ Argument \/ ReadResult
        PROVE  ContentInv'
    BY <1>1, <2>1 DEF Command, Argument, ReadResult, drives
  <2>2. ASSUME NEW c, NEW a, Move(c, a) \/ Simple(c, a) \/ FetchFirst(c, a) \/ Accept(c, a)
        PROVE  ContentInv'
    BY <1>1, <2>2 DEF Move, Simple, FetchFirst, Accept
  <2>3. ASSUME NEW c, NEW u, NEW cyl, NEW s, NEW e,
               LET a == [unit |-> u, cyl |-> cyl, sec |-> s, eot |-> e]
               IN  \/ Move(c, a) \/ Simple(c, a) \/ FetchFirst(c, a)
                   \/ (c = "WRITE" => s = e) /\ Accept(c, a)
        PROVE  ContentInv'
    BY <2>2, <2>3
  <2>. QED
    BY ONLY <1>4, <1>5, <2>1, <2>3, ZenonT(60) DEF Guest
<1>6. CASE Terminal \/ Timed \/ Reset
  BY <1>1, <1>6 DEF Terminal, TerminalPort, AbandonPort, TerminalBoth, TerminalCount,
                    Timed, SeekCallback, IndexCallback, Reset, drives
<1>7. ASSUME NEW us, DriveSelect(us) \/ Attach(us)
      PROVE  ContentInv'
  BY <1>1, <1>7 DEF DriveSelect, Attach, drives
<1>. QED
  BY <1>5, <1>6, <1>7 DEF Next

TypeInv == WordInv /\ IndexInv /\ CodeInv /\ ArgInv /\ EventInv /\ ContentInv

LEMMA TypesKept ==
  ASSUME PhaseInv, WriteInv, TypeInv, [Next]_vars
  PROVE  TypeInv'
<1>1. CASE Next
  BY <1>1, WordInvKept, IndexInvKept, CodeInvKept, ArgInvKept, EventInvKept, ContentInvKept
     DEF TypeInv
<1>2. CASE UNCHANGED vars
  BY <1>2 DEF vars, phases, status, drives, timed, TypeInv, WordInv, IndexInv, CodeInv,
              ArgInv, EventInv, ContentInv
<1>. QED
  BY <1>1, <1>2

LEMMA TypesBegin ==
  ASSUME Init
  PROVE  TypeInv
<1>1. WordInv /\ IndexInv /\ CodeInv /\ ArgInv
  BY DEF Init, Empty, WordInv, IndexInv, CodeInv, ArgInv
<1>2. EventInv
  BY DEF Init, EventInv, Addressed, Units
<1>3. ContentInv
  BY FDCAssumption DEF Init, ContentInv, Address
<1>. QED
  BY <1>1, <1>2, <1>3 DEF TypeInv

\* Every phase has the data it works on: the arguments of its command, an index in the
\* buffer of a sector, a code; and every result phase has a result left to read.
THEOREM PhasesAreSound == Spec => []PhasesSound
<1>1. Init => PhaseInv /\ WriteInv /\ TypeInv
  <2>1. Init => PhaseInv /\ WriteInv
    BY DEF Init, PhaseInv, WriteInv, Commands
  <2>. QED
    BY <2>1, TypesBegin
<1>2. PhaseInv /\ WriteInv /\ TypeInv /\ [Next]_vars => (PhaseInv /\ WriteInv /\ TypeInv)'
  BY PhaseInvKept, WriteInvKept, TypesKept
<1>3. PhaseInv /\ TypeInv => PhasesSound
  <2>. SUFFICES ASSUME PhaseInv, TypeInv
                PROVE  TypeOK /\ ResultComplete
    BY DEF PhasesSound
  <2>1. WordInv /\ IndexInv /\ CodeInv /\ EventInv /\ ContentInv
    BY DEF TypeInv
  <2>2. {dio, tc, selected} \subseteq BOOLEAN
    BY <2>1 DEF CodeInv
  <2>. QED
    BY <2>1, <2>2 DEF PhaseInv, TypeOK, ResultComplete, WordInv, IndexInv, CodeInv, EventInv,
                      ContentInv
<1>. QED
  BY <1>1, <1>2, <1>3, PTL DEF Spec

-----------------------------------------------------------------------------
(***************************************************************************)
(* Sectors read.                                                           *)
(***************************************************************************)

LEMMA Multiples ==
  ASSUME NEW a \in Int, NEW b \in Int, NEW s \in Int, s > 0, a < b
  PROVE  a * s + s <= b * s
<1>1. PICK k \in Nat : b - a = k + 1
  <2>1. b - a - 1 \in Nat
    OBVIOUS
  <2>. QED
    BY <2>1
<1>2. k * s >= 0
  OBVIOUS
<1>3. (b - a) * s >= s
  BY <1>1, <1>2
<1>. QED
  BY <1>3

\* The head of every drive.
PosInv == pos \in [Units -> [cyl : Nat, sec : Nat]]

\* READ DATA has its head on a sector of its cylinder, that sector in the buffer, and has
\* moved the bytes of the sectors before it and those before its index; at the end of the
\* buffer there is a sector left.
ReadInv ==
  state = "DATA" /\ cmd = "READ" =>
    /\ pos[arg.unit].cyl = arg.cyl
    /\ Len(moved) \in Nat
    /\ Len(moved) = (pos[arg.unit].sec - arg.sec) * Size + transfer.idx
    /\ transfer.buf = content[arg.unit][<<arg.cyl, pos[arg.unit].sec>>]
    /\ arg.sec <= arg.eot => /\ pos[arg.unit].sec <= arg.eot
                             /\ transfer.idx = Size => pos[arg.unit].sec < arg.eot

LEMMA PosMoved ==
  ASSUME PosInv, NEW u, NEW c \in Nat, NEW s \in Nat,
         pos' = [pos EXCEPT ![u] = [cyl |-> c, sec |-> s]]
  PROVE  PosInv'
BY DEF PosInv

LEMMA PosInvKept ==
  ASSUME PhaseInv, ArgInv, PosInv, Next
  PROVE  PosInv'
<1>0. Cylinders \subseteq Nat /\ 1 .. Sectors \subseteq Nat /\ Addressed \subseteq Units
      /\ Reached \subseteq Cylinders
  BY FDCAssumption DEF PhaseInv, Addressed, Units, Reached
<1>1. ASSUME UNCHANGED pos
      PROVE  PosInv'
  BY <1>1 DEF PosInv
<1>2. ASSUME NEW c, NEW a, Simple(c, a) \/ Accept(c, a)
      PROVE  PosInv'
  BY <1>1, <1>2 DEF Simple, Accept
<1>3. ASSUME NEW u \in Addressed, NEW cyl \in Reached, NEW s \in 1 .. Sectors, NEW c, NEW a,
             a.unit = u, a.cyl = cyl, a.sec = s, Move(c, a) \/ FetchFirst(c, a)
      PROVE  PosInv'
  <2>1. cyl \in Nat /\ s \in Nat /\ pos[u].sec \in Nat /\ 0 \in Nat /\ 1 \in Nat
    BY <1>0 DEF PosInv
  <2>2. CASE Move(c, a)
    BY <1>3, <2>1, <2>2, PosMoved DEF Move, Seek
  <2>3. CASE FetchFirst(c, a)
    BY <1>3, <2>1, <2>3, PosMoved DEF FetchFirst
  <2>. QED
    BY <1>3, <2>2, <2>3
<1>4. CASE ReadByte
  <2>1. unit \in Units
    BY <1>4 DEF ReadByte, ArgInv
  <2>2. pos[unit] \in [cyl : Nat, sec : Nat] /\ NextSec \in Nat
    BY <2>1 DEF PosInv, NextSec
  <2>3. UNCHANGED pos \/ pos' = [pos EXCEPT ![unit].sec = NextSec]
    BY <1>4 DEF ReadByte
  <2>. QED
    BY <1>1, <2>2, <2>3 DEF PosInv
<1>5. ASSUME NEW v \in Data, WriteByte(v)
      PROVE  PosInv'
  <2>1. arg.cyl \in Nat /\ arg.sec \in Nat
    BY <1>0, <1>5 DEF WriteByte, ArgInv
  <2>2. UNCHANGED pos \/ pos' = [pos EXCEPT ![unit] = [cyl |-> arg.cyl, sec |-> arg.sec]]
    BY <1>5 DEF WriteByte
  <2>. QED
    BY <1>1, <2>1, <2>2, PosMoved
<1>6. ASSUME NEW c \in Reached, NEW s \in 1 .. Sectors, NEW v, FormatByte(c, s, v)
      PROVE  PosInv'
  <2>1. c \in Nat /\ s \in Nat
    BY <1>0
  <2>2. UNCHANGED pos \/ pos' = [pos EXCEPT ![unit] = [cyl |-> c, sec |-> s]]
    BY <1>6 DEF FormatByte, Seek
  <2>. QED
    BY <1>1, <2>1, <2>2, PosMoved
<1>7. CASE Byte
  <2>1. ASSUME NEW v, ReadNothing \/ ScanByte(v)
        PROVE  PosInv'
    BY <1>1, <2>1 DEF ReadNothing, ScanByte, drives
  <2>. QED
    BY <1>4, <1>5, <1>6, <1>7, <2>1 DEF Byte
<1>8. CASE Guest
  <2>1. ASSUME NEW c, Command(c) \/ Argument \/ ReadResult
        PROVE  PosInv'
    BY <1>1, <2>1 DEF Command, Argument, ReadResult, drives
  <2>2. ASSUME NEW c \in Commands, NEW u \in Addressed, NEW cyl \in Reached,
               NEW s \in 1 .. Sectors, NEW e \in 1 .. Sectors,
               LET a == [unit |-> u, cyl |-> cyl, sec |-> s, eot |-> e]
               IN  \/ Move(c, a) \/ Simple(c, a) \/ FetchFirst(c, a)
                   \/ (c = "WRITE" => s = e) /\ Accept(c, a)
        PROVE  PosInv'
    BY <1>2, <1>3, <2>2
  <2>. QED
    BY ONLY <1>7, <1>8, <2>1, <2>2, ZenonT(60) DEF Guest
<1>9. CASE Terminal \/ Timed \/ Reset
  BY <1>1, <1>9 DEF Terminal, TerminalPort, AbandonPort, TerminalBoth, TerminalCount,
                    Timed, SeekCallback, IndexCallback, Reset, drives
<1>10. ASSUME NEW us, DriveSelect(us) \/ Attach(us)
       PROVE  PosInv'
  BY <1>1, <1>10 DEF DriveSelect, Attach, drives
<1>. QED
  BY <1>8, <1>9, <1>10 DEF Next

\* The byte that READ DATA reads, before the index is counted up.
LEMMA ByteRead ==
  ASSUME PosInv, IndexInv, ArgInv, ReadInv, ReadByte
  PROVE  /\ Len(moved') \in Nat /\ Len(moved') = Len(moved) + 1
         /\ pos'[arg.unit].sec = IF AtEnd THEN pos[arg.unit].sec + 1 ELSE pos[arg.unit].sec
         /\ pos'[arg.unit].cyl = arg.cyl
         /\ pos[arg.unit].sec \in Nat /\ pos'[arg.unit].sec \in Nat
         /\ Fetched.buf = content[arg.unit][<<arg.cyl, pos'[arg.unit].sec>>]
         /\ Fetched.idx = (IF AtEnd THEN 0 ELSE transfer.idx)
         /\ Fetched.idx \in 0 .. (Size - 1)
         /\ transfer'.idx = Fetched.idx + 1 /\ transfer'.buf = Fetched.buf
         /\ Len(moved) = (pos'[arg.unit].sec - arg.sec) * Size + Fetched.idx
         /\ arg.sec \in Nat /\ arg.eot \in Nat
<1>0. Size \in Nat /\ Size > 0 /\ Sectors \in Nat
  BY FDCAssumption
<1>1. /\ state = "DATA" /\ cmd = "READ"
      /\ unit = arg.unit /\ arg.unit \in Units /\ arg.sec \in Nat /\ arg.eot \in Nat
  BY <1>0 DEF ReadByte, ArgInv
<1>2. /\ pos[arg.unit].cyl = arg.cyl /\ Len(moved) \in Nat
      /\ Len(moved) = (pos[arg.unit].sec - arg.sec) * Size + transfer.idx
      /\ transfer.buf = content[arg.unit][<<arg.cyl, pos[arg.unit].sec>>]
      /\ transfer.idx \in 0 .. Size
  BY <1>1 DEF ReadInv, IndexInv
<1>3. pos[arg.unit] = [cyl |-> pos[arg.unit].cyl, sec |-> pos[arg.unit].sec]
      /\ pos[arg.unit].sec \in Nat /\ arg.unit \in DOMAIN pos
  BY <1>1 DEF PosInv
<1>4. moved' = Append(moved, "read") /\ transfer' = [Fetched EXCEPT !.idx = @ + 1]
      /\ pos' = IF AtEnd THEN [pos EXCEPT ![unit].sec = NextSec] ELSE pos
  BY DEF ReadByte
<1>. DEFINE p == pos[arg.unit].sec
            p2 == IF AtEnd THEN p + 1 ELSE p
<1>5. pos'[arg.unit].sec = p2 /\ pos'[arg.unit].cyl = arg.cyl
  <2>1. CASE AtEnd
    <3>1. pos'[arg.unit] = [pos[arg.unit] EXCEPT !.sec = NextSec]
      BY <1>1, <1>3, <1>4, <2>1
    <3>. QED
      BY <1>1, <1>2, <1>3, <2>1, <3>1 DEF NextSec
  <2>2. CASE ~AtEnd
    BY <1>2, <1>4, <2>2
  <2>. QED
    BY <2>1, <2>2
<1>6. Fetched = [buf |-> content[arg.unit][<<arg.cyl, p2>>],
                 idx |-> IF AtEnd THEN 0 ELSE transfer.idx, done |-> transfer.done]
  <2>1. CASE AtEnd
    <3>1. Fetched = [transfer EXCEPT !.buf = content[arg.unit][<<arg.cyl, p2>>], !.idx = 0]
      BY <1>1, <1>2, <2>1 DEF Fetched, NextSec
    <3>. QED
      BY <2>1, <3>1 DEF IndexInv
  <2>2. CASE ~AtEnd
    <3>1. Fetched = transfer
      BY <2>2 DEF Fetched
    <3>. QED
      BY <1>2, <2>2, <3>1 DEF IndexInv
  <2>. QED
    BY <2>1, <2>2
<1>7. Len(moved') = Len(moved) + 1
  BY <1>2, <1>4
<1>8. Len(moved) = (p2 - arg.sec) * Size + (IF AtEnd THEN 0 ELSE transfer.idx)
  <2>1. CASE AtEnd
    <3>1. transfer.idx = Size
      BY <2>1 DEF AtEnd
    <3>2. (p + 1 - arg.sec) * Size = (p - arg.sec) * Size + Size
      BY <1>0, <1>1, <1>3
    <3>3. Len(moved) = (p - arg.sec) * Size + Size
      BY <1>2, <3>1
    <3>4. Len(moved) = (p + 1 - arg.sec) * Size + 0
      BY <3>2, <3>3
    <3>5. p2 = p + 1 /\ p \in Nat /\ arg.sec \in Nat /\ Size \in Nat
      BY <1>0, <1>1, <1>3, <2>1
    <3>. HIDE DEF p, p2
    <3>6. Len(moved) = (p2 - arg.sec) * Size + 0
      BY ONLY <3>4, <3>5
    <3>7. (IF AtEnd THEN 0 ELSE transfer.idx) = 0
      BY <2>1
    <3>. QED
      BY ONLY <3>6, <3>7
  <2>2. CASE ~AtEnd
    BY <1>2, <2>2
  <2>. QED
    BY <2>1, <2>2
<1>9. (IF AtEnd THEN 0 ELSE transfer.idx) \in 0 .. (Size - 1)
  BY <1>0, <1>2 DEF AtEnd
<1>10. p2 \in Nat
  BY <1>3
<1>. HIDE DEF p2
<1>11. transfer' = [buf |-> Fetched.buf, idx |-> Fetched.idx + 1, done |-> transfer.done]
  BY <1>4, <1>6
<1>12. /\ Fetched.buf = content[arg.unit][<<arg.cyl, p2>>]
       /\ Fetched.idx = IF AtEnd THEN 0 ELSE transfer.idx
  BY <1>6
<1>13. transfer'.idx = Fetched.idx + 1 /\ transfer'.buf = Fetched.buf
  BY <1>11
<1>14. p2 = IF AtEnd THEN p + 1 ELSE p
  BY DEF p2
<1>. QED
  BY <1>1, <1>2, <1>3, <1>5, <1>7, <1>8, <1>9, <1>10, <1>12, <1>13, <1>14

LEMMA ReadInvKept ==
  ASSUME PhaseInv, ArgInv, IndexInv, PosInv, ReadInv, Next
  PROVE  ReadInv'
<1>1. ASSUME state' # "DATA" \/ cmd' # "READ"
      PROVE  ReadInv'
  BY <1>1 DEF ReadInv
<1>2. ASSUME UNCHANGED <<state, cmd, pos, arg, moved, transfer, content>>
      PROVE  ReadInv'
  BY <1>2 DEF ReadInv
<1>3. ASSUME NEW c, Finish(c)
      PROVE  ReadInv'
  BY <1>1, <1>3 DEF Finish, SetState
<1>4. ASSUME NEW c \in Commands, Command(c) \/ Argument \/ ReadResult
      PROVE  ReadInv'
  BY <1>1, <1>2, <1>4 DEF Command, Argument, ReadResult, SetState, drives
<1>5. ASSUME NEW c, NEW a, Move(c, a) \/ Simple(c, a) \/ Accept(c, a)
      PROVE  ReadInv'
  <2>1. CASE Move(c, a) \/ Simple(c, a)
    BY <1>3, <2>1 DEF Move, Simple
  <2>2. CASE Accept(c, a)
    BY <1>1, <2>2 DEF Accept, LastByte
  <2>. QED
    BY <1>5, <2>1, <2>2
<1>6. ASSUME NEW c, NEW u \in Addressed, NEW a,
             a \in [unit : {u}, cyl : Reached, sec : 1 .. Sectors, eot : 1 .. Sectors],
             FetchFirst(c, a)
      PROVE  ReadInv'
  <2>1. CASE c = "READ" /\ Readable(a.unit, a.cyl, a.sec)
    <3>1. u \in Units
      BY DEF Addressed, Units, PhaseInv
    <3>2. arg' = a /\ moved' = <<>> /\ UNCHANGED content
          /\ pos' = [pos EXCEPT ![a.unit] = [cyl |-> a.cyl, sec |-> a.sec]]
          /\ transfer' = [Empty EXCEPT !.buf = content[a.unit][<<a.cyl, a.sec>>]]
      BY <1>6, <2>1 DEF FetchFirst, LastByte, Transfers
    <3>3. transfer'.idx = 0 /\ transfer'.buf = content[a.unit][<<a.cyl, a.sec>>]
      BY <3>2 DEF Empty
    <3>4. a.unit = u /\ a.sec \in Nat /\ a.eot \in Nat
      BY <1>6, FDCAssumption
    <3>5. pos'[a.unit].cyl = a.cyl /\ pos'[a.unit].sec = a.sec
      BY <3>1, <3>2, <3>4 DEF PosInv
    <3>6. Size \in Nat /\ Size > 0 /\ Len(moved') = 0
      BY <3>2, FDCAssumption
    <3>7. (a.sec - a.sec) * Size + 0 = 0
      BY <3>4, <3>6
    <3>. QED
      BY <3>2, <3>3, <3>4, <3>5, <3>6, <3>7 DEF ReadInv
  <2>2. CASE c # "READ"
    BY <1>1, <1>6, <2>2 DEF FetchFirst, LastByte
  <2>3. CASE ~Readable(a.unit, a.cyl, a.sec)
    BY <1>3, <1>6, <2>3 DEF FetchFirst
  <2>. QED
    BY <2>1, <2>2, <2>3
<1>7. CASE ReadByte
  <2>1. CASE Finish(cmd)
    BY <1>3, <2>1
  <2>2. CASE ~Finish(cmd)
    <3>1. /\ state = "DATA" /\ cmd = "READ" /\ UNCHANGED <<arg, content>>
          /\ ~(transfer'.idx = Size /\ (IF AtEnd THEN NextSec ELSE pos[unit].sec) = arg.eot)
          /\ unit = arg.unit
      BY <1>7, <2>2 DEF ReadByte, ArgInv
    <3>2. (IF AtEnd THEN NextSec ELSE pos[unit].sec) = pos'[arg.unit].sec
      BY <1>7, <3>1, ByteRead DEF NextSec
    <3>3. ~(transfer'.idx = Size /\ pos'[arg.unit].sec = arg.eot)
      BY <3>1, <3>2
    <3>4. (transfer.idx = Size <=> AtEnd) /\ Size \in Nat
      BY FDCAssumption DEF AtEnd
    <3>5. arg.sec <= arg.eot => pos'[arg.unit].sec <= arg.eot
      <4>. SUFFICES ASSUME arg.sec <= arg.eot PROVE pos'[arg.unit].sec <= arg.eot
        OBVIOUS
      <4>1. pos[arg.unit].sec <= arg.eot /\ (AtEnd => pos[arg.unit].sec < arg.eot)
        BY <3>1, <3>4 DEF ReadInv
      <4>. QED
        BY <1>7, <4>1, ByteRead
    <3>6. arg.sec <= arg.eot => (transfer'.idx = Size => pos'[arg.unit].sec < arg.eot)
      BY <1>7, <3>3, <3>5, ByteRead
    <3>7. Len(moved') = (pos'[arg.unit].sec - arg.sec) * Size + transfer'.idx
      <4>. DEFINE k == (pos'[arg.unit].sec - arg.sec) * Size
      <4>1. k \in Int /\ Fetched.idx \in Int /\ Len(moved) = k + Fetched.idx
            /\ Len(moved') = Len(moved) + 1 /\ transfer'.idx = Fetched.idx + 1
        BY <1>7, <3>4, ByteRead
      <4>. HIDE DEF k
      <4>2. Len(moved') = k + transfer'.idx
        BY <4>1
      <4>. QED
        BY <4>2 DEF k
    <3>8. transfer'.buf = content'[arg'.unit][<<arg'.cyl, pos'[arg'.unit].sec>>]
      BY <1>7, <3>1, ByteRead
    <3>. QED
      BY <1>7, <3>1, <3>5, <3>6, <3>7, <3>8, ByteRead DEF ReadInv
  <2>. QED
    BY <2>1, <2>2
<1>8. CASE Byte
  <2>1. CASE ReadNothing
    BY <1>3, <2>1 DEF ReadNothing
  <2>2. ASSUME NEW v \in Data, WriteByte(v) \/ ScanByte(v)
        PROVE  ReadInv'
    BY <1>1, <2>2 DEF WriteByte, ScanByte
  <2>3. ASSUME NEW c, NEW s, NEW v, FormatByte(c, s, v)
        PROVE  ReadInv'
    BY <1>1, <2>3 DEF FormatByte
  <2>. QED
    BY <1>7, <1>8, <2>1, <2>2, <2>3 DEF Byte
<1>9. CASE Terminal
  <2>1. CASE TerminalPort \/ AbandonPort \/ TerminalBoth
    BY <1>1, <2>1 DEF TerminalPort, AbandonPort, TerminalBoth, SetState
  <2>2. ASSUME NEW level \in BOOLEAN, TerminalCount(level)
        PROVE  ReadInv'
    <3>1. CASE level
      BY <1>1, <2>2, <3>1 DEF TerminalCount, Finish, SetState
    <3>2. CASE ~level
      BY <1>2, <2>2, <3>2 DEF TerminalCount, drives
    <3>. QED
      BY <3>1, <3>2
  <2>. QED
    BY <1>9, <2>1, <2>2 DEF Terminal
<1>10. CASE Timed
  BY <1>2, <1>10 DEF Timed, SeekCallback, IndexCallback, phases, drives
<1>11. CASE Reset
  BY <1>1, <1>11 DEF Reset, Fresh
<1>12. ASSUME NEW us, DriveSelect(us) \/ Attach(us)
       PROVE  ReadInv'
  BY <1>2, <1>12 DEF DriveSelect, Attach, phases, drives
<1>13. CASE Guest
  <2>1. ASSUME NEW c \in Commands, NEW u \in Addressed, NEW cyl \in Reached,
               NEW s \in 1 .. Sectors, NEW e \in 1 .. Sectors,
               LET a == [unit |-> u, cyl |-> cyl, sec |-> s, eot |-> e]
               IN  \/ Move(c, a) \/ Simple(c, a) \/ FetchFirst(c, a)
                   \/ (c = "WRITE" => s = e) /\ Accept(c, a)
        PROVE  ReadInv'
    BY <1>5, <1>6, <2>1
  <2>2. CASE Argument \/ ReadResult
    BY <1>1, <1>2, <2>2 DEF Argument, ReadResult, SetState, drives
  <2>. QED
    BY ONLY <1>13, <1>4, <1>8, <2>1, <2>2, ZenonT(60) DEF Guest
<1>. QED
  BY <1>9, <1>10, <1>11, <1>12, <1>13 DEF Next

\* The bytes of a READ DATA are those of its sectors in their order, from the first of the
\* arguments to the end of the track.
THEOREM SectorsReadInOrder == Spec => ReadsInOrder
<1>. DEFINE All == PhaseInv /\ WriteInv /\ TypeInv /\ PosInv /\ ReadInv
            n   == Len(moved)
            at  == arg.sec + n \div Size
            Right == /\ arg.sec <= arg.eot => at <= arg.eot
                     /\ Fetched.buf[Fetched.idx] = content[arg.unit][<<arg.cyl, at>>][n % Size]
<1>1. Init => All
  <2>. SUFFICES ASSUME Init PROVE All
    OBVIOUS
  <2>1. PhaseInv /\ WriteInv /\ ReadInv
    BY DEF Init, PhaseInv, WriteInv, ReadInv, Commands
  <2>2. PosInv
    BY DEF Init, PosInv
  <2>. QED
    BY <2>1, <2>2, TypesBegin
<1>2. All /\ [Next]_vars => All'
  <2>. SUFFICES ASSUME All, [Next]_vars PROVE All'
    OBVIOUS
  <2>1. CASE Next
    BY <2>1, PhaseInvKept, WriteInvKept, TypesKept, PosInvKept, ReadInvKept DEF TypeInv
  <2>2. CASE UNCHANGED vars
    <3>1. PosInv' /\ ReadInv'
      BY <2>2 DEF vars, phases, drives, PosInv, ReadInv
    <3>. QED
      BY <3>1, PhaseInvKept, WriteInvKept, TypesKept
  <2>. QED
    BY <2>1, <2>2
<1>3. All /\ [Next]_vars => [ReadByte => Right]_vars
  <2>. SUFFICES ASSUME PosInv, IndexInv, ArgInv, ReadInv, ReadByte
                PROVE  Right
    BY DEF TypeInv
  <2>. DEFINE p == pos'[arg.unit].sec
              i == Fetched.idx
  <2>1. /\ p \in Nat /\ arg.sec \in Nat /\ arg.eot \in Nat /\ n \in Nat
        /\ n = (p - arg.sec) * Size + i /\ i \in 0 .. (Size - 1)
        /\ Fetched.buf = content[arg.unit][<<arg.cyl, p>>]
    BY ByteRead DEF ReadInv, ReadByte
  <2>2. arg.sec <= arg.eot => p <= arg.eot
    <3>1. arg.sec <= arg.eot => /\ pos[arg.unit].sec <= arg.eot
                                /\ AtEnd => pos[arg.unit].sec < arg.eot
      BY DEF ReadInv, ReadByte, AtEnd
    <3>. QED
      BY <3>1, ByteRead
  <2>. HIDE DEF n, p, i
  <2>3. n \div Size = p - arg.sec /\ n % Size = i
    <3>1. Size \in Int /\ Size > 0
      BY FDCAssumption
    <3>. DEFINE k == p - arg.sec
    <3>2. k \in Int /\ i \in Int /\ 0 <= i /\ i < Size /\ n = k * Size + i /\ n \in Nat
      BY <2>1, <3>1
    <3>. DEFINE q == n \div Size
                m == n % Size
    <3>. HIDE DEF k
    <3>3. n = q * Size + m /\ q \in Int /\ m \in 0 .. (Size - 1)
      BY ONLY <3>1, <3>2
    <3>. HIDE DEF q, m
    <3>4. ~(q < k) /\ ~(k < q)
      BY <3>1, <3>2, <3>3, Multiples
    <3>5. q = k /\ m = i
      BY <3>1, <3>2, <3>3, <3>4
    <3>. QED
      BY <3>5 DEF k, q, m
  <2>4. at = p
    BY <2>1, <2>3
  <2>. QED
    BY <2>1, <2>2, <2>3, <2>4 DEF i
<1>. QED
  BY <1>1, <1>2, <1>3, PTL DEF Spec, ReadsInOrder
=============================================================================
