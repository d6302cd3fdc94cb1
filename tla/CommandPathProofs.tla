------------------------- MODULE CommandPathProofs -------------------------
(***************************************************************************)
(* Proofs about CommandPath for any number of commands, any length of      *)
(* frames and any size of buffers.                                         *)
(*                                                                         *)
(* The bytes under way are a piece of a sequence of frames, cut anywhere.  *)
(* Instead of a function from places to frames, which would need products  *)
(* and remainders of the frame length, StreamOK relates every two bytes.   *)
(***************************************************************************)
EXTENDS CommandPath, SequenceTheorems, TLAPS

Sent == [cmd : Cmds, k : 1..FrameLen]
Pdus == [first : Byte, second : Byte]
JunkPdu == Pdu(Junk, Junk)

Types ==
    /\ next \in 1..(NumCmds + 1) /\ up \in BOOLEAN
    /\ net \in Seq(Sent) /\ Len(net) <= NetCap
    /\ pc \in {"accept", "recv", "put"}
    /\ in_buff \in [1..RecvMax -> Byte] /\ in_pdu \in Pdus
    /\ rx \in Seq(Pdus) /\ Len(rx) <= RxCap /\ queued \in Seq(Pdus)
    /\ cut \in BOOLEAN /\ short \in BOOLEAN /\ merged \in BOOLEAN /\ dropped \in BOOLEAN
    /\ pc = "accept" => ~up /\ net = << >>

\* Two bytes of the stream, d places apart: of the same frame, or with at least the
\* rest of the first frame and the beginning of the second in between.
Apart(a, b, d) ==
    \/ a.cmd = b.cmd /\ b.k - a.k = d
    \/ a.cmd < b.cmd /\ d >= FrameLen - a.k + b.k
StreamOK(s, nx) ==
    /\ \A i, j \in 1..Len(s) : i < j => Apart(s[i], s[j], j - i)
    /\ \A i \in 1..Len(s) : s[i].cmd < nx
    /\ \A i \in 1..(Len(s) - 1) : s[i + 1].cmd <= s[i].cmd + 1

\* While the connection holds the stream ends with a whole frame, the last one sent.
EndOK == up /\ net # << >> => net[Len(net)] = [cmd |-> next - 1, k |-> FrameLen]

\* The last PDU read is that of a command sent, none of those under way is older; or
\* no frame has begun to be read.
ReadOK ==
    ~short =>
        \/ /\ in_pdu = JunkPdu /\ pc # "put" /\ queued = << >>
           /\ net # << >> => net[1].k = 1
        \/ /\ \E n \in Cmds : n < next /\ in_pdu = Command(n)
           /\ \A i \in 1..Len(net) : Number(in_pdu) <= net[i].cmd

\* What is queued was sent, in order, and is no newer than the last PDU read.
QueuedOK ==
    ~short =>
        /\ \A i \in 1..Len(queued) :
             /\ \E n \in Cmds : n < next /\ queued[i] = Command(n)
             /\ Number(queued[i]) <= Number(in_pdu)
        /\ \A i, j \in 1..Len(queued) : i < j => Number(queued[i]) <= Number(queued[j])

\* As long as every recv returned whole frames.
WholeOK ==
    ~cut =>
        /\ ~short
        /\ net # << >> => net[1].k = 1
        /\ \A i \in 1..Len(net) : Number(in_pdu) < net[i].cmd
        /\ \A i, j \in 1..Len(queued) : i < j => Number(queued[i]) < Number(queued[j])
        /\ pc = "put" => \A i \in 1..Len(queued) : Number(queued[i]) < Number(in_pdu)

\* As long as every recv returned one whole frame and the connection held.
CountOK ==
    ~cut /\ ~merged /\ ~dropped =>
        /\ \A n \in 1..Len(queued) : n \in Cmds /\ queued[n] = Command(n)
        /\ Number(in_pdu) = IF pc = "put" THEN Len(queued) + 1 ELSE Len(queued)
        /\ net # << >> => net[1].cmd = Number(in_pdu) + 1
        /\ net = << >> => next = Number(in_pdu) + 1
        /\ pc # "accept" => up

\* The inductive invariant.
IInv == Types /\ StreamOK(net, next) /\ EndOK /\ ReadOK /\ QueuedOK /\ WholeOK /\ CountOK

USE PathAssumption DEF Cmds

----------------------------------------------------------------------------
(* Sequences of bytes                                                        *)

LEMMA ByteOf ==
  ASSUME NEW s \in Seq(Sent), NEW i \in 1..Len(s)
  PROVE  /\ s[i] = [cmd |-> s[i].cmd, k |-> s[i].k]
         /\ s[i].cmd \in Nat /\ s[i].cmd \in 1..NumCmds
         /\ s[i].k \in Nat /\ s[i].k \in 1..FrameLen
<1>1. s[i] \in Sent
  BY LenProperties
<1> QED
  BY <1>1 DEF Sent

LEMMA Between ==
  ASSUME NEW s \in Seq(Sent), NEW nx, StreamOK(s, nx),
         NEW i \in 1..Len(s), NEW j \in 1..Len(s), i < j
  PROVE  \/ s[i].cmd = s[j].cmd /\ s[j].k = s[i].k + (j - i)
         \/ s[i].cmd < s[j].cmd /\ s[i].k + (j - i) >= FrameLen + s[j].k
<1>1. Apart(s[i], s[j], j - i)
  BY DEF StreamOK
<1>2. Len(s) \in Nat /\ i \in Int /\ j \in Int
  BY LenProperties
<1>3. s[i].k \in Nat /\ s[j].k \in Nat
  BY ByteOf
<1> QED
  BY <1>1, <1>2, <1>3 DEF Apart

\* A whole frame in front of another byte.
LEMMA AfterFrame ==
  ASSUME NEW s \in Seq(Sent), NEW nx, StreamOK(s, nx),
         NEW i \in 1..(Len(s) - 1), s[i].k = FrameLen
  PROVE  s[i + 1].k = 1 /\ s[i + 1].cmd = s[i].cmd + 1
<1>1. Len(s) \in Nat /\ i \in 1..Len(s) /\ i + 1 \in 1..Len(s) /\ i < i + 1
  BY LenProperties
<1>2. /\ s[i].cmd \in Nat /\ s[i + 1].cmd \in Nat
      /\ s[i].k \in 1..FrameLen /\ s[i + 1].k \in 1..FrameLen
  BY <1>1, ByteOf
<1>3. s[i + 1].cmd <= s[i].cmd + 1
  BY DEF StreamOK
<1>4. \/ s[i].cmd = s[i + 1].cmd /\ s[i + 1].k = s[i].k + ((i + 1) - i)
      \/ s[i].cmd < s[i + 1].cmd /\ s[i].k + ((i + 1) - i) >= FrameLen + s[i + 1].k
  BY <1>1, Between
<1> QED
  BY <1>1, <1>2, <1>3, <1>4

\* The commands of later bytes are no older.
LEMMA Ascending ==
  ASSUME NEW s \in Seq(Sent), NEW nx, StreamOK(s, nx),
         NEW i \in 1..Len(s), NEW j \in 1..Len(s), i <= j
  PROVE  s[i].cmd <= s[j].cmd
<1>1. s[i].cmd \in Nat /\ s[j].cmd \in Nat
  BY ByteOf
<1>2. i = j \/ i < j
  BY LenProperties
<1> QED
  BY <1>1, <1>2, Between

\* The first four bytes of a stream that begins with a frame.
LEMMA FirstFields ==
  ASSUME NEW s \in Seq(Sent), NEW nx, StreamOK(s, nx), Len(s) >= 4, s[1].k = 1
  PROVE  /\ s[2].k = 2
         /\ s[3] = [cmd |-> s[1].cmd, k |-> 3]
         /\ s[4] = [cmd |-> s[1].cmd, k |-> 4]
<1>1. ASSUME NEW i \in 2..4
      PROVE  s[i] = [cmd |-> s[1].cmd, k |-> i]
  <2>1. Len(s) \in Nat /\ 1 \in 1..Len(s) /\ i \in 1..Len(s) /\ 1 < i
    BY LenProperties
  <2>2. /\ s[1].cmd \in Nat /\ s[i].cmd \in Nat /\ s[i].k \in 1..FrameLen
        /\ s[i] = [cmd |-> s[i].cmd, k |-> s[i].k]
    BY <2>1, ByteOf
  <2>3. \/ s[1].cmd = s[i].cmd /\ s[i].k = s[1].k + (i - 1)
        \/ s[1].cmd < s[i].cmd /\ s[1].k + (i - 1) >= FrameLen + s[i].k
    BY <2>1, Between
  <2>4. s[1].cmd = s[i].cmd /\ s[i].k = i
    BY <2>1, <2>2, <2>3
  <2> QED
    BY <2>2, <2>4
<1>2. s[2] = [cmd |-> s[1].cmd, k |-> 2]
  BY <1>1
<1> QED
  BY <1>1, <1>2

\* A stream from the beginning of a frame to the end of one: it holds a whole frame.
LEMMA WholeFrame ==
  ASSUME NEW s \in Seq(Sent), NEW nx, StreamOK(s, nx),
         NEW n \in 1..Len(s), s[1].k = 1, s[n].k = FrameLen
  PROVE  n >= FrameLen /\ (n <= FrameLen => s[n].cmd = s[1].cmd)
<1>1. Len(s) \in Nat /\ 1 \in 1..Len(s) /\ 1 < n
  BY LenProperties
<1>2. s[1].cmd \in Nat /\ s[n].cmd \in Nat
  BY <1>1, ByteOf
<1>3. \/ s[1].cmd = s[n].cmd /\ s[n].k = s[1].k + (n - 1)
      \/ s[1].cmd < s[n].cmd /\ s[1].k + (n - 1) >= FrameLen + s[n].k
  BY <1>1, Between
<1> QED
  BY <1>1, <1>2, <1>3

\* A piece of a stream is one.
LEMMA Piece ==
  ASSUME NEW s \in Seq(Sent), NEW nx, StreamOK(s, nx),
         NEW a \in 1..(Len(s) + 1), NEW b \in (a - 1)..Len(s)
  PROVE  /\ SubSeq(s, a, b) \in Seq(Sent)
         /\ Len(SubSeq(s, a, b)) = b - a + 1
         /\ \A i \in 1..(b - a + 1) : SubSeq(s, a, b)[i] = s[a + i - 1]
         /\ StreamOK(SubSeq(s, a, b), nx)
<1> DEFINE t == SubSeq(s, a, b)
<1>1. Len(s) \in Nat /\ \A i \in 1..Len(s) : s[i] \in Sent
  BY LenProperties
<1>2. /\ t \in Seq(Sent) /\ Len(t) = b - a + 1
      /\ \A i \in 1..(b - a + 1) : t[i] = s[a + i - 1]
  <2>1. \A i \in a..b : s[i] \in Sent
    BY <1>1
  <2>2. a \in Int /\ b \in Int
    BY <1>1
  <2> QED
    BY <1>1, <2>1, <2>2, SubSeqProperties
<1> HIDE DEF t
<1>3. ASSUME NEW i \in 1..Len(t), NEW j \in 1..Len(t), i < j
      PROVE  Apart(t[i], t[j], j - i)
  <2> DEFINE x == a + i - 1
             y == a + j - 1
  <2>1. x \in 1..Len(s) /\ y \in 1..Len(s) /\ x < y /\ y - x = j - i
    BY <1>1, <1>2, <1>3
  <2>2. t[i] = s[x] /\ t[j] = s[y]
    BY <1>2
  <2>3. Apart(s[x], s[y], y - x)
    BY <2>1 DEF StreamOK
  <2> QED
    BY <2>1, <2>2, <2>3
<1>4. ASSUME NEW i \in 1..Len(t) PROVE t[i].cmd < nx
  <2>1. a + i - 1 \in 1..Len(s) /\ t[i] = s[a + i - 1]
    BY <1>1, <1>2
  <2> QED
    BY <2>1 DEF StreamOK
<1>5. ASSUME NEW i \in 1..(Len(t) - 1) PROVE t[i + 1].cmd <= t[i].cmd + 1
  <2> DEFINE x == a + i - 1
  <2>1. x \in 1..(Len(s) - 1) /\ a + (i + 1) - 1 = x + 1
    BY <1>1, <1>2
  <2>2. i \in 1..(b - a + 1) /\ i + 1 \in 1..(b - a + 1)
    BY <1>1, <1>2
  <2>3. t[i] = s[x] /\ t[i + 1] = s[x + 1]
    BY <1>2, <2>1, <2>2
  <2>4. s[x + 1].cmd <= s[x].cmd + 1
    BY <2>1 DEF StreamOK
  <2> QED
    BY <2>3, <2>4
<1> QED
  BY <1>2, <1>3, <1>4, <1>5 DEF StreamOK, t

LEMMA FrameBytes ==
  ASSUME NEW n \in Cmds
  PROVE  /\ Frame(n) \in Seq(Sent) /\ Len(Frame(n)) = FrameLen
         /\ \A k \in 1..FrameLen : Frame(n)[k] = [cmd |-> n, k |-> k]
<1>1. Frame(n) \in [1..FrameLen -> Sent]
  BY DEF Frame, Sent
<1> QED
  BY <1>1, SeqDef DEF Frame

\* The next frame behind a stream that ends with a frame.
LEMMA Longer ==
  ASSUME NEW s \in Seq(Sent), NEW n \in Cmds, StreamOK(s, n),
         s # << >> => s[Len(s)] = [cmd |-> n - 1, k |-> FrameLen]
  PROVE  /\ s \o Frame(n) \in Seq(Sent)
         /\ Len(s \o Frame(n)) = Len(s) + FrameLen
         /\ \A i \in 1..Len(s) : (s \o Frame(n))[i] = s[i]
         /\ \A k \in 1..FrameLen : (s \o Frame(n))[Len(s) + k] = [cmd |-> n, k |-> k]
         /\ StreamOK(s \o Frame(n), n + 1)
<1> DEFINE t == s \o Frame(n)
<1>0. Len(s) \in Nat /\ \A i \in 1..Len(s) : s[i] \in Sent
  BY LenProperties
<1>1. t \in Seq(Sent) /\ Len(t) = Len(s) + FrameLen
  BY FrameBytes, ConcatProperties
<1>2. \A i \in 1..Len(s) : t[i] = s[i]
  BY <1>0, FrameBytes, ConcatProperties
<1>3. \A k \in 1..FrameLen : t[Len(s) + k] = [cmd |-> n, k |-> k]
  <2>1. SUFFICES ASSUME NEW k \in 1..FrameLen PROVE t[Len(s) + k] = [cmd |-> n, k |-> k]
    OBVIOUS
  <2>2. t[Len(s) + k] = Frame(n)[(Len(s) + k) - Len(s)]
    BY <1>0, FrameBytes, ConcatProperties
  <2> QED
    BY <1>0, <2>2, FrameBytes
<1> HIDE DEF t
<1>4. ASSUME NEW i \in (Len(s) + 1)..Len(t)
      PROVE  t[i].cmd = n /\ t[i].k = i - Len(s)
  <2>1. i - Len(s) \in 1..FrameLen /\ Len(s) + (i - Len(s)) = i
    BY <1>0, <1>1
  <2>2. t[i] = [cmd |-> n, k |-> i - Len(s)]
    BY <1>3, <2>1
  <2> QED
    BY <2>2
<1>5. ASSUME NEW i \in 1..Len(s)
      PROVE  /\ s[i].cmd \in Nat /\ s[i].cmd < n /\ s[i].k \in 1..FrameLen
             /\ s[i].k + (Len(s) - i) >= FrameLen
  <2>1. s[i].cmd \in Nat /\ s[i].k \in 1..FrameLen /\ s[i].cmd < n
    BY ByteOf DEF StreamOK
  <2>2. s[Len(s)].k = FrameLen /\ Len(s) \in 1..Len(s)
    BY <1>0, EmptySeq
  <2>3. CASE i = Len(s)
    BY <1>0, <2>1, <2>2, <2>3
  <2>4. CASE i # Len(s)
    <3>1. i < Len(s)
      BY <1>0, <2>4
    <3>2. \/ s[Len(s)].k = s[i].k + (Len(s) - i)
          \/ s[i].k + (Len(s) - i) >= FrameLen + s[Len(s)].k
      BY <2>2, <3>1, Between
    <3> QED
      BY <1>0, <2>1, <2>2, <3>2
  <2> QED
    BY <2>3, <2>4
<1>6. ASSUME NEW i \in 1..Len(t), NEW j \in 1..Len(t), i < j
      PROVE  Apart(t[i], t[j], j - i)
  <2>0. i \in Nat /\ j \in Nat /\ Len(t) \in Nat
    BY <1>0, <1>1
  <2>1. CASE j <= Len(s)
    <3>1. i \in 1..Len(s) /\ j \in 1..Len(s)
      BY <1>0, <1>6, <2>0, <2>1
    <3>2. Apart(s[i], s[j], j - i)
      BY <1>6, <3>1 DEF StreamOK
    <3> QED
      BY <1>2, <3>1, <3>2
  <2>2. CASE i > Len(s)
    <3>0. i \in (Len(s) + 1)..Len(t) /\ j \in (Len(s) + 1)..Len(t)
      BY <1>0, <1>6, <2>0, <2>2
    <3>1. /\ t[i].cmd = n /\ t[i].k = i - Len(s)
          /\ t[j].cmd = n /\ t[j].k = j - Len(s)
      BY <1>4, <3>0
    <3>2. (j - Len(s)) - (i - Len(s)) = j - i
      BY <1>0, <2>0
    <3> QED
      BY <3>1, <3>2 DEF Apart
  <2>3. CASE i <= Len(s) /\ j > Len(s)
    <3>1. i \in 1..Len(s) /\ j \in (Len(s) + 1)..Len(t)
      BY <1>0, <2>0, <2>3
    <3>2. t[i] = s[i] /\ t[j].cmd = n /\ t[j].k = j - Len(s)
      BY <1>2, <1>4, <3>1
    <3>3. s[i].cmd < n /\ s[i].k + (Len(s) - i) >= FrameLen /\ s[i].k \in Nat
      BY <1>5, <3>1
    <3>4. j - i >= FrameLen - s[i].k + (j - Len(s))
      BY <1>0, <2>0, <3>3
    <3> QED
      BY <3>2, <3>3, <3>4 DEF Apart
  <2> QED
    BY <1>0, <2>0, <2>1, <2>2, <2>3
<1>7. ASSUME NEW i \in 1..Len(t) PROVE t[i].cmd < n + 1
  <2>1. CASE i \in 1..Len(s)
    BY <1>2, <1>5, <2>1
  <2>2. CASE i \in (Len(s) + 1)..Len(t)
    <3>1. t[i].cmd = n /\ n \in Nat
      BY <1>4, <2>2
    <3> QED
      BY <3>1
  <2> QED
    BY <1>0, <1>1, <2>1, <2>2
<1>8. ASSUME NEW i \in 1..(Len(t) - 1) PROVE t[i + 1].cmd <= t[i].cmd + 1
  <2>0. i \in Nat /\ Len(t) \in Nat /\ i + 1 \in 1..Len(t)
    BY <1>0, <1>1
  <2>1. CASE i < Len(s)
    <3>1. i \in 1..(Len(s) - 1) /\ i \in 1..Len(s) /\ i + 1 \in 1..Len(s)
      BY <1>0, <2>0, <2>1
    <3>2. t[i] = s[i] /\ t[i + 1] = s[i + 1]
      BY <1>2, <3>1
    <3> QED
      BY <3>1, <3>2 DEF StreamOK
  <2>2. CASE i = Len(s)
    <3>1. i \in 1..Len(s) /\ i + 1 \in (Len(s) + 1)..Len(t) /\ s # << >>
      BY <1>0, <2>0, <2>2, EmptySeq
    <3>2. t[i].cmd = n - 1 /\ n \in Nat
      BY <1>2, <2>2, <3>1
    <3>3. t[i + 1].cmd = n
      BY <1>4, <3>1
    <3> QED
      BY <3>2, <3>3
  <2>3. CASE i > Len(s)
    <3>1. i \in (Len(s) + 1)..Len(t) /\ i + 1 \in (Len(s) + 1)..Len(t)
      BY <1>0, <2>0, <2>3
    <3>2. t[i].cmd = n /\ t[i + 1].cmd = n /\ n \in Nat
      BY <1>4, <3>1
    <3> QED
      BY <3>2
  <2> QED
    BY <1>0, <2>0, <2>1, <2>2, <2>3
<1> QED
  BY <1>1, <1>2, <1>3, <1>6, <1>7, <1>8 DEF StreamOK, t

----------------------------------------------------------------------------
(* PDUs                                                                      *)

LEMMA CommandIsPdu ==
  ASSUME NEW n \in Cmds
  PROVE  Command(n) \in Pdus /\ Number(Command(n)) = n
BY DEF Command, Pdu, Pdus, Number, Byte

LEMMA JunkIsPdu == JunkPdu \in Pdus /\ Number(JunkPdu) = 0
BY DEF JunkPdu, Pdu, Pdus, Number, Byte, Junk

LEMMA NumberNat == ASSUME NEW p \in Pdus PROVE Number(p) \in Nat
BY DEF Pdus, Number, Byte, Junk

----------------------------------------------------------------------------
(* The invariant                                                             *)

LEMMA InitIInv == Init => IInv
<1> SUFFICES ASSUME Init PROVE IInv
  OBVIOUS
<1> USE DEF Init
<1>1. Types
  <2>1. net \in Seq(Sent) /\ rx \in Seq(Pdus) /\ queued \in Seq(Pdus)
    BY EmptySeq
  <2>2. Len(net) = 0 /\ Len(rx) = 0
    OBVIOUS
  <2>3. in_buff \in [1..RecvMax -> Byte]
    BY DEF Byte
  <2>4. in_pdu \in Pdus
    BY JunkIsPdu DEF JunkPdu
  <2>5. 1 \in 1..(NumCmds + 1) /\ 0 <= NetCap /\ 0 <= RxCap
    OBVIOUS
  <2> QED
    BY <2>1, <2>2, <2>3, <2>4, <2>5, Zenon DEF Types
<1>2. StreamOK(net, next)
  BY DEF StreamOK
<1>3. EndOK /\ ReadOK /\ QueuedOK /\ WholeOK
  BY DEF EndOK, ReadOK, QueuedOK, WholeOK, JunkPdu
<1>4. CountOK
  BY JunkIsPdu DEF CountOK, JunkPdu
<1> QED
  BY <1>1, <1>2, <1>3, <1>4 DEF IInv

LEMMA SendIInv == ASSUME IInv, Send PROVE IInv'
<1>0. /\ next \in Cmds /\ next' = next + 1 /\ net' = net \o Frame(next)
      /\ Len(net) + FrameLen <= NetCap /\ up
      /\ UNCHANGED <<up, pc, in_buff, in_pdu, rx, queued, cut, short, merged, dropped>>
  BY DEF Send, history
<1>1. /\ net \in Seq(Sent) /\ StreamOK(net, next) /\ Len(net) \in Nat
      /\ net # << >> => net[Len(net)] = [cmd |-> next - 1, k |-> FrameLen]
      /\ in_pdu \in Pdus /\ Number(in_pdu) \in Nat
  BY <1>0, NumberNat, LenProperties DEF IInv, Types, EndOK
<1>2. /\ net' \in Seq(Sent) /\ Len(net') = Len(net) + FrameLen
      /\ \A i \in 1..Len(net) : net'[i] = net[i]
      /\ \A k \in 1..FrameLen : net'[Len(net) + k] = [cmd |-> next, k |-> k]
      /\ StreamOK(net', next')
  BY <1>0, <1>1, Longer
<1>3. ASSUME NEW i \in 1..Len(net')
      PROVE  \/ i \in 1..Len(net) /\ net'[i] = net[i]
             \/ net'[i].cmd = next
  <2>1. CASE i \in 1..Len(net)
    BY <1>2, <2>1
  <2>2. CASE i \notin 1..Len(net)
    <3>1. i - Len(net) \in 1..FrameLen /\ Len(net) + (i - Len(net)) = i
      BY <1>1, <1>2, <2>2
    <3>2. net'[i] = [cmd |-> next, k |-> i - Len(net)]
      BY <1>2, <3>1
    <3> QED
      BY <3>2
  <2> QED
    BY <2>1, <2>2
<1>4. (net' # << >> /\ net'[1].k = 1) \/ (net # << >> /\ net'[1] = net[1])
  <2>1. CASE net = << >>
    <3>1. Len(net) = 0 /\ Len(net) + 1 = 1
      BY <2>1
    <3>2. net'[1] = [cmd |-> next, k |-> 1]
      BY <1>2, <3>1
    <3>3. Len(net') # 0
      BY <1>2, <3>1
    <3>4. net' # << >>
      BY <3>3
    <3>5. net'[1].k = 1
      BY <3>2
    <3> QED
      BY <3>4, <3>5
  <2>2. CASE net # << >>
    BY <1>1, <1>2, <2>2, EmptySeq
  <2> QED
    BY <2>1, <2>2
<1>5. Types'
  BY <1>0, <1>1, <1>2 DEF IInv, Types
<1>6. EndOK'
  <2>1. FrameLen \in 1..FrameLen /\ next' - 1 = next
    BY <1>0
  <2> QED
    BY <1>2, <2>1 DEF EndOK
<1>7. ReadOK'
  <2> SUFFICES ASSUME ~short PROVE ReadOK'
    BY <1>0 DEF ReadOK
  <2>1. CASE /\ in_pdu = JunkPdu /\ pc # "put" /\ queued = << >>
             /\ net # << >> => net[1].k = 1
    BY <1>0, <1>4, <2>1 DEF ReadOK
  <2>2. CASE /\ \E n \in Cmds : n < next /\ in_pdu = Command(n)
             /\ \A i \in 1..Len(net) : Number(in_pdu) <= net[i].cmd
    <3>1. PICK n \in Cmds : n < next /\ in_pdu = Command(n)
      BY <2>2
    <3>2. n < next' /\ Number(in_pdu) <= next
      BY <1>0, <3>1, CommandIsPdu
    <3>3. \A i \in 1..Len(net') : Number(in_pdu) <= net'[i].cmd
      BY <1>3, <2>2, <3>2
    <3> QED
      BY <1>0, <3>1, <3>2, <3>3 DEF ReadOK, Number
  <2> QED
    BY <2>1, <2>2 DEF IInv, ReadOK
<1>8. QueuedOK'
  <2> SUFFICES ASSUME ~short PROVE QueuedOK'
    BY <1>0 DEF QueuedOK
  <2>1. ASSUME NEW i \in 1..Len(queued) PROVE \E n \in Cmds : n < next' /\ queued[i] = Command(n)
    BY <1>0 DEF IInv, QueuedOK
  <2> QED
    BY <1>0, <2>1 DEF IInv, QueuedOK, Number
<1>9. Number(in_pdu) < next \/ short
  <2>1. CASE in_pdu = JunkPdu
    BY <1>0, <2>1, JunkIsPdu
  <2>2. ASSUME NEW n \in Cmds, n < next, in_pdu = Command(n) PROVE Number(in_pdu) < next
    BY <2>2, CommandIsPdu
  <2> QED
    BY <2>1, <2>2 DEF IInv, ReadOK
<1>10. WholeOK'
  <2> SUFFICES ASSUME ~cut PROVE WholeOK'
    BY <1>0 DEF WholeOK
  <2>1. ~short /\ (net # << >> => net[1].k = 1)
    BY DEF IInv, WholeOK
  <2>2. net' # << >> => net'[1].k = 1
    BY <1>4, <2>1
  <2>3. \A i \in 1..Len(net') : Number(in_pdu) < net'[i].cmd
    BY <1>3, <1>9, <2>1 DEF IInv, WholeOK
  <2> QED
    BY <1>0, <2>1, <2>2, <2>3 DEF IInv, WholeOK, Number
<1>11. CountOK'
  <2> SUFFICES ASSUME ~cut, ~merged, ~dropped PROVE CountOK'
    BY <1>0 DEF CountOK
  <2>1. net' # << >> /\ net'[1].cmd = Number(in_pdu) + 1
    <3>1. CASE net = << >>
      <4>1. Len(net) + 1 = 1 /\ 1 \in 1..FrameLen
        BY <3>1
      <4>2. net'[1] = [cmd |-> next, k |-> 1]
        BY <1>2, <4>1
      <4> QED
        BY <1>2, <3>1, <4>2, EmptySeq DEF IInv, CountOK
    <3>2. CASE net # << >>
      BY <1>1, <1>2, <3>2, EmptySeq DEF IInv, CountOK
    <3> QED
      BY <3>1, <3>2
  <2> QED
    BY <1>0, <2>1 DEF IInv, CountOK, Number
<1> QED
  BY <1>2, <1>5, <1>6, <1>7, <1>8, <1>10, <1>11 DEF IInv

\* The connection breaks, or a step touches neither the stream nor what is queued.
LEMMA OtherIInv ==
  ASSUME IInv, SendFails \/ Connect \/ Break \/ Dropped \/ ControlTakes \/ UNCHANGED vars
  PROVE  IInv'
<1>0. /\ UNCHANGED <<in_buff, in_pdu, queued, cut, short, merged>>
      /\ next' = next \/ (~up /\ dropped /\ next \in Cmds /\ next' = next + 1)
      /\ pc' = pc \/ (pc = "accept" /\ pc' = "recv") \/ (pc = "recv" /\ pc' = "accept")
      /\ net' = net \/ (dropped' /\ ~up' /\ \E n \in 0..Len(net) : net' = SubSeq(net, 1, n))
      /\ dropped' = dropped \/ dropped'
  BY DEF SendFails, Connect, Break, Dropped, ControlTakes, vars, history
<1>1. /\ net \in Seq(Sent) /\ StreamOK(net, next) /\ Len(net) \in Nat /\ next \in Nat
  BY LenProperties DEF IInv, Types
<1>2. /\ net' \in Seq(Sent) /\ Len(net') <= Len(net) /\ Len(net') \in Nat
      /\ \A i \in 1..Len(net') : i \in 1..Len(net) /\ net'[i] = net[i]
      /\ StreamOK(net', next)
  <2>1. CASE net' = net
    BY <1>1, <2>1
  <2>2. ASSUME NEW n \in 0..Len(net), net' = SubSeq(net, 1, n)
        PROVE  <1>2
    <3>1. 1 \in 1..(Len(net) + 1) /\ n \in (1 - 1)..Len(net)
      BY <1>1
    <3>2. /\ net' \in Seq(Sent) /\ Len(net') = n - 1 + 1
          /\ \A i \in 1..(n - 1 + 1) : net'[i] = net[1 + i - 1]
          /\ StreamOK(net', next)
      BY <1>1, <2>2, <3>1, Piece
    <3>3. ASSUME NEW i \in 1..Len(net') PROVE i \in 1..Len(net) /\ net'[i] = net[i]
      <4>1. i \in 1..(n - 1 + 1) /\ 1 + i - 1 = i
        BY <1>1, <3>2
      <4> QED
        BY <1>1, <3>2, <4>1
    <3> QED
      BY <1>1, <3>2, <3>3
  <2> QED
    BY <1>0, <2>1, <2>2
<1>3. StreamOK(net', next')
  <2>1. next <= next'
    BY <1>0, <1>1
  <2>2. \A i \in 1..Len(net') : net'[i].cmd \in Nat /\ net'[i].cmd < next
    BY <1>2, ByteOf DEF StreamOK
  <2>3. \A i \in 1..Len(net') : net'[i].cmd < next'
    BY <1>0, <1>1, <2>1, <2>2
  <2> QED
    BY <1>2, <2>3 DEF StreamOK
<1>4. Types'
  <2>1. rx' \in Seq(Pdus) /\ Len(rx') <= RxCap
    <3>1. CASE ControlTakes
      BY <3>1, HeadTailProperties, LenProperties DEF ControlTakes, IInv, Types
    <3>2. CASE ~ControlTakes
      BY <3>2 DEF SendFails, Connect, Break, Dropped, vars, history, IInv, Types
    <3> QED
      BY <3>1, <3>2
  <2>2. next' \in 1..(NumCmds + 1)
    BY <1>0 DEF IInv, Types
  <2>3. Len(net') <= NetCap
    BY <1>1, <1>2 DEF IInv, Types
  <2>4. pc' = "accept" => ~up' /\ net' = << >>
    <3>1. CASE Break
      BY <3>1 DEF Break, IInv, Types
    <3>2. CASE ~Break
      BY <3>2 DEF SendFails, Connect, Dropped, ControlTakes, vars, history, IInv, Types
    <3> QED
      BY <3>1, <3>2
  <2>5. up' \in BOOLEAN /\ dropped' \in BOOLEAN
    BY DEF SendFails, Connect, Break, Dropped, ControlTakes, vars, history, IInv, Types
  <2> QED
    BY <1>0, <1>2, <2>1, <2>2, <2>3, <2>4, <2>5 DEF IInv, Types
<1>5. EndOK'
  <2>1. CASE Connect
    BY <2>1 DEF Connect, IInv, Types, EndOK
  <2>2. CASE ~Connect
    BY <2>2 DEF SendFails, Break, Dropped, ControlTakes, vars, history, IInv, EndOK
  <2> QED
    BY <2>1, <2>2
<1>6. net' # << >> => net # << >> /\ net'[1] = net[1]
  BY <1>1, <1>2, EmptySeq
<1>7. ReadOK'
  <2> SUFFICES ASSUME ~short PROVE ReadOK'
    BY <1>0 DEF ReadOK
  <2>1. CASE /\ in_pdu = JunkPdu /\ pc # "put" /\ queued = << >>
             /\ net # << >> => net[1].k = 1
    BY <1>0, <1>6, <2>1 DEF ReadOK
  <2>2. CASE /\ \E n \in Cmds : n < next /\ in_pdu = Command(n)
             /\ \A i \in 1..Len(net) : Number(in_pdu) <= net[i].cmd
    <3>1. PICK n \in Cmds : n < next /\ in_pdu = Command(n)
      BY <2>2
    <3>2. n < next'
      BY <1>0, <1>1, <3>1
    <3>3. \A i \in 1..Len(net') : Number(in_pdu) <= net'[i].cmd
      BY <1>2, <2>2
    <3> QED
      BY <1>0, <3>1, <3>2, <3>3 DEF ReadOK, Number
  <2> QED
    BY <2>1, <2>2 DEF IInv, ReadOK
<1>8. QueuedOK'
  <2> SUFFICES ASSUME ~short PROVE QueuedOK'
    BY <1>0 DEF QueuedOK
  <2>1. ASSUME NEW i \in 1..Len(queued) PROVE \E n \in Cmds : n < next' /\ queued[i] = Command(n)
    <3>1. PICK n \in Cmds : n < next /\ queued[i] = Command(n)
      BY DEF IInv, QueuedOK
    <3> QED
      BY <1>0, <1>1, <3>1
  <2> QED
    BY <1>0, <2>1 DEF IInv, QueuedOK, Number
<1>9. WholeOK'
  <2> SUFFICES ASSUME ~cut PROVE WholeOK'
    BY <1>0 DEF WholeOK
  <2>1. \A i \in 1..Len(net') : Number(in_pdu) < net'[i].cmd
    BY <1>2 DEF IInv, WholeOK
  <2> QED
    BY <1>0, <1>6, <2>1 DEF IInv, WholeOK, Number
<1>10. CountOK'
  <2> SUFFICES ASSUME ~cut, ~merged, ~dropped' PROVE CountOK'
    BY <1>0 DEF CountOK
  <2>1. ~dropped /\ net' = net /\ next' = next
    BY <1>0 DEF SendFails, Connect, Break, Dropped, ControlTakes, vars, history
  <2>2. pc' # "accept" => up'
    BY <2>1 DEF SendFails, Connect, Break, Dropped, ControlTakes, vars, history, IInv, CountOK
  <2> QED
    BY <1>0, <2>1, <2>2 DEF IInv, CountOK, Number
<1> QED
  BY <1>3, <1>4, <1>5, <1>7, <1>8, <1>9, <1>10 DEF IInv

LEMMA PutIInv == ASSUME IInv, Put PROVE IInv'
<1>0. /\ pc = "put" /\ pc' = "recv" /\ Len(rx) < RxCap
      /\ rx' = Append(rx, in_pdu) /\ queued' = Append(queued, in_pdu)
      /\ UNCHANGED <<next, up, net, in_buff, in_pdu, cut, short, merged, dropped>>
  BY DEF Put, history
<1>1. /\ in_pdu \in Pdus /\ queued \in Seq(Pdus) /\ Len(queued) \in Nat
      /\ Number(in_pdu) \in Nat
      /\ \A i \in 1..Len(queued) : Number(queued[i]) \in Nat
  BY NumberNat, LenProperties DEF IInv, Types
<1>2. /\ queued' \in Seq(Pdus) /\ Len(queued') = Len(queued) + 1
      /\ \A i \in 1..Len(queued) : queued'[i] = queued[i]
      /\ queued'[Len(queued) + 1] = in_pdu
  BY <1>0, <1>1, AppendProperties
<1>3. ASSUME NEW i \in 1..Len(queued')
      PROVE  \/ i \in 1..Len(queued) /\ queued'[i] = queued[i]
             \/ i = Len(queued) + 1 /\ queued'[i] = in_pdu
  BY <1>1, <1>2
<1>4. Types'
  <2>1. rx' \in Seq(Pdus) /\ Len(rx') = Len(rx) + 1 /\ Len(rx) \in Nat
    BY <1>0, <1>1, AppendProperties, LenProperties DEF IInv, Types
  <2> QED
    BY <1>0, <1>2, <2>1 DEF IInv, Types
<1>5. StreamOK(net', next') /\ EndOK'
  BY <1>0 DEF IInv, StreamOK, EndOK
<1>6. ~short => /\ \E n \in Cmds : n < next /\ in_pdu = Command(n)
                /\ \A i \in 1..Len(net) : Number(in_pdu) <= net[i].cmd
  BY <1>0 DEF IInv, ReadOK
<1>7. ReadOK'
  BY <1>0, <1>6 DEF ReadOK, Number
<1>8. QueuedOK'
  <2> SUFFICES ASSUME ~short PROVE QueuedOK'
    BY <1>0 DEF QueuedOK
  <2>1. ASSUME NEW i \in 1..Len(queued')
        PROVE  /\ \E n \in Cmds : n < next /\ queued'[i] = Command(n)
               /\ Number(queued'[i]) <= Number(in_pdu)
    <3>1. CASE i \in 1..Len(queued) /\ queued'[i] = queued[i]
      BY <3>1 DEF IInv, QueuedOK
    <3>2. CASE queued'[i] = in_pdu
      BY <1>1, <1>6, <3>2
    <3> QED
      BY <1>3, <3>1, <3>2
  <2>2. ASSUME NEW i \in 1..Len(queued'), NEW j \in 1..Len(queued'), i < j
        PROVE  Number(queued'[i]) <= Number(queued'[j])
    <3>1. CASE j \in 1..Len(queued) /\ queued'[j] = queued[j]
      <4>1. i \in 1..Len(queued) /\ queued'[i] = queued[i]
        BY <1>1, <1>3, <2>2, <3>1
      <4> QED
        BY <2>2, <3>1, <4>1 DEF IInv, QueuedOK
    <3>2. CASE queued'[j] = in_pdu
      BY <2>1, <3>2
    <3> QED
      BY <1>3, <3>1, <3>2
  <2> QED
    BY <1>0, <2>1, <2>2 DEF QueuedOK, Number
<1>9. WholeOK'
  <2> SUFFICES ASSUME ~cut PROVE WholeOK'
    BY <1>0 DEF WholeOK
  <2>1. ASSUME NEW i \in 1..Len(queued'), NEW j \in 1..Len(queued'), i < j
        PROVE  Number(queued'[i]) < Number(queued'[j])
    <3>0. i \in 1..Len(queued) /\ queued'[i] = queued[i]
      BY <1>1, <1>2, <1>3, <2>1
    <3>1. CASE j \in 1..Len(queued) /\ queued'[j] = queued[j]
      BY <2>1, <3>0, <3>1 DEF IInv, WholeOK
    <3>2. CASE queued'[j] = in_pdu
      BY <1>0, <3>0, <3>2 DEF IInv, WholeOK
    <3> QED
      BY <1>3, <3>1, <3>2
  <2> QED
    BY <1>0, <2>1 DEF IInv, WholeOK, Number
<1>10. CountOK'
  <2> SUFFICES ASSUME ~cut, ~merged, ~dropped PROVE CountOK'
    BY <1>0 DEF CountOK
  <2>1. Number(in_pdu) = Len(queued) + 1
    BY <1>0 DEF IInv, CountOK
  <2>2. in_pdu = Command(Len(queued) + 1) /\ Len(queued) + 1 \in Cmds
    <3>1. PICK n \in Cmds : in_pdu = Command(n)
      BY <1>6 DEF IInv, WholeOK
    <3> QED
      BY <2>1, <3>1, CommandIsPdu
  <2>3. ASSUME NEW n \in 1..Len(queued') PROVE n \in Cmds /\ queued'[n] = Command(n)
    <3>1. CASE n \in 1..Len(queued) /\ queued'[n] = queued[n]
      BY <3>1 DEF IInv, CountOK
    <3>2. CASE n = Len(queued) + 1 /\ queued'[n] = in_pdu
      BY <2>2, <3>2
    <3> QED
      BY <1>3, <3>1, <3>2
  <2> QED
    BY <1>0, <1>2, <2>1, <2>3 DEF IInv, CountOK, Number
<1> QED
  BY <1>4, <1>5, <1>7, <1>8, <1>9, <1>10 DEF IInv

LEMMA RecvIInv == ASSUME IInv, Recv PROVE IInv'
<1>1. PICK n \in 1..(IF Len(net) < RecvMax THEN Len(net) ELSE RecvMax) :
        /\ in_buff' = [k \in 1..RecvMax |-> IF k <= n THEN net[k] ELSE in_buff[k]]
        /\ net' = SubSeq(net, n + 1, Len(net))
        /\ cut' = (cut \/ net[1].k # 1 \/ net[n].k # FrameLen)
        /\ short' = (short \/ (net[1].k = 1 /\ n < 4))
        /\ merged' = (merged \/ n > FrameLen)
  BY DEF Recv
<1>2. /\ pc = "recv" /\ pc' = "put"
      /\ in_pdu' = ReadBuffer(in_buff', in_pdu)
      /\ UNCHANGED <<next, up, rx, queued, dropped>>
  BY DEF Recv
<1>3. /\ net \in Seq(Sent) /\ StreamOK(net, next) /\ Len(net) \in Nat
      /\ n \in Nat /\ n \in 1..Len(net) /\ n \in 1..RecvMax /\ 1 \in 1..Len(net)
      /\ \A i \in 1..Len(net) : net[i] \in Sent
      /\ net # << >>
  BY LenProperties DEF IInv, Types
<1>4. /\ net' \in Seq(Sent) /\ Len(net') = Len(net) - n
      /\ \A i \in 1..Len(net') : net'[i] = net[n + i] /\ n + i \in 1..Len(net)
      /\ StreamOK(net', next')
  <2>1. n + 1 \in 1..(Len(net) + 1) /\ Len(net) \in ((n + 1) - 1)..Len(net)
    BY <1>3
  <2>2. /\ net' \in Seq(Sent) /\ Len(net') = Len(net) - (n + 1) + 1
        /\ \A i \in 1..(Len(net) - (n + 1) + 1) : net'[i] = net[(n + 1) + i - 1]
        /\ StreamOK(net', next)
    BY <1>1, <1>3, <2>1, Piece
  <2>3. Len(net') = Len(net) - n
    BY <1>3, <2>2
  <2>4. ASSUME NEW i \in 1..Len(net') PROVE net'[i] = net[n + i] /\ n + i \in 1..Len(net)
    <3>1. i \in 1..(Len(net) - (n + 1) + 1) /\ (n + 1) + i - 1 = n + i
      BY <1>3, <2>2
    <3>2. net'[i] = net[n + i]
      BY <2>2, <3>1
    <3> QED
      BY <1>3, <2>3, <3>2
  <2> QED
    BY <1>2, <2>2, <2>3, <2>4
\* What is read.
<1>5. in_buff' \in [1..RecvMax -> Byte] /\ in_buff'[1] = net[1]
  <2>1. \A k \in 1..RecvMax : (IF k <= n THEN net[k] ELSE in_buff[k]) \in Byte
    BY <1>3 DEF IInv, Types, Byte, Sent
  <2> QED
    BY <1>1, <1>3, <2>1
<1>6. net[1].k # 1 => in_pdu' = in_pdu
  BY <1>2, <1>5 DEF ReadBuffer
<1>7. net[1].k = 1 /\ n >= 4 =>
        in_pdu' = Command(net[1].cmd) /\ net[1].cmd \in Cmds /\ Number(in_pdu') = net[1].cmd
  <2> SUFFICES ASSUME net[1].k = 1, n >= 4
               PROVE  /\ in_pdu' = Command(net[1].cmd) /\ net[1].cmd \in Cmds
                      /\ Number(in_pdu') = net[1].cmd
    OBVIOUS
  <2>1. /\ net[2].k = 2 /\ net[3] = [cmd |-> net[1].cmd, k |-> 3]
        /\ net[4] = [cmd |-> net[1].cmd, k |-> 4]
    BY <1>3, FirstFields
  <2>2. in_buff'[2] = net[2] /\ in_buff'[3] = net[3] /\ in_buff'[4] = net[4]
    BY <1>1, <1>3
  <2>3. in_pdu' = Pdu(net[3], net[4])
    BY <1>2, <1>5, <2>1, <2>2 DEF ReadBuffer
  <2>4. net[1].cmd \in Cmds
    BY <1>3, ByteOf
  <2>5. in_pdu' = Command(net[1].cmd)
    BY <2>1, <2>3 DEF Command
  <2> QED
    BY <2>4, <2>5, CommandIsPdu
<1>8. in_pdu' \in Pdus
  <2>1. in_buff'[3] \in Byte /\ in_buff'[4] \in Byte
    BY <1>5
  <2> QED
    BY <1>2, <2>1 DEF ReadBuffer, IInv, Types, Pdus, Pdu
<1>9. ~short' => ~short /\ (net[1].k = 1 => n >= 4)
  <2>1. ~short' => ~short /\ ~(net[1].k = 1 /\ n < 4)
    BY <1>1, Zenon
  <2>2. ~(n < 4) => n >= 4
    BY <1>3
  <2> QED
    BY <2>1, <2>2, Zenon
<1>10. \A i \in 1..Len(net') : net[1].cmd <= net'[i].cmd /\ net[n].cmd <= net'[i].cmd
  <2>1. SUFFICES ASSUME NEW i \in 1..Len(net')
                 PROVE  net[1].cmd <= net'[i].cmd /\ net[n].cmd <= net'[i].cmd
    OBVIOUS
  <2>2. net'[i] = net[n + i] /\ n + i \in 1..Len(net) /\ 1 <= n + i /\ n <= n + i
    BY <1>3, <1>4
  <2> QED
    BY <1>3, <2>2, Ascending
<1>11. Types'
  <2>1. Len(net') <= NetCap
    BY <1>3, <1>4 DEF IInv, Types
  <2>2. cut' \in BOOLEAN /\ short' \in BOOLEAN /\ merged' \in BOOLEAN
    BY <1>1 DEF IInv, Types
  <2> QED
    BY <1>2, <1>4, <1>5, <1>8, <2>1, <2>2 DEF IInv, Types
<1>12. EndOK'
  <2> SUFFICES ASSUME up, net' # << >>
               PROVE  net'[Len(net')] = [cmd |-> next - 1, k |-> FrameLen]
    BY <1>2 DEF EndOK
  <2>1. Len(net') \in 1..Len(net')
    BY <1>4, EmptySeq
  <2>2. net'[Len(net')] = net[n + Len(net')] /\ n + Len(net') = Len(net)
    BY <1>3, <1>4, <2>1
  <2> QED
    BY <1>3, <2>2 DEF IInv, EndOK
<1>13. ReadOK'
  <2> SUFFICES ASSUME ~short' PROVE ReadOK'
    BY DEF ReadOK
  <2>1. CASE net[1].k = 1
    <3>1. in_pdu' = Command(net[1].cmd) /\ net[1].cmd \in Cmds /\ Number(in_pdu') = net[1].cmd
      BY <1>7, <1>9, <2>1
    <3>2. net[1].cmd < next'
      BY <1>2, <1>3 DEF StreamOK
    <3> QED
      BY <1>10, <3>1, <3>2 DEF ReadOK, Number
  <2>2. CASE net[1].k # 1
    <3>1. /\ \E m \in Cmds : m < next /\ in_pdu = Command(m)
          /\ \A i \in 1..Len(net) : Number(in_pdu) <= net[i].cmd
      BY <1>3, <1>9, <2>2 DEF IInv, ReadOK
    <3>2. \A i \in 1..Len(net') : Number(in_pdu) <= net'[i].cmd
      BY <1>4, <3>1
    <3> QED
      BY <1>2, <1>6, <2>2, <3>1, <3>2 DEF ReadOK, Number
  <2> QED
    BY <2>1, <2>2
<1>14. ~short' => Number(in_pdu) <= Number(in_pdu')
  <2> SUFFICES ASSUME ~short' PROVE Number(in_pdu) <= Number(in_pdu')
    OBVIOUS
  <2>0. Number(in_pdu) \in Nat /\ Number(in_pdu') \in Nat
    BY <1>8, NumberNat DEF IInv, Types
  <2>1. CASE net[1].k = 1
    <3>1. Number(in_pdu') = net[1].cmd
      BY <1>7, <1>9, <2>1
    <3>2. CASE in_pdu = JunkPdu
      BY <2>0, <3>2, JunkIsPdu
    <3>3. CASE \A i \in 1..Len(net) : Number(in_pdu) <= net[i].cmd
      BY <1>3, <3>1, <3>3
    <3> QED
      BY <1>9, <3>2, <3>3 DEF IInv, ReadOK
  <2>2. CASE net[1].k # 1
    BY <1>6, <2>0, <2>2
  <2> QED
    BY <2>1, <2>2
<1>15. QueuedOK'
  <2> SUFFICES ASSUME ~short' PROVE QueuedOK'
    BY DEF QueuedOK
  <2>1. ASSUME NEW i \in 1..Len(queued) PROVE Number(queued[i]) <= Number(in_pdu')
    <3>1. Number(queued[i]) <= Number(in_pdu)
      BY <1>9 DEF IInv, QueuedOK
    <3>2. Number(queued[i]) \in Nat /\ Number(in_pdu) \in Nat /\ Number(in_pdu') \in Nat
      BY <1>8, NumberNat, LenProperties DEF IInv, Types
    <3> QED
      BY <1>14, <3>1, <3>2
  <2> QED
    BY <1>2, <1>9, <2>1 DEF IInv, QueuedOK, Number
\* What changes when a recv has returned whole frames.
<1>16. ~cut' => /\ ~cut /\ net[1].k = 1 /\ net[n].k = FrameLen /\ n >= FrameLen
                /\ Number(in_pdu') = net[1].cmd /\ Number(in_pdu) < net[1].cmd
  <2> SUFFICES ASSUME ~cut'
               PROVE  /\ ~cut /\ net[1].k = 1 /\ net[n].k = FrameLen /\ n >= FrameLen
                      /\ Number(in_pdu') = net[1].cmd /\ Number(in_pdu) < net[1].cmd
    OBVIOUS
  <2>1. ~cut /\ net[1].k = 1 /\ net[n].k = FrameLen
    BY <1>1
  <2>2. n >= FrameLen
    BY <1>3, <2>1, WholeFrame
  <2>3. n >= 4
    BY <1>3, <2>2
  <2>4. Number(in_pdu) < net[1].cmd
    BY <1>3, <2>1 DEF IInv, WholeOK
  <2> QED
    BY <1>7, <2>1, <2>2, <2>3, <2>4
<1>17. ~cut' /\ net' # << >> => net'[1].k = 1 /\ net'[1].cmd = net[n].cmd + 1
  <2> SUFFICES ASSUME ~cut', net' # << >> PROVE net'[1].k = 1 /\ net'[1].cmd = net[n].cmd + 1
    OBVIOUS
  <2>1. 1 \in 1..Len(net') /\ n \in 1..(Len(net) - 1)
    BY <1>3, <1>4, EmptySeq
  <2>2. net'[1] = net[n + 1]
    BY <1>4, <2>1
  <2> QED
    BY <1>3, <1>16, <2>1, <2>2, AfterFrame
<1>18. WholeOK'
  <2> SUFFICES ASSUME ~cut' PROVE WholeOK'
    BY DEF WholeOK
  <2>1. ~short'
    <3>1. ~short
      BY <1>16 DEF IInv, WholeOK
    <3> QED
      BY <1>1, <1>3, <1>16, <3>1
  <2>2. ASSUME NEW i \in 1..Len(net') PROVE Number(in_pdu') < net'[i].cmd
    <3>1. net[1].cmd <= net[n].cmd
      BY <1>3, Ascending
    <3>2. 1 \in 1..Len(net') /\ 1 <= i /\ net' # << >>
      BY <1>3, <1>4, EmptySeq
    <3>3. net'[1].cmd <= net'[i].cmd
      BY <1>4, <3>2, Ascending
    <3>4. net[1].cmd \in Nat /\ net[n].cmd \in Nat /\ net'[i].cmd \in Nat
      BY <1>3, <1>4, ByteOf
    <3> QED
      BY <1>16, <1>17, <3>1, <3>2, <3>3, <3>4
  <2>3. ASSUME NEW i \in 1..Len(queued) PROVE Number(queued[i]) < Number(in_pdu')
    <3>1. Number(queued[i]) <= Number(in_pdu)
      BY <1>16 DEF IInv, WholeOK, QueuedOK
    <3>2. Number(queued[i]) \in Nat /\ Number(in_pdu) \in Nat /\ Number(in_pdu') \in Nat
      BY <1>8, NumberNat, LenProperties DEF IInv, Types
    <3> QED
      BY <1>16, <3>1, <3>2
  <2> QED
    BY <1>2, <1>16, <1>17, <2>1, <2>2, <2>3 DEF IInv, WholeOK, Number
<1>19. CountOK'
  <2> SUFFICES ASSUME ~cut', ~merged', ~dropped PROVE CountOK'
    BY <1>2 DEF CountOK
  <2>0. ~merged /\ ~(n > FrameLen)
    BY <1>1, Zenon
  <2>1. ~cut /\ ~merged /\ n <= FrameLen
    BY <1>3, <1>16, <2>0
  <2>2. net[n].cmd = net[1].cmd
    BY <1>3, <1>16, <2>1, WholeFrame
  <2>3. Number(in_pdu') = Len(queued) + 1
    BY <1>2, <1>3, <1>16, <2>1 DEF IInv, CountOK
  <2>4. net' # << >> => net'[1].cmd = Number(in_pdu') + 1
    BY <1>16, <1>17, <2>2
  <2>5. net' = << >> => next = Number(in_pdu') + 1
    <3> SUFFICES ASSUME net' = << >> PROVE next = Number(in_pdu') + 1
      OBVIOUS
    <3>1. n = Len(net)
      BY <1>3, <1>4
    <3>2. net[n].cmd = next - 1
      BY <1>2, <1>3, <2>1, <3>1 DEF IInv, CountOK, EndOK
    <3>3. next \in Nat
      BY DEF IInv, Types
    <3> QED
      BY <1>16, <2>2, <3>2, <3>3
  <2>6. up
    BY <1>2, <2>1 DEF IInv, CountOK
  <2> QED
    BY <1>2, <2>1, <2>3, <2>4, <2>5, <2>6 DEF IInv, CountOK, Number
<1> QED
  BY <1>4, <1>11, <1>12, <1>13, <1>15, <1>18, <1>19 DEF IInv

LEMMA NextIInv == IInv /\ [Next]_vars => IInv'
<1> SUFFICES ASSUME IInv, [Next]_vars PROVE IInv'
  OBVIOUS
<1>1. CASE Send
  BY <1>1, SendIInv
<1>2. CASE Recv
  BY <1>2, RecvIInv
<1>3. CASE Put
  BY <1>3, PutIInv
<1>4. CASE SendFails \/ Connect \/ Break \/ Dropped \/ ControlTakes \/ UNCHANGED vars
  BY <1>4, OtherIInv
<1> QED
  BY <1>1, <1>2, <1>3, <1>4 DEF Next

----------------------------------------------------------------------------
(* Theorems                                                                  *)

\* IInv holds in every reachable state.
THEOREM Invariance == Spec => []IInv
BY InitIInv, NextIInv, PTL DEF Spec

\* Types and ranges, however recv cuts the stream: the FIFO and the buffer of a recv
\* are never overrun, a new connection starts with an empty stream.
THEOREM TypeCorrect == Spec => []TypeOK
<1>1. IInv => TypeOK
  <2> SUFFICES ASSUME IInv PROVE TypeOK
    OBVIOUS
  <2>1. ASSUME NEW k \in DOMAIN net PROVE net[k] \in Byte
    <3>1. net \in Seq(Sent)
      BY DEF IInv, Types
    <3>2. net[k] \in Sent
      BY <3>1, LenProperties
    <3> QED
      BY <3>2 DEF Sent, Byte
  <2> QED
    BY <2>1 DEF IInv, Types, TypeOK, Pdus
<1> QED
  BY <1>1, Invariance, PTL

\* Nothing is queued that was not sent, nothing older after something newer, unless a
\* recv returned less than the fields of a frame it began.
THEOREM NothingOlder == Spec => []NeverOlder
<1>1. IInv => NeverOlder
  BY LenProperties DEF IInv, Types, QueuedOK, NeverOlder
<1> QED
  BY <1>1, Invariance, PTL

\* No command is queued twice as long as every recv returned whole frames.
THEOREM NothingTwice == Spec => []NeverTwice
<1>1. IInv => NeverTwice
  BY LenProperties DEF IInv, Types, WholeOK, NeverTwice
<1> QED
  BY <1>1, Invariance, PTL

\* No command is lost as long as every recv returned one whole frame and the connection
\* held.
THEOREM NothingLost == Spec => []NoneLost
<1>1. IInv => NoneLost
  <2> SUFFICES ASSUME IInv, ~cut, ~merged, ~dropped
               PROVE  /\ \A n \in DOMAIN queued : queued[n] = Command(n)
                      /\ net = << >> /\ pc # "put" => Len(queued) = next - 1
    BY DEF NoneLost
  <2>1. DOMAIN queued = 1..Len(queued) /\ Len(queued) \in Nat
    BY LenProperties DEF IInv, Types
  <2> QED
    BY <2>1 DEF IInv, CountOK
<1> QED
  BY <1>1, Invariance, PTL
=============================================================================
