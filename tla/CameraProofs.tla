---------------------------- MODULE CameraProofs ----------------------------
(***************************************************************************)
(* Proofs about Camera for every number and length of buffers and all      *)
(* lengths of pictures:                                                    *)
(*   - the types and ranges, overruns included;                            *)
(*   - as long as no picture overruns its buffer (p.len % Size # 1), the   *)
(*     buffers handed over hold the pictures taken one after the other,    *)
(*     the client is in the oldest of them or in none, and every file it   *)
(*     saves is one whole picture.                                         *)
(* The client's loop over a buffer is a recursive function; what it does   *)
(* for every number of bytes is proved by the least number that fails.     *)
(***************************************************************************)
EXTENDS Camera, SequenceTheorems, WellFoundedInduction, TLAPS

USE SizeAssumption, LengthAssumption

----------------------------------------------------------------------------
(* Cursors of a ring of n slots, advanced by one and taken modulo n          *)
(* (pingpong_ipc.c:107, 117).                                                *)

LEMMA ModRange ==
  ASSUME NEW n \in Nat \ {0}
  PROVE  \A a \in Nat : a % n \in 0..n-1
  BY SMT

\* In the two laps a cursor sum can reach, % is the identity or one subtraction.
LEMMA ModLaps ==
  ASSUME NEW n \in Nat \ {0}
  PROVE  \A a \in Nat : /\ a < n => a % n = a
                        /\ a >= n /\ a < 2 * n => a % n = a - n
  BY SMT

\* Advancing a cursor that is a slots past another keeps the distance.
LEMMA CursorAdvance ==
  ASSUME NEW n \in Nat \ {0}, NEW t \in 0..n-1, NEW a \in 0..n
  PROVE  /\ a < n => (((t + a) % n) + 1) % n = (t + (a + 1)) % n
         /\ a >= 1 => (((t + 1) % n) + (a - 1)) % n = (t + a) % n
<1>1. \A a0 \in Nat : /\ a0 < n => a0 % n = a0
                      /\ a0 >= n /\ a0 < 2 * n => a0 % n = a0 - n
  BY ModLaps
<1> QED
  BY <1>1

\* Two different items of the window lie in different slots.
LEMMA SlotsDistinct ==
  ASSUME NEW n \in Nat \ {0}, NEW t \in 0..n-1, NEW a \in 1..n, NEW b \in 1..n, a # b
  PROVE  (t + a - 1) % n # (t + b - 1) % n
  BY ModLaps

----------------------------------------------------------------------------
(* The client's loop over the bytes of a buffer                              *)

\* Before the first byte of a buffer.
Base(c) == [header |-> c.header, temp |-> c.temp, image |-> c.image, saved |-> << >>]

\* f is the client after each of the first n bytes.
IsRun(f, c, b, n) ==
    f = [k \in 0..n |-> IF k = 0 THEN [header |-> c.header, temp |-> c.temp, image |-> c.image,
                                       saved |-> << >>]
                        ELSE Take(f[k - 1], b[k - 1])]

\* A set of numbers has a least one: what holds of all numbers is proved by the least that
\* fails.
LEMMA LeastOf ==
  ASSUME NEW S \in SUBSET Nat, S # {}
  PROVE  \E m \in S : \A n \in S : m <= n
<1>1. IsWellFoundedOn(OpToRel(<, Nat), Nat)
  BY NatLessThanWellFounded
<1>2. PICK m \in S : \A n \in S : ~(<<n, m>> \in OpToRel(<, Nat))
  BY <1>1, WFMin
<1>3. ASSUME NEW n \in S PROVE m <= n
  <2>1. n \in Nat /\ m \in Nat
    BY <1>2, <1>3
  <2>2. <<n, m>> \notin OpToRel(<, Nat)
    BY <1>2, <1>3
  <2>3. ~(n < m)
    BY <2>1, <2>2 DEF OpToRel
  <2> QED
    BY <2>1, <2>3
<1> QED
  BY <1>2, <1>3

\* The loop has a result after any number of bytes.
LEMMA RunExists ==
  ASSUME NEW c, NEW b, NEW n \in Nat
  PROVE  \E f : IsRun(f, c, b, n)
<1> DEFINE Bad == {m \in Nat : ~\E f : IsRun(f, c, b, m)}
<1>1. SUFFICES ASSUME Bad # {} PROVE FALSE
  OBVIOUS
<1>2. PICK m \in Bad : \A k \in Bad : m <= k
  BY <1>1, LeastOf
<1>3. CASE m = 0
  <2> DEFINE f == [k \in 0..0 |-> Base(c)]
  <2>1. IsRun(f, c, b, 0)
    BY DEF IsRun, Base
  <2> QED
    BY <1>2, <1>3, <2>1
<1>4. CASE m # 0
  <2>1. m - 1 \in Nat /\ m - 1 \notin Bad
    BY <1>2, <1>4
  <2>2. PICK f : IsRun(f, c, b, m - 1)
    BY <2>1
  <2> DEFINE g == [k \in 0..m |-> IF k = m THEN Take(f[m - 1], b[m - 1]) ELSE f[k]]
  <2>3. \A k \in 0..(m - 1) : g[k] = f[k]
    BY <2>1
  <2>4. ASSUME NEW k \in 0..m
        PROVE  g[k] = IF k = 0 THEN [header |-> c.header, temp |-> c.temp, image |-> c.image,
                                     saved |-> << >>]
                      ELSE Take(g[k - 1], b[k - 1])
    <3>1. CASE k = m
      BY <1>4, <2>1, <2>3, <3>1
    <3>2. CASE k # m
      <4>1. k \in 0..(m - 1) /\ (k # 0 => k - 1 \in 0..(m - 1))
        BY <2>1, <3>2
      <4>2. f[k] = IF k = 0 THEN [header |-> c.header, temp |-> c.temp, image |-> c.image,
                                  saved |-> << >>]
                   ELSE Take(f[k - 1], b[k - 1])
        BY <2>2, <4>1 DEF IsRun
      <4> QED
        BY <2>3, <4>1, <4>2
    <3> QED
      BY <3>1, <3>2
  <2>5. g = [k \in 0..m |-> IF k = 0 THEN [header |-> c.header, temp |-> c.temp, image |-> c.image,
                                     saved |-> << >>]
                      ELSE Take(g[k - 1], b[k - 1])]
    BY <2>4
  <2>6. IsRun(g, c, b, m)
    BY <2>5 DEF IsRun
  <2> QED
    BY <1>2, <2>6
<1> QED
  BY <1>3, <1>4

LEMMA RunStep ==
  ASSUME NEW c, NEW b, NEW n \in Nat, NEW f, IsRun(f, c, b, n)
  PROVE  f[0] = Base(c) /\ \A k \in 1..n : f[k] = Take(f[k - 1], b[k - 1])
BY DEF IsRun, Base

LEMMA ProcessRun ==
  ASSUME NEW c, NEW b, NEW n \in Nat
  PROVE  \E f : IsRun(f, c, b, n) /\ Process(c, b, n) = f[n]
<1> DEFINE f == CHOOSE f : IsRun(f, c, b, n)
<1>1. IsRun(f, c, b, n)
  BY RunExists, Zenon
<1>2. Process(c, b, n) = f[n]
  BY DEF Process, IsRun
<1> QED
  BY <1>1, <1>2

\* Process reads the bytes one after the other.
LEMMA ProcessSteps ==
  ASSUME NEW c, NEW b, NEW n \in Nat
  PROVE  /\ Process(c, b, 0) = Base(c)
         /\ Process(c, b, n + 1) = Take(Process(c, b, n), b[n])
<1>1. Process(c, b, 0) = Base(c)
  <2>1. PICK h : IsRun(h, c, b, 0) /\ Process(c, b, 0) = h[0]
    BY ProcessRun
  <2> QED
    BY <2>1, RunStep
<1>2. PICK f : IsRun(f, c, b, n) /\ Process(c, b, n) = f[n]
  BY ProcessRun
<1>3. PICK g : IsRun(g, c, b, n + 1) /\ Process(c, b, n + 1) = g[n + 1]
  BY ProcessRun
<1>4. f[0] = Base(c) /\ \A k \in 1..n : f[k] = Take(f[k - 1], b[k - 1])
  BY <1>2, RunStep
<1>5. g[0] = Base(c) /\ \A k \in 1..(n + 1) : g[k] = Take(g[k - 1], b[k - 1])
  BY <1>3, RunStep
<1> DEFINE Bad == {m \in Nat : m <= n /\ f[m] # g[m]}
<1>6. Bad = {}
  <2> SUFFICES ASSUME Bad # {} PROVE FALSE
    OBVIOUS
  <2>1. PICK m \in Bad : \A k \in Bad : m <= k
    BY LeastOf
  <2>2. m # 0
    BY <1>4, <1>5, <2>1
  <2>3. m \in 1..n /\ m \in 1..(n + 1) /\ m - 1 \in Nat /\ m - 1 <= n /\ ~(m <= m - 1)
    BY <2>1, <2>2
  <2>4. f[m - 1] = g[m - 1]
    BY <2>1, <2>3
  <2> QED
    BY <1>4, <1>5, <2>1, <2>3, <2>4
<1>7. f[n] = g[n] /\ n + 1 \in 1..(n + 1) /\ (n + 1) - 1 = n
  BY <1>6
<1> QED
  BY <1>1, <1>2, <1>3, <1>5, <1>7

\* What jpeg_client holds between two bytes, with the images saved on the way.
Session == [header : BOOLEAN, temp : Byte, image : Seq(Byte), saved : Seq(Seq(Byte))]

\* One byte leaves a session of the client.
LEMMA TakeType ==
  ASSUME NEW c \in Session, NEW x \in Byte PROVE Take(c, x) \in Session
<1>1. c.image \in Seq(Byte) /\ c.saved \in Seq(Seq(Byte)) /\ c.header \in BOOLEAN
  BY DEF Session
<1>2. Append(c.image, x) \in Seq(Byte) /\ Append(c.saved, Append(c.image, x)) \in Seq(Seq(Byte))
  BY <1>1, AppendProperties
<1>3. <<FF, D8>> \in Seq(Byte)
  BY DEF Byte
<1>4. c.image \o <<FF, D8>> \in Seq(Byte) /\ << >> \in Seq(Byte)
  BY <1>1, <1>3, ConcatProperties
<1> QED
  BY <1>2, <1>4 DEF Take, Session

\* So do the first bytes of a buffer.
LEMMA ProcessType ==
  ASSUME NEW c, c.header \in BOOLEAN, c.temp \in Byte, c.image \in Seq(Byte),
         NEW b \in [Cells -> Byte], NEW n \in 0..Size
  PROVE  Process(c, b, n) \in Session
<1> DEFINE Bad == {m \in Nat : m <= Size /\ Process(c, b, m) \notin Session}
<1>1. SUFFICES ASSUME Bad # {} PROVE FALSE
  OBVIOUS
<1>2. PICK m \in Bad : \A k \in Bad : m <= k
  BY <1>1, LeastOf
<1>3. m # 0
  <2>1. Base(c) \in Session
    BY DEF Base, Session
  <2> QED
    BY <1>2, <2>1, ProcessSteps
<1>4. m - 1 \in Nat /\ m - 1 \in Cells /\ (m - 1) + 1 = m /\ ~(m <= m - 1) /\ m - 1 <= Size
  BY <1>2, <1>3 DEF Cells
<1>5. Process(c, b, m - 1) \in Session /\ b[m - 1] \in Byte
  BY <1>2, <1>4
<1>6. Process(c, b, m) = Take(Process(c, b, m - 1), b[m - 1])
  BY <1>4, ProcessSteps
<1> QED
  BY <1>2, <1>5, <1>6, TakeType

----------------------------------------------------------------------------
(* Types                                                                     *)

\* What the history holds.
Pictures == [id : Ids, len : Lengths]

\* The bytes in the FIFO of the camera, and the index, which is 0 before a header.
Types ==
    /\ TypeOK
    /\ pics \in Seq(Pictures) /\ saved \in Seq(Seq(Byte))
    /\ ~is_header => i = 0
    /\ pc = "read" => avail < NumBuffs

LEMMA InitTypes == Init => Types
<1> SUFFICES ASSUME Init PROVE Types
  OBVIOUS
<1>1. << >> \in Seq(Byte) /\ << >> \in Seq(Pictures) /\ << >> \in Seq(Seq(Byte)) /\ Len(<< >>) = 0
  OBVIOUS
<1>2. 0 \in Byte /\ 0 \in Buffs
  BY DEF Byte, Padding, Buffs
<1> QED
  BY <1>1, <1>2 DEF Init, Types, TypeOK, Gone

\* A picture is a sequence of bytes.
LEMMA ImageType ==
  ASSUME NEW p \in Pictures PROVE Image(p) \in Seq(Byte)
<1>1. p.id \in Byte /\ p.len - 4 \in Nat /\ {FF, D8, D9} \subseteq Byte
  <2>1. p.id \in Ids /\ p.len \in Lengths
    BY DEF Pictures
  <2>2. p.len \in Nat /\ p.len >= 5
    BY <2>1
  <2> QED
    BY <2>1, <2>2 DEF Byte
<1>2. [k \in 1..(p.len - 4) |-> p.id] \in Seq(Byte)
  BY <1>1
<1>3. <<FF, D8>> \in Seq(Byte) /\ <<FF, D9>> \in Seq(Byte)
  BY <1>1
<1> QED
  BY <1>2, <1>3, ConcatProperties DEF Image

\* A stored byte leaves the buffers buffers, past the end of one too.
LEMMA StoreType ==
  ASSUME NEW d \in [Buffs -> [Cells -> Byte]], w \in Buffs, NEW n \in Nat, NEW x \in Byte
  PROVE  Store(d, n, x) \in [Buffs -> [Cells -> Byte]]
<1>1. CASE n < Size
  <2>1. n \in Cells
    BY <1>1 DEF Cells
  <2> QED
    BY <1>1, <2>1 DEF Store
<1>2. CASE ~(n < Size) /\ w + 1 < NumBuffs
  <2>1. w + 1 \in Buffs /\ 0 \in Cells
    BY <1>2 DEF Buffs, Cells
  <2> QED
    BY <1>2, <2>1 DEF Store
<1>3. CASE ~(n < Size) /\ ~(w + 1 < NumBuffs)
  BY <1>3 DEF Store
<1> QED
  BY <1>1, <1>2, <1>3

\* The next picture gets a number of the history.
LEMMA NextIdType ==
  ASSUME pics \in Seq(Pictures) PROVE NextId \in Ids
<1>1. CASE pics = << >>
  BY <1>1 DEF NextId, Ids
<1>2. CASE pics # << >>
  <2>1. Len(pics) \in 1..Len(pics)
    BY <1>2, EmptySeq, LenProperties
  <2>2. Last(pics).id \in Nat
    <3>1. pics[Len(pics)] \in Pictures
      BY <2>1, LenProperties
    <3> QED
      BY <3>1 DEF Last, Pictures, Ids
  <2>3. Last(pics).id % (Recent + 1) \in 0..Recent
    BY <2>2
  <2> QED
    BY <1>2, <2>3 DEF NextId, Ids
<1> QED
  BY <1>1, <1>2

\* A set of positions has a greatest one, and Max is it.
LEMMA GreatestOf ==
  ASSUME NEW n \in Nat, NEW S \in SUBSET (1..n), S # {}
  PROVE  Max(S) \in S /\ \A k \in S : Max(S) >= k
<1> DEFINE U == {m \in Nat : \A k \in S : k <= m}
<1>1. U # {}
  <2>1. n \in U
    OBVIOUS
  <2> QED
    BY <2>1
<1>2. PICK m \in U : \A k \in U : m <= k
  BY <1>1, LeastOf
<1>3. m \in S
  <2> SUFFICES ASSUME m \notin S PROVE FALSE
    OBVIOUS
  <2>1. PICK k \in S : k \in 1..n /\ k <= m
    BY <1>2
  <2>2. m - 1 \in Nat /\ ~(m <= m - 1)
    BY <1>2, <2>1
  <2>3. \A j \in S : j <= m - 1
    BY <1>2
  <2> QED
    BY <1>2, <2>2, <2>3
<1>4. \A k \in S : m >= k
  BY <1>2
<1> QED
  BY <1>3, <1>4 DEF Max

\* The history only shrinks when pictures are saved.
LEMMA ForgetType ==
  ASSUME pics \in Seq(Pictures), NEW images
  PROVE  /\ Forget(images) \in Seq(Pictures) /\ Len(Forget(images)) <= Len(pics)
<1> DEFINE done == {k \in DOMAIN pics : \E n \in DOMAIN images : images[n] = Image(pics[k])}
<1>0. Len(pics) \in Nat /\ DOMAIN pics = 1..Len(pics)
  BY LenProperties
<1>1. CASE done = {}
  BY <1>0, <1>1 DEF Forget
<1>2. CASE done # {}
  <2>1. Max(done) \in 1..Len(pics)
    BY <1>0, <1>2, GreatestOf
  <2>2. /\ SubSeq(pics, Max(done) + 1, Len(pics)) \in Seq(Pictures)
        /\ Len(SubSeq(pics, Max(done) + 1, Len(pics))) <= Len(pics)
    <3>1. \A k \in (Max(done) + 1)..Len(pics) : pics[k] \in Pictures
      BY <1>0, <2>1
    <3>2. Max(done) + 1 \in Int /\ Max(done) + 1 >= 1
      BY <2>1
    <3> HIDE DEF done
    <3> QED
      BY <1>0, <2>1, <3>1, <3>2, SubSeqProperties
  <2> QED
    BY <1>2, <2>2 DEF Forget
<1> QED
  BY <1>1, <1>2

\* A byte taken from the FIFO is a byte.
LEMMA ReadTypes ==
  ASSUME Types, ReadByte, fifo # << >>
  PROVE  Head(fifo) \in Byte /\ fifo' \in Seq(Byte) /\ temp' \in Byte /\ temp_last' \in Byte
BY HeadTailProperties DEF Types, TypeOK, ReadByte

\* A buffer is handed over by a thread that has one.
LEMMA HandOverTypes ==
  ASSUME Types, HandOver, pc = "read"
  PROVE  avail' \in 0..NumBuffs /\ w' \in Buffs
<1>1. avail \in Nat /\ avail < NumBuffs /\ w \in Nat
  BY DEF Types, TypeOK, Buffs
<1>2. (w + 1) % NumBuffs \in 0..(NumBuffs - 1)
  BY <1>1
<1> QED
  BY <1>1, <1>2 DEF HandOver, Buffs

\* A buffer that is full is released.
LEMMA ReleaseTypes ==
  ASSUME Types, Release, avail > 0
  PROVE  avail' \in 0..NumBuffs /\ avail' < avail /\ r' \in Buffs
<1>1. avail \in Nat /\ avail <= NumBuffs /\ r \in Nat
  BY DEF Types, TypeOK, Buffs
<1>2. (r + 1) % NumBuffs \in 0..(NumBuffs - 1)
  BY <1>1
<1> QED
  BY <1>1, <1>2 DEF Release, Buffs

\* The steps keep the types, one lemma for each part of the program.
LEMMA StartTypes ==
  ASSUME Types, StartCapture PROVE Types'
<1>1. PICK n \in Lengths :
         /\ fifo' = Append(Image([id |-> NextId, len |-> n]), Padding)
         /\ pics' = Append(IF Len(pics) = Recent THEN Tail(pics) ELSE pics, [id |-> NextId, len |-> n])
  BY DEF StartCapture
<1> DEFINE p == [id |-> NextId, len |-> n]
           q == IF Len(pics) = Recent THEN Tail(pics) ELSE pics
<1>2. pics \in Seq(Pictures) /\ Len(pics) \in Nat /\ Len(pics) <= Recent
  BY LenProperties DEF Types, TypeOK
<1>3. p \in Pictures
  BY <1>2, NextIdType DEF Pictures
<1>4. q \in Seq(Pictures) /\ Len(q) \in Nat /\ Len(q) + 1 <= Recent
  <2>1. CASE Len(pics) = Recent
    <3>1. pics # << >>
      BY <2>1, EmptySeq
    <3>2. Tail(pics) \in Seq(Pictures) /\ Len(Tail(pics)) = Len(pics) - 1
      BY <1>2, <3>1, HeadTailProperties
    <3> QED
      BY <1>2, <2>1, <3>2
  <2>2. CASE Len(pics) # Recent
    BY <1>2, <2>2
  <2> QED
    BY <2>1, <2>2
<1>5. pics' \in Seq(Pictures) /\ Len(pics') <= Recent
  <2> HIDE DEF p, q
  <2>1. Append(q, p) \in Seq(Pictures) /\ Len(Append(q, p)) = Len(q) + 1
    BY <1>3, <1>4, AppendProperties
  <2>2. pics' = Append(q, p)
    BY <1>1 DEF p, q
  <2> QED
    BY <1>4, <2>1, <2>2
<1>6. fifo' \in Seq(Byte)
  <2>1. Image(p) \in Seq(Byte) /\ Padding \in Byte
    BY <1>3, ImageType DEF Byte
  <2> HIDE DEF p
  <2>2. Append(Image(p), Padding) \in Seq(Byte)
    BY <2>1, AppendProperties
  <2> QED
    BY <1>1, <2>2 DEF p
<1>7. 0 \in Byte /\ << >> \in Seq(Seq(Byte))
  BY DEF Byte, Padding
<1> QED
  <2>1. /\ UNCHANGED <<data, w, r, avail, server, up, pending, client>>
        /\ temp' = 0 /\ temp_last' = 0 /\ is_header' = FALSE /\ i' = 0 /\ pc' = "get" /\ saved' = << >>
    BY DEF StartCapture, peers
  <2>2. TypeOK'
    <3>0. is_header' \in BOOLEAN
      BY <2>1, Zenon
    <3>1. i' \in 0..Size
      BY <2>1
    <3>2. temp' \in Byte /\ temp_last' \in Byte
      BY <1>7, <2>1
    <3>3. /\ data' \in [Buffs -> [Cells -> Byte]] /\ w' \in Buffs /\ r' \in Buffs
          /\ avail' \in 0..NumBuffs
      BY <2>1 DEF Types, TypeOK
    <3>4. /\ server' \in {"accept", "serve"} /\ up' \in BOOLEAN /\ pending' \in BOOLEAN
          /\ client' \in [on : BOOLEAN, header : BOOLEAN, temp : Byte, image : Seq(Byte)]
      BY <2>1 DEF Types, TypeOK
    <3> QED
      BY <1>5, <1>6, <2>1, <3>0, <3>1, <3>2, <3>3, <3>4 DEF TypeOK
  <2> QED
    BY <1>5, <1>7, <2>1, <2>2 DEF Types

LEMMA CaptureTypes ==
  ASSUME Types, GetBuffer \/ EndOfImage \/ Body \/ FlushFull \/ Header \/ Skip \/ FlushLast
  PROVE  Types'
<1>0. << >> \in Seq(Seq(Byte)) /\ FF \in Byte /\ D8 \in Byte /\ D9 \in Byte
  BY DEF Byte
<1>1. /\ data \in [Buffs -> [Cells -> Byte]] /\ w \in Buffs /\ i \in Nat /\ i <= Size
  BY DEF Types, TypeOK
<1>2. CASE GetBuffer
  BY <1>0, <1>2 DEF GetBuffer, Types, TypeOK, peers
<1>3. CASE EndOfImage
  <2>1. fifo # << >> /\ ReadByte
    BY <1>3 DEF EndOfImage, Marker
  <2>2. data' \in [Buffs -> [Cells -> Byte]]
    BY <1>0, <1>1, <1>3, StoreType DEF EndOfImage
  <2> QED
    <3>1. /\ UNCHANGED <<w, r, avail, pc, server, up, pending, client, pics>>
          /\ is_header' = FALSE /\ i' = 0 /\ saved' = << >>
      BY <1>3 DEF EndOfImage, peers
    <3>2. fifo' \in Seq(Byte) /\ temp' \in Byte /\ temp_last' \in Byte
      BY <2>1, ReadTypes
    <3>3. TypeOK'
      <4>0. is_header' \in BOOLEAN
        BY <3>1, Zenon
      <4>1. i' \in 0..Size
        BY <3>1
      <4>2. w' \in Buffs /\ r' \in Buffs /\ avail' \in 0..NumBuffs
        BY <3>1 DEF Types, TypeOK
      <4>3. /\ server' \in {"accept", "serve"} /\ up' \in BOOLEAN /\ pending' \in BOOLEAN
            /\ client' \in [on : BOOLEAN, header : BOOLEAN, temp : Byte, image : Seq(Byte)]
            /\ pc' \in {"idle", "get", "read"} /\ Len(pics') <= Recent
        BY <3>1 DEF Types, TypeOK
      <4> QED
        BY <2>2, <3>2, <4>0, <4>1, <4>2, <4>3 DEF TypeOK
    <3> QED
      BY <1>0, <3>1, <3>3 DEF Types
<1>4. CASE Body
  <2>1. fifo # << >> /\ ReadByte
    BY <1>4 DEF Body
  <2>2. data' \in [Buffs -> [Cells -> Byte]]
    BY <1>1, <1>4, <2>1, ReadTypes, StoreType DEF Body
  <2> QED
    BY <1>0, <1>4, <2>1, <2>2, ReadTypes DEF Body, Types, TypeOK, peers
<1>5. CASE FlushFull
  <2>1. avail' \in 0..NumBuffs /\ w' \in Buffs
    BY <1>5, HandOverTypes DEF FlushFull
  <2> QED
    BY <1>0, <1>5, <2>1 DEF FlushFull, Types, TypeOK, peers
<1>6. CASE Header
  <2>1. fifo # << >> /\ ReadByte /\ i = 0
    BY <1>6 DEF Header, Marker, Types
  <2>2. Store(data, i, FF) \in [Buffs -> [Cells -> Byte]]
    BY <1>0, <1>1, StoreType
  <2>3. i + 1 \in Nat
    BY <1>1
  <2>4. data' \in [Buffs -> [Cells -> Byte]]
    BY <1>0, <1>1, <1>6, <2>2, <2>3, StoreType DEF Header
  <2> QED
    BY <1>0, <1>6, <2>1, <2>4, ReadTypes DEF Header, Types, TypeOK, peers
<1>7. CASE Skip
  <2>1. fifo # << >> /\ ReadByte
    BY <1>7 DEF Skip
  <2> QED
    BY <1>0, <1>7, <2>1, ReadTypes DEF Skip, Types, TypeOK, peers
<1>8. CASE FlushLast
  <2>1. avail' \in 0..NumBuffs /\ w' \in Buffs
    BY <1>8, HandOverTypes DEF FlushLast
  <2> QED
    BY <1>0, <1>8, <2>1 DEF FlushLast, Types, TypeOK, peers
<1> QED
  BY <1>2, <1>3, <1>4, <1>5, <1>6, <1>7, <1>8

LEMMA SendTypes ==
  ASSUME Types, Send \/ SendPart PROVE Types'
<1>1. client.header \in BOOLEAN /\ client.temp \in Byte /\ client.image \in Seq(Byte)
      /\ data[r] \in [Cells -> Byte]
  BY DEF Types, TypeOK
<1>2. avail' \in 0..NumBuffs /\ avail' < avail /\ r' \in Buffs /\ avail \in Nat
  BY ReleaseTypes DEF Send, SendPart, Types, TypeOK
<1>3. PICK n \in 0..Size :
         LET c == Process(client, data[r], n)
         IN  /\ saved' = c.saved /\ pics' = Forget(c.saved)
             /\ \/ client' = Gone
                \/ client' = [on |-> TRUE, header |-> c.header, temp |-> c.temp, image |-> c.image]
  <2>1. CASE Send
    <3>1. Size \in 0..Size
      OBVIOUS
    <3> QED
      BY <2>1, <3>1 DEF Send, Receives
  <2>2. CASE SendPart
    BY <2>2 DEF SendPart, Cells
  <2> QED
    BY <2>1, <2>2
<1> DEFINE c == Process(client, data[r], n)
<1>4. c \in Session
  BY <1>1, ProcessType
<1>5. pics \in Seq(Pictures) /\ Len(pics) \in Nat /\ Len(pics) <= Recent
  BY LenProperties DEF Types, TypeOK
<1> HIDE DEF c
<1>6. Forget(c.saved) \in Seq(Pictures) /\ Len(Forget(c.saved)) <= Len(pics)
  BY <1>5, ForgetType
<1>7. pics' \in Seq(Pictures) /\ Len(pics') <= Recent
  <2>1. pics' = Forget(c.saved) /\ Len(Forget(c.saved)) \in Nat
    BY <1>3, <1>6, LenProperties DEF c
  <2> QED
    BY <1>5, <1>6, <2>1
<1>8. saved' \in Seq(Seq(Byte))
  BY <1>3, <1>4 DEF c, Session
<1>9. client' \in [on : BOOLEAN, header : BOOLEAN, temp : Byte, image : Seq(Byte)]
  <2>1. Gone \in [on : BOOLEAN, header : BOOLEAN, temp : Byte, image : Seq(Byte)]
    <3>1. 0 \in Byte /\ << >> \in Seq(Byte)
      BY DEF Byte, Padding
    <3> QED
      BY <3>1 DEF Gone
  <2>2. [on |-> TRUE, header |-> c.header, temp |-> c.temp, image |-> c.image]
          \in [on : BOOLEAN, header : BOOLEAN, temp : Byte, image : Seq(Byte)]
    BY <1>4 DEF Session
  <2> QED
    BY <1>3, <2>1, <2>2 DEF c
<1>10. pc' = "read" => avail' < NumBuffs
  BY <1>2 DEF Send, SendPart, capture, Types, TypeOK
<1> QED
  BY <1>2, <1>7, <1>8, <1>9, <1>10 DEF Send, SendPart, capture, Types, TypeOK

LEMMA OtherTypes ==
  ASSUME Types, Connect \/ Break \/ Accept \/ SendNowhere \/ UNCHANGED vars PROVE Types'
<1>0. /\ << >> \in Seq(Seq(Byte))
      /\ Gone \in [on : BOOLEAN, header : BOOLEAN, temp : Byte, image : Seq(Byte)]
      /\ Fresh \in [on : BOOLEAN, header : BOOLEAN, temp : Byte, image : Seq(Byte)]
  <2>1. 0 \in Byte /\ << >> \in Seq(Byte)
    BY DEF Byte, Padding
  <2> QED
    <3>1. Gone = [on |-> FALSE, header |-> FALSE, temp |-> 0, image |-> << >>]
      BY DEF Gone
    <3>2. Gone \in [on : BOOLEAN, header : BOOLEAN, temp : Byte, image : Seq(Byte)]
      BY <2>1, <3>1
    <3>3. Fresh \in [on : BOOLEAN, header : BOOLEAN, temp : Byte, image : Seq(Byte)]
      BY <3>2 DEF Fresh
    <3> QED
      BY <2>1, <3>2, <3>3
<1>1. CASE Connect
  BY <1>0, <1>1 DEF Connect, capture, Types, TypeOK
<1>2. CASE Break
  BY <1>0, <1>2 DEF Break, capture, Types, TypeOK
<1>3. CASE Accept
  BY <1>0, <1>3 DEF Accept, capture, Types, TypeOK
<1>4. CASE SendNowhere
  <2>1. avail' \in 0..NumBuffs /\ avail' < avail /\ r' \in Buffs /\ avail \in Nat
    BY <1>4, ReleaseTypes DEF SendNowhere, Types, TypeOK
  <2> QED
    BY <1>0, <1>4, <2>1 DEF SendNowhere, capture, Types, TypeOK
<1>5. CASE UNCHANGED vars
  BY <1>5 DEF vars, Types, TypeOK
<1> QED
  BY <1>1, <1>2, <1>3, <1>4, <1>5

----------------------------------------------------------------------------
(* What is in the buffers                                                    *)

\* All bytes of a capture.
Bytes(p) == Append(Image(p), Padding)

\* The buffer of number j among those handed over, oldest first.
Slot(j) == (r + j) % NumBuffs

\* Buffer b holds picture p from its byte off + 1 on.
Holds(b, p, off) == \A k \in Cells : off + k < p.len => b[k] = Image(p)[off + k + 1]

\* A buffer begins at byte off of a picture.
Starts(off) == \E q \in 0..off : off = Size * q

\* FF D8 is nowhere but at the beginning of a buffer.
NoStaleHeader == \A b \in Buffs : \A k \in Cells : data[b][k] = D8 => k = 1

\* The client is in no picture or has the first off bytes of p.
Synced(c, p, off) ==
    /\ ~c.header => c.image = << >>
    /\ c.header => /\ off > 0 /\ off < p.len
                   /\ c.image = SubSeq(Image(p), 1, off) /\ c.temp = Image(p)[off]

\* The bytes read from the camera, and where the buffer in work begins in the picture.
Pos == Last(pics).len + 1 - Len(fifo)
CaptureOK(off) ==
    pc # "idle" =>
        LET p == Last(pics)
        IN  /\ pics # << >> /\ Pos >= 0
            /\ \A k \in 1..Len(fifo) : fifo[k] = Bytes(p)[Pos + k]
            /\ temp = IF Pos = 0 THEN 0 ELSE Bytes(p)[Pos]
            /\ is_header <=> Pos \in 2..(p.len - 1)
            /\ pc = "get" => i = 0
            /\ off < p.len
            /\ Pos < 2 => off = 0
            /\ is_header => /\ Pos = off + i
                            /\ \A k \in Cells : k < i => data[w][k] = Image(p)[off + k + 1]
            /\ Pos >= p.len => off + Size >= p.len /\ Holds(data[w], p, off)

\* The buffers handed over, oldest first, hold the pictures one after the other: number
\* j holds picture N[j] from O[j] on.
Chain(N, O) ==
    /\ \A j \in 0..(avail - 1) :
         /\ N[j] \in 1..Len(pics) /\ O[j] < pics[N[j]].len
         /\ Holds(data[Slot(j)], pics[N[j]], O[j])
         /\ IF O[j] + Size < pics[N[j]].len THEN N[j + 1] = N[j] /\ O[j + 1] = O[j] + Size
            ELSE N[j + 1] = N[j] + 1 /\ O[j + 1] = 0
    /\ \A j \in 0..avail : Starts(O[j]) /\ N[avail] - N[j] <= avail - j
    /\ N[avail] = IF pc = "idle" THEN Len(pics) + 1 ELSE Len(pics)
    /\ pc = "idle" => O[avail] = 0
    /\ IF N[0] \in 1..Len(pics) THEN Synced(client, pics[N[0]], O[0])
       ELSE ~client.header /\ client.image = << >>

\* The pictures of the history have numbers one after the other, modulo Recent + 1.
IdsOK == \A j, k \in 1..Len(pics) :
    j < k => pics[k].id - pics[j].id \in {k - j, k - j - (Recent + 1)}

\* Only a connected client is in a picture; the writer's buffer follows those handed over.
LinkOK == (client.header => up) /\ w = Slot(avail)

\* What is handed over, and what is in work after it.
StreamOK == \E N, O \in [0..avail -> Nat] : Chain(N, O) /\ CaptureOK(O[avail])

\* No picture of the history has its end marker past the end of a full buffer.
NoOverrun == \A k \in 1..Len(pics) : ~Overruns(pics[k])

\* The inductive invariant, as long as there is no overrun.
IInv == Types /\ LinkOK /\ IdsOK /\ NoStaleHeader /\ StreamOK

----------------------------------------------------------------------------
(* The bytes of a picture                                                    *)

LEMMA ImageAt ==
  ASSUME NEW p \in Pictures
  PROVE  /\ p.len \in Nat /\ p.len >= 5 /\ Image(p) \in Seq(Byte) /\ Len(Image(p)) = p.len
         /\ Image(p)[1] = FF /\ Image(p)[2] = D8 /\ Image(p)[3] = p.id
         /\ Image(p)[p.len - 1] = FF /\ Image(p)[p.len] = D9
         /\ \A k \in 3..(p.len - 2) : Image(p)[k] = p.id
<1> DEFINE body == [k \in 1..(p.len - 4) |-> p.id]
<1>1. p.id \in Ids /\ p.len \in Lengths
  BY DEF Pictures
<1>2. p.len \in Nat /\ p.len >= 5 /\ p.id \in Byte
  BY <1>1 DEF Byte
<1>3. <<FF, D8>> \in Seq(Byte) /\ <<FF, D9>> \in Seq(Byte)
  BY DEF Byte
<1>4. body \in Seq(Byte) /\ Len(body) = p.len - 4 /\ \A k \in 1..(p.len - 4) : body[k] = p.id
  BY <1>2
<1> HIDE DEF body
<1> DEFINE front == <<FF, D8>> \o body
<1>5. /\ front \in Seq(Byte) /\ Len(front) = p.len - 2
      /\ \A k \in 1..(p.len - 2) : front[k] = IF k <= 2 THEN <<FF, D8>>[k] ELSE body[k - 2]
  BY <1>2, <1>3, <1>4, ConcatProperties
<1> HIDE DEF front
<1>6. /\ front \o <<FF, D9>> \in Seq(Byte) /\ Len(front \o <<FF, D9>>) = p.len
      /\ \A k \in 1..p.len : (front \o <<FF, D9>>)[k] =
            IF k <= p.len - 2 THEN front[k] ELSE <<FF, D9>>[k - (p.len - 2)]
  BY <1>2, <1>3, <1>5, ConcatProperties
<1>7. Image(p) = front \o <<FF, D9>>
  BY DEF Image, front, body
<1>8. /\ Image(p)[1] = FF /\ Image(p)[2] = D8
  BY <1>2, <1>5, <1>6, <1>7
<1>9. ASSUME NEW k \in 3..(p.len - 2) PROVE Image(p)[k] = p.id
  <2>1. k \in 1..p.len /\ k \in 1..(p.len - 2) /\ k - 2 \in 1..(p.len - 4)
    BY <1>2
  <2> QED
    BY <1>2, <1>4, <1>5, <1>6, <1>7, <2>1
<1>10. Image(p)[p.len - 1] = FF /\ Image(p)[p.len] = D9
  <2>1. /\ p.len - 1 \in 1..p.len /\ p.len \in 1..p.len
        /\ (p.len - 1) - (p.len - 2) = 1 /\ p.len - (p.len - 2) = 2
        /\ ~(p.len - 1 <= p.len - 2) /\ ~(p.len <= p.len - 2)
    BY <1>2
  <2>2. Image(p)[p.len - 1] = <<FF, D9>>[1] /\ Image(p)[p.len] = <<FF, D9>>[2]
    BY <1>6, <1>7, <2>1, Zenon
  <2> QED
    BY <2>2
<1>11. 3 \in 3..(p.len - 2)
  BY <1>2
<1> QED
  BY <1>2, <1>6, <1>7, <1>8, <1>9, <1>10, <1>11

\* The markers are at the ends only.
LEMMA MarkersAt ==
  ASSUME NEW p \in Pictures, NEW k \in 1..p.len
  PROVE  /\ Image(p)[k] = FF <=> k \in {1, p.len - 1}
         /\ Image(p)[k] = D8 <=> k = 2
         /\ Image(p)[k] = D9 <=> k = p.len
<1>1. p.len \in Nat /\ p.len >= 5 /\ p.id \in 1..(Recent + 1)
  BY ImageAt DEF Pictures, Ids
<1>2. p.id # FF /\ p.id # D8 /\ p.id # D9
  BY <1>1, HistoryAssumption DEF FF, D8, D9
<1>3. k = 1 \/ k = 2 \/ k \in 3..(p.len - 2) \/ k = p.len - 1 \/ k = p.len
  BY <1>1
<1>4. FF # D8 /\ FF # D9 /\ D8 # D9
  BY DEF FF, D8, D9
<1>5. Image(p)[1] = FF /\ Image(p)[2] = D8 /\ Image(p)[p.len - 1] = FF /\ Image(p)[p.len] = D9
      /\ \A m \in 3..(p.len - 2) : Image(p)[m] = p.id
  BY ImageAt
<1>6. CASE k \in 3..(p.len - 2)
  BY <1>1, <1>2, <1>5, <1>6
<1>7. CASE k \in {1, 2, p.len - 1, p.len}
  BY <1>1, <1>4, <1>5, <1>7
<1> QED
  BY <1>3, <1>6, <1>7

\* The bytes of a capture are those of the picture and the padding.
LEMMA BytesAt ==
  ASSUME NEW p \in Pictures
  PROVE  /\ Len(Bytes(p)) = p.len + 1 /\ Bytes(p) \in Seq(Byte)
         /\ \A k \in 1..p.len : Bytes(p)[k] = Image(p)[k]
         /\ Bytes(p)[p.len + 1] = Padding
<1>1. Image(p) \in Seq(Byte) /\ Len(Image(p)) = p.len /\ Padding \in Byte
  BY ImageAt DEF Byte
<1> QED
  BY <1>1, AppendProperties DEF Bytes

\* The beginnings of a picture.
LEMMA Beginnings ==
  ASSUME NEW p \in Pictures
  PROVE  /\ \A q \in 0..(p.len - 1) :
              Append(SubSeq(Image(p), 1, q), Image(p)[q + 1]) = SubSeq(Image(p), 1, q + 1)
         /\ SubSeq(Image(p), 1, p.len) = Image(p)
         /\ SubSeq(Image(p), 1, 2) = <<FF, D8>>
<1>1. /\ p.len \in Nat /\ p.len >= 5 /\ Image(p) \in Seq(Byte) /\ Len(Image(p)) = p.len
      /\ Image(p)[1] = FF /\ Image(p)[2] = D8
  BY ImageAt
<1>2. \A q \in 0..p.len : /\ SubSeq(Image(p), 1, q) \in Seq(Byte) /\ Len(SubSeq(Image(p), 1, q)) = q
                          /\ \A k \in 1..q : SubSeq(Image(p), 1, q)[k] = Image(p)[k]
  <2>1. ASSUME NEW q \in 0..p.len
        PROVE  /\ SubSeq(Image(p), 1, q) \in Seq(Byte) /\ Len(SubSeq(Image(p), 1, q)) = q
               /\ \A k \in 1..q : SubSeq(Image(p), 1, q)[k] = Image(p)[k]
    <3>1. \A k \in 1..q : Image(p)[k] \in Byte
      BY <1>1, LenProperties
    <3>2. q \in Int /\ 1 \in Int /\ q - 1 + 1 = q /\ (IF 1 <= q THEN q - 1 + 1 ELSE 0) = q
          /\ \A k \in 1..q : 1 + k - 1 = k
      BY <1>1
    <3> QED
      BY <3>1, <3>2, SubSeqProperties
  <2> QED
    BY <2>1
<1>3. ASSUME NEW q \in 0..(p.len - 1)
      PROVE  Append(SubSeq(Image(p), 1, q), Image(p)[q + 1]) = SubSeq(Image(p), 1, q + 1)
  <2>1. q \in 0..p.len /\ q + 1 \in 0..p.len /\ Image(p)[q + 1] \in Byte
    BY <1>1, LenProperties
  <2> DEFINE a == SubSeq(Image(p), 1, q)
             b == SubSeq(Image(p), 1, q + 1)
             e == Image(p)[q + 1]
  <2>2. /\ a \in Seq(Byte) /\ Len(a) = q /\ b \in Seq(Byte) /\ Len(b) = q + 1 /\ e \in Byte
        /\ \A k \in 1..q : a[k] = b[k]
        /\ b[q + 1] = e
    BY <1>2, <2>1
  <2> HIDE DEF a, b, e
  <2>3. /\ Append(a, e) \in Seq(Byte) /\ Len(Append(a, e)) = q + 1
        /\ \A k \in 1..q : Append(a, e)[k] = a[k]
        /\ Append(a, e)[q + 1] = e
    BY <2>2, AppendProperties
  <2>4. \A k \in 1..(q + 1) : Append(a, e)[k] = b[k]
    BY <2>2, <2>3
  <2>5. Append(a, e) = b
    BY <2>2, <2>3, <2>4, SeqEqual
  <2> QED
    BY <2>5 DEF a, b, e
<1>4. SubSeq(Image(p), 1, p.len) = Image(p)
  BY <1>1, SubSeqFull
<1>5. SubSeq(Image(p), 1, 2) = <<FF, D8>>
  <2>1. 2 \in 0..p.len /\ <<FF, D8>> \in Seq(Byte)
    BY <1>1 DEF Byte
  <2>2. /\ SubSeq(Image(p), 1, 2) \in Seq(Byte) /\ Len(SubSeq(Image(p), 1, 2)) = 2
        /\ \A k \in 1..2 : SubSeq(Image(p), 1, 2)[k] = Image(p)[k]
    BY <1>2, <2>1
  <2>3. \A k \in 1..2 : SubSeq(Image(p), 1, 2)[k] = <<FF, D8>>[k]
    BY <1>1, <2>2
  <2>4. Len(<<FF, D8>>) = 2
    OBVIOUS
  <2> QED
    BY <2>1, <2>2, <2>3, <2>4, SeqEqual
<1> QED
  BY <1>3, <1>4, <1>5

----------------------------------------------------------------------------
(* The client reads a buffer                                                 *)

\* The four outcomes of a byte.
LEMMA TakeFields ==
  ASSUME NEW c \in Session, NEW x \in Byte
  PROVE  /\ Take(c, x).temp = x
         /\ c.header /\ x = D9 /\ c.temp = FF =>
              /\ ~Take(c, x).header /\ Take(c, x).image = << >>
              /\ Take(c, x).saved = Append(c.saved, Append(c.image, x))
         /\ c.header /\ ~(x = D9 /\ c.temp = FF) =>
              /\ Take(c, x).header /\ Take(c, x).image = Append(c.image, x)
              /\ Take(c, x).saved = c.saved
         /\ ~c.header /\ x = D8 /\ c.temp = FF =>
              /\ Take(c, x).header /\ Take(c, x).image = c.image \o <<FF, D8>>
              /\ Take(c, x).saved = c.saved
         /\ ~c.header /\ ~(x = D8 /\ c.temp = FF) =>
              /\ ~Take(c, x).header /\ Take(c, x).image = c.image
              /\ Take(c, x).saved = c.saved
BY DEF Take, Session

\* The client has read n bytes of a buffer b that holds p from byte off + 1 on: it has the
\* bytes of p so far, or is in no picture; it may have saved p.
Reached(s, p, off, b, n) ==
    /\ ~s.header => s.image = << >>
    /\ n > 0 => s.temp = b[n - 1]
    /\ off + n < p.len =>
          /\ s.saved = << >>
          /\ s.header => /\ off + n > 0
                         /\ s.image = SubSeq(Image(p), 1, off + n) /\ s.temp = Image(p)[off + n]
    /\ off + n >= p.len => ~s.header /\ s.saved \in {<< >>, <<Image(p)>>}

\* One more byte of the buffer.
LEMMA TakeReached ==
  ASSUME NEW p \in Pictures, NEW off \in Nat, off < p.len,
         NEW b \in [Cells -> Byte], Holds(b, p, off), \A k \in Cells : b[k] = D8 => k = 1,
         NEW n \in Cells, NEW s \in Session, Reached(s, p, off, b, n)
  PROVE  Reached(Take(s, b[n]), p, off, b, n + 1)
<1> DEFINE x == b[n]
           t == Take(s, x)
           q == off + n
<1>1. x \in Byte /\ n \in Nat /\ (n + 1) - 1 = n /\ q \in Nat /\ q + 1 = off + (n + 1) /\ n + 1 > 0
  BY DEF Cells
<1>2. /\ p.len \in Nat /\ p.len >= 5 /\ FF # D8 /\ FF # D9 /\ D8 # D9
  BY ImageAt DEF FF, D8, D9
<1>3. /\ t.temp = x
      /\ s.header /\ x = D9 /\ s.temp = FF =>
           ~t.header /\ t.image = << >> /\ t.saved = Append(s.saved, Append(s.image, x))
      /\ s.header /\ ~(x = D9 /\ s.temp = FF) =>
           t.header /\ t.image = Append(s.image, x) /\ t.saved = s.saved
      /\ ~s.header /\ x = D8 /\ s.temp = FF =>
           t.header /\ t.image = s.image \o <<FF, D8>> /\ t.saved = s.saved
      /\ ~s.header /\ ~(x = D8 /\ s.temp = FF) =>
           ~t.header /\ t.image = s.image /\ t.saved = s.saved
  BY <1>1, TakeFields
<1>4. s.saved \in Seq(Seq(Byte)) /\ s.image \in Seq(Byte)
  BY DEF Session
<1>5. SUFFICES Reached(t, p, off, b, n + 1)
  OBVIOUS
<1>6. CASE q < p.len
  <2>1. x = Image(p)[q + 1] /\ q + 1 \in 1..p.len /\ q \in 0..(p.len - 1)
    BY <1>1, <1>2, <1>6 DEF Holds
  <2>2. s.saved = << >> /\ (s.header => /\ q > 0 /\ s.image = SubSeq(Image(p), 1, q)
                                        /\ s.temp = Image(p)[q])
    BY <1>6 DEF Reached
  <2>3. CASE s.header
    <3>1. /\ q \in 1..p.len /\ s.image = SubSeq(Image(p), 1, q) /\ s.temp = Image(p)[q]
          /\ Append(s.image, x) = SubSeq(Image(p), 1, q + 1)
      <4>1. Append(SubSeq(Image(p), 1, q), Image(p)[q + 1]) = SubSeq(Image(p), 1, q + 1)
        BY ONLY <2>1, Beginnings, p \in Pictures
      <4>2. q > 0 /\ s.image = SubSeq(Image(p), 1, q) /\ s.temp = Image(p)[q]
        BY <2>2, <2>3
      <4>3. q \in 1..p.len
        BY <1>1, <1>2, <1>6, <4>2
      <4> HIDE DEF x, q
      <4> QED
        BY <2>1, <4>1, <4>2, <4>3
    <3>2. x = D9 /\ s.temp = FF <=> q + 1 = p.len
      <4>1. x = D9 <=> q + 1 = p.len
        BY <2>1, MarkersAt
      <4>2. q + 1 = p.len => s.temp = FF
        BY <1>1, <1>2, <3>1, MarkersAt
      <4> QED
        BY <4>1, <4>2
    <3>3. CASE q + 1 = p.len
      <4>1. ~t.header /\ t.image = << >> /\ t.saved = Append(<< >>, Image(p))
        BY <1>3, <2>2, <2>3, <3>1, <3>2, <3>3, Beginnings
      <4>2. Append(<< >>, Image(p)) = <<Image(p)>>
        OBVIOUS
      <4> QED
        BY <1>1, <1>2, <1>3, <3>3, <4>1, <4>2 DEF Reached
    <3>4. CASE q + 1 # p.len
      <4>1. t.header /\ t.image = SubSeq(Image(p), 1, q + 1) /\ t.saved = << >>
        BY <1>3, <2>2, <2>3, <3>1, <3>2, <3>4
      <4>2. q + 1 < p.len /\ q + 1 > 0
        BY <1>1, <1>2, <1>6, <3>4
      <4> QED
        BY <1>1, <1>2, <1>3, <2>1, <4>1, <4>2 DEF Reached
    <3> QED
      BY <3>3, <3>4
  <2>4. CASE ~s.header /\ x = D8 /\ s.temp = FF
    <3>1. q + 1 = 2 /\ q + 1 < p.len
      <4>1. Image(p)[q + 1] = D8
        BY <2>1, <2>4
      <4>2. q + 1 = 2
        BY ONLY <2>1, <4>1, MarkersAt, p \in Pictures
      <4> QED
        BY <1>2, <4>2
    <3>2. t.header /\ t.saved = << >> /\ t.image = << >> \o <<FF, D8>>
      BY <1>3, <2>2, <2>4 DEF Reached
    <3>3. << >> \o <<FF, D8>> = SubSeq(Image(p), 1, q + 1)
      <4>1. <<FF, D8>> \in Seq(Byte)
        BY DEF Byte
      <4>2. << >> \o <<FF, D8>> = <<FF, D8>>
        BY <4>1, ConcatEmptySeq
      <4> QED
        BY <3>1, <4>2, Beginnings
    <3> QED
      BY <1>1, <1>2, <1>3, <2>1, <3>1, <3>2, <3>3 DEF Reached
  <2>5. CASE ~s.header /\ ~(x = D8 /\ s.temp = FF)
    <3>1. ~t.header /\ t.image = << >> /\ t.saved = << >>
      BY <1>3, <2>2, <2>5 DEF Reached
    <3> QED
      BY <1>1, <1>2, <1>3, <3>1 DEF Reached
  <2> QED
    BY <2>3, <2>4, <2>5
<1>7. CASE q >= p.len
  <2>1. ~s.header /\ s.saved \in {<< >>, <<Image(p)>>} /\ s.image = << >> /\ n > 0 /\ s.temp = b[n - 1]
    BY <1>1, <1>2, <1>7 DEF Reached
  <2>2. ~(x = D8 /\ s.temp = FF)
    <3> SUFFICES ASSUME x = D8 PROVE s.temp # FF
      OBVIOUS
    <3>1. n = 1 /\ n - 1 = 0 /\ 0 \in Cells
      BY DEF Cells
    <3>2. off + 0 + 1 = p.len /\ off + 0 < p.len /\ p.len \in 1..p.len
      BY <1>2, <1>7, <3>1
    <3>3. b[0] = Image(p)[p.len]
      BY <3>1, <3>2 DEF Holds
    <3> QED
      BY <1>2, <2>1, <3>1, <3>2, <3>3, MarkersAt
  <2>3. ~t.header /\ t.image = << >> /\ t.saved = s.saved
    BY <1>3, <2>1, <2>2
  <2> QED
    BY <1>1, <1>2, <1>3, <1>7, <2>1, <2>3 DEF Reached
<1> QED
  BY <1>1, <1>2, <1>6, <1>7

\* Any number of bytes of the buffer: the client saves the picture in it, or nothing.
LEMMA ProcessReached ==
  ASSUME NEW p \in Pictures, NEW off \in Nat, off < p.len,
         NEW b \in [Cells -> Byte], Holds(b, p, off), \A k \in Cells : b[k] = D8 => k = 1,
         NEW c, c.header \in BOOLEAN, c.temp \in Byte, c.image \in Seq(Byte), Synced(c, p, off),
         NEW n \in 0..Size
  PROVE  Reached(Process(c, b, n), p, off, b, n)
<1> DEFINE Bad == {m \in Nat : m <= Size /\ ~Reached(Process(c, b, m), p, off, b, m)}
<1>1. SUFFICES ASSUME Bad # {} PROVE FALSE
  OBVIOUS
<1>2. PICK m \in Bad : \A k \in Bad : m <= k
  BY <1>1, LeastOf
<1>3. m # 0
  <2>1. /\ Base(c).header = c.header /\ Base(c).temp = c.temp /\ Base(c).image = c.image
        /\ Base(c).saved = << >>
    BY DEF Base
  <2>2. off + 0 = off /\ ~(off + 0 >= p.len) /\ ~(0 > 0)
    BY ImageAt
  <2>3. Reached(Base(c), p, off, b, 0)
    BY <2>1, <2>2 DEF Reached, Synced
  <2> QED
    BY <1>2, <2>3, ProcessSteps
<1>4. /\ m - 1 \in Nat /\ m - 1 \in Cells /\ (m - 1) + 1 = m /\ ~(m <= m - 1) /\ m - 1 <= Size
      /\ m - 1 \in 0..Size
  BY <1>2, <1>3 DEF Cells
<1>5. Reached(Process(c, b, m - 1), p, off, b, m - 1) /\ Process(c, b, m - 1) \in Session
  BY <1>2, <1>4, ProcessType
<1>6. Process(c, b, m) = Take(Process(c, b, m - 1), b[m - 1])
  BY <1>4, ProcessSteps
<1>7. Reached(Process(c, b, m), p, off, b, m)
  BY <1>4, <1>5, <1>6, TakeReached
<1> QED
  BY <1>2, <1>7

----------------------------------------------------------------------------
(* The history                                                               *)

\* q is pics without its first m pictures.
Dropped(q, m) ==
    /\ q \in Seq(Pictures) /\ Len(q) = Len(pics) - m
    /\ \A k \in 1..Len(q) : q[k] = pics[k + m]

\* Nothing saved, nothing forgotten.
LEMMA ForgetNone == ASSUME pics \in Seq(Pictures) PROVE Dropped(Forget(<< >>), 0)
<1>1. {k \in DOMAIN pics : \E n \in DOMAIN << >> : << >>[n] = Image(pics[k])} = {}
  OBVIOUS
<1>2. Forget(<< >>) = pics
  BY <1>1 DEF Forget
<1>3. Len(pics) \in Nat
  BY LenProperties
<1> QED
  BY <1>2, <1>3 DEF Dropped

\* Two pictures of the history are never alike.
LEMMA SamePicture ==
  ASSUME pics \in Seq(Pictures), Len(pics) <= Recent, IdsOK,
         NEW j \in 1..Len(pics), NEW k \in 1..Len(pics), Image(pics[j]) = Image(pics[k])
  PROVE  j = k
<1>1. Len(pics) \in Nat /\ pics[j] \in Pictures /\ pics[k] \in Pictures
  BY LenProperties
<1>2. pics[j].id = pics[k].id /\ pics[j].id \in Int
  <2>1. Image(pics[j])[3] = pics[j].id /\ Image(pics[k])[3] = pics[k].id
    BY <1>1, ImageAt
  <2>2. pics[j].id \in Ids
    BY <1>1 DEF Pictures
  <2> QED
    BY <2>1, <2>2 DEF Ids
<1>3. ASSUME NEW a \in 1..Len(pics), NEW b \in 1..Len(pics), a < b, pics[a].id = pics[b].id, pics[a].id \in Int
      PROVE  FALSE
  <2>1. pics[b].id - pics[a].id \in {b - a, b - a - (Recent + 1)}
    BY <1>3 DEF IdsOK
  <2>2. pics[b].id - pics[a].id = 0
    BY <1>3
  <2>3. b - a # 0 /\ b - a - (Recent + 1) # 0
    BY <1>1, <1>3
  <2> QED
    BY <2>1, <2>2, <2>3
<1>4. ~(j < k)
  BY <1>2, <1>3
<1>5. ~(k < j)
  BY <1>2, <1>3
<1> QED
  BY <1>1, <1>4, <1>5

\* A picture saved is forgotten with those before it.
LEMMA ForgetOne ==
  ASSUME pics \in Seq(Pictures), Len(pics) <= Recent, IdsOK, NEW n \in 1..Len(pics)
  PROVE  Dropped(Forget(<<Image(pics[n])>>), n)
<1> DEFINE images == <<Image(pics[n])>>
           done == {k \in DOMAIN pics : \E m \in DOMAIN images : images[m] = Image(pics[k])}
<1>1. DOMAIN pics = 1..Len(pics) /\ Len(pics) \in Nat
  BY LenProperties
<1>2. DOMAIN images = {1} /\ images[1] = Image(pics[n])
  OBVIOUS
<1>3. done = {n}
  <2>1. n \in done
    BY <1>1, <1>2
  <2>2. ASSUME NEW k \in done PROVE k = n
    <3>1. k \in 1..Len(pics) /\ Image(pics[n]) = Image(pics[k])
      BY <1>1, <1>2
    <3> QED
      BY <3>1, SamePicture
  <2> QED
    BY <2>1, <2>2
<1>4. Max(done) = n
  <2>1. Max(done) \in done
    BY <1>1, <1>3, GreatestOf
  <2> QED
    BY <1>3, <2>1
<1>5. Forget(images) = SubSeq(pics, n + 1, Len(pics))
  BY <1>3, <1>4 DEF Forget
<1>6. /\ SubSeq(pics, n + 1, Len(pics)) \in Seq(Pictures)
      /\ Len(SubSeq(pics, n + 1, Len(pics))) = Len(pics) - n
      /\ \A k \in 1..(Len(pics) - n) : SubSeq(pics, n + 1, Len(pics))[k] = pics[k + n]
  <2>1. \A k \in (n + 1)..Len(pics) : pics[k] \in Pictures
    BY <1>1, LenProperties
  <2> DEFINE l == Len(pics)
             q == SubSeq(pics, n + 1, l)
  <2>2. l \in Nat /\ n \in 1..l
    BY <1>1
  <2>3. /\ q \in Seq(Pictures) /\ Len(q) = IF n + 1 <= l THEN l - (n + 1) + 1 ELSE 0
        /\ \A k \in 1..(l - (n + 1) + 1) : q[k] = pics[n + 1 + k - 1]
    <3> HIDE DEF l
    <3>1. n + 1 \in Int /\ l \in Int /\ \A k \in (n + 1)..l : pics[k] \in Pictures
      BY <2>1, <2>2 DEF l
    <3> QED
      BY <3>1, SubSeqProperties
  <2> HIDE DEF l, q
  <2>4. Len(q) = l - n /\ 1..(l - (n + 1) + 1) = 1..(l - n)
    BY <2>2, <2>3
  <2>5. ASSUME NEW k \in 1..(l - n) PROVE q[k] = pics[k + n]
    <3>1. n + 1 + k - 1 = k + n
      BY <2>2
    <3> QED
      BY <2>3, <2>4, <3>1
  <2> QED
    BY <2>3, <2>4, <2>5 DEF l, q
<1> QED
  BY <1>5, <1>6 DEF Dropped

\* The numbers of what is left of the history follow each other as before.
LEMMA DroppedIds ==
  ASSUME pics \in Seq(Pictures), IdsOK, NEW m \in 0..Len(pics), Dropped(pics', m)
  PROVE  IdsOK'
<1> SUFFICES ASSUME NEW j \in 1..Len(pics'), NEW k \in 1..Len(pics'), j < k
             PROVE  pics'[k].id - pics'[j].id \in {k - j, k - j - (Recent + 1)}
  BY DEF IdsOK
<1>1. Len(pics) \in Nat /\ Len(pics') = Len(pics) - m /\ m \in Nat
  BY LenProperties DEF Dropped
<1>2. j + m \in 1..Len(pics) /\ k + m \in 1..Len(pics) /\ j + m < k + m /\ (k + m) - (j + m) = k - j
  BY <1>1
<1>3. pics'[j] = pics[j + m] /\ pics'[k] = pics[k + m]
  BY DEF Dropped
<1> QED
  BY <1>2, <1>3 DEF IdsOK

\* The successor of a number.
LEMMA NextNumber ==
  ASSUME NEW l \in Ids
  PROVE  (l % (Recent + 1)) + 1 = IF l = Recent + 1 THEN 1 ELSE l + 1
<1> DEFINE R == Recent + 1
<1>1. R \in Nat \ {0} /\ l \in 1..R
  BY DEF Ids
<1> HIDE DEF R
<1>2. /\ l < R => l % R = l
      /\ R % R = R - R
  BY <1>1, ModLaps
<1>3. (l % R) + 1 = IF l = R THEN 1 ELSE l + 1
  BY <1>1, <1>2
<1> QED
  BY <1>3 DEF R

\* The number of the new picture follows those of the history.
LEMMA NextIds ==
  ASSUME pics \in Seq(Pictures), IdsOK, Len(pics) <= Recent,
         NEW q \in Seq(Pictures), NEW m \in {0, 1}, m <= Len(pics), Dropped(q, m), Len(q) < Recent,
         NEW p \in Pictures, p.id = NextId, pics' = Append(q, p)
  PROVE  IdsOK'
<1> DEFINE n == Len(pics)
<1>0. n \in Nat /\ n <= Recent /\ n - m < Recent
  BY LenProperties DEF Dropped
<1>1. /\ Len(pics') = n - m + 1 /\ pics'[n - m + 1] = p
      /\ \A k \in 1..(n - m) : pics'[k] = pics[k + m]
  <2>1. Len(q) = n - m /\ \A k \in 1..Len(q) : q[k] = pics[k + m]
    BY DEF Dropped
  <2> QED
    BY <2>1, AppendProperties
<1> SUFFICES ASSUME NEW j \in 1..(n - m + 1), NEW k \in 1..(n - m + 1), j < k
             PROVE  pics'[k].id - pics'[j].id \in {k - j, k - j - (Recent + 1)}
  BY <1>1 DEF IdsOK
<1>2. j \in 1..(n - m) /\ j + m \in 1..n /\ pics'[j] = pics[j + m]
  <2>1. j \in 1..(n - m) /\ j + m \in 1..n
    BY <1>0
  <2> QED
    BY <1>1, <2>1
<1>3. CASE k <= n - m
  <2>1. k \in 1..(n - m) /\ k + m \in 1..n /\ j + m < k + m /\ (k + m) - (j + m) = k - j
    BY <1>0, <1>3
  <2>2. pics'[k] = pics[k + m]
    BY <1>1, <2>1
  <2> QED
    BY <1>2, <2>1, <2>2 DEF IdsOK
<1>4. CASE k = n - m + 1
  <2>1. n \in 1..n /\ pics # << >> /\ pics[n] \in Pictures /\ pics[j + m] \in Pictures
    BY <1>0, <1>2, EmptySeq, LenProperties
  <2>2. pics[j + m].id \in Ids /\ pics[n].id \in Ids
    BY <2>1 DEF Pictures
  <2>3. p.id = IF pics[n].id = Recent + 1 THEN 1 ELSE pics[n].id + 1
    BY <2>1, <2>2, NextNumber DEF NextId, Last
  <2>4. CASE j + m = n
    <3>1. k - j = 1
      BY <1>0, <1>4, <2>4
    <3>2. p.id - pics[j + m].id \in {1, 1 - (Recent + 1)}
      <4> DEFINE l == pics[n].id
      <4>1. l \in 1..(Recent + 1) /\ p.id = IF l = Recent + 1 THEN 1 ELSE l + 1
        BY <2>2, <2>3 DEF Ids
      <4> HIDE DEF l
      <4>2. p.id - l \in {1, 1 - (Recent + 1)}
        BY <4>1
      <4> QED
        BY <2>4, <4>2 DEF l
    <3> QED
      BY <1>1, <1>2, <1>4, <3>1, <3>2
  <2>5. CASE j + m # n
    <3> DEFINE a == pics[j + m].id
               l == pics[n].id
               d == n - (j + m)
    <3>1. j + m < n /\ d \in Nat /\ d < Recent /\ k - j = d + 1
      BY <1>0, <1>2, <1>4, <2>5
    <3>2. l - a \in {d, d - (Recent + 1)}
      BY <1>2, <2>1, <3>1 DEF IdsOK
    <3>3. a \in 1..(Recent + 1) /\ l \in 1..(Recent + 1)
      BY <2>2 DEF Ids
    <3>4. p.id = IF l = Recent + 1 THEN 1 ELSE l + 1
      BY <2>3
    <3> HIDE DEF a, l, d
    <3>5. p.id - a \in {d + 1, (d + 1) - (Recent + 1)}
      BY <3>1, <3>2, <3>3, <3>4
    <3> QED
      BY <1>1, <1>2, <1>4, <3>1, <3>5 DEF a
  <2> QED
    BY <2>4, <2>5
<1>5. k <= n - m \/ k = n - m + 1
  BY <1>0
<1> QED
  BY <1>3, <1>4, <1>5, Zenon

----------------------------------------------------------------------------
(* The table of buffers                                                      *)

\* The buffers of the ring are apart, and one follows the other.
LEMMA Slots ==
  ASSUME r \in Buffs, NEW a \in 0..NumBuffs
  PROVE  /\ \A j \in Nat : Slot(j) \in Buffs
         /\ a < NumBuffs => \A j \in 0..(a - 1) : Slot(j) # Slot(a)
         /\ a < NumBuffs => (Slot(a) + 1) % NumBuffs = Slot(a + 1)
<1> DEFINE n == NumBuffs
<1>1. n \in Nat \ {0} /\ r \in 0..(n - 1) /\ a \in 0..n
  BY DEF Buffs
<1> HIDE DEF n
<1>2. ASSUME NEW j \in Nat PROVE (r + j) % n \in 0..(n - 1)
  <2>1. r + j \in Nat
    BY <1>1
  <2> QED
    BY <1>1, <2>1, ModRange
<1>3. ASSUME a < n, NEW j \in 0..(a - 1) PROVE (r + j) % n # (r + a) % n
  <2>1. j + 1 \in 1..n /\ a + 1 \in 1..n /\ j + 1 # a + 1 /\ r + (j + 1) - 1 = r + j /\ r + (a + 1) - 1 = r + a
    BY <1>1, <1>3
  <2>2. (r + (j + 1) - 1) % n # (r + (a + 1) - 1) % n
    BY ONLY <1>1, <2>1, SlotsDistinct
  <2> QED
    BY <2>1, <2>2
<1>4. a < n => (((r + a) % n) + 1) % n = (r + (a + 1)) % n
  BY ONLY <1>1, CursorAdvance
<1> QED
  BY <1>2, <1>3, <1>4 DEF n, Slot, Buffs

\* A release moves all buffers to the place before.
LEMMA SlotsMove ==
  ASSUME r \in Buffs, r' = (r + 1) % NumBuffs, NEW j \in 0..(NumBuffs - 1)
  PROVE  Slot(j)' = Slot(j + 1)
<1> DEFINE n == NumBuffs
<1>1. n \in Nat \ {0} /\ r \in 0..(n - 1) /\ j + 1 \in 0..n /\ j + 1 >= 1 /\ (j + 1) - 1 = j
  BY DEF Buffs
<1> HIDE DEF n
<1>2. (((r + 1) % n) + ((j + 1) - 1)) % n = (r + (j + 1)) % n
  BY ONLY <1>1, CursorAdvance
<1> QED
  BY <1>1, <1>2 DEF n, Slot

\* What does not touch the buffers handed over, the history or the client leaves the
\* chain as it is.
LEMMA ChainSame ==
  ASSUME NEW N, NEW O, Chain(N, O), UNCHANGED <<r, avail, pics>>,
         client' = client \/ client' = Gone \/ client' = Fresh,
         pc' = "idle" <=> pc = "idle",
         \A j \in 0..(avail - 1) : data'[Slot(j)] = data[Slot(j)]
  PROVE  Chain(N, O)'
<1>1. \A j \in 0..(avail - 1) : Slot(j)' = Slot(j)
  BY DEF Slot
<1>2. \A j \in 0..(avail - 1) : Holds(data'[Slot(j)'], pics'[N[j]], O[j])
  BY <1>1 DEF Chain
<1>3. IF N[0] \in 1..Len(pics) THEN Synced(client', pics[N[0]], O[0])
      ELSE ~client'.header /\ client'.image = << >>
  <2>1. CASE client' = client
    BY <2>1 DEF Chain
  <2>2. CASE client' = Gone \/ client' = Fresh
    <3>1. ~client'.header /\ client'.image = << >>
      BY <2>2 DEF Gone, Fresh
    <3> QED
      BY <3>1 DEF Synced
  <2> QED
    BY <2>1, <2>2
<1> QED
  BY <1>2, <1>3 DEF Chain

\* A buffer is handed over.
LEMMA ChainExtend ==
  ASSUME Types, NEW N \in [0..avail -> Nat], NEW O \in [0..avail -> Nat], Chain(N, O),
         avail < NumBuffs, UNCHANGED <<data, r, pics, client>>, avail' = avail + 1, pc # "idle",
         N[avail] \in 1..Len(pics), O[avail] < pics[N[avail]].len,
         Holds(data[Slot(avail)], pics[N[avail]], O[avail]),
         NEW more \in BOOLEAN, more <=> O[avail] + Size < pics[N[avail]].len,
         pc' = "idle" <=> ~more
  PROVE  \E N2, O2 \in [0..avail' -> Nat] :
            Chain(N2, O2)' /\ O2[avail'] = IF more THEN O[avail] + Size ELSE 0
<1> DEFINE n2 == IF more THEN N[avail] ELSE N[avail] + 1
           o2 == IF more THEN O[avail] + Size ELSE 0
<1>0. avail \in Nat /\ avail + 1 # avail /\ 0 # avail + 1 /\ 0 \in 0..avail /\ Len(pics) \in Nat
      /\ avail \in 0..avail
  BY LenProperties DEF Types, TypeOK
<1>1. n2 \in Nat /\ o2 \in Nat
  BY <1>0
<1>2. PICK N2 \in [0..(avail + 1) -> Nat], O2 \in [0..(avail + 1) -> Nat] :
         /\ N2[avail + 1] = n2 /\ O2[avail + 1] = o2
         /\ \A j \in 0..avail : N2[j] = N[j] /\ O2[j] = O[j]
  <2> DEFINE A == [j \in 0..(avail + 1) |-> IF j = avail + 1 THEN n2 ELSE N[j]]
             B == [j \in 0..(avail + 1) |-> IF j = avail + 1 THEN o2 ELSE O[j]]
  <2> HIDE DEF n2, o2
  <2>1. /\ A \in [0..(avail + 1) -> Nat] /\ B \in [0..(avail + 1) -> Nat]
        /\ A[avail + 1] = n2 /\ B[avail + 1] = o2
        /\ \A j \in 0..avail : A[j] = N[j] /\ B[j] = O[j]
    BY <1>0, <1>1
  <2> HIDE DEF A, B
  <2> QED
    BY <2>1
<1>3. ASSUME NEW j \in 0..avail
      PROVE  /\ N2[j] \in 1..Len(pics) /\ O2[j] < pics[N2[j]].len
             /\ Holds(data[Slot(j)], pics[N2[j]], O2[j])
             /\ IF O2[j] + Size < pics[N2[j]].len THEN N2[j + 1] = N2[j] /\ O2[j + 1] = O2[j] + Size
                ELSE N2[j + 1] = N2[j] + 1 /\ O2[j + 1] = 0
  <2>1. CASE j = avail
    BY <1>0, <1>2, <2>1
  <2>2. CASE j # avail
    <3>1. j \in 0..(avail - 1) /\ j + 1 \in 0..avail
      BY <1>0, <2>2
    <3>2. N2[j] = N[j] /\ O2[j] = O[j] /\ N2[j + 1] = N[j + 1] /\ O2[j + 1] = O[j + 1]
      BY <1>2, <3>1
    <3>3. /\ N[j] \in 1..Len(pics) /\ O[j] < pics[N[j]].len
          /\ Holds(data[Slot(j)], pics[N[j]], O[j])
          /\ IF O[j] + Size < pics[N[j]].len THEN N[j + 1] = N[j] /\ O[j + 1] = O[j] + Size
             ELSE N[j + 1] = N[j] + 1 /\ O[j + 1] = 0
      BY <3>1 DEF Chain
    <3> QED
      BY <3>2, <3>3
  <2> QED
    BY <2>1, <2>2
<1>4. ASSUME NEW j \in 0..(avail + 1)
      PROVE  Starts(O2[j]) /\ N2[avail + 1] - N2[j] <= avail + 1 - j
  <2>1. CASE j = avail + 1
    <3>1. Starts(O[avail])
      BY <1>0 DEF Chain
    <3>2. Starts(o2)
      <4>1. PICK q \in 0..O[avail] : O[avail] = Size * q
        BY <3>1 DEF Starts
      <4>2. O[avail] \in Nat /\ q + 1 \in 0..(O[avail] + Size) /\ 0 \in 0..0
        <5>1. O[avail] \in Nat
          BY <1>0
        <5> QED
          BY ONLY <5>1, q \in 0..O[avail], SizeAssumption
      <4>3. Size * (q + 1) = Size * q + Size /\ Size * 0 = 0
        BY <4>2
      <4> QED
        BY <4>1, <4>2, <4>3 DEF Starts
    <3> HIDE DEF n2, o2
    <3> QED
      BY <1>0, <1>1, <1>2, <2>1, <3>2
  <2>2. CASE j # avail + 1
    <3>1. j \in 0..avail
      BY <1>0, <2>2
    <3>2. Starts(O[j]) /\ N[avail] - N[j] <= avail - j /\ N[j] \in Nat /\ N[avail] \in Nat
      BY <1>0, <3>1 DEF Chain
    <3>3. n2 <= N[avail] + 1
      BY <1>0
    <3>4. n2 - N[j] <= avail + 1 - j
      <4> DEFINE a == N[avail]
                 b == N[j]
      <4>1. /\ a \in Nat /\ b \in Nat /\ n2 \in Nat /\ avail \in Nat /\ j \in Nat
            /\ a - b <= avail - j /\ n2 <= a + 1
        BY <1>0, <1>1, <3>1, <3>2, <3>3
      <4> HIDE DEF a, b, n2
      <4>2. n2 - b <= avail + 1 - j
        BY ONLY <4>1
      <4> QED
        BY ONLY <4>2 DEF b
    <3> QED
      BY <1>2, <3>1, <3>2, <3>4
  <2> QED
    BY <2>1, <2>2
<1>5. \A j \in 0..avail : Slot(j)' = Slot(j)
  BY DEF Slot
<1>6. N2[avail + 1] = IF pc' = "idle" THEN Len(pics) + 1 ELSE Len(pics)
  <2>1. N[avail] = Len(pics)
    BY DEF Chain
  <2> QED
    BY <1>2, <2>1
<1>7. pc' = "idle" => O2[avail + 1] = 0
  BY <1>2
<1>8. N2[0] = N[0] /\ O2[0] = O[0]
  BY <1>0, <1>2
<1>9. IF N2[0] \in 1..Len(pics) THEN Synced(client, pics[N2[0]], O2[0])
      ELSE ~client.header /\ client.image = << >>
  BY <1>8 DEF Chain
<1>10. avail' - 1 = avail
  BY <1>0
<1>11. ASSUME NEW j \in 0..(avail' - 1)
       PROVE  /\ N2[j] \in 1..Len(pics') /\ O2[j] < pics'[N2[j]].len
              /\ Holds(data'[Slot(j)'], pics'[N2[j]], O2[j])
              /\ IF O2[j] + Size < pics'[N2[j]].len THEN N2[j + 1] = N2[j] /\ O2[j + 1] = O2[j] + Size
                 ELSE N2[j + 1] = N2[j] + 1 /\ O2[j + 1] = 0
  <2>1. j \in 0..avail /\ Slot(j)' = Slot(j) /\ pics' = pics /\ data' = data
    BY <1>5, <1>10
  <2> QED
    BY <1>3, <2>1
<1>12. ASSUME NEW j \in 0..avail'
       PROVE  Starts(O2[j]) /\ N2[avail'] - N2[j] <= avail' - j
  <2>1. j \in 0..(avail + 1) /\ avail' = avail + 1
    OBVIOUS
  <2>2. Starts(O2[j]) /\ N2[avail + 1] - N2[j] <= avail + 1 - j
    BY <1>4, <2>1
  <2>3. avail' - j = avail + 1 - j /\ N2[avail'] - N2[j] = N2[avail + 1] - N2[j]
    BY <1>0, <2>1
  <2> QED
    BY <2>2, <2>3, Zenon
<1>13. Chain(N2, O2)'
  <2>1. N2[avail'] = IF pc' = "idle" THEN Len(pics') + 1 ELSE Len(pics')
    BY <1>6
  <2>2. pc' = "idle" => O2[avail'] = 0
    BY <1>7
  <2>3. IF N2[0] \in 1..Len(pics') THEN Synced(client', pics'[N2[0]], O2[0])
        ELSE ~client'.header /\ client'.image = << >>
    BY <1>9
  <2> QED
    BY ONLY <1>11, <1>12, <2>1, <2>2, <2>3 DEF Chain
<1>14. N2 \in [0..avail' -> Nat] /\ O2 \in [0..avail' -> Nat] /\ O2[avail'] = o2
  BY <1>2
<1> QED
  BY <1>13, <1>14

----------------------------------------------------------------------------
(* Steps of camCapture                                                       *)

\* A byte goes to one cell of the buffer in work.
LEMMA StoreAt ==
  ASSUME NEW d \in [Buffs -> [Cells -> Byte]], w \in Buffs, NEW n \in Cells, NEW x \in Byte
  PROVE  \A b \in Buffs : \A k \in Cells :
            Store(d, n, x)[b][k] = IF b = w /\ k = n THEN x ELSE d[b][k]
<1>1. n < Size
  BY DEF Cells
<1> QED
  BY <1>1 DEF Store

\* Where a capture is.
LEMMA InCapture ==
  ASSUME Types, NEW off \in Nat, CaptureOK(off), pc # "idle", NEW p, p = Last(pics)
  PROVE  /\ p \in Pictures /\ p = pics[Len(pics)] /\ Len(pics) \in 1..Len(pics)
         /\ p.len \in Nat /\ p.len >= 5 /\ Pos \in 0..(p.len + 1)
         /\ fifo = << >> <=> Pos = p.len + 1
         /\ fifo # << >> => /\ Head(fifo) = Bytes(p)[Pos + 1]
                            /\ Marker(D8) <=> Pos = 1
                            /\ Marker(D9) <=> Pos = p.len - 1
<1>1. pics # << >> /\ pics \in Seq(Pictures) /\ fifo \in Seq(Byte) /\ Pos >= 0
  BY DEF CaptureOK, Types, TypeOK
<1>2. Len(pics) \in 1..Len(pics) /\ Len(fifo) \in Nat
  BY <1>1, EmptySeq, LenProperties
<1>3. p \in Pictures /\ p = pics[Len(pics)]
  <2>1. p = pics[Len(pics)]
    BY DEF Last
  <2> QED
    BY <1>1, <1>2, <2>1, LenProperties
<1>4. p.len \in Nat /\ p.len >= 5
  BY <1>3, ImageAt
<1>5. Pos = p.len + 1 - Len(fifo)
  BY DEF Pos
<1>6. Pos \in 0..(p.len + 1)
  BY <1>1, <1>2, <1>4, <1>5
<1>7. fifo = << >> <=> Len(fifo) = 0
  BY <1>1, EmptySeq
<1>8. fifo = << >> <=> Pos = p.len + 1
  BY <1>2, <1>4, <1>5, <1>7
<1>9. ASSUME fifo # << >>
      PROVE  /\ Head(fifo) = Bytes(p)[Pos + 1]
             /\ Marker(D8) <=> Pos = 1
             /\ Marker(D9) <=> Pos = p.len - 1
  <2>1. Len(fifo) > 0 /\ 1 \in 1..Len(fifo) /\ Pos <= p.len
    BY <1>2, <1>4, <1>5, <1>7, <1>9
  <2>2. Head(fifo) = fifo[1]
    BY <1>1, <1>9
  <2>3. Head(fifo) = Bytes(p)[Pos + 1]
    BY <2>1, <2>2 DEF CaptureOK
  <2>4. temp = IF Pos = 0 THEN 0 ELSE Bytes(p)[Pos]
    BY DEF CaptureOK
  <2>5. /\ \A k \in 1..p.len : Bytes(p)[k] = Image(p)[k]
        /\ Bytes(p)[p.len + 1] = Padding
    BY <1>3, BytesAt
  <2>6. /\ FF # 0 /\ Padding # D8 /\ Padding # D9 /\ FF # D9 /\ FF # D8
    BY DEF FF, D8, D9, Padding
  <2>7. CASE Pos = 0
    <3>1. Pos # 1 /\ Pos # p.len - 1
      BY <1>4, <2>7
    <3>2. temp # FF
      BY <2>4, <2>6, <2>7
    <3> QED
      BY <2>3, <3>1, <3>2, Zenon DEF Marker
  <2>8. CASE Pos \in 1..(p.len - 1)
    <3>1. Pos \in 1..p.len /\ Pos + 1 \in 1..p.len
      BY <1>4, <2>8
    <3>2. temp = Image(p)[Pos] /\ Head(fifo) = Image(p)[Pos + 1]
      BY <2>3, <2>4, <2>5, <2>8, <3>1
    <3>3. temp = FF <=> Pos \in {1, p.len - 1}
      BY <1>3, <3>1, <3>2, MarkersAt
    <3>4. /\ Head(fifo) = D8 <=> Pos + 1 = 2
          /\ Head(fifo) = D9 <=> Pos + 1 = p.len
      BY <1>3, <3>1, <3>2, MarkersAt
    <3> QED
      <4>1. /\ Pos = 1 <=> Pos \in {1, p.len - 1} /\ Pos + 1 = 2
            /\ Pos = p.len - 1 <=> Pos \in {1, p.len - 1} /\ Pos + 1 = p.len
        BY <1>4, <2>8
      <4> QED
        BY <1>9, <2>3, <3>3, <3>4, <4>1, Zenon DEF Marker
  <2>9. CASE Pos = p.len
    <3>1. Head(fifo) = Padding
      BY <2>3, <2>5, <2>9
    <3> QED
      <4>1. Pos # 1 /\ Pos # p.len - 1
        BY <1>4, <2>9
      <4>2. Head(fifo) # D8 /\ Head(fifo) # D9
        BY <2>6, <3>1
      <4> QED
        BY <2>3, <4>1, <4>2, Zenon DEF Marker
  <2>10. Pos = 0 \/ Pos \in 1..(p.len - 1) \/ Pos = p.len
    BY <1>4, <1>6, <2>1
  <2> QED
    BY <2>7, <2>8, <2>9, <2>10
<1> QED
  BY <1>2, <1>3, <1>4, <1>6, <1>8, <1>9

\* A byte is read.
LEMMA ReadNext ==
  ASSUME Types, NEW off \in Nat, CaptureOK(off), pc # "idle", NEW p, p = Last(pics),
         fifo # << >>, ReadByte, pics' = pics
  PROVE  /\ Last(pics)' = p /\ Pos' = Pos + 1
         /\ \A k \in 1..Len(fifo') : fifo'[k] = Bytes(p)[Pos' + k]
         /\ temp' = Bytes(p)[Pos + 1]
<1>1. /\ Pos \in 0..(p.len + 1) /\ Head(fifo) = Bytes(p)[Pos + 1] /\ p.len \in Nat
  BY InCapture
<1>2. fifo \in Seq(Byte) /\ Len(fifo) \in Nat
  BY LenProperties DEF Types, TypeOK
<1>3. /\ Len(fifo') = Len(fifo) - 1 /\ temp' = Head(fifo)
      /\ \A k \in 1..Len(fifo') : fifo'[k] = fifo[k + 1]
  BY <1>2, HeadTailProperties DEF ReadByte
<1>4. Last(pics)' = p
  BY DEF Last
<1>5. Pos' = Pos + 1
  <2>1. Pos = p.len + 1 - Len(fifo) /\ Pos' = p.len + 1 - Len(fifo')
    BY <1>4 DEF Pos
  <2> QED
    BY <1>1, <1>2, <1>3, <2>1
<1>6. ASSUME NEW k \in 1..Len(fifo') PROVE fifo'[k] = Bytes(p)[Pos' + k]
  <2>1. k + 1 \in 1..Len(fifo)
    BY <1>2, <1>3
  <2>2. fifo[k + 1] = Bytes(p)[Pos + (k + 1)]
    BY <2>1 DEF CaptureOK
  <2>3. Pos + (k + 1) = Pos' + k
    BY <1>1, <1>2, <1>3, <1>5
  <2> QED
    BY <1>3, <2>2, <2>3
<1> QED
  BY <1>1, <1>3, <1>4, <1>5, <1>6

\* Each step of the capture keeps what it has of the picture.
LEMMA SkipCapture ==
  ASSUME Types, NEW off \in Nat, CaptureOK(off), Skip
  PROVE  CaptureOK(off)'
<1> DEFINE p == Last(pics)
<1>1. pc # "idle" /\ fifo # << >> /\ ReadByte /\ ~is_header /\ ~Marker(D8) /\ ~Marker(D9)
      /\ pics' = pics /\ pc' = pc /\ i' = i /\ is_header' = is_header /\ w' = w /\ data' = data
  BY DEF Skip
<1>2. p \in Pictures /\ p.len \in Nat /\ p.len >= 5 /\ Pos \in 0..(p.len + 1) /\ Pos # 1 /\ Pos # p.len + 1
  BY <1>1, InCapture
<1>3. /\ Last(pics)' = p /\ Pos' = Pos + 1
      /\ \A k \in 1..Len(fifo') : fifo'[k] = Bytes(p)[Pos' + k]
      /\ temp' = Bytes(p)[Pos + 1]
  BY <1>1, ReadNext
<1>4. /\ Pos \notin 2..(p.len - 1) /\ off < p.len /\ pics # << >> /\ (pc = "get" => i = 0)
      /\ Pos < 2 => off = 0
      /\ Pos >= p.len => off + Size >= p.len /\ Holds(data[w], p, off)
  BY <1>1 DEF CaptureOK
<1>5. (Pos = 0 \/ Pos = p.len)
  BY <1>2, <1>4
<1> HIDE DEF p
<1>6. Pos' \notin 2..(p.len - 1) /\ Pos' # 0 /\ Pos' >= 0 /\ (Pos' < 2 => off = 0)
      /\ (Pos' >= p.len => Pos >= p.len)
  BY <1>2, <1>3, <1>4, <1>5
<1> QED
  BY <1>1, <1>3, <1>4, <1>6 DEF CaptureOK

LEMMA HeaderCapture ==
  ASSUME Types, NEW off \in Nat, CaptureOK(off), Header
  PROVE  CaptureOK(off)'
<1> DEFINE p == Last(pics)
<1>1. pc # "idle" /\ pc # "get" /\ fifo # << >> /\ ReadByte /\ ~is_header /\ Marker(D8)
      /\ pics' = pics /\ pc' = pc /\ i' = i + 2 /\ is_header' = TRUE /\ w' = w
      /\ data' = Store(Store(data, i, FF), i + 1, D8)
  BY DEF Header, Marker
<1>2. p \in Pictures /\ p.len \in Nat /\ p.len >= 5 /\ Pos = 1
  BY <1>1, InCapture
<1>3. /\ Last(pics)' = p /\ Pos' = Pos + 1
      /\ \A k \in 1..Len(fifo') : fifo'[k] = Bytes(p)[Pos' + k]
      /\ temp' = Bytes(p)[Pos + 1]
  BY <1>1, ReadNext
<1>4. off < p.len /\ pics # << >> /\ off = 0
  BY <1>1, <1>2 DEF CaptureOK
<1>5. i = 0 /\ i + 1 = 1
  BY <1>1 DEF Types
<1>6. data'[w][0] = FF /\ data'[w][1] = D8
  <2>1. /\ data \in [Buffs -> [Cells -> Byte]] /\ w \in Buffs /\ FF \in Byte /\ D8 \in Byte
        /\ 0 \in Cells /\ 1 \in Cells
    BY DEF Types, TypeOK, Byte, Cells
  <2>2. Store(data, 0, FF) \in [Buffs -> [Cells -> Byte]]
    BY <2>1, StoreType
  <2>3. Store(data, 0, FF)[w][0] = FF
    BY <2>1, StoreAt
  <2>4. /\ data'[w][1] = D8 /\ data'[w][0] = Store(data, 0, FF)[w][0]
    BY <1>1, <1>5, <2>1, <2>2, StoreAt
  <2> QED
    BY <2>3, <2>4
<1>7. \A k \in Cells : k < i' => data'[w'][k] = Image(p)[off + k + 1]
  <2>1. ASSUME NEW k \in Cells, k < i' PROVE data'[w'][k] = Image(p)[off + k + 1]
    <3>1. k = 0 \/ k = 1
      BY <1>1, <1>5, <2>1 DEF Cells
    <3>2. Image(p)[1] = FF /\ Image(p)[2] = D8
      BY <1>2, ImageAt
    <3> QED
      BY <1>1, <1>4, <1>6, <3>1, <3>2
  <2> QED
    BY <2>1
<1> HIDE DEF p
<1>8. Pos' \in 2..(p.len - 1) /\ Pos' # 0 /\ Pos' >= 0 /\ ~(Pos' < 2) /\ Pos' = off + i' /\ ~(Pos' >= p.len)
  BY <1>1, <1>2, <1>3, <1>4, <1>5
<1> QED
  BY <1>1, <1>3, <1>4, <1>7, <1>8 DEF CaptureOK

LEMMA BodyCapture ==
  ASSUME Types, NEW off \in Nat, CaptureOK(off), Body
  PROVE  CaptureOK(off)'
<1> DEFINE p == Last(pics)
<1>1. pc # "idle" /\ pc # "get" /\ fifo # << >> /\ ReadByte /\ is_header /\ ~Marker(D9) /\ i < Size
      /\ pics' = pics /\ pc' = pc /\ i' = i + 1 /\ is_header' = is_header /\ w' = w
      /\ data' = Store(data, i, Head(fifo))
  BY DEF Body
<1>2. p \in Pictures /\ p.len \in Nat /\ p.len >= 5 /\ Pos # p.len - 1 /\ Head(fifo) = Bytes(p)[Pos + 1]
  BY <1>1, InCapture
<1>3. /\ Last(pics)' = p /\ Pos' = Pos + 1
      /\ \A k \in 1..Len(fifo') : fifo'[k] = Bytes(p)[Pos' + k]
      /\ temp' = Bytes(p)[Pos + 1]
  BY <1>1, ReadNext
<1>4. /\ off < p.len /\ pics # << >> /\ Pos \in 2..(p.len - 1) /\ Pos = off + i
      /\ \A k \in Cells : k < i => data[w][k] = Image(p)[off + k + 1]
  BY <1>1 DEF CaptureOK
<1>5. i \in Nat /\ i \in Cells
  BY <1>1 DEF Types, TypeOK, Cells
<1>6. \A k \in Cells : data'[w][k] = IF k = i THEN Image(p)[off + i + 1] ELSE data[w][k]
  <2>1. /\ data \in [Buffs -> [Cells -> Byte]] /\ w \in Buffs /\ fifo \in Seq(Byte)
    BY DEF Types, TypeOK
  <2>2. Head(fifo) \in Byte
    BY <1>1, <2>1, HeadTailProperties
  <2>3. \A k \in Cells : data'[w][k] = IF k = i THEN Head(fifo) ELSE data[w][k]
    BY <1>1, <1>5, <2>1, <2>2, StoreAt
  <2>4. Head(fifo) = Image(p)[off + i + 1]
    <3>1. Pos + 1 \in 1..p.len /\ Pos + 1 = off + i + 1
      BY <1>2, <1>4, <1>5
    <3> QED
      BY <1>2, <3>1, BytesAt
  <2> QED
    BY <2>3, <2>4
<1>7. \A k \in Cells : k < i' => data'[w'][k] = Image(p)[off + k + 1]
  <2>1. ASSUME NEW k \in Cells, k < i' PROVE data'[w'][k] = Image(p)[off + k + 1]
    <3>1. k = i \/ k < i
      BY <1>1, <1>5, <2>1 DEF Cells
    <3>2. CASE k = i
      BY <1>1, <1>6, <3>2
    <3>3. CASE k < i
      <4>1. k # i
        BY <1>5, <3>3
      <4> QED
        BY <1>1, <1>4, <1>6, <3>3, <4>1
    <3> QED
      BY <3>1, <3>2, <3>3
  <2> QED
    BY <2>1
<1> HIDE DEF p
<1>8. Pos' \in 2..(p.len - 1) /\ Pos' # 0 /\ Pos' >= 0 /\ ~(Pos' < 2) /\ Pos' = off + i' /\ ~(Pos' >= p.len)
  BY <1>1, <1>2, <1>3, <1>4, <1>5
<1> QED
  BY <1>1, <1>3, <1>4, <1>7, <1>8 DEF CaptureOK

\* A picture does not overrun: there is a cell for its last byte.
LEMMA EndFits ==
  ASSUME Types, NEW p \in Pictures, ~Overruns(p), NEW off \in Nat, Starts(off), p.len = off + i + 1
  PROVE  i < Size
<1>1. i \in Nat /\ i <= Size
  BY DEF Types, TypeOK
<1> SUFFICES ASSUME i = Size PROVE FALSE
  BY <1>1
<1>2. PICK q \in 0..off : off = Size * q
  BY DEF Starts
<1>3. q + 1 \in Nat /\ Size * (q + 1) = Size * q + Size
  BY <1>2
<1>4. p.len = Size * (q + 1) + 1 /\ 1 \in 0..(Size - 1) /\ p.len \in Nat /\ Size \in Nat \ {0}
  BY <1>2, <1>3, ImageAt
<1>5. p.len % Size = 1
  BY ONLY <1>3, <1>4
<1> QED
  BY <1>5 DEF Overruns

LEMMA EndCapture ==
  ASSUME Types, NEW off \in Nat, CaptureOK(off), EndOfImage, Starts(off), ~Overruns(Last(pics))
  PROVE  CaptureOK(off)' /\ i \in Cells
<1> DEFINE p == Last(pics)
<1>1. pc # "idle" /\ pc # "get" /\ fifo # << >> /\ ReadByte /\ Marker(D9)
      /\ pics' = pics /\ pc' = pc /\ i' = 0 /\ is_header' = FALSE /\ w' = w
      /\ data' = Store(data, i, D9)
  BY DEF EndOfImage, Marker
<1>2. p \in Pictures /\ p.len \in Nat /\ p.len >= 5 /\ Pos = p.len - 1
  BY <1>1, InCapture
<1>3. /\ Last(pics)' = p /\ Pos' = Pos + 1
      /\ \A k \in 1..Len(fifo') : fifo'[k] = Bytes(p)[Pos' + k]
      /\ temp' = Bytes(p)[Pos + 1]
  BY <1>1, ReadNext
<1>4. Pos \in 2..(p.len - 1)
  BY <1>2
<1>5. /\ off < p.len /\ pics # << >> /\ Pos = off + i
      /\ \A k \in Cells : k < i => data[w][k] = Image(p)[off + k + 1]
  BY <1>1, <1>4 DEF CaptureOK
<1>6. i \in Nat /\ p.len = off + i + 1
  BY <1>2, <1>5 DEF Types, TypeOK
<1>7. i < Size /\ i \in Cells
  <2>1. i < Size
    BY <1>2, <1>6, EndFits
  <2> QED
    BY <1>6, <2>1 DEF Cells
<1>8. \A k \in Cells : data'[w][k] = IF k = i THEN D9 ELSE data[w][k]
  <2>1. /\ data \in [Buffs -> [Cells -> Byte]] /\ w \in Buffs /\ D9 \in Byte
    BY DEF Types, TypeOK, Byte
  <2> QED
    BY <1>1, <1>7, <2>1, StoreAt
<1>9. Holds(data'[w'], p, off)
  <2> SUFFICES ASSUME NEW k \in Cells, off + k < p.len PROVE data'[w'][k] = Image(p)[off + k + 1]
    BY DEF Holds
  <2>1. k \in Nat /\ (k = i \/ k < i)
    BY <1>6 DEF Cells
  <2>2. CASE k = i
    BY <1>1, <1>2, <1>6, <1>8, <2>2, ImageAt
  <2>3. CASE k < i
    <3>1. k # i
      BY <1>6, <2>3
    <3> QED
      BY <1>1, <1>5, <1>8, <2>3, <3>1
  <2> QED
    BY <2>1, <2>2, <2>3
<1> HIDE DEF p
<1>10. Pos' \notin 2..(p.len - 1) /\ Pos' # 0 /\ Pos' >= 0 /\ ~(Pos' < 2) /\ off + Size >= p.len
  BY <1>2, <1>3, <1>6, <1>7
<1> QED
  BY <1>1, <1>3, <1>5, <1>7, <1>9, <1>10 DEF CaptureOK

LEMMA FlushFullCapture ==
  ASSUME Types, NEW off \in Nat, CaptureOK(off), FlushFull
  PROVE  /\ CaptureOK(off + Size)' /\ off + Size < Last(pics).len
         /\ Holds(data[w], Last(pics), off)
<1> DEFINE p == Last(pics)
<1>1. pc # "idle" /\ is_header /\ i >= Size
      /\ pics' = pics /\ pc' = "get" /\ i' = 0 /\ is_header' = is_header /\ fifo' = fifo /\ temp' = temp
      /\ data' = data
  BY DEF FlushFull
<1>2. p \in Pictures /\ p.len \in Nat /\ p.len >= 5
  BY <1>1, InCapture
<1>3. Last(pics)' = p /\ Pos' = Pos
  BY <1>1 DEF Last, Pos
<1>4. /\ off < p.len /\ pics # << >> /\ Pos \in 2..(p.len - 1) /\ Pos = off + i
      /\ \A k \in Cells : k < i => data[w][k] = Image(p)[off + k + 1]
      /\ \A k \in 1..Len(fifo) : fifo[k] = Bytes(p)[Pos + k]
      /\ temp = Bytes(p)[Pos]
  <2>1. Pos \in 2..(p.len - 1)
    BY <1>1 DEF CaptureOK
  <2>2. Pos # 0
    BY <2>1
  <2> QED
    BY <1>1, <2>1, <2>2 DEF CaptureOK
<1>5. i = Size
  BY <1>1 DEF Types, TypeOK
<1>6. \A k \in Cells : k < i
  BY <1>5 DEF Cells
<1>7. Holds(data[w], p, off)
  BY <1>4, <1>6 DEF Holds
<1>8. \A k \in Cells : ~(k < i')
  BY <1>1 DEF Cells
<1> HIDE DEF p
<1>9. /\ off + Size < p.len /\ Pos' = (off + Size) + i' /\ Pos' # 0 /\ Pos' >= 0 /\ ~(Pos' < 2)
      /\ ~(Pos' >= p.len) /\ Pos' \in 2..(p.len - 1)
  BY <1>1, <1>2, <1>3, <1>4, <1>5
<1>10. CaptureOK(off + Size)'
  BY <1>1, <1>3, <1>4, <1>8, <1>9 DEF CaptureOK
<1> QED
  BY <1>7, <1>9, <1>10 DEF p

\* The buffers handed over and the capture fit together at byte off.
LEMMA StreamAt ==
  ASSUME Types, StreamOK
  PROVE  \E N, O \in [0..avail -> Nat] : \E off \in Nat :
            Chain(N, O) /\ off = O[avail] /\ CaptureOK(off)
<1>1. PICK N \in [0..avail -> Nat], O \in [0..avail -> Nat] : Chain(N, O) /\ CaptureOK(O[avail])
  BY DEF StreamOK
<1>2. O[avail] \in Nat
  BY DEF Types, TypeOK
<1> QED
  BY <1>1, <1>2

LEMMA StreamThen ==
  ASSUME NEW N \in [0..avail' -> Nat], NEW O \in [0..avail' -> Nat], NEW off \in Nat,
         Chain(N, O)', off = O[avail'], CaptureOK(off)'
  PROVE  StreamOK'
<1>1. CaptureOK(O[avail])'
  BY DEF CaptureOK
<1> QED
  BY <1>1 DEF StreamOK

\* A byte goes to the buffer in work, and to no other.
LEMMA StoreElse ==
  ASSUME NEW d \in [Buffs -> [Cells -> Byte]], NEW n \in Cells, NEW x \in Byte
  PROVE  \A b \in Buffs : b # w => Store(d, n, x)[b] = d[b]
<1>1. n < Size
  BY DEF Cells
<1> QED
  BY <1>1 DEF Store

\* What holds of the data and the link while camCapture works on its buffer.
Outside(d) == \A b \in Buffs : b # w => d[b] = data[b]
NoStale(d) == \A b \in Buffs : \A k \in Cells : d[b][k] = D8 => k = 1

\* The steps that store a byte keep the rest of the buffers.
LEMMA EndStores ==
  ASSUME IInv, NoOverrun, EndOfImage
  PROVE  /\ Outside(data') /\ NoStale(data')
         /\ \E N, O \in [0..avail -> Nat] : \E off \in Nat :
               Chain(N, O) /\ off = O[avail] /\ CaptureOK(off)'
<1>1. PICK N \in [0..avail -> Nat], O \in [0..avail -> Nat], off \in Nat :
           Chain(N, O) /\ off = O[avail] /\ CaptureOK(off)
  BY StreamAt DEF IInv
<1>2. Types /\ avail \in Nat /\ pc # "idle" /\ data' = Store(data, i, D9)
  BY DEF IInv, EndOfImage, Types, TypeOK
<1>3. O[avail] \in Nat /\ Starts(O[avail])
  BY <1>1, <1>2 DEF Chain
<1>4. ~Overruns(Last(pics))
  <2>1. Last(pics) = pics[Len(pics)] /\ Len(pics) \in 1..Len(pics)
    BY <1>1, <1>2, <1>3, InCapture
  <2> QED
    BY <2>1 DEF NoOverrun
<1>5. CaptureOK(off)' /\ i \in Cells
  BY <1>1, <1>2, <1>3, <1>4, EndCapture
<1>6. /\ data \in [Buffs -> [Cells -> Byte]] /\ w \in Buffs /\ D9 \in Byte /\ D9 # D8
  BY <1>2 DEF Types, TypeOK, Byte, D8, D9
<1>7. Outside(data')
  BY <1>2, <1>5, <1>6, StoreElse DEF Outside
<1>8. NoStale(data')
  BY <1>2, <1>5, <1>6, StoreAt DEF NoStale, IInv, NoStaleHeader
<1> QED
  BY <1>1, <1>5, <1>7, <1>8

LEMMA BodyStores ==
  ASSUME IInv, Body
  PROVE  /\ Outside(data') /\ NoStale(data')
         /\ \E N, O \in [0..avail -> Nat] : \E off \in Nat :
               Chain(N, O) /\ off = O[avail] /\ CaptureOK(off)'
<1>1. PICK N \in [0..avail -> Nat], O \in [0..avail -> Nat], off \in Nat :
           Chain(N, O) /\ off = O[avail] /\ CaptureOK(off)
  BY StreamAt DEF IInv
<1>2. /\ Types /\ avail \in Nat /\ pc # "idle" /\ data' = Store(data, i, Head(fifo)) /\ fifo # << >>
      /\ is_header /\ i \in Nat /\ i < Size
  BY DEF IInv, Body, Types, TypeOK
<1>3. O[avail] \in Nat
  BY <1>1, <1>2
<1>4. CaptureOK(off)'
  BY <1>1, <1>2, <1>3, BodyCapture
<1>5. /\ data \in [Buffs -> [Cells -> Byte]] /\ w \in Buffs /\ i \in Cells /\ Head(fifo) \in Byte
  BY <1>2, HeadTailProperties DEF Types, TypeOK, Cells
<1>6. Head(fifo) # D8
  <2> DEFINE p == Last(pics)
  <2>1. p \in Pictures /\ p.len \in Nat /\ Head(fifo) = Bytes(p)[Pos + 1]
    BY <1>1, <1>2, <1>3, InCapture
  <2>2. Pos \in 2..(p.len - 1)
    BY <1>1, <1>2 DEF CaptureOK
  <2>3. Pos + 1 \in 1..p.len /\ Pos + 1 # 2
    BY <2>1, <2>2
  <2> QED
    BY <2>1, <2>3, BytesAt, MarkersAt
<1>7. Outside(data')
  BY <1>2, <1>5, StoreElse DEF Outside
<1>8. NoStale(data')
  <2>1. \A b \in Buffs : \A k \in Cells :
          data'[b][k] = IF b = w /\ k = i THEN Head(fifo) ELSE data[b][k]
    BY <1>2, <1>5, StoreAt
  <2> QED
    BY <1>6, <2>1 DEF NoStale, IInv, NoStaleHeader
<1> QED
  BY <1>1, <1>4, <1>7, <1>8

LEMMA HeaderStores ==
  ASSUME IInv, Header
  PROVE  /\ Outside(data') /\ NoStale(data')
         /\ \E N, O \in [0..avail -> Nat] : \E off \in Nat :
               Chain(N, O) /\ off = O[avail] /\ CaptureOK(off)'
<1>1. PICK N \in [0..avail -> Nat], O \in [0..avail -> Nat], off \in Nat :
           Chain(N, O) /\ off = O[avail] /\ CaptureOK(off)
  BY StreamAt DEF IInv
<1>2. /\ Types /\ avail \in Nat /\ i = 0 /\ data' = Store(Store(data, 0, FF), 1, D8)
  BY DEF IInv, Header, Types, TypeOK
<1>3. O[avail] \in Nat
  BY <1>1, <1>2
<1>4. CaptureOK(off)'
  BY <1>1, <1>2, <1>3, HeaderCapture
<1>5. /\ data \in [Buffs -> [Cells -> Byte]] /\ w \in Buffs /\ FF \in Byte /\ D8 \in Byte
      /\ 0 \in Cells /\ 1 \in Cells /\ FF # D8
  BY <1>2 DEF Types, TypeOK, Byte, Cells, FF, D8
<1> DEFINE d == [data EXCEPT ![w][0] = FF]
           e == [d EXCEPT ![w][1] = D8]
<1>6. d \in [Buffs -> [Cells -> Byte]] /\ \A b \in Buffs : b # w => d[b] = data[b]
  BY <1>5
<1>7. ASSUME NEW b \in Buffs, NEW k \in Cells, k # 0 \/ b # w PROVE d[b][k] = data[b][k]
  BY <1>5, <1>7
<1>8. d[w][0] = FF
  BY <1>5
<1>9. data' = e
  <2>1. 0 < Size /\ 1 < Size
    OBVIOUS
  <2>2. Store(data, 0, FF) = d /\ Store(d, 1, D8) = e
    BY <2>1 DEF Store
  <2> HIDE DEF d, e
  <2> QED
    BY <1>2, <2>2
<1> HIDE DEF d
<1>10. \A b \in Buffs : b # w => e[b] = d[b]
  BY <1>5, <1>6
<1>11. ASSUME NEW b \in Buffs, NEW k \in Cells, k # 1 \/ b # w PROVE e[b][k] = d[b][k]
  BY <1>5, <1>6, <1>11
<1> HIDE DEF e
<1>12. Outside(data')
  BY <1>6, <1>9, <1>10 DEF Outside
<1>13. ASSUME NEW b \in Buffs, NEW k \in Cells, data'[b][k] = D8 PROVE k = 1
  <2> SUFFICES ASSUME k # 1 PROVE FALSE
    OBVIOUS
  <2>1. d[b][k] = D8
    BY <1>9, <1>11, <1>13
  <2>2. k # 0 \/ b # w
    BY <1>5, <1>8, <2>1
  <2> QED
    BY <1>7, <2>1, <2>2 DEF IInv, NoStaleHeader
<1>14. NoStale(data')
  BY <1>13 DEF NoStale
<1> QED
  BY <1>1, <1>4, <1>12, <1>14

\* A byte from the camera is taken, stored or not.
LEMMA BytesKept ==
  ASSUME IInv, NoOverrun, EndOfImage \/ Body \/ Header \/ Skip \/ GetBuffer
  PROVE  LinkOK' /\ IdsOK' /\ NoStaleHeader' /\ StreamOK'
<1>1. /\ UNCHANGED <<w, r, avail, client, up, pics>> /\ (pc' = "idle" <=> pc = "idle") /\ pc' # "idle"
  BY DEF EndOfImage, Body, Header, Skip, GetBuffer, peers
<1>2. /\ Outside(data') /\ NoStale(data')
      /\ \E N, O \in [0..avail -> Nat] : \E off \in Nat :
               Chain(N, O) /\ off = O[avail] /\ CaptureOK(off)'
  <2>1. CASE EndOfImage
    BY <2>1, EndStores
  <2>2. CASE Body
    BY <2>2, BodyStores
  <2>3. CASE Header
    BY <2>3, HeaderStores
  <2>4. CASE Skip \/ GetBuffer
    <3>1. data' = data
      BY <2>4 DEF Skip, GetBuffer
    <3>2. PICK N \in [0..avail -> Nat], O \in [0..avail -> Nat], off \in Nat :
           Chain(N, O) /\ off = O[avail] /\ CaptureOK(off)
      BY StreamAt DEF IInv
    <3>3. Types /\ O[avail] \in Nat
      BY <3>2 DEF IInv, Types, TypeOK
    <3>4. CaptureOK(off)'
      <4>1. CASE Skip
        BY <3>2, <3>3, <4>1, SkipCapture
      <4>2. CASE GetBuffer
        BY <3>2, <4>2 DEF GetBuffer, CaptureOK, Last, Pos
      <4> QED
        BY <2>4, <4>1, <4>2
    <3> QED
      BY <3>1, <3>2, <3>4 DEF Outside, NoStale, IInv, NoStaleHeader
  <2> QED
    BY <2>1, <2>2, <2>3, <2>4
<1>3. PICK N \in [0..avail -> Nat], O \in [0..avail -> Nat], off \in Nat :
           Chain(N, O) /\ off = O[avail] /\ CaptureOK(off)'
  BY <1>2
<1>4. avail \in Nat /\ r \in Buffs /\ avail \in 0..NumBuffs /\ w = Slot(avail)
  BY DEF IInv, Types, TypeOK, LinkOK
<1>5. \A j \in 0..(avail - 1) : data'[Slot(j)] = data[Slot(j)]
  <2>1. CASE avail < NumBuffs
    <3> SUFFICES ASSUME NEW j \in 0..(avail - 1) PROVE data'[Slot(j)] = data[Slot(j)]
      OBVIOUS
    <3>1. j \in Nat
      BY <1>4
    <3>2. Slot(j) \in Buffs /\ Slot(j) # w
      BY <1>4, <2>1, <3>1, Slots
    <3> QED
      BY <1>2, <3>2 DEF Outside
  <2>2. CASE ~(avail < NumBuffs)
    BY <2>2 DEF IInv, Types, EndOfImage, Body, Header, Skip, GetBuffer
  <2> QED
    BY <2>1, <2>2
<1>6. Chain(N, O)'
  BY <1>1, <1>3, <1>5, ChainSame
<1>7. StreamOK'
  <2>1. avail' = avail /\ N \in [0..avail' -> Nat] /\ O \in [0..avail' -> Nat]
    BY <1>1
  <2>2. off = O[avail']
    BY <1>3, <2>1
  <2> QED
    BY <1>3, <1>6, <2>1, <2>2, StreamThen
<1>8. LinkOK'
  BY <1>1 DEF IInv, LinkOK, Slot
<1>9. IdsOK' /\ NoStaleHeader'
  BY <1>1, <1>2 DEF IInv, IdsOK, NoStale, NoStaleHeader
<1> QED
  BY <1>7, <1>8, <1>9

\* A buffer is handed over.
LEMMA HandedOver ==
  ASSUME IInv, FlushFull \/ FlushLast
  PROVE  LinkOK' /\ IdsOK' /\ NoStaleHeader' /\ StreamOK'
<1>1. /\ UNCHANGED <<data, r, client, up, pics>> /\ pc = "read" /\ HandOver
      /\ avail' = avail + 1 /\ w' = (w + 1) % NumBuffs
      /\ FlushFull => pc' = "get"
      /\ FlushLast => pc' = "idle" /\ fifo = << >>
  BY DEF FlushFull, FlushLast, HandOver, peers
<1>2. PICK N \in [0..avail -> Nat], O \in [0..avail -> Nat], off \in Nat :
           Chain(N, O) /\ off = O[avail] /\ CaptureOK(off)
  BY StreamAt DEF IInv
<1>3. /\ Types /\ avail \in Nat /\ avail < NumBuffs /\ r \in Buffs /\ w = Slot(avail)
      /\ pc # "idle" /\ O[avail] \in Nat
  BY <1>1, <1>2 DEF IInv, LinkOK, Types, TypeOK
<1> DEFINE p == Last(pics)
<1>4. p \in Pictures /\ p = pics[Len(pics)] /\ Len(pics) \in 1..Len(pics) /\ p.len \in Nat
      /\ (fifo = << >> <=> Pos = p.len + 1)
  BY <1>2, <1>3, InCapture
<1>5. N[avail] = Len(pics) /\ off < p.len
  BY <1>2, <1>3 DEF Chain, CaptureOK
<1>6. PICK more \in BOOLEAN : /\ more <=> off + Size < p.len
                              /\ pc' = "idle" <=> ~more
                              /\ Holds(data[w], p, off)
                              /\ more => CaptureOK(off + Size)'
  <2>1. CASE FlushFull
    <3>1. /\ CaptureOK(off + Size)' /\ off + Size < Last(pics).len
          /\ Holds(data[w], Last(pics), off)
      BY <1>2, <1>3, <2>1, FlushFullCapture
    <3> QED
      BY <1>1, <2>1, <3>1
  <2>2. CASE FlushLast
    <3>1. Pos >= p.len
      BY <1>1, <1>4, <2>2
    <3>2. off + Size >= p.len /\ Holds(data[w], p, off)
      BY <1>2, <1>3, <3>1 DEF CaptureOK
    <3>3. ~(off + Size < p.len)
      BY <1>3, <1>4, <3>2
    <3> QED
      BY <1>1, <2>2, <3>2, <3>3
  <2> QED
    BY <2>1, <2>2
<1>7. \E N2, O2 \in [0..avail' -> Nat] :
            Chain(N2, O2)' /\ O2[avail'] = IF more THEN O[avail] + Size ELSE 0
  <2>1. /\ N[avail] \in 1..Len(pics) /\ O[avail] < pics[N[avail]].len
        /\ Holds(data[Slot(avail)], pics[N[avail]], O[avail])
        /\ more <=> O[avail] + Size < pics[N[avail]].len
    BY <1>3, <1>4, <1>5, <1>6
  <2> QED
    BY <1>1, <1>2, <1>3, <1>6, <2>1, ChainExtend
<1>8. StreamOK'
  <2>1. PICK N2 \in [0..avail' -> Nat], O2 \in [0..avail' -> Nat] :
            Chain(N2, O2)' /\ O2[avail'] = IF more THEN O[avail] + Size ELSE 0
    BY <1>7
  <2>2. PICK off2 \in Nat : off2 = O2[avail']
    BY <1>3, <2>1
  <2>3. CaptureOK(off2)'
    <3>1. CASE more
      <4>1. off2 = off + Size
        BY <1>2, <2>1, <2>2, <3>1
      <4> QED
        BY <1>6, <3>1, <4>1
    <3>2. CASE ~more
      BY <1>6, <3>2 DEF CaptureOK
    <3> QED
      BY <3>1, <3>2
  <2> QED
    BY <2>1, <2>2, <2>3, StreamThen
<1>9. LinkOK'
  <2>1. w' = Slot(avail + 1)
    BY <1>1, <1>3, Slots
  <2>2. Slot(avail + 1) = Slot(avail)'
    BY <1>1 DEF Slot
  <2> QED
    BY <1>1, <2>1, <2>2 DEF IInv, LinkOK
<1>10. IdsOK' /\ NoStaleHeader'
  BY <1>1 DEF IInv, IdsOK, NoStaleHeader
<1> QED
  BY <1>8, <1>9, <1>10

----------------------------------------------------------------------------
(* A capture starts                                                          *)

\* A capture starts: the history may give up its oldest picture, which is no longer under way.
LEMMA StartKeeps ==
  ASSUME IInv, StartCapture
  PROVE  LinkOK' /\ IdsOK' /\ NoStaleHeader' /\ StreamOK'
<1>1. /\ UNCHANGED <<data, w, r, avail, client, up>> /\ pc = "idle" /\ pc' = "get"
      /\ temp' = 0 /\ is_header' = FALSE /\ i' = 0
  BY DEF StartCapture, peers
<1>2. PICK n \in Lengths :
         /\ fifo' = Append(Image([id |-> NextId, len |-> n]), Padding)
         /\ pics' = Append(IF Len(pics) = Recent THEN Tail(pics) ELSE pics, [id |-> NextId, len |-> n])
  BY DEF StartCapture
<1>3. PICK p : p = [id |-> NextId, len |-> n]
  OBVIOUS
<1>4. PICK q : q = IF Len(pics) = Recent THEN Tail(pics) ELSE pics
  OBVIOUS
<1>5. /\ Types /\ pics \in Seq(Pictures) /\ Len(pics) \in Nat /\ Len(pics) <= Recent
      /\ avail \in Nat /\ avail <= NumBuffs /\ IdsOK
  BY LenProperties DEF IInv, Types, TypeOK
<1>6. p \in Pictures /\ p.id = NextId /\ p.len \in Nat /\ p.len >= 5
  <2>1. p \in Pictures
    BY <1>3, <1>5, NextIdType DEF Pictures
  <2> QED
    BY <1>3, <2>1, ImageAt
<1>7. PICK m \in {0, 1} : /\ m = IF Len(pics) = Recent THEN 1 ELSE 0
                          /\ m <= Len(pics) /\ Dropped(q, m) /\ q \in Seq(Pictures)
                          /\ Len(q) = Len(pics) - m /\ Len(q) \in Nat /\ Len(q) < Recent
  <2>1. CASE Len(pics) = Recent
    <3>1. pics # << >> /\ q = Tail(pics)
      BY <1>4, <1>5, <2>1, EmptySeq
    <3>2. /\ q \in Seq(Pictures) /\ Len(q) = Len(pics) - 1
          /\ \A k \in 1..Len(q) : q[k] = pics[k + 1]
      BY <1>5, <3>1, HeadTailProperties
    <3> QED
      BY <1>5, <2>1, <3>2 DEF Dropped
  <2>2. CASE Len(pics) # Recent
    <3>0. q = pics
      BY <1>4, <2>2
    <3>1. Len(q) = Len(pics) - 0
      BY <1>5, <3>0
    <3>2. Dropped(q, 0)
      BY <1>5, <3>0, <3>1 DEF Dropped
    <3>3. Len(q) < Recent /\ 0 <= Len(pics)
      BY <1>5, <2>2, <3>0
    <3> QED
      BY <1>5, <2>2, <3>0, <3>1, <3>2, <3>3
  <2> QED
    BY <2>1, <2>2
<1>8. pics' = Append(q, p)
  BY <1>2, <1>3, <1>4
<1>9. IdsOK'
  BY <1>5, <1>6, <1>7, <1>8, NextIds
<1>10. /\ Len(pics') = Len(q) + 1 /\ pics'[Len(pics')] = p /\ pics' \in Seq(Pictures)
       /\ \A k \in 1..Len(q) : pics'[k] = pics[k + m]
  <2>1. \A k \in 1..Len(q) : q[k] = pics[k + m]
    BY <1>7 DEF Dropped
  <2> QED
    BY <1>6, <1>7, <1>8, <2>1, AppendProperties
<1>11. PICK N \in [0..avail -> Nat], O \in [0..avail -> Nat], off \in Nat :
           Chain(N, O) /\ off = O[avail] /\ CaptureOK(off)
  BY <1>5, StreamAt DEF IInv
<1>12. N[avail] = Len(pics) + 1 /\ O[avail] = 0 /\ off = 0
  BY <1>1, <1>11 DEF Chain
\* The picture the history gives up is no longer under way.
<1>13. ASSUME NEW j \in 0..avail PROVE N[j] - m \in Nat /\ N[j] - m >= 1 /\ N[j] \in Nat
  <2>1. N[avail] - N[j] <= avail - j /\ N[j] \in Nat /\ j \in Nat
    BY <1>11 DEF Chain
  <2>2. Len(pics) + 1 - N[j] <= NumBuffs
    BY <1>5, <1>12, <2>1
  <2>3. CASE m = 0
    <3>1. CASE j = avail
      BY <1>5, <1>12, <2>1, <2>3, <3>1
    <3>2. CASE j # avail
      <4>1. j \in 0..(avail - 1)
        BY <1>5, <3>2
      <4>2. N[j] \in 1..Len(pics)
        BY <1>11, <4>1 DEF Chain
      <4> QED
        BY <2>3, <4>2
    <3> QED
      BY <3>1, <3>2
  <2>4. CASE m = 1
    <3>1. Len(pics) = Recent
      BY <1>7, <2>4
    <3>2. Recent > NumBuffs /\ Recent \in Nat /\ NumBuffs \in Nat
      BY HistoryAssumption
    <3>3. N[j] > 1
      <4> DEFINE a == N[j]
      <4>1. a \in Nat /\ Recent + 1 - a <= NumBuffs
        BY <2>1, <2>2, <3>1
      <4> HIDE DEF a
      <4>2. a > 1
        BY ONLY <3>2, <4>1
      <4> QED
        BY <4>2 DEF a
    <3> QED
      BY <2>1, <2>4, <3>3
  <2> QED
    BY <2>3, <2>4
<1>14. PICK N2 \in [0..avail -> Nat] : \A j \in 0..avail : N2[j] = N[j] - m
  <2> DEFINE A == [j \in 0..avail |-> N[j] - m]
  <2>1. A \in [0..avail -> Nat] /\ \A j \in 0..avail : A[j] = N[j] - m
    BY <1>13
  <2> HIDE DEF A
  <2> QED
    BY <2>1
<1>15. ASSUME NEW j \in 0..(avail - 1)
       PROVE  /\ N2[j] \in 1..Len(pics') /\ pics'[N2[j]] = pics[N[j]] /\ N[j] \in 1..Len(pics)
              /\ j \in 0..avail /\ j + 1 \in 0..avail
  <2>1. j \in 0..avail /\ j + 1 \in 0..avail
    BY <1>5
  <2>2. N[j] \in 1..Len(pics)
    BY <1>11 DEF Chain
  <2>3. N2[j] = N[j] - m /\ N2[j] \in 1..Len(q) /\ N2[j] + m = N[j]
    <3> DEFINE a == N[j]
               l == Len(pics)
    <3>1. N2[j] = a - m /\ a - m >= 1 /\ a \in 1..l /\ Len(q) = l - m /\ l \in Nat
      BY <1>5, <1>7, <1>13, <1>14, <2>1, <2>2
    <3> HIDE DEF a, l
    <3>2. N2[j] \in 1..Len(q) /\ N2[j] + m = a
      BY <3>1
    <3> QED
      BY <3>1, <3>2 DEF a
  <2>4. N2[j] \in 1..Len(pics')
    BY <1>7, <1>10, <2>3
  <2> QED
    BY <1>10, <2>1, <2>2, <2>3, <2>4
<1>16. ASSUME NEW j \in 0..(avail - 1)
       PROVE  /\ N2[j] \in 1..Len(pics') /\ O[j] < pics'[N2[j]].len
              /\ Holds(data'[Slot(j)'], pics'[N2[j]], O[j])
              /\ IF O[j] + Size < pics'[N2[j]].len THEN N2[j + 1] = N2[j] /\ O[j + 1] = O[j] + Size
                 ELSE N2[j + 1] = N2[j] + 1 /\ O[j + 1] = 0
  <2>1. Slot(j)' = Slot(j) /\ data' = data
    BY <1>1 DEF Slot
  <2>2. /\ O[j] < pics[N[j]].len /\ Holds(data[Slot(j)], pics[N[j]], O[j])
        /\ IF O[j] + Size < pics[N[j]].len THEN N[j + 1] = N[j] /\ O[j + 1] = O[j] + Size
           ELSE N[j + 1] = N[j] + 1 /\ O[j + 1] = 0
    BY <1>11 DEF Chain
  <2>3. /\ N2[j] = N[j] - m /\ N2[j + 1] = N[j + 1] - m /\ N[j] \in Nat /\ N[j + 1] \in Nat
        /\ pics'[N2[j]] = pics[N[j]] /\ N2[j] \in 1..Len(pics')
    BY <1>13, <1>14, <1>15
  <2>4. /\ N[j + 1] = N[j] => N2[j + 1] = N2[j]
        /\ N[j + 1] = N[j] + 1 => N2[j + 1] = N2[j] + 1
    <3> DEFINE a == N[j]
               b == N[j + 1]
    <3>1. a \in Nat /\ b \in Nat /\ N2[j] = a - m /\ N2[j + 1] = b - m
      BY <2>3
    <3> HIDE DEF a, b
    <3>2. (b = a => N2[j + 1] = N2[j]) /\ (b = a + 1 => N2[j + 1] = N2[j] + 1)
      BY <3>1
    <3> QED
      BY <3>2 DEF a, b
  <2> QED
    BY <2>1, <2>2, <2>3, <2>4
<1>17. ASSUME NEW j \in 0..avail PROVE Starts(O[j]) /\ N2[avail] - N2[j] <= avail - j
  <2>1. Starts(O[j]) /\ N[avail] - N[j] <= avail - j
    BY <1>11 DEF Chain
  <2>2. avail \in 0..avail
    BY <1>5
  <2>3. N2[avail] = N[avail] - m /\ N2[j] = N[j] - m /\ N[avail] \in Nat /\ N[j] \in Nat
    BY <1>13, <1>14, <2>2
  <2> DEFINE a == N[avail]
             b == N[j]
  <2>4. a - b <= avail - j /\ N2[avail] = a - m /\ N2[j] = b - m /\ a \in Nat /\ b \in Nat
    BY <2>1, <2>3
  <2> HIDE DEF a, b
  <2>5. N2[avail] - N2[j] = a - b
    BY <2>4
  <2> QED
    BY <2>1, <2>4, <2>5
<1>18. N2[avail] = Len(pics')
  <2>1. avail \in 0..avail
    BY <1>5
  <2> QED
    BY <1>5, <1>7, <1>10, <1>12, <1>14, <2>1
<1>19. IF N2[0] \in 1..Len(pics') THEN Synced(client', pics'[N2[0]], O[0])
       ELSE ~client'.header /\ client'.image = << >>
  <2>1. CASE avail = 0
    <3>1. ~(N[0] \in 1..Len(pics))
      BY <1>5, <1>12, <2>1
    <3>2. ~client'.header /\ client'.image = << >>
      BY <1>1, <1>11, <3>1 DEF Chain
    <3> QED
      BY <3>2 DEF Synced
  <2>2. CASE avail # 0
    <3>1. 0 \in 0..(avail - 1)
      BY <1>5, <2>2
    <3>2. Synced(client, pics[N[0]], O[0])
      BY <1>11, <1>15, <3>1 DEF Chain
    <3> QED
      BY <1>1, <1>15, <3>1, <3>2
  <2> QED
    BY <2>1, <2>2
<1>20. Chain(N2, O)'
  <2>1. avail' = avail /\ pc' # "idle"
    BY <1>1
  <2> QED
    BY <1>16, <1>17, <1>18, <1>19, <2>1 DEF Chain
<1>21. CaptureOK(off)'
  <2>1. Last(pics)' = p /\ pics' # << >>
    <3>1. Last(pics)' = pics'[Len(pics')]
      BY DEF Last
    <3>2. Len(pics') # 0
      BY <1>7, <1>10
    <3> QED
      BY <1>10, <3>1, <3>2, EmptySeq
  <2>2. fifo' = Bytes(p) /\ Len(fifo') = p.len + 1
    BY <1>2, <1>3, <1>6, BytesAt DEF Bytes
  <2>3. Pos' = 0
    <3>1. Pos' = p.len + 1 - Len(fifo')
      BY <2>1 DEF Pos
    <3> QED
      BY <1>6, <2>2, <3>1
  <2>4. \A k \in 1..Len(fifo') : fifo'[k] = Bytes(p)[Pos' + k]
    <3>1. ASSUME NEW k \in 1..Len(fifo') PROVE fifo'[k] = Bytes(p)[Pos' + k]
      <4>1. Pos' + k = k
        BY <1>6, <2>2, <2>3
      <4> QED
        BY <2>2, <4>1
    <3> QED
      BY <3>1
  <2>5. Pos' \notin 2..(p.len - 1) /\ ~(Pos' >= p.len) /\ off < p.len /\ Pos' >= 0
    BY <1>6, <1>12, <2>3
  <2> QED
    BY <1>1, <1>12, <2>1, <2>3, <2>4, <2>5 DEF CaptureOK
<1>22. StreamOK'
  <2>1. avail' = avail /\ off = O[avail']
    BY <1>1, <1>11
  <2> QED
    BY <1>20, <1>21, <2>1, StreamThen
<1>23. LinkOK' /\ NoStaleHeader'
  BY <1>1 DEF IInv, LinkOK, Slot, NoStaleHeader
<1> QED
  BY <1>9, <1>22, <1>23

----------------------------------------------------------------------------
(* A buffer is sent                                                          *)

\* The pictures in the buffers come in the order they were taken.
LEMMA ChainRises ==
  ASSUME Types, NEW N \in [0..avail -> Nat], NEW O \in [0..avail -> Nat], Chain(N, O),
         NEW j \in 1..avail
  PROVE  N[j] >= N[1]
<1>0. avail \in Nat
  BY DEF Types, TypeOK
<1> DEFINE Bad == {k \in Nat : k \in 1..avail /\ ~(N[k] >= N[1])}
<1>1. SUFFICES ASSUME Bad # {} PROVE FALSE
  <2>1. j \in Nat
    BY <1>0
  <2>2. j \notin Bad => N[j] >= N[1]
    BY <2>1
  <2> HIDE DEF Bad
  <2> QED
    BY <2>2
<1>2. PICK k \in Bad : \A l \in Bad : k <= l
  BY <1>1, LeastOf
<1>3. k # 1
  <2>1. 1 \in 0..avail
    BY <1>0, <1>2
  <2>2. N[1] \in Nat
    BY <2>1
  <2> QED
    BY <1>2, <2>2
<1>4. k - 1 \in Nat /\ k - 1 \in 1..avail /\ k - 1 \in 0..(avail - 1) /\ ~(k <= k - 1) /\ (k - 1) + 1 = k
      /\ k - 1 \in 0..avail /\ k \in 0..avail /\ 1 \in 0..avail
  BY <1>0, <1>2, <1>3
<1>5. N[k - 1] >= N[1]
  BY <1>2, <1>4
<1>6. N[k] = N[k - 1] \/ N[k] = N[k - 1] + 1
  <2>1. \/ N[(k - 1) + 1] = N[k - 1]
        \/ N[(k - 1) + 1] = N[k - 1] + 1
    BY <1>4 DEF Chain
  <2> QED
    BY <1>4, <2>1
<1>7. N[k] \in Nat /\ N[k - 1] \in Nat /\ N[1] \in Nat
  BY <1>4
<1> DEFINE a == N[k]
           b == N[k - 1]
           c == N[1]
<1>8. a \in Nat /\ b \in Nat /\ c \in Nat /\ b >= c /\ (a = b \/ a = b + 1) /\ ~(a >= c)
  BY <1>2, <1>5, <1>6, <1>7
<1> HIDE DEF a, b, c
<1> QED
  BY <1>8

\* The oldest buffer is released; the client, if it is in a picture, has all of it that the
\* buffer holds; the history gives up the picture that ends here, and those before, or none.
LEMMA Popped ==
  ASSUME IInv, NEW N \in [0..avail -> Nat], NEW O \in [0..avail -> Nat], NEW off \in Nat,
         Chain(N, O), off = O[avail], CaptureOK(off),
         avail > 0, Release, UNCHANGED <<data, w, capture>>,
         NEW m \in Nat, m = 0 \/ m = N[0], m # 0 => O[0] + Size >= pics[N[0]].len,
         Dropped(pics', m),
         ~client'.header => client'.image = << >>,
         client'.header => /\ O[0] + Size < pics[N[0]].len
                           /\ client'.image = SubSeq(Image(pics[N[0]]), 1, O[0] + Size)
                           /\ client'.temp = Image(pics[N[0]])[O[0] + Size]
  PROVE  IdsOK' /\ NoStaleHeader' /\ StreamOK' /\ w' = Slot(avail)'
<1>1. /\ Types /\ avail \in Nat /\ avail' = avail - 1 /\ avail <= NumBuffs /\ r \in Buffs
      /\ r' = (r + 1) % NumBuffs /\ pics \in Seq(Pictures) /\ Len(pics) \in Nat
      /\ w = Slot(avail) /\ IdsOK
  BY LenProperties DEF IInv, Types, TypeOK, Release, LinkOK
<1>2. /\ 0 \in 0..(avail - 1) /\ 0 \in 0..avail /\ 1 \in 0..avail /\ avail \in 0..avail
      /\ avail \in 1..avail /\ avail - 1 \in 0..avail'
  BY <1>1
<1>3. UNCHANGED <<data, w, pc, fifo, temp, temp_last, is_header, i>>
  BY DEF capture
<1>4. /\ N[0] \in 1..Len(pics) /\ O[0] < pics[N[0]].len
      /\ IF O[0] + Size < pics[N[0]].len THEN N[1] = N[0] /\ O[1] = O[0] + Size
         ELSE N[1] = N[0] + 1 /\ O[1] = 0
  <2>1. 0 + 1 = 1
    OBVIOUS
  <2> QED
    BY <1>2, <2>1 DEF Chain
<1>5. \A j \in 0..avail : N[j] \in Nat /\ O[j] \in Nat
  OBVIOUS
<1>6. pics[N[0]] \in Pictures /\ pics[N[0]].len \in Nat /\ pics[N[0]].len >= 5
  BY <1>1, <1>4, ImageAt, LenProperties
<1>7. m # 0 => N[1] = m + 1
  BY <1>2, <1>4, <1>5, <1>6
<1>8. ASSUME NEW j \in 1..avail PROVE N[j] - m \in Nat /\ (m # 0 => N[j] - m >= 1) /\ N[j] \in Nat
  <2>1. N[j] >= N[1] /\ N[j] \in Nat /\ N[1] \in Nat
    <3>1. j \in 0..avail
      BY <1>1
    <3>2. N[j] \in Nat /\ N[1] \in Nat
      BY <1>2, <1>5, <3>1
    <3>3. N[j] >= N[1]
      BY <1>1, ChainRises
    <3> QED
      BY <3>2, <3>3
  <2> DEFINE a == N[j]
             b == N[1]
  <2>2. a \in Nat /\ b \in Nat /\ a >= b /\ (m # 0 => b = m + 1)
    BY <1>7, <2>1
  <2> HIDE DEF a, b
  <2>3. a - m \in Nat /\ (m # 0 => a - m >= 1)
    BY <2>2
  <2> QED
    BY <2>1, <2>3 DEF a
<1>9. m \in 0..Len(pics)
  BY <1>1, <1>4
<1>10. /\ Len(pics') = Len(pics) - m /\ pics' \in Seq(Pictures)
       /\ \A k \in 1..Len(pics') : pics'[k] = pics[k + m]
  BY DEF Dropped
<1>11. PICK N2 \in [0..(avail - 1) -> Nat], O2 \in [0..(avail - 1) -> Nat] :
         \A j \in 0..(avail - 1) : N2[j] = N[j + 1] - m /\ O2[j] = O[j + 1]
  <2> DEFINE A == [j \in 0..(avail - 1) |-> N[j + 1] - m]
             B == [j \in 0..(avail - 1) |-> O[j + 1]]
  <2>1. \A j \in 0..(avail - 1) : j + 1 \in 1..avail /\ j + 1 \in 0..avail
    BY <1>1
  <2>2. /\ A \in [0..(avail - 1) -> Nat] /\ B \in [0..(avail - 1) -> Nat]
        /\ \A j \in 0..(avail - 1) : A[j] = N[j + 1] - m /\ B[j] = O[j + 1]
    BY <1>5, <1>8, <2>1
  <2> HIDE DEF A, B
  <2> QED
    BY <2>2
\* The same picture under its new number.
<1>12. ASSUME NEW j \in 1..avail, N[j] \in 1..Len(pics)
       PROVE  N[j] - m \in 1..Len(pics') /\ pics'[N[j] - m] = pics[N[j]]
  <2> DEFINE a == N[j]
             l == Len(pics)
  <2>1. a \in 1..l /\ l \in Nat /\ a - m \in Nat /\ (m # 0 => a - m >= 1) /\ Len(pics') = l - m
    BY <1>1, <1>8, <1>10, <1>12
  <2> HIDE DEF a, l
  <2>2. a - m \in 1..Len(pics') /\ (a - m) + m = a
    BY <2>1
  <2>3. pics'[a - m] = pics[a]
    BY <1>10, <2>2
  <2> QED
    BY <2>2, <2>3 DEF a
<1>13. ASSUME NEW j \in 0..(avail - 2)
       PROVE  /\ N2[j] \in 1..Len(pics') /\ O2[j] < pics'[N2[j]].len
              /\ Holds(data'[Slot(j)'], pics'[N2[j]], O2[j])
              /\ IF O2[j] + Size < pics'[N2[j]].len THEN N2[j + 1] = N2[j] /\ O2[j + 1] = O2[j] + Size
                 ELSE N2[j + 1] = N2[j] + 1 /\ O2[j + 1] = 0
  <2>1. /\ j \in 0..(avail - 1) /\ j + 1 \in 0..(avail - 1) /\ j + 1 \in 1..avail
        /\ (j + 1) + 1 \in 1..avail /\ j \in 0..(NumBuffs - 1)
    BY <1>1
  <2>2. Slot(j)' = Slot(j + 1) /\ data' = data
    BY <1>1, <1>3, <2>1, SlotsMove
  <2>3. /\ N[j + 1] \in 1..Len(pics) /\ O[j + 1] < pics[N[j + 1]].len
        /\ Holds(data[Slot(j + 1)], pics[N[j + 1]], O[j + 1])
        /\ IF O[j + 1] + Size < pics[N[j + 1]].len
           THEN N[(j + 1) + 1] = N[j + 1] /\ O[(j + 1) + 1] = O[j + 1] + Size
           ELSE N[(j + 1) + 1] = N[j + 1] + 1 /\ O[(j + 1) + 1] = 0
    BY <2>1 DEF Chain
  <2>4. /\ N2[j] = N[j + 1] - m /\ N2[j + 1] = N[(j + 1) + 1] - m
        /\ O2[j] = O[j + 1] /\ O2[j + 1] = O[(j + 1) + 1]
    BY <1>11, <2>1
  <2>5. N2[j] \in 1..Len(pics') /\ pics'[N2[j]] = pics[N[j + 1]]
    BY <1>12, <2>1, <2>3, <2>4
  <2>6. /\ N[(j + 1) + 1] = N[j + 1] => N2[j + 1] = N2[j]
        /\ N[(j + 1) + 1] = N[j + 1] + 1 => N2[j + 1] = N2[j] + 1
    <3> DEFINE a == N[j + 1]
               b == N[(j + 1) + 1]
    <3>1. a \in Nat /\ b \in Nat /\ N2[j] = a - m /\ N2[j + 1] = b - m
      BY <1>8, <2>1, <2>4
    <3> HIDE DEF a, b
    <3>2. (b = a => N2[j + 1] = N2[j]) /\ (b = a + 1 => N2[j + 1] = N2[j] + 1)
      BY <3>1
    <3> QED
      BY <3>2 DEF a, b
  <2> QED
    BY <2>2, <2>3, <2>4, <2>5, <2>6
<1>14. ASSUME NEW j \in 0..(avail - 1)
       PROVE  Starts(O2[j]) /\ N2[avail - 1] - N2[j] <= avail - 1 - j
  <2>0. avail \in Nat /\ avail > 0 /\ j \in 0..(avail - 1)
    BY <1>1
  <2>1. j + 1 \in 0..avail /\ j + 1 \in 1..avail /\ avail - 1 \in 0..(avail - 1) /\ (avail - 1) + 1 = avail
    BY ONLY <2>0
  <2>2. Starts(O[j + 1]) /\ N[avail] - N[j + 1] <= avail - (j + 1)
    BY <2>1 DEF Chain
  <2>3. N2[avail - 1] = N[avail] - m /\ N2[j] = N[j + 1] - m /\ O2[j] = O[j + 1]
    BY <1>11, <2>1
  <2> DEFINE a == N[avail]
             b == N[j + 1]
  <2>4. a \in Nat /\ b \in Nat /\ a - b <= avail - (j + 1) /\ N2[avail - 1] = a - m /\ N2[j] = b - m
    BY <1>2, <1>8, <2>1, <2>2, <2>3
  <2> HIDE DEF a, b
  <2>5. N2[avail - 1] - N2[j] <= avail - 1 - j
    BY <1>1, <2>4
  <2> QED
    BY <2>2, <2>3, <2>5
<1>15. N2[avail - 1] = N[avail] - m /\ O2[avail - 1] = O[avail] /\ N[avail] \in Nat
  <2>1. avail - 1 \in 0..(avail - 1) /\ (avail - 1) + 1 = avail
    BY <1>1
  <2> QED
    BY <1>2, <1>11, <2>1
<1>16. N2[avail - 1] = IF pc' = "idle" THEN Len(pics') + 1 ELSE Len(pics')
  <2>1. N[avail] = IF pc = "idle" THEN Len(pics) + 1 ELSE Len(pics)
    BY DEF Chain
  <2> QED
    BY <1>1, <1>3, <1>10, <1>15, <2>1
<1>17. pc' = "idle" => O2[avail - 1] = 0
  BY <1>3, <1>15 DEF Chain
<1>18. IF N2[0] \in 1..Len(pics') THEN Synced(client', pics'[N2[0]], O2[0])
       ELSE ~client'.header /\ client'.image = << >>
  <2>1. N2[0] = N[1] - m /\ O2[0] = O[1]
    <3>1. 0 + 1 = 1
      OBVIOUS
    <3> QED
      BY <1>2, <1>11, <3>1
  <2>2. CASE client'.header
    <3>1. N[1] = N[0] /\ O[1] = O[0] + Size /\ O[0] + Size < pics[N[0]].len /\ N[1] \in 1..Len(pics)
      BY <1>4, <2>2
    <3>2. 1 \in 1..avail
      BY <1>1
    <3>3. N2[0] \in 1..Len(pics') /\ pics'[N2[0]] = pics[N[0]]
      BY <1>12, <2>1, <3>1, <3>2
    <3>4. O2[0] > 0
      BY <1>2, <1>5, <2>1, <3>1
    <3> QED
      BY <2>1, <2>2, <3>1, <3>3, <3>4 DEF Synced
  <2>3. CASE ~client'.header
    BY <2>3 DEF Synced
  <2> QED
    BY <2>2, <2>3
<1>19. Chain(N2, O2)'
  <2>1. avail' = avail - 1
    BY <1>1
  <2>2. avail' - 1 = avail - 2
    <3>1. avail \in Nat
      BY <1>1
    <3> QED
      BY ONLY <2>1, <3>1
  <2> QED
    BY <1>13, <1>14, <1>16, <1>17, <1>18, <2>1, <2>2 DEF Chain
\* The capture goes on with the same picture.
<1>20. pc # "idle" => Last(pics)' = Last(pics) /\ pics' # << >>
  <2> SUFFICES ASSUME pc # "idle" PROVE Last(pics)' = Last(pics) /\ pics' # << >>
    OBVIOUS
  <2>1. N[avail] = Len(pics)
    BY DEF Chain
  <2>2. N[avail] \in 1..Len(pics)
    <3>1. pics # << >>
      BY DEF CaptureOK
    <3>2. Len(pics) # 0
      BY <1>1, <3>1, EmptySeq
    <3> QED
      BY <1>1, <2>1, <3>2
  <2>3. Len(pics') \in 1..Len(pics') /\ pics'[Len(pics')] = pics[Len(pics)]
    BY <1>2, <1>10, <1>12, <2>1, <2>2
  <2>4. Last(pics)' = pics'[Len(pics')] /\ Last(pics) = pics[Len(pics)]
    BY DEF Last
  <2>5. pics' # << >>
    BY <1>10, <2>3, EmptySeq
  <2> QED
    BY <2>3, <2>4, <2>5
<1>21. CaptureOK(off)'
  BY <1>3, <1>20 DEF CaptureOK, Pos
<1>22. StreamOK'
  <2>1. N2 \in [0..avail' -> Nat] /\ O2 \in [0..avail' -> Nat] /\ off = O2[avail']
    BY <1>1, <1>15
  <2> QED
    BY <1>19, <1>21, <2>1, StreamThen
<1>23. w' = Slot(avail)'
  <2>1. avail - 1 \in 0..(NumBuffs - 1) /\ (avail - 1) + 1 = avail
    BY <1>1
  <2>2. PICK j \in 0..(NumBuffs - 1) : j = avail - 1
    BY <2>1
  <2>3. Slot(j)' = Slot(j + 1)
    BY <1>1, SlotsMove
  <2>4. Slot(avail)' = Slot(j)' /\ Slot(avail) = Slot(j + 1)
    BY <1>1, <2>1, <2>2 DEF Slot
  <2> QED
    BY <1>1, <1>3, <2>3, <2>4
<1>24. IdsOK'
  BY <1>1, <1>9, DroppedIds
<1>25. NoStaleHeader'
  BY <1>3 DEF IInv, NoStaleHeader
<1> QED
  BY <1>22, <1>23, <1>24, <1>25

\* What the client saves of the buffer is the picture in it, or nothing.
LEMMA SendKeeps ==
  ASSUME IInv, Send \/ SendPart
  PROVE  /\ LinkOK' /\ IdsOK' /\ NoStaleHeader' /\ StreamOK'
         /\ \A k \in DOMAIN saved' : Whole(saved'[k])
<1>1. /\ Types /\ avail \in Nat /\ avail > 0 /\ Release /\ UNCHANGED <<data, w, capture>>
      /\ r \in Buffs /\ pics \in Seq(Pictures) /\ Len(pics) <= Recent /\ IdsOK
      /\ data[r] \in [Cells -> Byte] /\ NumBuffs \in Nat
      /\ client.header \in BOOLEAN /\ client.temp \in Byte /\ client.image \in Seq(Byte)
  BY DEF IInv, Types, TypeOK, Send, SendPart
<1>2. PICK N \in [0..avail -> Nat], O \in [0..avail -> Nat], off \in Nat :
           Chain(N, O) /\ off = O[avail] /\ CaptureOK(off)
  BY <1>1, StreamAt DEF IInv
<1>3. PICK p : p = pics[N[0]]
  OBVIOUS
<1>4. PICK o : o = O[0]
  OBVIOUS
<1>5. PICK b : b = data[r]
  OBVIOUS
<1>6. N[0] \in 1..Len(pics) /\ p \in Pictures /\ o \in Nat /\ o < p.len /\ p.len \in Nat
  <2>1. 0 \in 0..(avail - 1) /\ 0 \in 0..avail
    BY <1>1
  <2>2. N[0] \in 1..Len(pics) /\ O[0] < pics[N[0]].len
    BY <1>2, <2>1 DEF Chain
  <2>3. p \in Pictures
    BY <1>1, <1>3, <2>2, LenProperties
  <2> QED
    BY <1>3, <1>4, <2>1, <2>2, <2>3, ImageAt
<1>7. Holds(b, p, o)
  <2>1. 0 \in 0..(avail - 1)
    BY <1>1
  <2>2. Slot(0) = r
    <3> DEFINE n == NumBuffs
    <3>1. n \in Nat \ {0} /\ r \in Nat /\ r < n /\ r + 0 = r
      BY <1>1 DEF Buffs
    <3> HIDE DEF n
    <3>2. r % n = r
      BY <3>1, ModLaps
    <3> QED
      BY <3>1, <3>2 DEF n, Slot
  <2>3. Holds(data[Slot(0)], pics[N[0]], O[0])
    BY <1>2, <2>1 DEF Chain
  <2> QED
    BY <1>3, <1>4, <1>5, <2>2, <2>3
<1>8. Synced(client, p, o)
  BY <1>2, <1>3, <1>4, <1>6 DEF Chain
<1>9. \A k \in Cells : b[k] = D8 => k = 1
  BY <1>1, <1>5 DEF IInv, NoStaleHeader
<1>10. PICK n \in 0..Size : \E c :
         /\ c = Process(client, data[r], n)
         /\ saved' = c.saved /\ pics' = Forget(c.saved)
         /\ \/ client' = Gone
            \/ /\ client' = [on |-> TRUE, header |-> c.header, temp |-> c.temp, image |-> c.image]
               /\ n = Size /\ up'
  <2>1. CASE Send
    <3>1. Size \in 0..Size
      OBVIOUS
    <3> QED
      BY <2>1, <3>1 DEF Send, Receives
  <2>2. CASE SendPart
    BY <2>2 DEF SendPart, Cells
  <2> QED
    BY <2>1, <2>2
<1>11. PICK c : /\ c = Process(client, b, n)
                /\ saved' = c.saved /\ pics' = Forget(c.saved)
                /\ \/ client' = Gone
                   \/ /\ client' = [on |-> TRUE, header |-> c.header, temp |-> c.temp, image |-> c.image]
                      /\ n = Size /\ up'
  BY <1>5, <1>10
<1>12. Reached(c, p, o, b, n) /\ c \in Session
  <2>1. /\ b \in [Cells -> Byte] /\ client.header \in BOOLEAN /\ client.temp \in Byte
        /\ client.image \in Seq(Byte) /\ n \in 0..Size
    BY <1>1, <1>5
  <2>2. Reached(Process(client, b, n), p, o, b, n)
    BY <1>6, <1>7, <1>8, <1>9, <2>1, ProcessReached
  <2>3. Process(client, b, n) \in Session
    BY <2>1, ProcessType
  <2> QED
    BY <1>11, <2>2, <2>3
<1>13. c.saved \in {<< >>, <<Image(p)>>} /\ (c.saved # << >> => o + n >= p.len)
  BY <1>6, <1>12 DEF Reached
<1>14. PICK m \in Nat : /\ m = 0 \/ m = N[0]
                        /\ m # 0 => o + Size >= p.len
                        /\ Dropped(pics', m)
  <2>1. CASE c.saved = << >>
    <3>1. Dropped(pics', 0)
      BY <1>1, <1>11, <2>1, ForgetNone DEF Dropped
    <3> QED
      BY <3>1
  <2>2. CASE c.saved = <<Image(p)>>
    <3>1. Dropped(pics', N[0])
      <4>1. pics' = Forget(<<Image(pics[N[0]])>>)
        BY <1>3, <1>11, <2>2
      <4>2. Dropped(Forget(<<Image(pics[N[0]])>>), N[0])
        BY <1>1, <1>6, ForgetOne
      <4> QED
        BY <4>1, <4>2
    <3>2. o + Size >= p.len
      <4>1. c.saved # << >>
        BY <2>2
      <4> QED
        BY <1>6, <1>13, <4>1
    <3>3. N[0] \in Nat
      BY <1>6
    <3> QED
      BY <3>1, <3>2, <3>3
  <2> QED
    BY <1>13, <2>1, <2>2
<1>15. /\ ~client'.header => client'.image = << >>
       /\ client'.header => /\ o + Size < p.len
                            /\ client'.image = SubSeq(Image(p), 1, o + Size)
                            /\ client'.temp = Image(p)[o + Size]
  <2>1. CASE client' = Gone
    BY <2>1 DEF Gone
  <2>2. CASE /\ client' = [on |-> TRUE, header |-> c.header, temp |-> c.temp, image |-> c.image]
             /\ n = Size
    <3>1. client'.header = c.header /\ client'.image = c.image /\ client'.temp = c.temp
      BY <2>2
    <3>2. o + Size \in Nat /\ ~(o + Size < p.len) => o + Size >= p.len
      BY <1>6
    <3> QED
      BY <1>6, <1>12, <2>2, <3>1, <3>2 DEF Reached
  <2> QED
    BY <1>11, <2>1, <2>2
<1>16. IdsOK' /\ NoStaleHeader' /\ StreamOK' /\ w' = Slot(avail)'
  BY <1>1, <1>2, <1>3, <1>4, <1>14, <1>15, Popped
<1>17. client'.header => up'
  BY <1>11 DEF Gone
<1>18. \A k \in DOMAIN saved' : Whole(saved'[k])
  <2> SUFFICES ASSUME NEW k \in DOMAIN saved' PROVE Whole(saved'[k])
    OBVIOUS
  <2>1. saved' = <<Image(p)>>
    <3>1. DOMAIN << >> = {}
      OBVIOUS
    <3> QED
      BY <1>11, <1>13, <3>1
  <2>2. saved'[k] = Image(p)
    <3>1. k \in {1}
      BY <2>1
    <3> QED
      BY <2>1, <3>1
  <2>3. N[0] \in DOMAIN pics
    BY <1>1, <1>6, LenProperties
  <2> QED
    BY <1>3, <2>2, <2>3 DEF Whole
<1> QED
  BY <1>16, <1>17, <1>18 DEF LinkOK

\* A buffer goes nowhere: the client, not connected, is in no picture.
LEMMA NowhereKeeps ==
  ASSUME IInv, SendNowhere
  PROVE  LinkOK' /\ IdsOK' /\ NoStaleHeader' /\ StreamOK'
<1>1. /\ Types /\ avail \in Nat /\ avail > 0 /\ Release /\ UNCHANGED <<data, w, capture>> /\ ~up
      /\ client' = client /\ pics' = pics /\ up' = up /\ pics \in Seq(Pictures) /\ ~client.header
  BY DEF IInv, Types, TypeOK, SendNowhere, LinkOK
<1>2. PICK N \in [0..avail -> Nat], O \in [0..avail -> Nat], off \in Nat :
           Chain(N, O) /\ off = O[avail] /\ CaptureOK(off)
  BY <1>1, StreamAt DEF IInv
<1>3. client.image = << >>
  BY <1>1, <1>2 DEF Chain, Synced
<1>4. Dropped(pics', 0)
  <2>1. Len(pics) \in Nat
    BY <1>1, LenProperties
  <2> QED
    BY <1>1, <2>1 DEF Dropped
<1>5. PICK m \in Nat : m = 0 /\ Dropped(pics', m)
  BY <1>4
<1>6. IdsOK' /\ NoStaleHeader' /\ StreamOK' /\ w' = Slot(avail)'
  BY <1>1, <1>2, <1>3, <1>5, Popped
<1> QED
  BY <1>1, <1>6 DEF LinkOK

\* Nothing of the stream moves.
LEMMA LinkKeeps ==
  ASSUME IInv, Connect \/ Break \/ Accept \/ UNCHANGED vars
  PROVE  LinkOK' /\ IdsOK' /\ NoStaleHeader' /\ StreamOK'
<1>1. /\ UNCHANGED <<data, w, r, avail, capture, pics>>
      /\ client' = client \/ client' = Gone \/ client' = Fresh
      /\ client'.header => up'
  <2>1. CASE Connect
    BY <2>1 DEF Connect, Gone, Fresh
  <2>2. CASE Break
    BY <2>2 DEF Break, Gone
  <2>3. CASE Accept
    BY <2>3 DEF Accept
  <2>4. CASE UNCHANGED vars
    BY <2>4 DEF vars, capture, IInv, LinkOK
  <2> QED
    BY <2>1, <2>2, <2>3, <2>4
<1>2. PICK N \in [0..avail -> Nat], O \in [0..avail -> Nat], off \in Nat :
           Chain(N, O) /\ off = O[avail] /\ CaptureOK(off)
  BY StreamAt DEF IInv
<1>3. Chain(N, O)'
  BY <1>1, <1>2, ChainSame DEF capture
<1>4. CaptureOK(off)'
  BY <1>1, <1>2 DEF capture, CaptureOK, Pos, Last
<1>5. StreamOK'
  <2>1. avail' = avail
    BY <1>1
  <2> QED
    BY <1>2, <1>3, <1>4, <2>1, StreamThen
<1>6. LinkOK' /\ IdsOK' /\ NoStaleHeader'
  BY <1>1 DEF IInv, LinkOK, IdsOK, NoStaleHeader, Slot
<1> QED
  BY <1>5, <1>6

----------------------------------------------------------------------------
(* The theorems                                                              *)

\* At the beginning there is no picture anywhere.
LEMMA InitStream == Init => IInv
<1> SUFFICES ASSUME Init PROVE IInv
  OBVIOUS
<1>1. Types
  BY InitTypes
<1>2. /\ avail = 0 /\ r = 0 /\ w = 0 /\ pics = << >> /\ Len(pics) = 0 /\ client = Gone /\ pc = "idle"
      /\ data = [b \in Buffs |-> [k \in Cells |-> 0]]
  BY DEF Init
<1>3. LinkOK
  <2>1. ~client.header
    BY <1>2 DEF Gone
  <2>2. 0 % NumBuffs = 0
    BY ModLaps
  <2> QED
    BY <1>2, <2>1, <2>2 DEF LinkOK, Slot
<1>4. IdsOK
  BY <1>2 DEF IdsOK
<1>5. NoStaleHeader
  BY <1>2 DEF NoStaleHeader, D8
<1>6. StreamOK
  <2> DEFINE A == [j \in 0..avail |-> 1]
             B == [j \in 0..avail |-> 0]
  <2>1. /\ A \in [0..avail -> Nat] /\ B \in [0..avail -> Nat]
        /\ \A j \in 0..avail : A[j] = 1 /\ B[j] = 0
        /\ avail \in 0..avail /\ 0 \in 0..avail
    BY <1>2
  <2> HIDE DEF A, B
  <2>2. Starts(0)
    <3>1. 0 \in 0..0 /\ 0 = Size * 0
      OBVIOUS
    <3> QED
      BY <3>1 DEF Starts
  <2>3. ~client.header /\ client.image = << >>
    BY <1>2 DEF Gone
  <2>4. Chain(A, B)
    <3>1. 0..(avail - 1) = {}
      BY <1>2
    <3>2. \A j \in 0..avail : Starts(B[j]) /\ A[avail] - A[j] <= avail - j
      BY <1>2, <2>1, <2>2
    <3>3. A[avail] = Len(pics) + 1 /\ B[avail] = 0 /\ ~(A[0] \in 1..Len(pics))
      BY <1>2, <2>1
    <3> QED
      BY <1>2, <2>3, <3>1, <3>2, <3>3 DEF Chain
  <2>5. CaptureOK(B[avail])
    BY <1>2 DEF CaptureOK
  <2> QED
    BY <2>1, <2>4, <2>5 DEF StreamOK
<1> QED
  BY <1>1, <1>3, <1>4, <1>5, <1>6 DEF IInv

LEMMA NextTypes == Types /\ [Next]_vars => Types'
BY StartTypes, CaptureTypes, SendTypes, OtherTypes DEF Next, CamThread, CamTCP

\* A step keeps the stream whole, and what it saves is whole.
LEMMA NextStream ==
  ASSUME IInv, NoOverrun, [Next]_vars
  PROVE  IInv' /\ ((\A k \in DOMAIN saved' : Whole(saved'[k])) \/ UNCHANGED vars)
<1>1. Types'
  BY NextTypes DEF IInv
<1>2. saved' = << >> => \A k \in DOMAIN saved' : Whole(saved'[k])
  OBVIOUS
<1>3. CASE StartCapture
  <2>1. saved' = << >>
    BY <1>3 DEF StartCapture
  <2> QED
    BY <1>1, <1>2, <1>3, <2>1, StartKeeps DEF IInv
<1>4. CASE EndOfImage \/ Body \/ Header \/ Skip \/ GetBuffer
  <2>1. saved' = << >>
    BY <1>4 DEF EndOfImage, Body, Header, Skip, GetBuffer
  <2> QED
    BY <1>1, <1>2, <1>4, <2>1, BytesKept DEF IInv
<1>5. CASE FlushFull \/ FlushLast
  <2>1. saved' = << >>
    BY <1>5 DEF FlushFull, FlushLast
  <2> QED
    BY <1>1, <1>2, <1>5, <2>1, HandedOver DEF IInv
<1>6. CASE Send \/ SendPart
  BY <1>1, <1>6, SendKeeps DEF IInv
<1>7. CASE SendNowhere
  <2>1. saved' = << >>
    BY <1>7 DEF SendNowhere
  <2> QED
    BY <1>1, <1>2, <1>7, <2>1, NowhereKeeps DEF IInv
<1>8. CASE Connect \/ Break \/ Accept
  <2>1. saved' = << >>
    BY <1>8 DEF Connect, Break, Accept
  <2> QED
    BY <1>1, <1>2, <1>8, <2>1, LinkKeeps DEF IInv
<1>9. CASE UNCHANGED vars
  BY <1>1, <1>9, LinkKeeps DEF IInv
<1> QED
  BY <1>3, <1>4, <1>5, <1>6, <1>7, <1>8, <1>9 DEF Next, CamThread, CamTCP

\* The types, the ranges of index and cursors, and the bound of the history hold always,
\* overruns included (camHandler.c:91-122, pingpong_ipc.c:69-122, jpeg_client.py:71-110).
THEOREM TypeCorrect == Spec => []TypeOK
<1>1. Types => TypeOK
  BY DEF Types
<1> QED
  BY <1>1, InitTypes, NextTypes, PTL DEF Spec

\* As long as no picture overruns its buffer, the buffers handed over hold the pictures
\* taken one after the other, and the client is in the oldest of them or in none.
THEOREM StreamInvariance == Spec /\ []NoOverrun => []IInv
<1>1. IInv /\ NoOverrun /\ [Next]_vars => IInv'
  BY NextStream
<1> QED
  BY <1>1, InitStream, PTL DEF Spec

\* As long as no picture overruns its buffer, every file the client saves is one whole
\* picture the camera took (camHandler.c:91-122, jpeg_client.py:71-110).
THEOREM WholePictures == Spec /\ []NoOverrun => Intact
<1>1. IInv /\ NoOverrun /\ [Next]_vars => IInv'
  BY NextStream
<1>2. IInv /\ NoOverrun /\ [Next]_vars =>
        [\A k \in DOMAIN saved' :
          Whole(saved'[k]) \/ \E m \in DOMAIN pics : Overruns(pics[m])]_vars
  BY NextStream
<1> QED
  BY <1>1, <1>2, InitStream, PTL DEF Spec, Intact

\* So it is with every capture whose length leaves room for the end marker.
COROLLARY LengthsThatFit ==
  ASSUME \A n \in Lengths : n % Size # 1 PROVE Spec => Intact
<1>1. Types => NoOverrun
  <2> SUFFICES ASSUME Types, NEW k \in 1..Len(pics) PROVE ~Overruns(pics[k])
    BY DEF NoOverrun
  <2>1. pics[k] \in Pictures
    BY LenProperties DEF Types
  <2> QED
    BY <2>1 DEF Pictures, Overruns
<1> QED
  BY <1>1, InitTypes, NextTypes, WholePictures, PTL DEF Spec
=============================================================================
