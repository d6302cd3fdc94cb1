-------------------------- MODULE TelemetryProofs --------------------------
(***************************************************************************)
(* Proofs about Telemetry for any grid, any number of reports and any size *)
(* of FIFO, connection and queues: types, and that the page lives and      *)
(* shows positions the robot reported, in their order.                     *)
(*                                                                         *)
(* All reports between the page and the control thread make a line, from   *)
(* the one in the PDU object to the last in tx_pdu_fifo_g.  They have      *)
(* numbers, places in path, that ascend along the line by at most one, so  *)
(* that x of a report and y of the one before make one of the two, or what *)
(* Shows lets the later one show, if it jumped along both axes.            *)
(***************************************************************************)
EXTENDS Telemetry, SequenceTheorems, WellFoundedInduction, TLAPS

Proper(pdu) == pdu.cmd /\ pdu.x # None /\ pdu.y # None
Pos(pdu) == <<pdu.x, pdu.y>>

\* The line: what get_buff is reading or has read, the connection, updateTCP's local,
\* tx_pdu_fifo_g.  An application that does not read, or goes on with an old PDU object,
\* has no part in it.
Out == IF server = "send" THEN <<out_pdu>> ELSE << >>
Src == Out \o tx
Got == IF client = "y" THEN <<frame>> ELSE IF rx_pdu = Unset THEN << >> ELSE <<Pos(rx_pdu)>>
Part == IF end \in {"x", "y", "msg"} THEN <<part>> ELSE << >>
Reading == ~resumed /\ client \in {"recv", "y", "put"}
Before == IF Reading THEN Got \o (net \o Part) ELSE << >>
Line == Before \o Src

\* f numbers the line L, from lo on.  Reports may be missing behind its first j unless
\* it is linked there; the last of the robot's is the last that there is.
Numbering(f, L, j, linked, pth, lo) ==
    /\ \A i \in 1..Len(L) : pth[f[i]] = L[i] /\ lo <= f[i]
    /\ \A i1, i2 \in 1..Len(L) : i1 <= i2 => f[i1] <= f[i2]
    /\ \A i \in 1..(Len(L) - 1) : i # j \/ linked => f[i + 1] <= f[i] + 1
    /\ Len(L) > 0 /\ (linked \/ j < Len(L)) => f[Len(L)] = Len(pth)
Numbered(L, j, linked, pth, lo) ==
    \E f \in [1..Len(L) -> 1..Len(pth)] : Numbering(f, L, j, linked, pth, lo)

\* Places of the two programs and of the connection.
LinkOK ==
    /\ up => server # "accept" /\ client \in {"recv", "y", "put"} /\ end = "close"
    /\ client \in {"connect", "hung"} => ~up /\ net = << >>
    /\ resumed => rx_pdu # Unset
    /\ client = "y" => rx_pdu.cmd /\ rx_pdu.x = frame[1]
    /\ client = "put" => Proper(rx_pdu)

\* Nothing to show but whole reports, or nothing at all.
Starved == client = "recv" /\ ~up /\ net = << >> /\ end = "none"
SessionOK ==
    ~resumed =>
        /\ session
        /\ ~Proper(rx_pdu) /\ ~(rx_pdu = Unset /\ Starved) => waiting = 0 /\ pipe = << >>
        /\ \A i \in 1..Len(pipe) : IF rx_pdu = Unset THEN ~pipe[i].cmd ELSE Proper(pipe[i])
        /\ client \in {"recv", "hung"} => rx_pdu = Unset \/ Proper(rx_pdu)

\* The PDU object shows report k; those in the pipe are in order, from what the page
\* shows to k.
PipeNumbering(g, p, pth) ==
    /\ \A i \in 1..Len(p) : p[i].cmd => Shows(pth, g[i], Pos(p[i]))
    /\ \A i1, i2 \in 1..Len(p) : i1 <= i2 => g[i1] <= g[i2]
PageOK(k) ==
    /\ 1 <= seen /\ seen <= k
    /\ Proper(rx_pdu) => Shows(path, k, Pos(rx_pdu))
    /\ \E g \in [1..Len(pipe) -> seen..k] : PipeNumbering(g, pipe, path)
OrderOK ==
    ~stale => \E k \in 1..Len(path) : /\ Numbered(Line, Len(Before), up, path, k)
                                      /\ ~resumed => PageOK(k)

\* The inductive invariant.
Types == TypeOK /\ Len(path) > 0
IInv == Types /\ LinkOK /\ SessionOK /\ OrderOK

USE TelemetryAssumption

----------------------------------------------------------------------------
(* Numberings                                                                *)

\* The line without its first part.
LEMMA DropFirst ==
  ASSUME NEW S, NEW a \in Seq(S), NEW s \in Seq(S), NEW j \in Nat, NEW linked,
         NEW pth, NEW lo \in Nat, Len(pth) \in Nat,
         Numbered(a \o s, j, linked, pth, lo), Len(a) <= j
  PROVE  Numbered(s, j - Len(a), linked, pth, lo)
<1> DEFINE L == a \o s
           r == Len(a)
<1>1. /\ r \in Nat /\ Len(s) \in Nat /\ Len(L) = r + Len(s)
      /\ \A i \in 1..Len(s) : L[i + r] = s[i] /\ i + r \in 1..Len(L)
  <2>1. /\ r \in Nat /\ Len(s) \in Nat /\ Len(L) = r + Len(s)
        /\ \A i \in 1..(r + Len(s)) : L[i] = IF i <= r THEN a[i] ELSE s[i - r]
    BY ConcatProperties, LenProperties
  <2>2. ASSUME NEW i \in 1..Len(s) PROVE L[i + r] = s[i] /\ i + r \in 1..Len(L)
    <3>1. i + r \in 1..(r + Len(s)) /\ ~(i + r <= r) /\ (i + r) - r = i
      BY <2>1
    <3> QED
      BY <2>1, <3>1
  <2> QED
    BY <2>1, <2>2
<1>2. PICK f \in [1..Len(L) -> 1..Len(pth)] : Numbering(f, L, j, linked, pth, lo)
  BY DEF Numbered
<1> DEFINE h == [i \in 1..Len(s) |-> f[i + r]]
<1> HIDE DEF L, r
<1>3. h \in [1..Len(s) -> 1..Len(pth)]
  BY <1>1, <1>2
<1>4. \A i \in 1..Len(s) : pth[h[i]] = s[i] /\ lo <= h[i]
  BY <1>1, <1>2 DEF Numbering
<1>5. \A i1, i2 \in 1..Len(s) : i1 <= i2 => h[i1] <= h[i2]
  <2>1. ASSUME NEW i1 \in 1..Len(s), NEW i2 \in 1..Len(s), i1 <= i2 PROVE h[i1] <= h[i2]
    <3>1. i1 + r \in 1..Len(L) /\ i2 + r \in 1..Len(L) /\ i1 + r <= i2 + r
      BY <1>1, <2>1
    <3>2. f[i1 + r] <= f[i2 + r]
      BY <1>2, <3>1 DEF Numbering
    <3> QED
      BY <3>2
  <2> QED
    BY <2>1
<1>6. ASSUME NEW i \in 1..(Len(s) - 1), i # j - r \/ linked PROVE h[i + 1] <= h[i] + 1
  <2>1. /\ i + r \in 1..(Len(L) - 1) /\ (i + r # j \/ linked)
        /\ i \in 1..Len(s) /\ i + 1 \in 1..Len(s) /\ (i + 1) + r = (i + r) + 1
    BY <1>1, <1>6
  <2>2. f[(i + r) + 1] <= f[i + r] + 1
    BY <1>2, <2>1 DEF Numbering
  <2> QED
    BY <2>1, <2>2
<1>7. ASSUME Len(s) > 0, linked \/ j - r < Len(s) PROVE h[Len(s)] = Len(pth)
  <2>1. Len(L) > 0 /\ (linked \/ j < Len(L)) /\ Len(s) + r = Len(L) /\ Len(s) \in 1..Len(s)
    BY <1>1, <1>7
  <2>2. f[Len(L)] = Len(pth)
    BY <1>2, <2>1 DEF Numbering
  <2> QED
    BY <2>1, <2>2
<1>8. Numbering(h, s, j - r, linked, pth, lo)
  BY <1>4, <1>5, <1>6, <1>7 DEF Numbering
<1> QED
  BY <1>3, <1>8 DEF Numbered, r

\* The line with a part taken out behind the first one; there is its gap now.
LEMMA CutAt ==
  ASSUME NEW S, NEW a \in Seq(S), NEW b \in Seq(S), NEW s \in Seq(S),
         NEW j \in Nat, NEW linked \in BOOLEAN,
         NEW pth, NEW lo \in Nat, Len(pth) \in Nat,
         Numbered(a \o (b \o s), j, linked, pth, lo), linked \/ j = Len(a)
  PROVE  Numbered(a \o s, Len(a), FALSE, pth, lo)
<1> DEFINE L == a \o (b \o s)
           M == a \o s
           c == Len(a)
           r == Len(b)
           old(i) == IF i <= c THEN i ELSE i + r
<1>0. /\ c \in Nat /\ r \in Nat /\ Len(s) \in Nat /\ b \o s \in Seq(S) /\ Len(b \o s) = r + Len(s)
      /\ \A i \in 1..(r + Len(s)) : (b \o s)[i] = IF i <= r THEN b[i] ELSE s[i - r]
  BY ConcatProperties, LenProperties
<1>1. /\ Len(L) = c + (r + Len(s)) /\ Len(M) = c + Len(s)
      /\ \A i \in 1..(c + (r + Len(s))) : L[i] = IF i <= c THEN a[i] ELSE (b \o s)[i - c]
      /\ \A i \in 1..(c + Len(s)) : M[i] = IF i <= c THEN a[i] ELSE s[i - c]
  <2>1. /\ Len(L) = c + Len(b \o s)
        /\ \A i \in 1..(c + Len(b \o s)) : L[i] = IF i <= c THEN a[i] ELSE (b \o s)[i - c]
    BY <1>0, ConcatProperties
  <2>2. /\ Len(M) = c + Len(s)
        /\ \A i \in 1..(c + Len(s)) : M[i] = IF i <= c THEN a[i] ELSE s[i - c]
    BY ConcatProperties
  <2> QED
    BY <1>0, <2>1, <2>2
<1>2. \A i \in 1..Len(M) : M[i] = L[old(i)] /\ old(i) \in 1..Len(L)
  <2>1. ASSUME NEW i \in 1..Len(M) PROVE M[i] = L[old(i)] /\ old(i) \in 1..Len(L)
    <3>1. CASE i <= c
      BY <1>0, <1>1, <3>1
    <3>2. CASE ~(i <= c)
      <4>0. old(i) = i + r /\ i \in 1..(c + Len(s))
        BY <1>1, <3>2
      <4>1. /\ i + r \in 1..(c + (r + Len(s))) /\ ~(i + r <= c)
            /\ (i + r) - c \in 1..(r + Len(s)) /\ ~((i + r) - c <= r)
            /\ ((i + r) - c) - r = i - c
        <5>1. c \in Nat /\ r \in Nat /\ Len(s) \in Nat
          BY <1>0
        <5> HIDE DEF c, r
        <5> QED
          BY <3>2, <4>0, <5>1
      <4>2. L[i + r] = s[i - c]
        BY <1>0, <1>1, <4>1
      <4>3. M[i] = s[i - c]
        BY <1>1, <3>2
      <4> QED
        BY <1>1, <4>0, <4>1, <4>2, <4>3
    <3> QED
      BY <3>1, <3>2
  <2> QED
    BY <2>1
<1>3. PICK f \in [1..Len(L) -> 1..Len(pth)] : Numbering(f, L, j, linked, pth, lo)
  BY DEF Numbered
<1> DEFINE h == [i \in 1..Len(M) |-> f[old(i)]]
<1>4. c \in Nat /\ r \in Nat /\ Len(L) = Len(M) + r /\ Len(M) \in Nat /\ c <= Len(M)
  BY <1>0, <1>1
<1> HIDE DEF L, M, c, r
<1>5. h \in [1..Len(M) -> 1..Len(pth)]
  BY <1>2, <1>3
<1>6. \A i \in 1..Len(M) : pth[h[i]] = M[i] /\ lo <= h[i]
  <2>1. ASSUME NEW i \in 1..Len(M) PROVE pth[h[i]] = M[i] /\ lo <= h[i]
    <3>1. old(i) \in 1..Len(L) /\ M[i] = L[old(i)] /\ h[i] = f[old(i)]
      BY <1>2
    <3> HIDE DEF old, h
    <3> QED
      BY <1>3, <3>1 DEF Numbering
  <2> QED
    BY <2>1
<1>7. \A i1, i2 \in 1..Len(M) : i1 <= i2 => h[i1] <= h[i2]
  <2>1. ASSUME NEW i1 \in 1..Len(M), NEW i2 \in 1..Len(M), i1 <= i2 PROVE h[i1] <= h[i2]
    <3>1. old(i1) \in 1..Len(L) /\ old(i2) \in 1..Len(L)
      BY <1>2
    <3>2. old(i1) <= old(i2)
      BY <1>4, <2>1
    <3>3. f[old(i1)] <= f[old(i2)]
      BY <1>3, <3>1, <3>2 DEF Numbering
    <3> QED
      BY <3>3
  <2> QED
    BY <2>1
<1>8. ASSUME NEW i \in 1..(Len(M) - 1), i # c PROVE h[i + 1] <= h[i] + 1
  <2>1. /\ old(i) \in 1..(Len(L) - 1) /\ (old(i) # j \/ linked) /\ old(i + 1) = old(i) + 1
        /\ i \in 1..Len(M) /\ i + 1 \in 1..Len(M)
    <3>1. CASE i <= c
      <4>1. i < c /\ i + 1 <= c
        BY <1>4, <1>8, <3>1
      <4> QED
        BY <1>4, <3>1, <4>1 DEF c
    <3>2. CASE ~(i <= c)
      <4>1. ~(i + 1 <= c) /\ i + r > c
        BY <1>4, <3>2
      <4> QED
        BY <1>4, <3>2, <4>1 DEF c
    <3> QED
      BY <3>1, <3>2
  <2>2. h[i] = f[old(i)] /\ h[i + 1] = f[old(i) + 1]
    BY <2>1
  <2> HIDE DEF old, h
  <2>3. f[old(i) + 1] <= f[old(i)] + 1
    BY <1>3, <2>1 DEF Numbering
  <2> QED
    BY <2>2, <2>3
<1>9. ASSUME Len(M) > 0, c < Len(M) PROVE h[Len(M)] = Len(pth)
  <2>1. Len(L) > 0 /\ (linked \/ j < Len(L)) /\ old(Len(M)) = Len(L) /\ Len(M) \in 1..Len(M)
    BY <1>4, <1>9 DEF c
  <2>2. h[Len(M)] = f[Len(L)]
    BY <2>1
  <2> HIDE DEF h
  <2> QED
    BY <1>3, <2>1, <2>2 DEF Numbering
<1> HIDE DEF h
<1>10. Numbering(h, M, c, FALSE, pth, lo)
  BY <1>6, <1>7, <1>8, <1>9 DEF Numbering
<1> QED
  BY <1>5, <1>10 DEF Numbered, M, c

\* The gap goes where the first part ends, unless there is none.
LEMMA Relink ==
  ASSUME NEW L, NEW j, NEW j2, NEW linked, NEW linked2, NEW pth, NEW lo,
         Numbered(L, j, linked, pth, lo),
         (linked /\ linked2) \/ (j = 0 /\ j2 = 0 /\ Len(L) \in Nat)
  PROVE  Numbered(L, j2, linked2, pth, lo)
<1>1. PICK f \in [1..Len(L) -> 1..Len(pth)] : Numbering(f, L, j, linked, pth, lo)
  BY DEF Numbered
<1>2. Numbering(f, L, j2, linked2, pth, lo)
  BY <1>1 DEF Numbering
<1> QED
  BY <1>2 DEF Numbered

\* The first of the line is the oldest: what is no newer may wait for it.
LEMMA Newer ==
  ASSUME NEW L, Len(L) \in Nat \ {0}, NEW j, NEW linked, NEW pth, Len(pth) \in Nat,
         NEW lo \in Nat, Numbered(L, j, linked, pth, lo)
  PROVE  \E n \in 1..Len(pth) : lo <= n /\ pth[n] = L[1] /\ Numbered(L, j, linked, pth, n)
<1>1. PICK f \in [1..Len(L) -> 1..Len(pth)] : Numbering(f, L, j, linked, pth, lo)
  BY DEF Numbered
<1>2. 1 \in 1..Len(L) /\ f[1] \in 1..Len(pth)
  BY <1>1
<1>3. lo <= f[1] /\ pth[f[1]] = L[1]
  BY <1>1, <1>2 DEF Numbering
<1>4. Numbering(f, L, j, linked, pth, f[1])
  BY <1>1, <1>2 DEF Numbering
<1> QED
  BY <1>2, <1>3, <1>4 DEF Numbered

\* A longer path shows the same.
LEMMA ShowsKept ==
  ASSUME NEW s, NEW t, NEW m \in Nat, \A n \in 1..m : t[n] = s[n], NEW n \in 1..m, NEW p
  PROVE  Shows(t, n, p) <=> Shows(s, n, p)
<1>1. t[n] = s[n] /\ (n > 1 => t[n - 1] = s[n - 1])
  BY SMT
<1> QED
  BY <1>1 DEF Shows, Jump

\* x of the second report and y of the first make one of the two, or are what the
\* second shows at a jump.
LEMMA Mixed ==
  ASSUME NEW S, NEW a \in S, NEW s \in Seq(S), Len(s) > 0, NEW j \in Nat \ {0},
         NEW linked, j # 1,
         NEW pth \in Seq(Positions), NEW lo \in Nat,
         Numbered(<<a>> \o s, j, linked, pth, lo)
  PROVE  \E n \in 1..Len(pth) :
             lo <= n /\ Shows(pth, n, <<s[1][1], a[2]>>) /\ Numbered(s, j - 1, linked, pth, n)
<1> DEFINE L == <<a>> \o s
<1>0. /\ <<a>> \in Seq(S) /\ Len(<<a>>) = 1 /\ Len(pth) \in Nat /\ Len(s) \in Nat
      /\ Len(L) = 1 + Len(s) /\ L[1] = a /\ L[2] = s[1]
  <2>1. <<a>> \in Seq(S) /\ Len(<<a>>) = 1 /\ <<a>>[1] = a
    OBVIOUS
  <2>2. /\ Len(L) = 1 + Len(s)
        /\ \A i \in 1..(1 + Len(s)) : L[i] = IF i <= 1 THEN <<a>>[i] ELSE s[i - 1]
    BY <2>1, ConcatProperties
  <2>3. Len(pth) \in Nat /\ Len(s) \in Nat
    BY LenProperties
  <2>4. 1 \in 1..(1 + Len(s)) /\ 2 \in 1..(1 + Len(s)) /\ ~(2 <= 1) /\ 2 - 1 = 1 /\ 1 <= 1
    BY <2>3
  <2>5. L[1] = a
    BY <2>1, <2>2, <2>4
  <2>6. L[2] = s[1]
    BY <2>2, <2>4
  <2> QED
    BY <2>1, <2>2, <2>3, <2>5, <2>6
<1>1. PICK f \in [1..Len(L) -> 1..Len(pth)] : Numbering(f, L, j, linked, pth, lo)
  BY DEF Numbered
<1> HIDE DEF L
<1>2. 1 \in 1..Len(L) /\ 2 \in 1..Len(L) /\ 1 \in 1..(Len(L) - 1)
  BY <1>0
<1>3. /\ f[1] \in 1..Len(pth) /\ f[2] \in 1..Len(pth) /\ lo <= f[1] /\ f[1] <= f[2]
      /\ pth[f[1]] = a /\ pth[f[2]] = s[1]
  <2>1. f[1] \in 1..Len(pth) /\ f[2] \in 1..Len(pth)
    BY <1>1, <1>2
  <2>2. lo <= f[1] /\ pth[f[1]] = L[1] /\ pth[f[2]] = L[2]
    BY <1>1, <1>2 DEF Numbering
  <2>3. f[1] <= f[2]
    BY <1>1, <1>2 DEF Numbering
  <2> QED
    BY <1>0, <2>1, <2>2, <2>3
<1>4. f[2] <= f[1] + 1
  <2>1. f[1 + 1] <= f[1] + 1
    BY <1>1, <1>2 DEF Numbering
  <2> QED
    BY <2>1
<1>5. PICK n \in {f[1], f[2]} : Shows(pth, n, <<s[1][1], a[2]>>)
  <2>1. s[1] = <<s[1][1], s[1][2]>> /\ a = <<a[1], a[2]>>
    <3>1. a \in Positions /\ s[1] \in Positions
      BY <1>3, LenProperties
    <3> QED
      BY <3>1 DEF Positions
  <2>2. CASE f[2] = f[1]
    BY <1>3, <2>1, <2>2 DEF Shows
  <2>3. CASE f[2] = f[1] + 1
    <3>1. CASE s[1][1] = a[1] \/ s[1][2] = a[2]
      BY <1>3, <2>1, <3>1 DEF Shows
    <3>2. CASE s[1][1] # a[1] /\ s[1][2] # a[2]
      <4>1. f[2] > 1 /\ f[2] - 1 = f[1]
        BY <1>0, <1>3, <2>3
      <4> QED
        BY <1>3, <3>2, <4>1 DEF Shows, Jump
    <3> QED
      BY <3>1, <3>2
  <2> QED
    BY <1>0, <1>3, <1>4, <2>2, <2>3
<1>6. n \in 1..Len(pth) /\ lo <= n /\ f[1] <= n /\ n <= f[2]
  BY <1>0, <1>3, <1>5
<1>7. Numbered(s, j - 1, linked, pth, n)
  <2> DEFINE h == [i \in 1..Len(s) |-> f[i + 1]]
  <2>1. \A i \in 1..Len(s) : i + 1 \in 1..Len(L) /\ L[i + 1] = s[i]
    <3>1. \A i \in 1..(1 + Len(s)) : L[i] = IF i <= 1 THEN <<a>>[i] ELSE s[i - 1]
      BY <1>0, ConcatProperties DEF L
    <3>2. ASSUME NEW i \in 1..Len(s) PROVE i + 1 \in 1..Len(L) /\ L[i + 1] = s[i]
      <4>1. /\ i + 1 \in 1..Len(L) /\ i + 1 \in 1..(1 + Len(s))
            /\ ~(i + 1 <= 1) /\ (i + 1) - 1 = i
        BY <1>0
      <4> QED
        BY <3>1, <4>1
    <3> QED
      BY <3>2
  <2>2. h \in [1..Len(s) -> 1..Len(pth)]
    BY <1>1, <2>1
  <2>3. ASSUME NEW i \in 1..Len(s) PROVE pth[h[i]] = s[i] /\ n <= h[i]
    <3>1. 2 <= i + 1 /\ i + 1 \in 1..Len(L)
      BY <1>0, <2>1
    <3>2. f[2] <= f[i + 1] /\ pth[f[i + 1]] = L[i + 1]
      BY <1>1, <1>2, <3>1 DEF Numbering
    <3>3. f[i + 1] \in 1..Len(pth)
      BY <1>1, <3>1
    <3>4. n <= f[i + 1]
      BY <1>0, <1>3, <1>6, <3>2, <3>3
    <3> QED
      BY <2>1, <3>2, <3>4
  <2>4. ASSUME NEW i1 \in 1..Len(s), NEW i2 \in 1..Len(s), i1 <= i2 PROVE h[i1] <= h[i2]
    <3>1. i1 + 1 \in 1..Len(L) /\ i2 + 1 \in 1..Len(L) /\ i1 + 1 <= i2 + 1
      BY <1>0, <2>1, <2>4
    <3>2. f[i1 + 1] <= f[i2 + 1]
      BY <1>1, <3>1 DEF Numbering
    <3> QED
      BY <3>2
  <2>5. ASSUME NEW i \in 1..(Len(s) - 1), i # j - 1 \/ linked PROVE h[i + 1] <= h[i] + 1
    <3>0. i + 1 # j \/ linked
      BY <2>5
    <3>1. /\ i + 1 \in 1..(Len(L) - 1)
          /\ i \in 1..Len(s) /\ i + 1 \in 1..Len(s)
      BY <1>0
    <3>2. f[(i + 1) + 1] <= f[i + 1] + 1
      BY <1>1, <3>0, <3>1 DEF Numbering
    <3> QED
      BY <3>1, <3>2
  <2>6. ASSUME linked \/ j - 1 < Len(s) PROVE h[Len(s)] = Len(pth)
    <3>1. Len(L) > 0 /\ (linked \/ j < Len(L)) /\ Len(L) = Len(s) + 1 /\ Len(s) \in 1..Len(s)
      BY <1>0, <2>6
    <3>2. f[Len(L)] = Len(pth)
      BY <1>1, <3>1 DEF Numbering
    <3> QED
      BY <3>1, <3>2
  <2> HIDE DEF h
  <2>7. Numbering(h, s, j - 1, linked, pth, n)
    BY <2>3, <2>4, <2>5, <2>6 DEF Numbering
  <2> QED
    BY <2>2, <2>7 DEF Numbered
<1> QED
  BY <1>5, <1>6, <1>7

\* A report of the robot's present position at the end of the line.
LEMMA Reported ==
  ASSUME NEW L \in Seq(Positions), NEW p \in Positions, NEW j \in Nat, j <= Len(L),
         NEW linked \in BOOLEAN, NEW pth \in Seq(Positions), NEW pth2 \in Seq(Positions),
         NEW lo \in Nat, lo <= Len(pth), Len(pth) > 0, Numbered(L, j, linked, pth, lo),
         pth2 = pth \/ pth2 = Append(pth, p), pth2[Len(pth2)] = p
  PROVE  Numbered(Append(L, p), j, linked, pth2, lo)
<1> DEFINE M == Append(L, p)
<1>0. /\ Len(L) \in Nat /\ Len(pth) \in Nat /\ Len(pth2) \in Nat /\ Len(M) = Len(L) + 1
      /\ \A i \in 1..Len(L) : M[i] = L[i]
      /\ M[Len(L) + 1] = p
      /\ Len(pth2) \in {Len(pth), Len(pth) + 1}
      /\ \A n \in 1..Len(pth) : pth2[n] = pth[n]
  BY LenProperties, AppendProperties
<1>1. PICK f \in [1..Len(L) -> 1..Len(pth)] : Numbering(f, L, j, linked, pth, lo)
  BY DEF Numbered
<1> DEFINE h == [i \in 1..Len(M) |-> IF i <= Len(L) THEN f[i] ELSE Len(pth2)]
<1> HIDE DEF M
<1>2. h \in [1..Len(M) -> 1..Len(pth2)]
  <2>1. ASSUME NEW i \in 1..Len(M) PROVE h[i] \in 1..Len(pth2)
    <3>1. CASE i <= Len(L)
      <4>1. f[i] \in 1..Len(pth) /\ h[i] = f[i]
        BY <1>0, <1>1, <3>1
      <4> QED
        BY <1>0, <4>1
    <3>2. CASE ~(i <= Len(L))
      <4>1. h[i] = Len(pth2)
        BY <3>2
      <4> QED
        BY <1>0, <4>1
    <3> QED
      BY <3>1, <3>2
  <2> QED
    BY <2>1
<1>3. /\ \A i \in 1..Len(L) : i \in 1..Len(M) /\ h[i] = f[i] /\ f[i] \in 1..Len(pth)
      /\ Len(M) \in 1..Len(M) /\ h[Len(M)] = Len(pth2)
      /\ \A i \in 1..Len(M) : i \in 1..Len(L) \/ i = Len(M)
  <2>1. ASSUME NEW i \in 1..Len(L)
        PROVE  i \in 1..Len(M) /\ h[i] = f[i] /\ f[i] \in 1..Len(pth)
    <3>1. i \in 1..Len(M) /\ i <= Len(L)
      BY <1>0
    <3> QED
      BY <1>1, <3>1
  <2>2. Len(M) \in 1..Len(M) /\ ~(Len(M) <= Len(L))
    BY <1>0
  <2>3. h[Len(M)] = Len(pth2)
    BY <2>2
  <2>4. \A i \in 1..Len(M) : i \in 1..Len(L) \/ i = Len(M)
    BY <1>0
  <2> QED
    BY <2>1, <2>2, <2>3, <2>4
<1> HIDE DEF h
<1>4. ASSUME NEW i \in 1..Len(M) PROVE pth2[h[i]] = M[i] /\ lo <= h[i]
  <2>1. CASE i \in 1..Len(L)
    BY <1>0, <1>1, <1>3, <2>1 DEF Numbering
  <2>2. CASE i = Len(M)
    BY <1>0, <1>3, <2>2
  <2> QED
    BY <1>3, <2>1, <2>2
<1>5. ASSUME NEW i1 \in 1..Len(M), NEW i2 \in 1..Len(M), i1 <= i2 PROVE h[i1] <= h[i2]
  <2>1. CASE i2 \in 1..Len(L)
    <3>1. i1 \in 1..Len(L)
      BY <1>0, <1>5, <2>1
    <3> QED
      BY <1>1, <1>3, <1>5, <2>1, <3>1 DEF Numbering
  <2>2. CASE i2 = Len(M)
    <3>1. h[i1] \in 1..Len(pth2) /\ h[i2] = Len(pth2)
      BY <1>2, <1>3, <2>2
    <3> QED
      BY <1>0, <3>1
  <2> QED
    BY <1>3, <2>1, <2>2
<1>6. ASSUME NEW i \in 1..(Len(M) - 1), i # j \/ linked PROVE h[i + 1] <= h[i] + 1
  <2>1. CASE i \in 1..(Len(L) - 1)
    <3>1. i \in 1..Len(L) /\ i + 1 \in 1..Len(L)
      BY <1>0, <2>1
    <3>2. f[i + 1] <= f[i] + 1
      BY <1>1, <1>6, <2>1 DEF Numbering
    <3> QED
      BY <1>3, <3>1, <3>2
  <2>2. CASE i = Len(L)
    <3>1. Len(L) > 0 /\ (linked \/ j < Len(L)) /\ i \in 1..Len(L) /\ i + 1 = Len(M)
      BY <1>0, <1>6, <2>2
    <3>2. f[Len(L)] = Len(pth)
      BY <1>1, <3>1 DEF Numbering
    <3>3. h[i] = Len(pth) /\ h[i + 1] = Len(pth2)
      BY <1>3, <2>2, <3>1, <3>2
    <3> QED
      BY <1>0, <3>3
  <2> QED
    BY <1>0, <2>1, <2>2
<1>7. Numbering(h, M, j, linked, pth2, lo)
  BY <1>3, <1>4, <1>5, <1>6 DEF Numbering
<1> QED
  BY <1>2, <1>7 DEF Numbered, M

----------------------------------------------------------------------------
(* What the page finds                                                       *)

LEMMA Least ==
  ASSUME NEW T, T \subseteq Nat, T # {}
  PROVE  Min(T) \in T /\ \A n \in T : Min(T) <= n
<1>1. IsWellFoundedOn(OpToRel(<, Nat), Nat)
  BY NatLessThanWellFounded
<1>2. PICK m \in T : \A n \in T : ~(<<n, m>> \in OpToRel(<, Nat))
  BY <1>1, WFMin
<1>3. \A n \in T : m <= n
  <2>1. ASSUME NEW n \in T PROVE m <= n
    <3>1. n \in Nat /\ m \in Nat
      BY <1>2, <2>1
    <3>2. <<n, m>> \notin OpToRel(<, Nat)
      BY <1>2, <2>1
    <3>3. ~(n < m)
      BY <3>1, <3>2 DEF OpToRel
    <3> QED
      BY <3>1, <3>3
  <2> QED
    BY <2>1
<1> QED
  BY <1>2, <1>3 DEF Min

\* The report found is the first from m on that shows the position.
LEMMA FoundFirst ==
  ASSUME path \in Seq(Positions), NEW m \in Nat, NEW p
  PROVE  /\ Found(m, p) \in 0..Len(path)
         /\ \A n \in 1..Len(path) : 0 < m /\ m <= n /\ Shows(path, n, p) =>
                /\ Found(m, p) # 0 /\ m <= Found(m, p) /\ Found(m, p) <= n
<1> DEFINE all == {k \in DOMAIN path : k >= m /\ Shows(path, k, p)}
<1>0. DOMAIN path = 1..Len(path) /\ Len(path) \in Nat
  BY LenProperties
<1>1. CASE m = 0 \/ all = {}
  <2>1. Found(m, p) = 0
    BY <1>1 DEF Found
  <2>2. ~ \E n \in 1..Len(path) : 0 < m /\ m <= n /\ Shows(path, n, p)
    BY <1>0, <1>1
  <2> QED
    BY <1>0, <2>1, <2>2
<1>2. CASE m # 0 /\ all # {}
  <2>1. Found(m, p) = Min(all)
    BY <1>2 DEF Found
  <2>2. Min(all) \in all /\ \A n \in all : Min(all) <= n
    <3>1. all \subseteq Nat
      BY <1>0
    <3> HIDE DEF all
    <3> QED
      BY <1>2, <3>1, Least
  <2>3. Min(all) \in 1..Len(path) /\ m <= Min(all)
    BY <1>0, <2>2
  <2>4. ASSUME NEW n \in 1..Len(path), m <= n, Shows(path, n, p) PROVE Min(all) <= n
    <3>1. n \in all
      BY <1>0, <2>4
    <3> QED
      BY <2>2, <3>1
  <2>5. Min(all) \in 0..Len(path) /\ Min(all) # 0
    BY <1>0, <2>3
  <2> HIDE DEF all
  <2> QED
    BY <2>1, <2>3, <2>4, <2>5
<1> QED
  BY <1>1, <1>2

----------------------------------------------------------------------------
(* Types                                                                     *)

LEMMA NoneIsNone == None \notin Coords /\ Start \in Positions /\ Unset \in Fields
  BY DEF None, Coords, Start, Positions, Unset, Fields

LEMMA WholeFields == ASSUME NEW p \in Positions PROVE Whole(p) \in Fields
  BY DEF Whole, Fields, Positions

LEMMA InitTypes == Init => Types
<1> SUFFICES ASSUME Init PROVE Types
  OBVIOUS
<1>1. path \in Seq(Positions) /\ Len(path) = 1
  BY NoneIsNone DEF Init
<1>2. TypeOK
  <2>1. seen \in 0..Len(path)
    BY <1>1 DEF Init
  <2>2. /\ tx \in Seq(Positions) /\ Len(tx) <= TxCap /\ net \in Seq(Positions) /\ Len(net) <= NetCap
        /\ pipe \in Seq(Fields) /\ Len(pipe) <= PipeCap /\ waiting \in 0..WaitCap
    BY DEF Init
  <2> QED
    BY <1>1, <2>1, <2>2, NoneIsNone DEF Init, TypeOK, Ends
<1> QED
  BY <1>1, <1>2 DEF Types

\* The head of a line of reports, and the rest.
LEMMA HeadOf ==
  ASSUME NEW S, NEW s \in Seq(S), s # << >>
  PROVE  /\ Head(s) \in S /\ Tail(s) \in Seq(S) /\ Len(Tail(s)) = Len(s) - 1 /\ Len(s) \in Nat \ {0}
         /\ Head(s) = s[1] /\ s = <<Head(s)>> \o Tail(s)
         /\ \A i \in 1..Len(Tail(s)) : Tail(s)[i] = s[i + 1]
<1>1. /\ Head(s) \in S /\ Tail(s) \in Seq(S) /\ Len(Tail(s)) = Len(s) - 1 /\ Len(s) \in Nat \ {0}
      /\ \A i \in 1..Len(Tail(s)) : Tail(s)[i] = s[i + 1]
  BY HeadTailProperties, EmptySeq
<1>2. Head(s) = s[1]
  OBVIOUS
<1>3. /\ <<Head(s)>> \in Seq(S) /\ Len(<<Head(s)>>) = 1 /\ <<Head(s)>>[1] = Head(s)
  BY <1>1
<1>4. /\ <<Head(s)>> \o Tail(s) \in Seq(S) /\ Len(<<Head(s)>> \o Tail(s)) = Len(s)
      /\ \A i \in 1..Len(s) : (<<Head(s)>> \o Tail(s))[i] = IF i <= 1 THEN <<Head(s)>>[i] ELSE Tail(s)[i - 1]
  <2>1. /\ <<Head(s)>> \o Tail(s) \in Seq(S)
        /\ Len(<<Head(s)>> \o Tail(s)) = 1 + Len(Tail(s))
        /\ \A i \in 1..(1 + Len(Tail(s))) :
             (<<Head(s)>> \o Tail(s))[i] = IF i <= 1 THEN <<Head(s)>>[i] ELSE Tail(s)[i - 1]
    BY <1>1, <1>3, ConcatProperties
  <2>2. 1 + Len(Tail(s)) = Len(s)
    BY <1>1
  <2> QED
    BY <2>1, <2>2
<1>5. \A i \in 1..Len(s) : s[i] = (<<Head(s)>> \o Tail(s))[i]
  <2>1. ASSUME NEW i \in 1..Len(s) PROVE s[i] = (<<Head(s)>> \o Tail(s))[i]
    <3>1. CASE i = 1
      BY <1>2, <1>3, <1>4, <3>1
    <3>2. CASE i # 1
      <4>1. i - 1 \in 1..Len(Tail(s)) /\ (i - 1) + 1 = i /\ ~(i <= 1)
        BY <1>1, <3>2
      <4>2. Tail(s)[i - 1] = s[(i - 1) + 1]
        BY <1>1, <4>1
      <4> QED
        BY <1>4, <4>1, <4>2
    <3> QED
      BY <3>1, <3>2
  <2> QED
    BY <2>1
<1>6. s = <<Head(s)>> \o Tail(s)
  BY <1>4, <1>5, SeqEqual
<1> QED
  BY <1>1, <1>2, <1>6

LEMMA LastPosition ==
  ASSUME Types PROVE Len(path) \in Nat \ {0} /\ Last(path) = path[Len(path)] /\ Last(path) \in Positions
  BY LenProperties DEF Types, TypeOK, Last

\* The robot's part of the line, and the path behind it.
LEMMA RobotTypes ==
  ASSUME Types, Report \/ SensorReads \/ SensorPuts \/ Get \/ Send \/ SendNowhere
  PROVE  Types'
<1>0. Len(path) \in Nat \ {0} /\ Last(path) = path[Len(path)] /\ Last(path) \in Positions
  BY LastPosition
<1>1. CASE Report
  <2>1. PICK p \in Positions :
          tx' = Append(tx, p) /\ path' = Append(path, p)
    BY <1>1 DEF Report
  <2>2. /\ path' \in Seq(Positions) /\ Len(path') = Len(path) + 1
        /\ \A i \in 1..Len(path) : path'[i] = path[i]
        /\ path'[Len(path) + 1] = p
    BY <2>1, AppendProperties DEF Types, TypeOK
  <2>3. tx' \in Seq(Positions) /\ Len(tx') <= TxCap
    <3>1. Len(tx) \in Nat /\ Len(tx) < TxCap /\ Len(tx') = Len(tx) + 1 /\ tx' \in Seq(Positions)
      BY <1>1, <2>1, AppendProperties, LenProperties DEF Types, TypeOK, Report
    <3> QED
      BY <3>1
  <2>4. Len(path') > 0
    BY <1>0, <2>2
  <2>5. seen' \in 0..Len(path')
    BY <1>0, <1>1, <2>2 DEF Report, page, Types, TypeOK
  <2> QED
    BY <1>1, <2>2, <2>3, <2>4, <2>5 DEF Report, Types, TypeOK, sensing, link, reader, page
<1>2. CASE SensorReads
  BY <1>0, <1>2 DEF SensorReads, Types, TypeOK, link, reader, page
<1>3. CASE SensorPuts
  <2>1. tx' \in Seq(Positions) /\ Len(tx') <= TxCap
    <3>1. /\ Len(tx) \in Nat /\ Len(tx) < TxCap /\ Len(tx') = Len(tx) + 1 /\ tx' \in Seq(Positions)
      BY <1>3, AppendProperties, LenProperties DEF Types, TypeOK, SensorPuts
    <3> QED
      BY <3>1
  <2>2. stale' \in BOOLEAN
    BY <1>3, Zenon DEF SensorPuts, Types, TypeOK
  <2>3. seen' \in 0..Len(path)
    BY <1>0, <1>3 DEF SensorPuts, Types, TypeOK
  <2> QED
    BY <1>3, <2>1, <2>2, <2>3, NoneIsNone DEF SensorPuts, Types, TypeOK, link, reader, page
<1>4. CASE Get
  <2>1. tx' \in Seq(Positions) /\ Len(tx') <= TxCap /\ out_pdu' \in Positions
    <3>1. tx \in Seq(Positions) /\ tx # << >> /\ Len(tx) <= TxCap
      BY <1>4 DEF Get, Types, TypeOK
    <3>2. Head(tx) \in Positions /\ Tail(tx) \in Seq(Positions) /\ Len(Tail(tx)) = Len(tx) - 1 /\ Len(tx) \in Nat
      BY <3>1, HeadOf
    <3> QED
      BY <1>4, <3>1, <3>2 DEF Get
  <2> QED
    BY <1>4, <2>1 DEF Get, Types, TypeOK, sensing, link, reader, page
<1>5. CASE Send
  <2>1. net' \in Seq(Positions) /\ Len(net') <= NetCap
    <3>1. Len(net) \in Nat /\ Len(net) < NetCap /\ Len(net') = Len(net) + 1 /\ net' \in Seq(Positions)
      BY <1>5, AppendProperties, LenProperties DEF Types, TypeOK, Send
    <3> QED
      BY <3>1
  <2> QED
    BY <1>5, <2>1, NoneIsNone DEF Send, Types, TypeOK, sensing, reader, page
<1>6. CASE SendNowhere
  BY <1>6, NoneIsNone DEF SendNowhere, Types, TypeOK, sensing, link, reader, page
<1> QED
  BY <1>1, <1>2, <1>3, <1>4, <1>5, <1>6

LEMMA LinkTypes == ASSUME Types, Accept \/ Break PROVE Types'
<1>1. CASE Accept
  <2>1. resumed' \in BOOLEAN
    BY <1>1, Zenon DEF Accept
  <2>2. net' \in Seq(Positions) /\ Len(net') <= NetCap
    BY <1>1 DEF Accept
  <2>3. seen' \in 0..Len(path)
    BY <1>1, LenProperties DEF Accept, Types, TypeOK
  <2> QED
    BY <1>1, <2>1, <2>2, <2>3, NoneIsNone DEF Accept, Types, TypeOK, Ends, sensing, page
<1>2. CASE Break
  <2>0. net \in Seq(Positions) /\ Len(net) \in Nat /\ Len(net) <= NetCap
    BY LenProperties DEF Types, TypeOK
  <2>1. PICK n \in 0..Len(net) :
         /\ net' = SubSeq(net, 1, n)
         /\ end' \in IF n < Len(net) THEN Ends ELSE {"close", "none"}
         /\ part' = IF end' \in {"x", "y", "msg"} THEN net[n + 1] ELSE Start
    BY <1>2 DEF Break
  <2>2. \A i \in 1..n : net[i] \in Positions
    BY <2>0, LenProperties
  <2>3. net' \in Seq(Positions) /\ Len(net') = n
    BY <2>0, <2>1, <2>2, SubSeqProperties
  <2>4. end' \in Ends /\ part' \in Positions
    <3>1. CASE n < Len(net)
      <4>1. n + 1 \in 1..Len(net) /\ net[n + 1] \in Positions
        BY <2>0, <3>1, LenProperties
      <4> QED
        BY <2>1, <3>1, <4>1, NoneIsNone
    <3>2. CASE ~(n < Len(net))
      BY <2>1, <3>2, NoneIsNone DEF Ends
    <3> QED
      BY <3>1, <3>2
  <2>5. Len(net') <= NetCap
    BY <2>0, <2>1, <2>3
  <2> QED
    BY <1>2, <2>3, <2>4, <2>5 DEF Break, Types, TypeOK, robot, sensing, reader, page
<1> QED
  BY <1>1, <1>2

\* What get_buff assigns are coordinates.
LEMMA ReaderTypes ==
  ASSUME Types,
         ParseX \/ ParseY \/ Put \/ Hang \/ Resume \/ LastPart \/ PutForEver \/ Restart
  PROVE  Types'
<1>0. /\ net \in Seq(Positions) /\ rx_pdu \in Fields /\ frame \in Positions /\ part \in Positions
      /\ part[1] \in Coords /\ waiting \in 0..WaitCap
  BY DEF Types, TypeOK, Positions
<1>1. CASE ParseX
  <2>1. /\ Head(net) \in Positions /\ Tail(net) \in Seq(Positions)
        /\ Len(Tail(net)) = Len(net) - 1 /\ Len(net) \in Nat
    BY <1>0, <1>1, HeadOf DEF ParseX
  <2>2. Head(net)[1] \in Coords
    BY <2>1 DEF Positions
  <2>3. rx_pdu' \in Fields
    BY <1>0, <1>1, <2>2 DEF ParseX, Fields
  <2>4. Len(net') <= NetCap
    BY <1>1, <2>1 DEF ParseX, Types, TypeOK
  <2> QED
    BY <1>1, <2>1, <2>3, <2>4 DEF ParseX, Types, TypeOK, robot, sensing, page
<1>2. CASE ParseY
  BY <1>0, <1>2, WholeFields, NoneIsNone DEF ParseY, Types, TypeOK, robot, sensing, link, page
<1>3. CASE Put \/ PutForEver
  <2>1. waiting' \in 0..WaitCap
    BY <1>0, <1>3 DEF Put, PutForEver
  <2> QED
    BY <1>3, <2>1 DEF Put, PutForEver, Types, TypeOK, robot, sensing, link, reader, page
<1>4. CASE Hang
  BY <1>4 DEF Hang, Types, TypeOK, robot, sensing, link, page
<1>5. CASE Resume
  <2>1. rx_pdu' \in Fields
    <3>1. rx_pdu' \in {rx_pdu, [rx_pdu EXCEPT !.cmd = TRUE],
                       [rx_pdu EXCEPT !.cmd = TRUE, !.x = part[1]], Whole(part)}
      BY <1>5 DEF Resume
    <3>2. [rx_pdu EXCEPT !.cmd = TRUE] \in Fields
      BY <1>0 DEF Fields
    <3>3. [rx_pdu EXCEPT !.cmd = TRUE, !.x = part[1]] \in Fields
      BY <1>0 DEF Fields
    <3> QED
      BY <1>0, <3>1, <3>2, <3>3, WholeFields
  <2> QED
    BY <1>5, <2>1 DEF Resume, Types, TypeOK, robot, sensing, link, page
<1>6. CASE LastPart
  <2>1. rx_pdu' \in Fields
    BY <1>0, <1>6 DEF LastPart, Fields
  <2> QED
    BY <1>0, <1>6, <2>1, NoneIsNone DEF LastPart, Types, TypeOK, robot, sensing, page, Ends
<1>7. CASE Restart
  <2>1. seen' \in 0..Len(path')
    <3>1. Len(path) \in Nat \ {0}
      BY LastPosition
    <3> QED
      BY <1>7, <3>1 DEF Restart, Types, TypeOK
  <2>2. waiting' \in 0..WaitCap /\ pipe' \in Seq(Fields) /\ Len(pipe') <= PipeCap
    BY <1>7 DEF Restart
  <2> QED
    BY <1>7, <2>1, <2>2, NoneIsNone DEF Restart, Types, TypeOK, robot, sensing, link
<1> QED
  BY <1>1, <1>2, <1>3, <1>4, <1>5, <1>6, <1>7

LEMMA PageTypes == ASSUME Types, Feed \/ Show \/ Reopen PROVE Types'
<1>0. pipe \in Seq(Fields) /\ Len(pipe) \in Nat /\ Len(pipe) <= PipeCap /\ path \in Seq(Positions)
  BY LenProperties DEF Types, TypeOK
<1>1. CASE Feed
  <2>1. pipe' \in Seq(Fields) /\ Len(pipe') = Len(pipe) + 1
    BY <1>0, <1>1, AppendProperties DEF Feed, Types, TypeOK
  <2>2. Len(pipe') <= PipeCap
    BY <1>0, <1>1, <2>1 DEF Feed
  <2>3. waiting' \in 0..WaitCap
    BY <1>1 DEF Feed, Types, TypeOK
  <2> QED
    BY <1>1, <2>1, <2>2, <2>3 DEF Feed, Types, TypeOK, robot, sensing, link, reader, page
<1>2. CASE Show
  <2>1. /\ Head(pipe) \in Fields /\ Tail(pipe) \in Seq(Fields) /\ Len(Tail(pipe)) = Len(pipe) - 1
    BY <1>0, <1>2, HeadOf DEF Show
  <2>2. Len(pipe') <= PipeCap /\ pipe' \in Seq(Fields)
    BY <1>0, <1>2, <2>1 DEF Show
  <2>3. wheelson_pos' \in Positions /\ seen' \in 0..Len(path) /\ session' \in BOOLEAN
    <3>1. CASE UNCHANGED page
      BY <3>1 DEF page, Types, TypeOK
    <3>2. CASE session' = FALSE /\ UNCHANGED <<wheelson_pos, seen>>
      BY <3>2 DEF Types, TypeOK
    <3>3. CASE /\ None \notin {Head(pipe).x, Head(pipe).y}
               /\ wheelson_pos' = <<Head(pipe).x, Head(pipe).y>>
               /\ seen' = Found(seen, wheelson_pos') /\ UNCHANGED session
      <4>1. wheelson_pos' \in Positions
        BY <2>1, <3>3 DEF Fields, Positions
      <4>2. seen \in Nat
        BY <1>0, LenProperties DEF Types, TypeOK
      <4>3. seen' \in 0..Len(path)
        BY <1>0, <3>3, <4>2, FoundFirst
      <4> QED
        BY <3>3, <4>1, <4>3 DEF Types, TypeOK
    <3> QED
      BY <1>2, <3>1, <3>2, <3>3 DEF Show
  <2> QED
    BY <1>2, <2>2, <2>3 DEF Show, Types, TypeOK, robot, sensing, link, reader
<1>3. CASE Reopen
  BY <1>3 DEF Reopen, Types, TypeOK, robot, sensing, link, reader
<1> QED
  BY <1>1, <1>2, <1>3

LEMMA NextTypes == Types /\ [Next]_vars => Types'
<1> SUFFICES ASSUME Types, [Next]_vars PROVE Types'
  OBVIOUS
<1>1. CASE Report \/ SensorReads \/ SensorPuts \/ Get \/ Send \/ SendNowhere
  BY <1>1, RobotTypes
<1>2. CASE Accept \/ Break
  BY <1>2, LinkTypes
<1>3. CASE ParseX \/ ParseY \/ Put \/ Hang \/ Resume \/ LastPart \/ PutForEver \/ Restart
  BY <1>3, ReaderTypes
<1>4. CASE Feed \/ Show \/ Reopen
  BY <1>4, PageTypes
<1>5. CASE UNCHANGED vars
  BY <1>5 DEF vars, Types, TypeOK
<1> QED
  BY <1>1, <1>2, <1>3, <1>4, <1>5 DEF Next

----------------------------------------------------------------------------
(* Places and whole reports                                                  *)

LEMMA WholeProper ==
  ASSUME NEW p \in Positions
  PROVE  /\ Proper(Whole(p)) /\ Whole(p) # Unset /\ Pos(Whole(p)) = p
         /\ Whole(p).cmd /\ Whole(p).x = p[1] /\ Whole(p).y = p[2]
<1>1. p[1] # None /\ p[2] # None /\ p = <<p[1], p[2]>>
  BY NoneIsNone DEF Positions
<1> QED
  BY <1>1 DEF Proper, Whole, Unset, Pos, None

LEMMA UnsetEmpty == ~Unset.cmd /\ ~Proper(Unset)
  BY DEF Unset, Proper

\* get_buff assigns cmd and x of a report, and later y.
LEMMA ParsedX ==
  ASSUME NEW pdu \in Fields, NEW p \in Positions
  PROVE  \A new : new = [pdu EXCEPT !.cmd = TRUE, !.x = p[1]] =>
             /\ new.cmd /\ new.x = p[1] /\ new.y = pdu.y /\ new # Unset
             /\ Proper(pdu) => Proper(new) /\ Pos(new) = <<p[1], pdu.y>>
             /\ Proper(new) => pdu.y # None
<1> TAKE new
<1> HAVE new = [pdu EXCEPT !.cmd = TRUE, !.x = p[1]]
<1>1. new.cmd = TRUE /\ new.x = p[1] /\ new.y = pdu.y
  BY DEF Fields
<1>2. p[1] # None
  BY NoneIsNone DEF Positions
<1>3. new # Unset
  BY <1>1, UnsetEmpty
<1> QED
  BY <1>1, <1>2, <1>3 DEF Proper, Pos

LEMMA ResumedPdu ==
  ASSUME Types, Resume
  PROVE  \/ end = "magic" /\ rx_pdu' = rx_pdu
         \/ end = "cmd" /\ rx_pdu' = [rx_pdu EXCEPT !.cmd = TRUE]
         \/ end = "x" /\ rx_pdu' = [rx_pdu EXCEPT !.cmd = TRUE, !.x = part[1]]
         \/ end = "y" /\ rx_pdu' = Whole(part)
  BY DEF Resume

LEMMA InitLink == Init => LinkOK /\ SessionOK
  BY DEF Init, LinkOK, SessionOK, Starved

\* What the robot does changes no place of the application.
LEMMA RobotLink ==
  ASSUME LinkOK, SessionOK, Report \/ SensorReads \/ SensorPuts \/ Get \/ Send \/ SendNowhere
  PROVE  LinkOK' /\ SessionOK'
<1>1. UNCHANGED <<client, rx_pdu, frame, waiting, pipe, session, resumed, up, end>>
  BY DEF Report, SensorReads, SensorPuts, Get, Send, SendNowhere, link, reader, page
<1>2. up => server' # "accept"
  BY DEF LinkOK, Report, SensorReads, SensorPuts, Get, Send, SendNowhere
<1>3. ~up => UNCHANGED net
  BY DEF Report, SensorReads, SensorPuts, Get, Send, SendNowhere, link
<1>4. LinkOK'
  BY <1>1, <1>2, <1>3 DEF LinkOK
<1>5. Starved' <=> Starved
  BY <1>1, <1>3 DEF Starved
<1> QED
  BY <1>1, <1>4, <1>5 DEF SessionOK

LEMMA AcceptLink == ASSUME LinkOK, SessionOK, Accept PROVE LinkOK' /\ SessionOK'
<1>1. /\ client = "connect" /\ client' = "recv" /\ server' = "get" /\ up' = TRUE /\ end' = "close"
      /\ UNCHANGED <<rx_pdu, waiting, pipe, session>> /\ (resumed' <=> rx_pdu # Unset)
  BY DEF Accept, page
<1>2. LinkOK'
  BY <1>1 DEF LinkOK
<1>3. ~resumed' => rx_pdu = Unset /\ ~resumed /\ ~Starved
  BY <1>1 DEF LinkOK, Starved
<1>4. SessionOK'
  BY <1>1, <1>3, UnsetEmpty DEF SessionOK
<1> QED
  BY <1>2, <1>4

LEMMA BreakLink == ASSUME LinkOK, SessionOK, Break PROVE LinkOK' /\ SessionOK'
<1>1. /\ up /\ ~up' /\ UNCHANGED <<client, rx_pdu, frame, waiting, pipe, session, resumed>>
  BY DEF Break, reader, page
<1>2. LinkOK'
  BY <1>1 DEF LinkOK
<1>3. ~Starved
  BY <1>1 DEF Starved
<1> QED
  BY <1>1, <1>2, <1>3 DEF SessionOK

\* A report of which cmd and x are read.
LEMMA ParseXLink ==
  ASSUME LinkOK, SessionOK, NEW p \in Positions, rx_pdu \in Fields, ~Starved,
         client = "recv", client' = "y", frame' = p,
         rx_pdu' = [rx_pdu EXCEPT !.cmd = TRUE, !.x = p[1]],
         UNCHANGED <<server, up, waiting, pipe, session, resumed>>, up => end' = "close"
  PROVE  LinkOK' /\ SessionOK'
<1>1. /\ rx_pdu'.cmd /\ rx_pdu'.x = p[1] /\ rx_pdu' # Unset
      /\ Proper(rx_pdu) => Proper(rx_pdu')
  <2>1. rx_pdu'.cmd
    BY ParsedX
  <2>2. rx_pdu'.x = p[1]
    BY ParsedX
  <2>3. rx_pdu' # Unset
    BY ParsedX
  <2>4. Proper(rx_pdu) => Proper(rx_pdu')
    <3>1. rx_pdu'.y = rx_pdu.y /\ p[1] # None
      BY ParsedX, NoneIsNone DEF Positions
    <3> QED
      BY <2>1, <2>2, <3>1 DEF Proper
  <2> QED
    BY <2>1, <2>2, <2>3, <2>4
<1>2. LinkOK'
  BY <1>1 DEF LinkOK
<1>3. SessionOK'
  <2> SUFFICES ASSUME ~resumed PROVE SessionOK'
    BY DEF SessionOK
  <2>1. CASE rx_pdu = Unset
    <3>1. waiting = 0 /\ pipe = << >> /\ session
      BY <2>1, UnsetEmpty DEF SessionOK
    <3> QED
      BY <3>1 DEF SessionOK
  <2>2. CASE rx_pdu # Unset
    <3>1. Proper(rx_pdu) /\ session /\ \A i \in 1..Len(pipe) : Proper(pipe[i])
      BY <2>2 DEF SessionOK
    <3> QED
      BY <1>1, <3>1 DEF SessionOK
  <2> QED
    BY <2>1, <2>2
<1> QED
  BY <1>2, <1>3

LEMMA ReaderLink ==
  ASSUME Types, LinkOK, SessionOK,
         ParseX \/ ParseY \/ Put \/ Hang \/ Resume \/ LastPart \/ PutForEver \/ Restart
  PROVE  LinkOK' /\ SessionOK'
<1>0. /\ net \in Seq(Positions) /\ rx_pdu \in Fields /\ frame \in Positions /\ part \in Positions
      /\ waiting \in Nat
  BY DEF Types, TypeOK
<1>1. CASE ParseX
  <2>1. Head(net) \in Positions /\ net # << >>
    BY <1>0, <1>1, HeadOf DEF ParseX
  <2> QED
    BY <1>0, <1>1, <2>1, ParseXLink DEF ParseX, robot, page, LinkOK, Starved
<1>2. CASE ParseY
  <2>1. /\ rx_pdu' = Whole(frame) /\ client = "y" /\ client' = "put" /\ rx_pdu # Unset
        /\ UNCHANGED <<server, up, net, end, waiting, pipe, session, resumed>>
    BY <1>2, UnsetEmpty DEF ParseY, robot, link, page, LinkOK
  <2>2. Proper(rx_pdu') /\ rx_pdu' # Unset
    BY <1>0, <2>1, WholeProper
  <2>3. LinkOK'
    BY <2>1, <2>2 DEF LinkOK
  <2> QED
    BY <2>1, <2>2, <2>3 DEF SessionOK
<1>3. CASE Put
  <2>1. /\ Proper(rx_pdu) /\ client' = "recv"
        /\ UNCHANGED <<server, up, net, end, rx_pdu, pipe, session, resumed>>
    BY <1>3 DEF Put, robot, link, page, LinkOK
  <2>2. rx_pdu # Unset
    BY <2>1, UnsetEmpty
  <2>3. client = "put"
    BY <1>3 DEF Put
  <2> QED
    BY <2>1, <2>2, <2>3 DEF LinkOK, SessionOK
<1>4. CASE Hang
  <2>1. /\ client = "recv" /\ ~up /\ net = << >> /\ end = "close" /\ client' = "hung"
        /\ UNCHANGED <<server, up, net, end, rx_pdu, frame, waiting, pipe, session, resumed>>
    BY <1>4 DEF Hang, robot, link, page
  <2>2. ~Starved /\ ~Starved'
    BY <2>1 DEF Starved
  <2> QED
    BY <2>1, <2>2 DEF LinkOK, SessionOK
<1>5. CASE Resume
  <2>1. /\ client = "recv" /\ ~up /\ net = << >> /\ end # "none" /\ client' = "connect"
        /\ UNCHANGED <<server, up, net, end, frame, waiting, pipe, session, resumed>>
    BY <1>5 DEF Resume, robot, link, page
  <2>2. ~Starved /\ ~Starved'
    BY <2>1 DEF Starved
  <2>3. /\ rx_pdu # Unset => rx_pdu' # Unset
        /\ Proper(rx_pdu) => Proper(rx_pdu')
    <3>1. CASE rx_pdu' = rx_pdu
      BY <3>1
    <3>2. CASE rx_pdu' = [rx_pdu EXCEPT !.cmd = TRUE]
      <4>1. rx_pdu'.cmd /\ rx_pdu'.x = rx_pdu.x /\ rx_pdu'.y = rx_pdu.y
        BY <1>0, <3>2 DEF Fields
      <4> QED
        BY <4>1, UnsetEmpty DEF Proper
    <3>3. CASE rx_pdu' = [rx_pdu EXCEPT !.cmd = TRUE, !.x = part[1]]
      <4>1. /\ rx_pdu'.cmd /\ rx_pdu' # Unset /\ rx_pdu'.x = part[1] /\ rx_pdu'.y = rx_pdu.y
        BY <1>0, <3>3, ParsedX
      <4>2. part[1] # None
        BY <1>0, NoneIsNone DEF Positions
      <4> QED
        BY <4>1, <4>2 DEF Proper
    <3>4. CASE rx_pdu' = Whole(part)
      BY <1>0, <3>4, WholeProper
    <3> QED
      BY <1>5, <3>1, <3>2, <3>3, <3>4, ResumedPdu
  <2>4. LinkOK'
    BY <2>1, <2>3 DEF LinkOK
  <2>5. ASSUME ~resumed, rx_pdu = Unset PROVE SessionOK'
    <3>1. waiting = 0 /\ pipe = << >> /\ session
      BY <2>2, <2>5, UnsetEmpty DEF SessionOK
    <3> QED
      BY <2>1, <3>1 DEF SessionOK
  <2>6. ASSUME ~resumed, rx_pdu # Unset PROVE SessionOK'
    <3>1. Proper(rx_pdu)
      BY <2>1, <2>6 DEF SessionOK
    <3> QED
      BY <2>1, <2>3, <2>6, <3>1 DEF SessionOK
  <2> QED
    BY <2>1, <2>4, <2>5, <2>6 DEF SessionOK
<1>6. CASE LastPart
  BY <1>0, <1>6, ParseXLink DEF LastPart, robot, page, LinkOK, Starved
<1>7. CASE PutForEver
  <2>1. /\ Starved
        /\ UNCHANGED <<server, up, net, end, client, rx_pdu, frame, pipe, session, resumed>>
    BY <1>7 DEF PutForEver, robot, link, reader, page, Starved
  <2>2. Starved' /\ client = "recv"
    BY <2>1 DEF Starved
  <2>3. LinkOK'
    BY <2>1 DEF LinkOK
  <2> QED
    BY <2>1, <2>2, <2>3 DEF SessionOK
<1>8. CASE Restart
  <2>1. /\ ~up /\ net = << >>
    BY <1>8 DEF Restart, Dead, LinkOK
  <2>2. /\ client' = "connect" /\ rx_pdu' = Unset /\ waiting' = 0 /\ pipe' = << >> /\ session' = TRUE
        /\ resumed' = FALSE /\ UNCHANGED <<up, net>>
    BY <1>8 DEF Restart, robot, link
  <2>3. LinkOK'
    BY <2>1, <2>2 DEF LinkOK
  <2> QED
    BY <2>2, <2>3 DEF SessionOK
<1> QED
  BY <1>1, <1>2, <1>3, <1>4, <1>5, <1>6, <1>7, <1>8

LEMMA PageLink ==
  ASSUME Types, LinkOK, SessionOK, Feed \/ Show \/ Reopen
  PROVE  LinkOK' /\ SessionOK'
<1>0. /\ UNCHANGED <<server, up, net, end, client, rx_pdu, frame, resumed>>
      /\ pipe \in Seq(Fields) /\ Len(pipe) \in Nat /\ waiting \in Nat /\ rx_pdu \in Fields
  BY LenProperties DEF Feed, Show, Reopen, robot, link, reader, Types, TypeOK
<1>1. LinkOK' /\ (Starved' <=> Starved)
  BY <1>0 DEF LinkOK, Starved
<1>2. CASE Feed
  <2>1. waiting > 0 /\ pipe' = Append(pipe, rx_pdu) /\ UNCHANGED session
    BY <1>2 DEF Feed, page
  <2>2. /\ Len(pipe') = Len(pipe) + 1 /\ pipe'[Len(pipe) + 1] = rx_pdu
        /\ \A i \in 1..Len(pipe) : pipe'[i] = pipe[i]
    BY <1>0, <2>1, AppendProperties
  <2>3. ASSUME ~resumed PROVE SessionOK'
    <3>1. Proper(rx_pdu) \/ (rx_pdu = Unset /\ Starved)
      BY <2>1, <2>3 DEF SessionOK
    <3>2. ASSUME NEW i \in 1..Len(pipe')
          PROVE  IF rx_pdu = Unset THEN ~pipe'[i].cmd ELSE Proper(pipe'[i])
      <4>1. i \in 1..Len(pipe) \/ i = Len(pipe) + 1
        BY <1>0, <2>2
      <4>2. CASE i \in 1..Len(pipe)
        BY <2>2, <2>3, <4>2 DEF SessionOK
      <4>3. CASE i = Len(pipe) + 1
        BY <2>2, <3>1, <4>3, UnsetEmpty
      <4> QED
        BY <4>1, <4>2, <4>3
    <3> QED
      BY <1>0, <1>1, <2>1, <2>3, <3>1, <3>2 DEF SessionOK
  <2> QED
    BY <1>0, <1>1, <2>3 DEF SessionOK
<1>3. CASE Show
  <2>1. pipe # << >> /\ pipe' = Tail(pipe) /\ UNCHANGED waiting
    BY <1>3 DEF Show
  <2>2. /\ Len(pipe) > 0 /\ Len(pipe') = Len(pipe) - 1 /\ Head(pipe) = pipe[1]
        /\ \A i \in 1..Len(pipe') : pipe'[i] = pipe[i + 1]
    BY <1>0, <2>1, HeadOf
  <2>3. ASSUME ~resumed PROVE SessionOK'
    <3>1. 1 \in 1..Len(pipe) /\ \A i \in 1..Len(pipe') : i + 1 \in 1..Len(pipe)
      BY <1>0, <2>2
    <3>2. IF rx_pdu = Unset THEN ~Head(pipe).cmd ELSE Proper(Head(pipe))
      BY <2>2, <2>3, <3>1 DEF SessionOK
    <3>3. session'
      <4>1. session
        BY <2>3 DEF SessionOK
      <4> QED
        BY <1>3, <3>2, <4>1 DEF Show, page, Proper
    <3>4. \A i \in 1..Len(pipe') : IF rx_pdu = Unset THEN ~pipe'[i].cmd ELSE Proper(pipe'[i])
      BY <2>2, <2>3, <3>1 DEF SessionOK
    <3>5. Proper(rx_pdu) \/ (rx_pdu = Unset /\ Starved)
      BY <2>1, <2>3 DEF SessionOK
    <3> QED
      BY <1>0, <1>1, <2>1, <2>3, <3>3, <3>4, <3>5 DEF SessionOK
  <2> QED
    BY <1>0, <1>1, <2>3 DEF SessionOK
<1>4. CASE Reopen
  BY <1>0, <1>1, <1>4 DEF Reopen, SessionOK
<1> QED
  BY <1>2, <1>3, <1>4

LEMMA NextLink == Types /\ LinkOK /\ SessionOK /\ [Next]_vars => LinkOK' /\ SessionOK'
<1> SUFFICES ASSUME Types, LinkOK, SessionOK, [Next]_vars PROVE LinkOK' /\ SessionOK'
  OBVIOUS
<1>1. CASE Report \/ SensorReads \/ SensorPuts \/ Get \/ Send \/ SendNowhere
  BY <1>1, RobotLink
<1>2. CASE Accept \/ Break
  BY <1>2, AcceptLink, BreakLink
<1>3. CASE ParseX \/ ParseY \/ Put \/ Hang \/ Resume \/ LastPart \/ PutForEver \/ Restart
  BY <1>3, ReaderLink
<1>4. CASE Feed \/ Show \/ Reopen
  BY <1>4, PageLink
<1>5. CASE UNCHANGED vars
  BY <1>5 DEF vars, LinkOK, SessionOK, Starved
<1> QED
  BY <1>1, <1>2, <1>3, <1>4, <1>5 DEF Next

----------------------------------------------------------------------------
(* The line                                                                  *)

LEMMA Single ==
  ASSUME NEW S, NEW e \in S
  PROVE  <<e>> \in Seq(S) /\ Len(<<e>>) = 1 /\ <<e>>[1] = e
  OBVIOUS

LEMMA FirstOf ==
  ASSUME NEW S, NEW e \in S, NEW s \in Seq(S)
  PROVE  Len(<<e>> \o s) = 1 + Len(s) /\ (<<e>> \o s)[1] = e /\ <<e>> \o s \in Seq(S)
<1>1. <<e>> \in Seq(S) /\ Len(<<e>>) = 1 /\ <<e>>[1] = e
  BY Single
<1>2. /\ Len(<<e>> \o s) = 1 + Len(s) /\ <<e>> \o s \in Seq(S)
      /\ \A i \in 1..(1 + Len(s)) : (<<e>> \o s)[i] = IF i <= 1 THEN <<e>>[i] ELSE s[i - 1]
  BY <1>1, ConcatProperties
<1>3. 1 \in 1..(1 + Len(s)) /\ 1 <= 1
  BY LenProperties
<1> QED
  BY <1>1, <1>2, <1>3

LEMMA ConcatAppend ==
  ASSUME NEW S, NEW a \in Seq(S), NEW b \in Seq(S), NEW e \in S
  PROVE  a \o Append(b, e) = Append(a \o b, e)
<1>1. <<e>> \in Seq(S) /\ a \o b \in Seq(S)
  BY Single, ConcatProperties
<1>2. Append(b, e) = b \o <<e>> /\ Append(a \o b, e) = (a \o b) \o <<e>>
  BY <1>1, AppendIsConcat
<1> QED
  BY <1>1, <1>2, ConcatAssociative

LEMMA ConcatPositions ==
  ASSUME NEW p \in Seq(Positions), NEW q \in Seq(Positions), NEW r \in Seq(Positions)
  PROVE  p \o (q \o r) = (p \o q) \o r
<1> DEFINE S == Positions
<1>1. p \in Seq(S) /\ q \in Seq(S) /\ r \in Seq(S)
  OBVIOUS
<1> HIDE DEF S
<1> QED
  BY ONLY <1>1, ConcatAssociative

LEMMA AppendConcat ==
  ASSUME NEW S, NEW a \in Seq(S), NEW b \in Seq(S), NEW e \in S
  PROVE  Append(a, e) \o b = a \o (<<e>> \o b)
<1>1. <<e>> \in Seq(S)
  BY Single
<1>2. Append(a, e) = a \o <<e>>
  BY AppendIsConcat
<1> QED
  BY <1>1, <1>2, ConcatAssociative

LEMMA PduPosition ==
  ASSUME NEW pdu \in Fields, Proper(pdu)
  PROVE  Pos(pdu) \in Positions /\ pdu # Unset
<1>1. pdu.x \in Coords /\ pdu.y \in Coords
  BY DEF Proper, Fields
<1> QED
  BY <1>1, UnsetEmpty DEF Pos, Positions

LEMMA LineTypes ==
  ASSUME Types, LinkOK, SessionOK
  PROVE  /\ Out \in Seq(Positions) /\ Src \in Seq(Positions) /\ Part \in Seq(Positions)
         /\ net \in Seq(Positions) /\ tx \in Seq(Positions)
         /\ Before \in Seq(Positions) /\ Line \in Seq(Positions)
         /\ Reading => Got \in Seq(Positions) /\ net \o Part \in Seq(Positions)
         /\ Len(Before) \in Nat /\ Len(Before) <= Len(Line) /\ path \in Seq(Positions) /\ Len(path) \in Nat
<1>1. /\ net \in Seq(Positions) /\ tx \in Seq(Positions) /\ out_pdu \in Positions
      /\ part \in Positions /\ frame \in Positions /\ rx_pdu \in Fields
      /\ path \in Seq(Positions) /\ Len(path) \in Nat
  BY LenProperties DEF Types, TypeOK
<1>2. Out \in Seq(Positions) /\ Part \in Seq(Positions)
  BY <1>1, Single, EmptySeq DEF Out, Part
<1>3. Src \in Seq(Positions) /\ net \o Part \in Seq(Positions)
  BY <1>1, <1>2, ConcatProperties DEF Src
<1>4. ASSUME Reading PROVE Got \in Seq(Positions)
  <2>1. CASE client = "y"
    BY <1>1, <2>1, Single DEF Got
  <2>2. CASE client # "y" /\ rx_pdu = Unset
    BY <2>2, EmptySeq DEF Got
  <2>3. CASE client # "y" /\ rx_pdu # Unset
    <3>1. Proper(rx_pdu)
      BY <1>4, <2>3 DEF Reading, SessionOK, LinkOK
    <3>2. Pos(rx_pdu) \in Positions
      BY <1>1, <3>1, PduPosition
    <3> QED
      BY <2>3, <3>2, Single DEF Got
  <2> QED
    BY <2>1, <2>2, <2>3
<1>5. Before \in Seq(Positions)
  BY <1>3, <1>4, ConcatProperties, EmptySeq DEF Before
<1>6. Line \in Seq(Positions) /\ Len(Line) = Len(Before) + Len(Src)
  BY <1>3, <1>5, ConcatProperties DEF Line
<1>7. Len(Before) \in Nat /\ Len(Src) \in Nat
  BY <1>3, <1>5, LenProperties
<1> QED
  BY <1>1, <1>2, <1>3, <1>4, <1>5, <1>6, <1>7

\* Where the PDU object, the queue and the page stay, a later report will do.
LEMMA PageLater ==
  ASSUME Types, NEW k \in 1..Len(path), PageOK(k), NEW k2 \in Nat, k <= k2,
         UNCHANGED <<seen, pipe>>, \A n \in 1..Len(path) : path'[n] = path[n],
         Proper(rx_pdu') => Shows(path', k2, Pos(rx_pdu'))
  PROVE  PageOK(k2)'
<1>1. seen \in Nat /\ Len(path) \in Nat /\ 1 <= seen /\ seen <= k /\ pipe' = pipe /\ seen' = seen
  BY LenProperties DEF Types, TypeOK, PageOK
<1>2. PICK g \in [1..Len(pipe) -> seen..k] : PipeNumbering(g, pipe, path)
  BY DEF PageOK
<1>3. g \in [1..Len(pipe') -> seen'..k2] /\ \A i \in 1..Len(pipe) : g[i] \in 1..Len(path)
  BY <1>1, <1>2
<1>4. PipeNumbering(g, pipe', path')
  <2>1. ASSUME NEW i \in 1..Len(pipe), pipe[i].cmd PROVE Shows(path', g[i], Pos(pipe[i]))
    <3>1. Shows(path, g[i], Pos(pipe[i])) /\ g[i] \in 1..Len(path)
      BY <1>2, <1>3, <2>1 DEF PipeNumbering
    <3> QED
      BY <1>1, <3>1, ShowsKept
  <2> QED
    BY <1>1, <1>2, <2>1 DEF PipeNumbering
<1>5. \E h \in [1..Len(pipe') -> seen'..k2] : PipeNumbering(h, pipe', path')
  BY <1>3, <1>4
<1>6. 1 <= seen' /\ seen' <= k2
  BY <1>1
<1> QED
  BY <1>5, <1>6 DEF PageOK

----------------------------------------------------------------------------
(* The order, by the robot                                                   *)

LEMMA InitOrder == Init => OrderOK
<1> SUFFICES ASSUME Init PROVE OrderOK
  OBVIOUS
<1>1. path = <<Start>> /\ Len(path) = 1 /\ pipe = << >> /\ seen = 1 /\ rx_pdu = Unset
  BY DEF Init
<1>2. Before = << >> /\ Src = << >> \o << >>
  BY DEF Init, Before, Reading, Src, Out
<1>3. Line = << >> /\ Len(Line) = 0 /\ Len(Before) = 0
  BY <1>2, ConcatEmptySeq, EmptySeq DEF Line
<1>4. Numbered(Line, Len(Before), up, path, 1)
  <2> DEFINE f == [i \in 1..0 |-> 1]
  <2>1. f \in [1..Len(Line) -> 1..Len(path)]
    BY <1>1, <1>3
  <2>2. Numbering(f, Line, Len(Before), up, path, 1)
    BY <1>3 DEF Numbering
  <2> QED
    BY <2>1, <2>2 DEF Numbered
<1>5. PageOK(1)
  <2> DEFINE g == [i \in 1..0 |-> 1]
  <2>0. Len(pipe) = 0
    BY <1>1
  <2>1. g \in [1..Len(pipe) -> seen..1]
    BY <1>1, <2>0
  <2>2. PipeNumbering(g, pipe, path)
    BY <2>0 DEF PipeNumbering
  <2>3. ~Proper(rx_pdu)
    BY <1>1, UnsetEmpty
  <2>4. \E h \in [1..Len(pipe) -> seen..1] : PipeNumbering(h, pipe, path)
    BY <2>1, <2>2
  <2>5. 1 <= seen /\ seen <= 1
    BY <1>1
  <2> QED
    BY <2>3, <2>4, <2>5, Zenon DEF PageOK
<1> QED
  BY <1>1, <1>4, <1>5 DEF OrderOK

LEMMA SameBefore ==
  ASSUME UNCHANGED <<resumed, client, rx_pdu, frame, net, end, part>>
  PROVE  Before' = Before
  BY DEF Before, Reading, Got, Part

\* The line, the PDU object and what the page has of it stay.
LEMMA SameOrder ==
  ASSUME Types, OrderOK, UNCHANGED <<stale, resumed, path, up>>,
         ~resumed => UNCHANGED <<seen, pipe, rx_pdu>>, Line' = Line, Before' = Before
  PROVE  OrderOK'
<1> SUFFICES ASSUME ~stale PROVE OrderOK'
  BY DEF OrderOK
<1>1. PICK k \in 1..Len(path) : /\ Numbered(Line, Len(Before), up, path, k)
                                /\ ~resumed => PageOK(k)
  BY DEF OrderOK
<1>2. ~resumed' => PageOK(k)'
  BY <1>1 DEF PageOK
<1> QED
  BY <1>1, <1>2 DEF OrderOK

\* A report is queued behind all others.
LEMMA AppendOrder ==
  ASSUME Types, LinkOK, SessionOK, OrderOK, Types', NEW p \in Positions,
         tx' = Append(tx, p), path' = path \/ path' = Append(path, p), path'[Len(path')] = p,
         UNCHANGED <<server, out_pdu, client, rx_pdu, frame, net, end, part, up, resumed, seen, pipe>>,
         ~stale' => ~stale
  PROVE  OrderOK'
<1> SUFFICES ASSUME ~stale' PROVE OrderOK'
  BY DEF OrderOK
<1>0. /\ Out \in Seq(Positions) /\ tx \in Seq(Positions) /\ Src \in Seq(Positions)
      /\ Before \in Seq(Positions) /\ Line \in Seq(Positions)
      /\ Len(Before) \in Nat /\ Len(Before) <= Len(Line)
      /\ path \in Seq(Positions) /\ path' \in Seq(Positions) /\ Len(path) \in Nat /\ Len(path) > 0
      /\ up \in BOOLEAN
  BY LineTypes DEF Types, TypeOK
<1>1. PICK k \in 1..Len(path) : /\ Numbered(Line, Len(Before), up, path, k)
                                /\ ~resumed => PageOK(k)
  BY DEF OrderOK
<1>2. Before' = Before /\ Out' = Out
  BY SameBefore DEF Out
<1>3. Src' = Append(Src, p)
  BY <1>0, <1>2, ConcatAppend DEF Src
<1>4. Line' = Append(Line, p)
  <2>1. Line' = Before \o Append(Src, p)
    BY <1>2, <1>3 DEF Line
  <2>2. Before \o Append(Src, p) = Append(Before \o Src, p)
    <3>1. Src \in Seq(Positions) /\ Before \in Seq(Positions) /\ p \in Positions
      BY <1>0
    <3> QED
      BY ONLY <3>1, ConcatAppend, SMT
  <2> QED
    BY <2>1, <2>2 DEF Line
<1>5. Numbered(Append(Line, p), Len(Before), up, path', k)
  <2>1. k \in Nat /\ k <= Len(path)
    BY <1>0
  <2> QED
    BY <1>0, <1>1, <2>1, Reported
<1>6. /\ \A n \in 1..Len(path) : path'[n] = path[n]
      /\ Len(path) <= Len(path')
  <2>1. CASE path' = path
    BY <1>0, <2>1
  <2>2. CASE path' = Append(path, p)
    BY <1>0, <2>2, AppendProperties
  <2> QED
    BY <2>1, <2>2
<1>7. ASSUME ~resumed' PROVE PageOK(k)'
  <2>1. PageOK(k)
    BY <1>1, <1>7
  <2>2. Proper(rx_pdu') => Shows(path', k, Pos(rx_pdu'))
    <3>1. Proper(rx_pdu) => Shows(path, k, Pos(rx_pdu))
      BY <2>1 DEF PageOK
    <3> QED
      BY <1>0, <1>1, <1>6, <3>1, ShowsKept
  <2>3. k \in Nat /\ k <= k
    BY <1>0
  <2> QED
    BY <1>1, <1>6, <2>1, <2>2, <2>3, PageLater
<1>8. k \in 1..Len(path')
  <2>1. Len(path') \in Nat
    BY <1>0, LenProperties
  <2> QED
    BY <1>0, <1>6, <2>1
<1> QED
  BY <1>2, <1>4, <1>5, <1>7, <1>8 DEF OrderOK

LEMMA RobotOrder ==
  ASSUME Types, LinkOK, SessionOK, OrderOK, Types',
         Report \/ SensorReads \/ SensorPuts \/ Get \/ Send \/ SendNowhere
  PROVE  OrderOK'
<1>0. /\ Out \in Seq(Positions) /\ tx \in Seq(Positions) /\ Src \in Seq(Positions)
      /\ Before \in Seq(Positions) /\ net \in Seq(Positions) /\ out_pdu \in Positions
      /\ Len(Before) \in Nat /\ Len(path) \in Nat /\ path \in Seq(Positions) /\ up \in BOOLEAN
  BY LineTypes DEF Types, TypeOK
<1>1. CASE Report
  <2>1. PICK p \in Positions : tx' = Append(tx, p) /\ path' = Append(path, p)
    BY <1>1 DEF Report
  <2>2. path'[Len(path')] = p
    BY <1>0, <2>1, AppendProperties
  <2> QED
    BY <1>1, <2>1, <2>2, AppendOrder DEF Report, sensing, link, reader, page
<1>2. CASE SensorReads
  <2>1. /\ UNCHANGED <<stale, resumed, path, seen, pipe, rx_pdu, up>>
        /\ UNCHANGED <<tx, server, out_pdu, client, frame, net, end, part>>
    BY <1>2 DEF SensorReads, link, reader, page
  <2>2. Before' = Before /\ Line' = Line
    BY <2>1, SameBefore DEF Line, Src, Out
  <2> QED
    BY <2>1, <2>2, SameOrder
<1>3. CASE SensorPuts
  <2>1. CASE stale'
    BY <2>1 DEF OrderOK
  <2>2. CASE ~stale'
    <3>1. ~stale /\ heading_pdu = Last(path)
      BY <1>3, <2>2 DEF SensorPuts
    <3>2. path[Len(path)] = heading_pdu /\ heading_pdu \in Positions
      BY <3>1, LastPosition
    <3> QED
      BY <1>3, <3>1, <3>2, AppendOrder DEF SensorPuts, link, reader, page
  <2> QED
    BY <2>1, <2>2
<1>4. CASE Get
  <2>1. /\ server = "get" /\ server' = "send" /\ tx # << >> /\ out_pdu' = Head(tx) /\ tx' = Tail(tx)
        /\ UNCHANGED <<stale, resumed, path, seen, pipe, rx_pdu, up>>
        /\ UNCHANGED <<client, frame, net, end, part>>
    BY <1>4 DEF Get, sensing, link, reader, page
  <2>2. Src = tx
    BY <1>0, <2>1, ConcatEmptySeq DEF Src, Out
  <2>3. Src' = <<Head(tx)>> \o Tail(tx)
    BY <2>1 DEF Src, Out
  <2>4. Src' = Src
    BY <1>0, <2>1, <2>2, <2>3, HeadOf
  <2>5. Before' = Before
    BY <2>1, SameBefore
  <2> QED
    BY <2>1, <2>4, <2>5, SameOrder DEF Line
<1>5. CASE Send
  <2>1. /\ server = "send" /\ server' = "get" /\ up /\ net' = Append(net, out_pdu)
        /\ UNCHANGED <<stale, resumed, path, seen, pipe, rx_pdu, up, tx, client, frame, end, part>>
    BY <1>5 DEF Send, sensing, reader, page
  <2>2. Src = <<out_pdu>> \o tx /\ Src' = tx
    BY <1>0, <2>1, ConcatEmptySeq DEF Src, Out
  <2>3. Reading' <=> Reading
    BY <2>1 DEF Reading
  <2> SUFFICES ASSUME ~stale PROVE OrderOK'
    BY <2>1 DEF OrderOK
  <2>4. PICK k \in 1..Len(path) : /\ Numbered(Line, Len(Before), up, path, k)
                                  /\ ~resumed => PageOK(k)
    BY DEF OrderOK
  <2>5. Numbered(Line', Len(Before'), up, path, k)
    <3>1. CASE Reading
      <4>1. Part = << >> /\ Part' = << >> /\ Got' = Got /\ Got \in Seq(Positions)
        BY <2>1, <3>1, LineTypes DEF LinkOK, Part, Got
      <4>2. Before = Got \o net /\ Before' = Got \o Append(net, out_pdu)
        <5>1. Append(net, out_pdu) \in Seq(Positions)
          BY <1>0, AppendProperties
        <5> QED
          BY <1>0, <2>1, <2>3, <3>1, <4>1, <5>1, ConcatEmptySeq DEF Before
      <4>3. Before' = Append(Before, out_pdu)
        <5>1. Got \in Seq(Positions) /\ net \in Seq(Positions) /\ out_pdu \in Positions
          BY <1>0, <4>1
        <5>2. Got \o Append(net, out_pdu) = Append(Got \o net, out_pdu)
          BY ONLY <5>1, ConcatAppend
        <5> QED
          BY <4>2, <5>2
      <4>4. Line' = Line
        <5>1. Line' = Append(Before, out_pdu) \o tx /\ Line = Before \o (<<out_pdu>> \o tx)
          BY <2>2, <4>3 DEF Line
        <5>2. Append(Before, out_pdu) \o tx = Before \o (<<out_pdu>> \o tx)
          BY <1>0, AppendConcat
        <5> QED
          BY <5>1, <5>2
      <4> QED
        BY <2>1, <2>4, <4>4, Relink
    <3>2. CASE ~Reading
      <4>1. Before = << >> /\ Before' = << >> /\ Len(Before) = 0
        BY <2>3, <3>2 DEF Before
      <4>2. Line = << >> \o (<<out_pdu>> \o tx) /\ Line' = << >> \o tx
        BY <2>2, <4>1 DEF Line
      <4>3. <<out_pdu>> \in Seq(Positions) /\ << >> \in Seq(Positions) /\ k \in Nat
        BY <1>0, Single, EmptySeq
      <4>4. Numbered(Line', 0, FALSE, path, k)
        <5>1. Numbered(<< >> \o (<<out_pdu>> \o tx), 0, TRUE, path, k)
          <6>1. up = TRUE
            BY <1>0, <2>1
          <6> QED
            BY <2>4, <4>1, <4>2, <6>1
        <5>2. Len(<< >>) = 0 /\ 0 \in Nat
          BY EmptySeq
        <5>3. Numbered(<< >> \o tx, Len(<< >>), FALSE, path, k)
          <6>1. tx \in Seq(Positions) /\ Len(path) \in Nat
            BY <1>0
          <6> QED
            BY ONLY <4>3, <5>1, <5>2, <6>1, CutAt
        <5> QED
          BY <4>2, <5>2, <5>3
      <4>5. Len(Line') \in Nat
        BY <1>0, <4>2, ConcatEmptySeq, LenProperties
      <4> QED
        BY <4>1, <4>4, <4>5, Relink
    <3> QED
      BY <3>1, <3>2
  <2>6. ~resumed' => PageOK(k)'
    BY <2>1, <2>4 DEF PageOK
  <2> QED
    BY <2>1, <2>4, <2>5, <2>6 DEF OrderOK
<1>6. CASE SendNowhere
  <2>1. /\ server = "send" /\ server' \in {"get", "accept"} /\ ~up
        /\ UNCHANGED <<stale, resumed, path, seen, pipe, rx_pdu, up, tx, client, frame, net, end, part>>
    BY <1>6 DEF SendNowhere, sensing, link, reader, page
  <2>2. Src = <<out_pdu>> \o tx /\ Src' = tx /\ Before' = Before
    BY <1>0, <2>1, ConcatEmptySeq, SameBefore DEF Src, Out
  <2> SUFFICES ASSUME ~stale PROVE OrderOK'
    BY <2>1 DEF OrderOK
  <2>4. PICK k \in 1..Len(path) : /\ Numbered(Line, Len(Before), up, path, k)
                                  /\ ~resumed => PageOK(k)
    BY DEF OrderOK
  <2>5. Numbered(Before \o tx, Len(Before), FALSE, path, k)
    <3>1. <<out_pdu>> \in Seq(Positions) /\ k \in Nat
      BY <1>0, Single
    <3>2. Numbered(Before \o (<<out_pdu>> \o tx), Len(Before), FALSE, path, k)
      <4>1. up = FALSE
        BY <1>0, <2>1
      <4> QED
        BY <2>2, <2>4, <4>1 DEF Line
    <3> QED
      <4>1. /\ tx \in Seq(Positions) /\ Before \in Seq(Positions) /\ Len(Before) \in Nat
            /\ Len(path) \in Nat
        BY <1>0
      <4> QED
        BY ONLY <3>1, <3>2, <4>1, CutAt
  <2>6. Numbered(Line', Len(Before'), up', path', k)
    <3>1. up' = FALSE
      BY <1>0, <2>1
    <3> QED
      BY <2>1, <2>2, <2>5, <3>1 DEF Line
  <2>7. ~resumed' => PageOK(k)'
    BY <2>1, <2>4 DEF PageOK
  <2> QED
    BY <2>1, <2>4, <2>6, <2>7 DEF OrderOK
<1> QED
  BY <1>1, <1>2, <1>3, <1>4, <1>5, <1>6

----------------------------------------------------------------------------
(* The order, by the application                                             *)

\* With an old PDU object the application has no part in the line.
LEMMA ResumedOrder ==
  ASSUME Types, OrderOK, resumed, UNCHANGED <<stale, resumed, path, up, tx, server, out_pdu>>
  PROVE  OrderOK'
<1>1. Before = << >> /\ Before' = << >> /\ Src' = Src
  BY DEF Before, Reading, Src, Out
<1>2. Line' = Line
  BY <1>1 DEF Line
<1> QED
  BY <1>1, <1>2, SameOrder

\* get_buff assigns cmd and x of the next report.
LEMMA TakeNext ==
  ASSUME Types, LinkOK, SessionOK, OrderOK, NEW p \in Positions, NEW b \in Seq(Positions),
         ~resumed, client = "recv", client' = "y", frame' = p,
         rx_pdu' = [rx_pdu EXCEPT !.cmd = TRUE, !.x = p[1]],
         net \o Part = <<p>> \o b, net' \o Part' = b,
         UNCHANGED <<stale, resumed, path, up, tx, server, out_pdu, seen, pipe>>
  PROVE  OrderOK'
<1> SUFFICES ASSUME ~stale PROVE OrderOK'
  BY DEF OrderOK
<1>0. /\ Src \in Seq(Positions) /\ path \in Seq(Positions) /\ Len(path) \in Nat
      /\ rx_pdu \in Fields /\ up \in BOOLEAN
  BY LineTypes DEF Types, TypeOK
<1>1. PICK k \in 1..Len(path) : Numbered(Line, Len(Before), up, path, k) /\ PageOK(k)
  BY DEF OrderOK
<1>2. /\ Before = Got \o (<<p>> \o b) /\ Before' = <<p>> \o b /\ Src' = Src
  BY DEF Before, Reading, Got, Src, Out
<1>3. <<p>> \o b \in Seq(Positions) /\ Len(<<p>> \o b) = 1 + Len(b) /\ Len(b) \in Nat
  BY FirstOf, LenProperties
<1>4. Line' = (<<p>> \o b) \o Src
  BY <1>2 DEF Line
<1>5. Line' \in Seq(Positions) /\ Len(Line') > 0 /\ Line'[1] = p
  <2>1. b \o Src \in Seq(Positions) /\ <<p>> \in Seq(Positions) /\ Len(b \o Src) \in Nat
    BY <1>0, Single, ConcatProperties, LenProperties
  <2>2. (<<p>> \o b) \o Src = <<p>> \o (b \o Src)
    <3>1. <<p>> \in Seq(Positions) /\ b \in Seq(Positions) /\ Src \in Seq(Positions)
      BY <1>0, <2>1
    <3> QED
      BY ONLY <3>1, ConcatAssociative
  <2>3. /\ Len(<<p>> \o (b \o Src)) = 1 + Len(b \o Src) /\ (<<p>> \o (b \o Src))[1] = p
        /\ <<p>> \o (b \o Src) \in Seq(Positions)
    BY <2>1, FirstOf
  <2> QED
    BY <1>4, <2>1, <2>2, <2>3
<1>6. rx_pdu'.y = rx_pdu.y /\ rx_pdu'.x = p[1]
  BY <1>0, ParsedX
<1>7. k \in Nat /\ k <= k /\ \A n \in 1..Len(path) : path'[n] = path[n]
  BY <1>0
<1>8. CASE rx_pdu = Unset
  <2>1. Got = << >>
    BY <1>8 DEF Got
  <2>2. Before' = Before
    BY <1>2, <1>3, <2>1, ConcatEmptySeq
  <2>3. Line' = Line
    BY <1>2, <2>2 DEF Line
  <2>4. ~Proper(rx_pdu')
    BY <1>6, <1>8 DEF Unset, Proper
  <2>5. PageOK(k)'
    BY <1>1, <1>7, <2>4, PageLater
  <2> QED
    BY <1>1, <2>2, <2>3, <2>5 DEF OrderOK
<1>9. CASE rx_pdu # Unset
  <2>1. Proper(rx_pdu) /\ Pos(rx_pdu) \in Positions /\ Got = <<Pos(rx_pdu)>>
    BY <1>0, <1>9, PduPosition DEF SessionOK, Got
  <2>2. Len(Before) = 1 + Len(Before') /\ Len(Before') \in Nat \ {0}
    BY <1>2, <1>3, <2>1, FirstOf
  <2>3. Line = <<Pos(rx_pdu)>> \o Line'
    <3>1. <<Pos(rx_pdu)>> \in Seq(Positions)
      BY <2>1, Single
    <3>2. (<<Pos(rx_pdu)>> \o (<<p>> \o b)) \o Src = <<Pos(rx_pdu)>> \o ((<<p>> \o b) \o Src)
      <4>1. /\ <<Pos(rx_pdu)>> \in Seq(Positions) /\ <<p>> \o b \in Seq(Positions)
            /\ Src \in Seq(Positions)
        BY <1>0, <1>3, <3>1
      <4> QED
        BY ONLY <4>1, ConcatAssociative
    <3> QED
      BY <1>2, <1>4, <2>1, <3>2 DEF Line
  <2>4. PICK n \in 1..Len(path) :
          /\ k <= n /\ Shows(path, n, <<Line'[1][1], Pos(rx_pdu)[2]>>)
          /\ Numbered(Line', Len(Before) - 1, up, path, n)
    <3>1. Len(Before) \in Nat \ {0} /\ Len(Before) # 1
      BY <2>2
    <3>2. Numbered(<<Pos(rx_pdu)>> \o Line', Len(Before), up, path, k)
      BY <1>1, <2>3
    <3>3. /\ Pos(rx_pdu) \in Positions /\ Line' \in Seq(Positions) /\ Len(Line') > 0
          /\ path \in Seq(Positions) /\ k \in Nat /\ up \in BOOLEAN
      BY <1>0, <1>5, <1>7, <2>1
    <3> QED
      BY ONLY <3>1, <3>2, <3>3, Mixed
  <2>5. Shows(path, n, <<p[1], rx_pdu.y>>) /\ Numbered(Line', Len(Before'), up, path, n)
    BY <1>5, <2>2, <2>4 DEF Pos
  <2>6. Proper(rx_pdu') => Shows(path', n, Pos(rx_pdu'))
    BY <1>6, <2>5 DEF Pos
  <2>7. PageOK(n)'
    <3>1. n \in Nat /\ k <= n /\ PageOK(k)
      BY <1>0, <1>1, <2>4
    <3> QED
      BY <1>7, <2>6, <3>1, PageLater
  <2> QED
    BY <2>5, <2>7 DEF OrderOK
<1> QED
  BY <1>8, <1>9

LEMMA ParseXOrder ==
  ASSUME Types, LinkOK, SessionOK, OrderOK, ParseX \/ LastPart PROVE OrderOK'
<1>0. /\ net \in Seq(Positions) /\ Part \in Seq(Positions) /\ part \in Positions
  BY LineTypes DEF Types, TypeOK
<1>1. UNCHANGED <<stale, resumed, path, up, tx, server, out_pdu, seen, pipe>>
  BY DEF ParseX, LastPart, robot, sensing, page
<1>2. CASE resumed
  BY <1>1, <1>2, ResumedOrder
<1>3. CASE ~resumed /\ ParseX
  <2>1. /\ client = "recv" /\ client' = "y" /\ net # << >> /\ frame' = Head(net) /\ net' = Tail(net)
        /\ rx_pdu' = [rx_pdu EXCEPT !.cmd = TRUE, !.x = Head(net)[1]] /\ Part' = Part
    BY <1>3 DEF ParseX, Part
  <2>2. Head(net) \in Positions /\ Tail(net) \in Seq(Positions) /\ net = <<Head(net)>> \o Tail(net)
    BY <1>0, <2>1, HeadOf
  <2>3. net \o Part = <<Head(net)>> \o (Tail(net) \o Part)
    <3>1. <<Head(net)>> \in Seq(Positions)
      BY <2>2, Single
    <3>2. (<<Head(net)>> \o Tail(net)) \o Part = <<Head(net)>> \o (Tail(net) \o Part)
      BY <1>0, <2>2, <3>1, ConcatAssociative
    <3> QED
      BY <2>2, <3>2
  <2>4. Tail(net) \o Part \in Seq(Positions) /\ net' \o Part' = Tail(net) \o Part
    BY <1>0, <2>1, <2>2, ConcatProperties
  <2> QED
    BY <1>1, <1>3, <2>1, <2>2, <2>3, <2>4, TakeNext
<1>4. CASE ~resumed /\ LastPart
  <2>1. /\ client = "recv" /\ client' = "y" /\ net = << >> /\ frame' = part /\ net' = net
        /\ rx_pdu' = [rx_pdu EXCEPT !.cmd = TRUE, !.x = part[1]]
        /\ Part = <<part>> /\ Part' = << >>
    BY <1>4 DEF LastPart, Part
  <2>2. /\ << >> \in Seq(Positions) /\ net \o Part = <<part>> \o << >> /\ net' \o Part' = << >>
    BY <1>0, <2>1, EmptySeq, ConcatEmptySeq
  <2> QED
    BY <1>0, <1>1, <1>4, <2>1, <2>2, TakeNext
<1> QED
  BY <1>2, <1>3, <1>4

\* get_buff has assigned y too: the PDU object is the newest report that is read.
LEMMA ParseYOrder ==
  ASSUME Types, LinkOK, SessionOK, OrderOK, ParseY PROVE OrderOK'
<1>0. /\ Src \in Seq(Positions) /\ net \o Part \in Seq(Positions) /\ frame \in Positions
      /\ path \in Seq(Positions) /\ Len(path) \in Nat
  BY LineTypes, ConcatProperties DEF Types, TypeOK
<1>1. /\ client = "y" /\ client' = "put" /\ rx_pdu' = Whole(frame)
      /\ UNCHANGED <<stale, resumed, path, up, tx, server, out_pdu, seen, pipe, net, end, part>>
  BY DEF ParseY, robot, sensing, link, page
<1>2. CASE resumed
  BY <1>1, <1>2, ResumedOrder
<1>3. CASE ~resumed
  <2> SUFFICES ASSUME ~stale PROVE OrderOK'
    BY <1>1 DEF OrderOK
  <2>1. PICK k \in 1..Len(path) : Numbered(Line, Len(Before), up, path, k) /\ PageOK(k)
    BY <1>3 DEF OrderOK
  <2>2. /\ rx_pdu' # Unset /\ Pos(rx_pdu') = frame
    BY <1>0, <1>1, WholeProper
  <2>3. Got = <<frame>> /\ Got' = <<frame>> /\ Part' = Part
    BY <1>1, <2>2 DEF Got, Part
  <2>4. Before = <<frame>> \o (net \o Part) /\ Before' = Before /\ Src' = Src
    BY <1>1, <1>3, <2>3 DEF Before, Reading, Src, Out
  <2>5. Line' = Line
    BY <2>4 DEF Line
  <2>6. Len(Line) \in Nat \ {0} /\ Line[1] = frame
    <3>1. (net \o Part) \o Src \in Seq(Positions) /\ <<frame>> \in Seq(Positions)
      BY <1>0, Single, ConcatProperties
    <3>2. (<<frame>> \o (net \o Part)) \o Src = <<frame>> \o ((net \o Part) \o Src)
      <4>1. /\ <<frame>> \in Seq(Positions) /\ net \o Part \in Seq(Positions)
            /\ Src \in Seq(Positions)
        BY <1>0, <3>1
      <4> QED
        BY ONLY <4>1, ConcatAssociative
    <3>3. /\ Len(<<frame>> \o ((net \o Part) \o Src)) = 1 + Len((net \o Part) \o Src)
          /\ (<<frame>> \o ((net \o Part) \o Src))[1] = frame
          /\ Len((net \o Part) \o Src) \in Nat
      BY <1>0, <3>1, FirstOf, LenProperties
    <3> QED
      BY <2>4, <3>2, <3>3 DEF Line
  <2>7. PICK n \in 1..Len(path) :
          k <= n /\ path[n] = Line[1] /\ Numbered(Line, Len(Before), up, path, n)
    <3>1. k \in Nat
      BY <1>0
    <3> QED
      BY ONLY <1>0, <2>1, <2>6, <3>1, Newer
  <2>8. PageOK(n)'
    <3>1. Proper(rx_pdu') => Shows(path', n, Pos(rx_pdu'))
      BY <1>1, <2>2, <2>6, <2>7 DEF Shows
    <3>2. n \in Nat /\ \A i \in 1..Len(path) : path'[i] = path[i]
      BY <1>0, <1>1
    <3> QED
      BY <1>1, <2>1, <2>7, <3>1, <3>2, PageLater
  <2> QED
    BY <1>1, <2>4, <2>5, <2>7, <2>8 DEF OrderOK
<1> QED
  BY <1>2, <1>3

LEMMA PutOrder ==
  ASSUME Types, OrderOK, Put \/ PutForEver PROVE OrderOK'
<1>1. UNCHANGED <<stale, resumed, path, up, tx, server, out_pdu, seen, pipe, rx_pdu, net, end, part>>
  BY DEF Put, PutForEver, robot, sensing, link, reader, page
<1>2. Before' = Before
  BY <1>1 DEF Put, PutForEver, reader, Before, Reading, Got, Part
<1>3. Line' = Line
  BY <1>1, <1>2 DEF Line, Src, Out
<1> QED
  BY <1>1, <1>2, <1>3, SameOrder

\* The robot's part of the line alone.
LEMMA DropAll ==
  ASSUME NEW a \in Seq(Positions), NEW s \in Seq(Positions), NEW linked,
         NEW pth, Len(pth) \in Nat, NEW k \in Nat, Numbered(a \o s, Len(a), linked, pth, k)
  PROVE  Numbered(s, 0, linked, pth, k)
<1>1. Len(a) \in Nat /\ Len(a) <= Len(a) /\ Len(a) - Len(a) = 0
  BY LenProperties
<1>2. Numbered(s, Len(a) - Len(a), linked, pth, k)
  BY <1>1, DropFirst
<1> QED
  BY <1>1, <1>2

\* An application that does not read leaves the line.
LEMMA LeaveOrder ==
  ASSUME Types, LinkOK, SessionOK, OrderOK, client' \in {"connect", "hung"},
         UNCHANGED <<stale, path, up, tx, server, out_pdu>>,
         NEW k \in 1..Len(path), Numbered(Src, 0, up, path, k), ~resumed' => PageOK(k)'
  PROVE  OrderOK'
<1>1. Before' = << >> /\ Src' = Src
  BY DEF Before, Reading, Src, Out
<1>2. Line' = Src /\ Len(Before') = 0
  BY <1>1, LineTypes, ConcatEmptySeq, EmptySeq DEF Line
<1> QED
  BY <1>2 DEF OrderOK

LEMMA HangOrder ==
  ASSUME Types, LinkOK, SessionOK, OrderOK, Hang \/ Restart PROVE OrderOK'
<1>0. /\ client' \in {"connect", "hung"} /\ UNCHANGED <<stale, path, up, tx, server, out_pdu>>
      /\ Before \in Seq(Positions) /\ Src \in Seq(Positions) /\ Len(path) \in Nat /\ seen \in Nat
  BY LineTypes DEF Hang, Restart, robot, sensing, link, Types, TypeOK
<1> SUFFICES ASSUME ~stale PROVE OrderOK'
  BY <1>0 DEF OrderOK
<1>1. PICK k \in 1..Len(path) : /\ Numbered(Line, Len(Before), up, path, k)
                                /\ ~resumed => PageOK(k)
  BY DEF OrderOK
<1>2. k \in Nat /\ 1 <= k /\ k <= k
  BY <1>0
<1>3. Numbered(Src, 0, up, path, k)
  BY <1>0, <1>1, <1>2, DropAll DEF Line
<1>4. ~resumed' => PageOK(k)'
  <2>1. CASE Hang
    <3>1. UNCHANGED <<seen, pipe, rx_pdu, resumed, path>>
      BY <2>1 DEF Hang, page
    <3> QED
      BY <1>1, <3>1 DEF PageOK
  <2>2. CASE Restart
    <3>1. /\ rx_pdu' = Unset /\ pipe' = << >> /\ path' = path
          /\ seen' = IF resumed /\ ~stale THEN 1 ELSE seen
      BY <2>2 DEF Restart
    <3>2. 1 <= seen' /\ seen' <= k
      <4>1. CASE resumed
        BY <1>2, <3>1, <4>1
      <4>2. CASE ~resumed
        <5>1. 1 <= seen /\ seen <= k
          BY <1>1, <4>2 DEF PageOK
        <5> QED
          BY <1>0, <1>2, <3>1, <4>2, <5>1
      <4> QED
        BY <4>1, <4>2
    <3>3. \E g \in [1..Len(pipe') -> seen'..k] : PipeNumbering(g, pipe', path')
      <4> DEFINE g == [i \in 1..0 |-> 1]
      <4>1. Len(pipe') = 0
        BY <3>1, EmptySeq
      <4>2. g \in [1..Len(pipe') -> seen'..k]
        BY <4>1
      <4>3. PipeNumbering(g, pipe', path')
        BY <4>1 DEF PipeNumbering
      <4> QED
        BY <4>2, <4>3
    <3>4. ~Proper(rx_pdu')
      BY <3>1, UnsetEmpty
    <3> QED
      BY <3>2, <3>3, <3>4, Zenon DEF PageOK
  <2> QED
    BY <2>1, <2>2
<1> QED
  BY <1>0, <1>1, <1>3, <1>4, LeaveOrder

\* What receive returns of a frame may leave a new x with the old y in the PDU object.
LEMMA ResumeOrder ==
  ASSUME Types, LinkOK, SessionOK, OrderOK, Resume PROVE OrderOK'
<1>0. /\ client = "recv" /\ client' \in {"connect", "hung"} /\ net = << >>
      /\ UNCHANGED <<stale, resumed, path, up, tx, server, out_pdu, seen, pipe>>
      /\ Before \in Seq(Positions) /\ Src \in Seq(Positions) /\ Part \in Seq(Positions)
      /\ path \in Seq(Positions) /\ Len(path) \in Nat
      /\ rx_pdu \in Fields /\ part \in Positions
  BY LineTypes DEF Resume, robot, sensing, link, page, Types, TypeOK
<1>1. CASE resumed
  BY <1>0, <1>1, ResumedOrder
<1>2. CASE ~resumed
  <2> SUFFICES ASSUME ~stale PROVE OrderOK'
    BY <1>0 DEF OrderOK
  <2>1. PICK k \in 1..Len(path) : Numbered(Line, Len(Before), up, path, k) /\ PageOK(k)
    BY <1>2 DEF OrderOK
  <2>2. k \in Nat /\ k <= k /\ \A n \in 1..Len(path) : path'[n] = path[n]
    BY <1>0
  \* It suffices to find a report from k on that the PDU object now shows, if any.
  <2>3. SUFFICES \E n \in 1..Len(path) : /\ k <= n
                                         /\ Proper(rx_pdu') => Shows(path, n, Pos(rx_pdu'))
                                         /\ Numbered(Src, 0, up, path, n)
    <3>1. PICK n \in 1..Len(path) : /\ k <= n
                                    /\ Proper(rx_pdu') => Shows(path, n, Pos(rx_pdu'))
                                    /\ Numbered(Src, 0, up, path, n)
      BY <2>3
    <3>2. PageOK(n)'
      <4>1. n \in Nat /\ path'[n] = path[n]
        BY <1>0
      <4> QED
        BY <1>0, <2>1, <2>2, <3>1, <4>1, PageLater
    <3> QED
      BY <1>0, <3>1, <3>2, LeaveOrder
  <2>4. Numbered(Src, 0, up, path, k)
    BY <1>0, <2>1, <2>2, DropAll DEF Line
  <2>5. rx_pdu = Unset \/ (Proper(rx_pdu) /\ Shows(path, k, Pos(rx_pdu)))
    BY <1>0, <1>2, <2>1 DEF SessionOK, PageOK
  <2>6. Before = Got \o Part
    BY <1>0, <1>2, ConcatEmptySeq DEF Before, Reading
  <2>7. CASE end = "magic" /\ rx_pdu' = rx_pdu
    BY <2>2, <2>4, <2>5, <2>7, UnsetEmpty
  <2>8. CASE end = "cmd" /\ rx_pdu' = [rx_pdu EXCEPT !.cmd = TRUE]
    <3>1. rx_pdu'.x = rx_pdu.x /\ rx_pdu'.y = rx_pdu.y
      BY <1>0, <2>8 DEF Fields
    <3>2. Proper(rx_pdu') => Shows(path, k, Pos(rx_pdu'))
      <4>1. CASE rx_pdu = Unset
        <5>1. ~Proper(rx_pdu')
          BY <3>1, <4>1 DEF Unset, Proper
        <5> QED
          BY <5>1
      <4>2. CASE Proper(rx_pdu) /\ Shows(path, k, Pos(rx_pdu))
        BY <3>1, <4>2 DEF Pos
      <4> QED
        BY <2>5, <4>1, <4>2
    <3> QED
      BY <2>2, <2>4, <3>2
  <2>9. CASE end \in {"x", "y"} /\ Part = <<part>> /\ rx_pdu = Unset
    <3>1. Line = <<part>> \o Src /\ Len(Before) = 1 /\ <<part>> \in Seq(Positions) /\ Len(<<part>>) = 1
      <4>1. Got = << >>
        BY <1>0, <2>9 DEF Got
      <4>2. <<part>> \in Seq(Positions) /\ Len(<<part>>) = 1
        BY <1>0, Single
      <4>3. Before = <<part>>
        BY <2>6, <2>9, <4>1, <4>2, ConcatEmptySeq
      <4> QED
        BY <4>2, <4>3 DEF Line
    <3>2. CASE end = "x"
      <4>1. rx_pdu' = [rx_pdu EXCEPT !.cmd = TRUE, !.x = part[1]]
        BY <3>2, ResumedPdu
      <4>2. rx_pdu'.y = rx_pdu.y
        BY <1>0, <4>1, ParsedX
      <4>3. ~Proper(rx_pdu')
        BY <2>9, <4>2 DEF Unset, Proper
      <4> QED
        BY <2>2, <2>4, <4>3
    <3>3. CASE end = "y"
      <4>1. Proper(rx_pdu') /\ Pos(rx_pdu') = part
        BY <1>0, <3>3, ResumedPdu, WholeProper
      <4>2. PICK n \in 1..Len(path) :
              k <= n /\ path[n] = part /\ Numbered(<<part>> \o Src, 1, up, path, n)
        <5>1. /\ Len(<<part>> \o Src) \in Nat \ {0} /\ (<<part>> \o Src)[1] = part
              /\ Numbered(<<part>> \o Src, 1, up, path, k) /\ Len(path) \in Nat /\ k \in Nat
          BY <1>0, <2>1, <2>2, <3>1, FirstOf, LenProperties
        <5> QED
          BY ONLY <5>1, Newer
      <4>3. Numbered(Src, 0, up, path, n)
        <5>1. n \in Nat /\ Numbered(<<part>> \o Src, Len(<<part>>), up, path, n)
          BY <1>0, <3>1, <4>2
        <5> QED
          BY <1>0, <3>1, <5>1, DropAll
      <4> QED
        BY <4>1, <4>2, <4>3 DEF Shows
    <3> QED
      BY <2>9, <3>2, <3>3
  <2>10. CASE end \in {"x", "y"} /\ Part = <<part>> /\ Proper(rx_pdu)
    <3>0. /\ Pos(rx_pdu) \in Positions /\ rx_pdu # Unset /\ Got = <<Pos(rx_pdu)>>
          /\ <<part>> \in Seq(Positions) /\ Len(<<part>>) = 1
          /\ <<Pos(rx_pdu)>> \in Seq(Positions) /\ Len(<<Pos(rx_pdu)>>) = 1
      <4>1. Pos(rx_pdu) \in Positions /\ rx_pdu # Unset
        BY <1>0, <2>10, PduPosition
      <4> QED
        BY <1>0, <4>1, Single DEF Got
    <3>1. Line = <<Pos(rx_pdu)>> \o (<<part>> \o Src) /\ Len(Before) = 2
      <4>1. Before = <<Pos(rx_pdu)>> \o <<part>>
        BY <2>6, <2>10, <3>0
      <4>2. Len(Before) = 1 + 1
        BY <3>0, <4>1, ConcatProperties
      <4>3. (<<Pos(rx_pdu)>> \o <<part>>) \o Src = <<Pos(rx_pdu)>> \o (<<part>> \o Src)
        <5>1. Src \in Seq(Positions)
          BY <1>0
        <5> QED
          BY ONLY <3>0, <5>1, ConcatAssociative
      <4> QED
        BY <4>1, <4>2, <4>3 DEF Line
    <3>2. /\ Numbered(<<Pos(rx_pdu)>> \o (<<part>> \o Src), 2, up, path, k)
          /\ <<part>> \o Src \in Seq(Positions) /\ Len(<<part>> \o Src) \in Nat \ {0}
          /\ (<<part>> \o Src)[1] = part
      BY <1>0, <2>1, <3>1, FirstOf, LenProperties
    <3>3. CASE end = "x"
      <4>1. rx_pdu' = [rx_pdu EXCEPT !.cmd = TRUE, !.x = part[1]]
        BY <3>3, ResumedPdu
      <4>2. Pos(rx_pdu') = <<part[1], rx_pdu.y>>
        <5>1. rx_pdu'.x = part[1] /\ rx_pdu'.y = rx_pdu.y
          BY <1>0, <4>1, ParsedX
        <5> QED
          BY <5>1 DEF Pos
      <4>3. PICK n \in 1..Len(path) :
              /\ k <= n /\ Shows(path, n, <<(<<part>> \o Src)[1][1], Pos(rx_pdu)[2]>>)
              /\ Numbered(<<part>> \o Src, 2 - 1, up, path, n)
        <5>1. Len(<<part>> \o Src) > 0 /\ 2 \in Nat \ {0} /\ 2 # 1
          BY <3>2
        <5>2. /\ Pos(rx_pdu) \in Positions /\ path \in Seq(Positions) /\ k \in Nat
          BY <1>0, <2>2, <3>0
        <5> QED
          BY ONLY <3>2, <5>1, <5>2, Mixed
      <4>4. Shows(path, n, Pos(rx_pdu'))
        BY <3>2, <4>2, <4>3 DEF Pos
      <4>5. Numbered(Src, 0, up, path, n)
        <5>1. n \in Nat /\ Numbered(<<part>> \o Src, Len(<<part>>), up, path, n)
          BY <1>0, <3>0, <4>3
        <5> QED
          BY <1>0, <3>0, <5>1, DropAll
      <4> QED
        BY <4>3, <4>4, <4>5
    <3>4. CASE end = "y"
      <4>1. Proper(rx_pdu') /\ Pos(rx_pdu') = part
        BY <1>0, <3>4, ResumedPdu, WholeProper
      <4>2. Numbered(<<part>> \o Src, 1, up, path, k)
        <5>1. /\ Len(<<Pos(rx_pdu)>>) <= 2 /\ 2 - Len(<<Pos(rx_pdu)>>) = 1 /\ 2 \in Nat
              /\ Len(path) \in Nat /\ k \in Nat
          BY <1>0, <2>2, <3>0
        <5>2. Numbered(<<part>> \o Src, 2 - Len(<<Pos(rx_pdu)>>), up, path, k)
          BY ONLY <3>0, <3>2, <5>1, DropFirst
        <5> QED
          BY <5>1, <5>2
      <4>3. PICK n \in 1..Len(path) :
              k <= n /\ path[n] = part /\ Numbered(<<part>> \o Src, 1, up, path, n)
        <5>1. Len(path) \in Nat /\ k \in Nat
          BY <1>0, <2>2
        <5> QED
          BY ONLY <3>2, <4>2, <5>1, Newer
      <4>4. Numbered(Src, 0, up, path, n)
        <5>1. n \in Nat /\ Numbered(<<part>> \o Src, Len(<<part>>), up, path, n)
          BY <1>0, <3>0, <4>3
        <5> QED
          BY <1>0, <3>0, <5>1, DropAll
      <4> QED
        BY <4>1, <4>3, <4>4 DEF Shows
    <3> QED
      BY <2>10, <3>3, <3>4
  <2>11. end \in {"x", "y"} => Part = <<part>>
    BY DEF Part
  <2> QED
    BY <2>5, <2>7, <2>8, <2>9, <2>10, <2>11, ResumedPdu
<1> QED
  BY <1>1, <1>2

----------------------------------------------------------------------------
(* The order, by the connection and the page                                 *)

\* A new connection begins with what the robot still has.
LEMMA AcceptOrder ==
  ASSUME Types, LinkOK, SessionOK, OrderOK, Accept PROVE OrderOK'
<1>0. /\ client = "connect" /\ client' = "recv" /\ server = "accept" /\ server' = "get"
      /\ up' = TRUE /\ net' = << >> /\ end' = "close" /\ (resumed' <=> rx_pdu # Unset)
      /\ UNCHANGED <<stale, path, tx, out_pdu, rx_pdu, pipe>> /\ (~resumed' => seen' = seen)
      /\ Src \in Seq(Positions)
  BY LineTypes DEF Accept, sensing, page
<1> SUFFICES ASSUME ~stale PROVE OrderOK'
  BY <1>0 DEF OrderOK
<1>1. PICK k \in 1..Len(path) : /\ Numbered(Line, Len(Before), up, path, k)
                                /\ ~resumed => PageOK(k)
  BY DEF OrderOK
<1>2. Before = << >> /\ Len(Before) = 0
  BY <1>0, EmptySeq DEF Before, Reading
<1>3. Before' = << >>
  <2>1. CASE ~Reading'
    BY <2>1 DEF Before
  <2>2. CASE Reading'
    <3>1. Got' = << >>
      BY <1>0, <2>2 DEF Reading, Got
    <3>2. Part' = << >>
      BY <1>0 DEF Part
    <3>3. << >> \in Seq(Positions) /\ << >> \o << >> = << >>
      BY EmptySeq, ConcatEmptySeq
    <3> QED
      BY <1>0, <2>2, <3>1, <3>2, <3>3 DEF Before
  <2> QED
    BY <2>1, <2>2
<1>4. Src' = Src
  BY <1>0 DEF Src, Out
<1>5. Line' = Line /\ Len(Line) \in Nat
  BY <1>0, <1>2, <1>3, <1>4, ConcatEmptySeq, LenProperties DEF Line
<1>6. Numbered(Line, 0, TRUE, path, k)
  <2>1. Numbered(Line, 0, up, path, k) /\ 0 = 0
    BY <1>1, <1>2
  <2> QED
    BY ONLY <1>5, <2>1, Relink
<1>7. Numbered(Line', Len(Before'), up', path', k)
  BY <1>0, <1>2, <1>3, <1>5, <1>6
<1>8. ~resumed' => PageOK(k)'
  <2>1. ~resumed' => ~resumed
    BY <1>0 DEF LinkOK
  <2> QED
    BY <1>0, <1>1, <2>1 DEF PageOK
<1> QED
  BY <1>0, <1>7, <1>8 DEF OrderOK

\* What still arrives, and a part of the next frame: of the reports in front of the
\* robot's, the last are missing.
LEMMA BreakOrder ==
  ASSUME Types, LinkOK, SessionOK, OrderOK, Break PROVE OrderOK'
<1>0. /\ up /\ up' = FALSE /\ UNCHANGED <<stale, resumed, path, tx, server, out_pdu, seen, pipe>>
      /\ UNCHANGED <<client, rx_pdu, frame>>
      /\ net \in Seq(Positions) /\ Src \in Seq(Positions) /\ Len(net) \in Nat
      /\ Line \in Seq(Positions) /\ Len(path) \in Nat
  BY LineTypes, LenProperties DEF Break, robot, sensing, reader, page
<1> SUFFICES ASSUME ~stale PROVE OrderOK'
  BY <1>0 DEF OrderOK
<1>1. PICK k \in 1..Len(path) : /\ Numbered(Line, Len(Before), up, path, k)
                                /\ ~resumed => PageOK(k)
  BY DEF OrderOK
<1>2. ~resumed' => PageOK(k)'
  BY <1>0, <1>1 DEF PageOK
<1>3. Src' = Src /\ (Reading' <=> Reading) /\ Got' = Got /\ k \in Nat
  BY <1>0 DEF Src, Out, Reading, Got
<1>4. CASE ~Reading
  <2>1. Before = << >> /\ Before' = << >> /\ Len(Before) = 0 /\ Line' = Line
    BY <1>3, <1>4, EmptySeq DEF Before, Line
  <2>2. Len(Line) \in Nat
    BY <1>0, LenProperties
  <2>3. Numbered(Line, 0, FALSE, path, k)
    <3>1. Numbered(Line, 0, up, path, k) /\ 0 = 0
      BY <1>1, <2>1
    <3> QED
      BY ONLY <2>2, <3>1, Relink
  <2> QED
    BY <1>0, <1>2, <2>1, <2>3 DEF OrderOK
<1>5. CASE Reading
  <2>0. Got \in Seq(Positions) /\ Part = << >> /\ Before = Got \o net
    <3>1. Got \in Seq(Positions) /\ Part = << >>
      BY <1>0, <1>5, LineTypes DEF Part, LinkOK
    <3> QED
      BY <1>0, <1>5, <3>1, ConcatEmptySeq DEF Before
  <2>1. PICK n \in 0..Len(net) :
         /\ net' = SubSeq(net, 1, n)
         /\ end' \in IF n < Len(net) THEN Ends ELSE {"close", "none"}
         /\ part' = IF end' \in {"x", "y", "msg"} THEN net[n + 1] ELSE Start
    BY DEF Break
  <2>2. PICK c \in Seq(Positions) :
          net' \o Part' \in Seq(Positions) /\ net = (net' \o Part') \o c
    <3>0. \A i \in Int : \A m \in Nat : i >= 1 /\ m <= Len(net) => SubSeq(net, i, m) \in Seq(Positions)
      <4>1. ASSUME NEW i \in Int, NEW m \in Nat, i >= 1, m <= Len(net)
            PROVE  SubSeq(net, i, m) \in Seq(Positions)
        <5>1. \A l \in i..m : net[l] \in Positions
          BY <1>0, <4>1, LenProperties
        <5> QED
          BY <4>1, <5>1, SubSeqProperties
      <4> QED
        BY <4>1
    <3>1. CASE end' \notin {"x", "y", "msg"}
      <4>1. Part' = << >> /\ n \in Nat /\ n + 1 \in Int /\ n <= Len(net) /\ n + 1 >= 1
        BY <1>0, <3>1 DEF Part
      <4>2. net' \in Seq(Positions) /\ SubSeq(net, n + 1, Len(net)) \in Seq(Positions)
        BY <1>0, <2>1, <3>0, <4>1
      <4>3. net' \o Part' = net'
        BY <4>1, <4>2, ConcatEmptySeq
      <4>4. SubSeq(net, 1, n) \o SubSeq(net, n + 1, Len(net)) = SubSeq(net, 1, Len(net))
        <5>1. 1 \in 1..(Len(net) + 1) /\ n \in (1 - 1)..Len(net) /\ Len(net) \in n..Len(net)
          BY <1>0, <2>1
        <5> QED
          BY <1>0, <5>1, ConcatAdjacentSubSeq
      <4>5. SubSeq(net, 1, Len(net)) = net
        BY <1>0, SubSeqFull
      <4> QED
        BY <2>1, <4>2, <4>3, <4>4, <4>5
    <3>2. CASE end' \in {"x", "y", "msg"}
      <4>1. n < Len(net)
        BY <2>1, <3>2
      <4>2. /\ n + 1 \in 1..Len(net) /\ n \in Nat /\ n + 1 \in Nat /\ n <= Len(net)
            /\ 1 \in 1..Len(net) /\ (n + 1) - 1 = n /\ (n + 1) + 1 \in Int /\ (n + 1) + 1 >= 1
        BY <1>0, <2>1, <4>1
      <4>3. Part' = <<net[n + 1]>>
        BY <2>1, <3>2 DEF Part
      <4>4. SubSeq(net, 1, n + 1) = SubSeq(net, 1, (n + 1) - 1) \o <<net[n + 1]>>
        BY <1>0, <4>2, SubSeqRecursiveSecond
      <4>5. net' \o Part' = SubSeq(net, 1, n + 1)
        BY <2>1, <4>2, <4>3, <4>4
      <4>6. SubSeq(net, 1, n + 1) \o SubSeq(net, (n + 1) + 1, Len(net)) = SubSeq(net, 1, Len(net))
        <5>1. /\ 1 \in 1..(Len(net) + 1) /\ n + 1 \in (1 - 1)..Len(net)
              /\ Len(net) \in (n + 1)..Len(net)
          BY <1>0, <4>2
        <5> QED
          BY <1>0, <5>1, ConcatAdjacentSubSeq
      <4>7. SubSeq(net, 1, Len(net)) = net
        BY <1>0, SubSeqFull
      <4>8. SubSeq(net, 1, n + 1) \in Seq(Positions) /\ SubSeq(net, (n + 1) + 1, Len(net)) \in Seq(Positions)
        BY <1>0, <3>0, <4>2
      <4> QED
        BY <4>5, <4>6, <4>7, <4>8
    <3> QED
      BY <3>1, <3>2
  <2> DEFINE b == net' \o Part'
  <2>3. Before' = Got \o b
    BY <1>3, <1>5 DEF Before
  <2>4. Before' \in Seq(Positions)
    BY <2>0, <2>2, <2>3, ConcatProperties
  <2>5. Line = Before' \o (c \o Src)
    <3>1. b \in Seq(Positions) /\ net = b \o c /\ Src \in Seq(Positions)
      BY <1>0, <2>2
    <3> HIDE DEF b
    <3>2. Got \o (b \o c) = (Got \o b) \o c
      BY <2>0, <2>2, <3>1, ConcatPositions
    <3>3. Before = Before' \o c
      BY <2>0, <2>3, <3>1, <3>2
    <3>4. (Before' \o c) \o Src = Before' \o (c \o Src)
      <4>1. Before' \in Seq(Positions) /\ c \in Seq(Positions) /\ Src \in Seq(Positions)
        BY <2>2, <2>4, <3>1
      <4> QED
        BY ONLY <4>1, ConcatAssociative
    <3> QED
      BY <3>3, <3>4 DEF Line
  <2>6. Numbered(Before' \o Src, Len(Before'), FALSE, path, k)
    <3>1. Numbered(Before' \o (c \o Src), Len(Before), TRUE, path, k)
      <4>1. up = TRUE
        BY <1>0 DEF Types, TypeOK
      <4> QED
        BY <1>1, <2>5, <4>1
    <3>2. Len(Before) \in Nat /\ Src \in Seq(Positions) /\ Len(path) \in Nat /\ k \in Nat
      BY <1>0, <1>3, LineTypes
    <3> QED
      BY ONLY <2>4, <3>1, <3>2, CutAt
  <2>7. Numbered(Line', Len(Before'), up', path', k)
    BY <1>0, <1>3, <2>6 DEF Line
  <2> QED
    BY <1>0, <1>2, <2>7 DEF OrderOK
<1> QED
  BY <1>4, <1>5

\* The feeder appends report k, the page finds the first in the pipe.
LEMMA PageOrder ==
  ASSUME Types, LinkOK, SessionOK, OrderOK, Feed \/ Show \/ Reopen PROVE OrderOK'
<1>0. /\ UNCHANGED <<stale, resumed, path, up, tx, server, out_pdu, client, rx_pdu, frame, net, end, part>>
      /\ pipe \in Seq(Fields) /\ Len(pipe) \in Nat /\ path \in Seq(Positions) /\ Len(path) \in Nat
      /\ seen \in Nat /\ rx_pdu \in Fields /\ waiting \in Nat
  BY LenProperties DEF Feed, Show, Reopen, robot, sensing, link, reader, Types, TypeOK
<1>1. Before' = Before /\ Line' = Line
  BY <1>0, SameBefore DEF Line, Src, Out
<1>2. CASE resumed
  BY <1>0, <1>1, <1>2, SameOrder
<1>3. CASE ~resumed
  <2> SUFFICES ASSUME ~stale PROVE OrderOK'
    BY <1>0 DEF OrderOK
  <2>1. PICK k \in 1..Len(path) : Numbered(Line, Len(Before), up, path, k) /\ PageOK(k)
    BY <1>3 DEF OrderOK
  <2>2. SUFFICES PageOK(k)'
    BY <1>0, <1>1, <2>1, <2>2 DEF OrderOK
  <2>3. 1 <= seen /\ seen <= k /\ (Proper(rx_pdu) => Shows(path, k, Pos(rx_pdu))) /\ k \in Nat
    BY <1>0, <2>1 DEF PageOK
  <2>4. PICK g \in [1..Len(pipe) -> seen..k] : PipeNumbering(g, pipe, path)
    BY <2>1 DEF PageOK
  <2>5. CASE Reopen
    BY <1>0, <2>1, <2>5 DEF Reopen, PageOK
  <2>6. CASE Feed
    <3>1. waiting > 0 /\ pipe' = Append(pipe, rx_pdu) /\ seen' = seen
      BY <2>6 DEF Feed, page
    <3>2. /\ Len(pipe') = Len(pipe) + 1 /\ pipe'[Len(pipe) + 1] = rx_pdu
          /\ \A i \in 1..Len(pipe) : pipe'[i] = pipe[i]
      BY <1>0, <3>1, AppendProperties
    <3>3. rx_pdu.cmd => Shows(path, k, Pos(rx_pdu))
      <4>1. Proper(rx_pdu) \/ rx_pdu = Unset
        BY <1>3, <3>1 DEF SessionOK
      <4> QED
        BY <2>3, <4>1, UnsetEmpty
    <3> DEFINE h == [i \in 1..Len(pipe') |-> IF i = Len(pipe) + 1 THEN k ELSE g[i]]
    <3>4. /\ \A i \in 1..Len(pipe) : i \in 1..Len(pipe') /\ i # Len(pipe) + 1 /\ g[i] \in seen..k
          /\ Len(pipe) + 1 \in 1..Len(pipe') /\ k \in seen..k
          /\ \A i \in 1..Len(pipe') : i \in 1..Len(pipe) \/ i = Len(pipe) + 1
      <4>1. Len(pipe) \in Nat /\ Len(pipe') = Len(pipe) + 1
        BY <1>0, <3>2
      <4>2. \A i \in 1..Len(pipe) : i \in 1..Len(pipe') /\ i # Len(pipe) + 1
        BY ONLY <4>1
      <4>3. \A i \in 1..Len(pipe) : g[i] \in seen..k
        BY <2>4, Zenon
      <4>4. /\ Len(pipe) + 1 \in 1..Len(pipe')
            /\ \A i \in 1..Len(pipe') : i \in 1..Len(pipe) \/ i = Len(pipe) + 1
        BY ONLY <4>1
      <4>5. k \in seen..k
        BY <1>0, <2>3
      <4> QED
        BY <4>2, <4>3, <4>4, <4>5, Zenon
    <3>5. /\ \A i \in 1..Len(pipe) : h[i] = g[i]
          /\ h[Len(pipe) + 1] = k
      BY <3>4
    <3>6. h \in [1..Len(pipe') -> seen..k]
      BY <3>4
    <3> HIDE DEF h
    <3>7. ASSUME NEW i \in 1..Len(pipe'), pipe'[i].cmd PROVE Shows(path, h[i], Pos(pipe'[i]))
      <4>1. CASE i \in 1..Len(pipe)
        BY <2>4, <3>2, <3>5, <3>7, <4>1 DEF PipeNumbering
      <4>2. CASE i = Len(pipe) + 1
        BY <3>2, <3>3, <3>5, <3>7, <4>2
      <4> QED
        BY <3>4, <4>1, <4>2
    <3>8. ASSUME NEW i1 \in 1..Len(pipe'), NEW i2 \in 1..Len(pipe'), i1 <= i2 PROVE h[i1] <= h[i2]
      <4>1. CASE i2 \in 1..Len(pipe)
        <5>1. i1 \in 1..Len(pipe)
          BY <1>0, <3>8, <4>1
        <5> QED
          BY <2>4, <3>5, <3>8, <4>1, <5>1 DEF PipeNumbering
      <4>2. CASE i2 = Len(pipe) + 1
        <5>1. h[i1] \in seen..k /\ h[i2] = k
          BY <3>5, <3>6, <4>2
        <5> QED
          BY <1>0, <2>3, <5>1
      <4> QED
        BY <3>4, <4>1, <4>2
    <3>9. PipeNumbering(h, pipe', path')
      BY <1>0, <3>7, <3>8 DEF PipeNumbering
    <3>10. \E f \in [1..Len(pipe') -> seen'..k] : PipeNumbering(f, pipe', path')
      BY <3>1, <3>6, <3>9
    <3>11. 1 <= seen' /\ seen' <= k /\ (Proper(rx_pdu') => Shows(path', k, Pos(rx_pdu')))
      BY <1>0, <2>3, <3>1
    <3> QED
      BY <3>10, <3>11, Zenon DEF PageOK
  <2>7. CASE Show
    <3>1. pipe # << >> /\ pipe' = Tail(pipe)
      BY <2>7 DEF Show
    <3>2. /\ Len(pipe) > 0 /\ Len(pipe') = Len(pipe) - 1 /\ Head(pipe) = pipe[1]
          /\ \A i \in 1..Len(pipe') : pipe'[i] = pipe[i + 1]
      BY <1>0, <3>1, HeadOf
    <3>3. /\ 1 \in 1..Len(pipe) /\ g[1] \in seen..k
          /\ \A i \in 1..Len(pipe') : i + 1 \in 1..Len(pipe) /\ g[i + 1] \in seen..k
      <4>1. Len(pipe) \in Nat /\ Len(pipe) > 0 /\ Len(pipe') = Len(pipe) - 1
        BY <1>0, <3>2
      <4>2. 1 \in 1..Len(pipe) /\ \A i \in 1..Len(pipe') : i + 1 \in 1..Len(pipe)
        BY ONLY <4>1
      <4>3. \A i \in 1..Len(pipe) : g[i] \in seen..k
        BY <2>4, Zenon
      <4> QED
        BY <4>2, <4>3, Zenon
    <3>4. 1 <= seen' /\ seen' <= g[1]
      <4>1. CASE ~Head(pipe).cmd
        <5>1. seen' = seen
          BY <2>7, <4>1 DEF Show, page
        <5> QED
          BY <1>0, <2>3, <3>3, <5>1
      <4>2. CASE Head(pipe).cmd
        <5>1. Proper(Head(pipe))
          BY <1>3, <3>2, <3>3, <4>2 DEF SessionOK
        <5>2. seen' = Found(seen, wheelson_pos') /\ wheelson_pos' = Pos(Head(pipe))
          BY <2>7, <5>1 DEF Show, Proper, Pos
        <5>3. Shows(path, g[1], Pos(Head(pipe)))
          BY <2>4, <3>2, <3>3, <4>2 DEF PipeNumbering
        <5>4. g[1] \in 1..Len(path) /\ seen <= g[1]
          BY <1>0, <2>3, <3>3
        <5>5. seen <= Found(seen, wheelson_pos') /\ Found(seen, wheelson_pos') <= g[1]
              /\ Found(seen, wheelson_pos') \in 0..Len(path)
          BY <1>0, <2>3, <5>2, <5>3, <5>4, FoundFirst
        <5> QED
          BY <1>0, <2>3, <5>2, <5>4, <5>5
      <4> QED
        BY <4>1, <4>2
    <3> DEFINE h == [i \in 1..Len(pipe') |-> g[i + 1]]
    <3>5. h \in [1..Len(pipe') -> seen'..k]
      <4>1. ASSUME NEW i \in 1..Len(pipe') PROVE h[i] \in seen'..k
        <5>1. i + 1 \in 1..Len(pipe) /\ 1 <= i + 1 /\ g[i + 1] \in seen..k
          BY <1>0, <3>2, <3>3
        <5>2. g[1] <= g[i + 1]
          BY <2>4, <3>3, <5>1 DEF PipeNumbering
        <5>3. seen' \in Nat
          <6>1. Types'
            BY PageTypes
          <6>2. Len(path') \in Nat /\ seen' \in 0..Len(path')
            BY <1>0, <6>1 DEF Types, TypeOK
          <6> QED
            BY <6>2
        <5> QED
          BY <1>0, <2>3, <3>3, <3>4, <5>1, <5>2, <5>3
      <4> QED
        BY <4>1
    <3>6. \A i \in 1..Len(pipe') : h[i] = g[i + 1]
      OBVIOUS
    <3> HIDE DEF h
    <3>7. ASSUME NEW i \in 1..Len(pipe'), pipe'[i].cmd PROVE Shows(path, h[i], Pos(pipe'[i]))
      BY <2>4, <3>2, <3>3, <3>6, <3>7 DEF PipeNumbering
    <3>8. ASSUME NEW i1 \in 1..Len(pipe'), NEW i2 \in 1..Len(pipe'), i1 <= i2 PROVE h[i1] <= h[i2]
      <4>1. i1 + 1 \in 1..Len(pipe) /\ i2 + 1 \in 1..Len(pipe) /\ i1 + 1 <= i2 + 1
        BY <1>0, <3>2, <3>8
      <4>2. g[i1 + 1] <= g[i2 + 1]
        BY <2>4, <4>1 DEF PipeNumbering
      <4> QED
        BY <3>6, <4>2
    <3>9. PipeNumbering(h, pipe', path')
      BY <1>0, <3>7, <3>8 DEF PipeNumbering
    <3>10. \E f \in [1..Len(pipe') -> seen'..k] : PipeNumbering(f, pipe', path')
      BY <3>5, <3>9
    <3>11. 1 <= seen' /\ seen' <= k /\ (Proper(rx_pdu') => Shows(path', k, Pos(rx_pdu')))
      <4>1. seen' \in Int /\ g[1] \in Int /\ g[1] <= k
        <5>1. Types'
          BY PageTypes
        <5>2. seen' \in Int
          BY <1>0, <5>1 DEF Types, TypeOK
        <5> QED
          BY <1>0, <2>3, <3>3, <5>2
      <4> QED
        BY <1>0, <2>3, <3>4, <4>1
    <3> QED
      BY <3>10, <3>11, Zenon DEF PageOK
  <2> QED
    BY <2>5, <2>6, <2>7
<1> QED
  BY <1>2, <1>3

LEMMA NextIInv == IInv /\ [Next]_vars => IInv'
<1> SUFFICES ASSUME IInv, [Next]_vars PROVE IInv'
  OBVIOUS
<1>0. Types /\ LinkOK /\ SessionOK /\ OrderOK
  BY DEF IInv
<1>1. Types' /\ LinkOK' /\ SessionOK'
  BY <1>0, NextTypes, NextLink
<1>2. OrderOK'
  <2>1. CASE Report \/ SensorReads \/ SensorPuts \/ Get \/ Send \/ SendNowhere
    BY <1>0, <1>1, <2>1, RobotOrder
  <2>2. CASE Accept \/ Break
    BY <1>0, <2>2, AcceptOrder, BreakOrder
  <2>3. CASE ParseX \/ ParseY \/ Put \/ Hang \/ Resume \/ LastPart \/ PutForEver \/ Restart
    BY <1>0, <2>3, ParseXOrder, ParseYOrder, PutOrder, HangOrder, ResumeOrder
  <2>4. CASE Feed \/ Show \/ Reopen
    BY <1>0, <2>4, PageOrder
  <2>5. CASE UNCHANGED vars
    <3>1. Before' = Before
      BY <2>5, SameBefore DEF vars
    <3>2. Line' = Line
      BY <2>5, <3>1 DEF vars, Line, Src, Out
    <3> QED
      BY <1>0, <2>5, <3>1, <3>2, SameOrder DEF vars
  <2> QED
    BY <2>1, <2>2, <2>3, <2>4, <2>5 DEF Next
<1> QED
  BY <1>1, <1>2 DEF IInv

----------------------------------------------------------------------------
(* Theorems                                                                  *)

\* IInv holds in every reachable state.
THEOREM Invariance == Spec => []IInv
<1>1. Init => IInv
  BY InitTypes, InitLink, InitOrder DEF IInv
<1> QED
  BY <1>1, NextIInv, PTL DEF Spec

\* Types and ranges, for any size of FIFO, connection and queues and any number of
\* reports.
THEOREM TypeCorrect == Spec => []TypeOK
<1>1. IInv => TypeOK
  BY DEF IInv, Types
<1> QED
  BY <1>1, Invariance, PTL

\* The page lives and shows positions the robot reported, in their order, although the
\* feeder may mix the fields of two reports; what it mixes shows where a report jumps
\* along both axes.
THEOREM PageIsReal == Spec => []ShownIsReal
<1>1. IInv => ShownIsReal
  <2>1. ASSUME IInv, ~resumed PROVE session /\ (stale \/ seen # 0)
    <3>1. session
      BY <2>1 DEF IInv, SessionOK
    <3>2. ASSUME ~stale PROVE seen # 0
      <4>1. PICK k \in 1..Len(path) : PageOK(k)
        BY <2>1, <3>2 DEF IInv, OrderOK
      <4> QED
        BY <4>1 DEF PageOK
    <3> QED
      BY <3>1, <3>2
  <2> QED
    BY <2>1 DEF ShownIsReal
<1> QED
  BY <1>1, Invariance, PTL
=============================================================================
