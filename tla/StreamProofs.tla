------------------------------ MODULE StreamProofs ------------------------------
(***************************************************************************)
(* What becomes of characters on their way: the lines receiveText makes    *)
(* of a stream that comes in pieces, the words Player::apply finds in a    *)
(* line and its answers, and the pairs of the socket example.  Three       *)
(* programs that share no state; of each, one section.                     *)
(***************************************************************************)
EXTENDS TelnetLine, Commands, SocketExample, SequenceTheorems,
        FiniteSetTheorems, WellFoundedInduction, TLAPS

(***************************************************************************)
(* TelnetLine.                                                             *)
(***************************************************************************)

(* What is not returned yet: the rest of the buffer, and what comes.       *)
stream == SubSeq(current, at + 1, at + len) \o wire

(* A line t in u behind m, with its end at n.  A CR may be NUL by now. *)
LineAt(u, m, n, t) ==
  /\ n = m + Len(t) + 1 \/ (n = m + Len(t) + 2 /\ u[n - 1] \in {CR, NUL})
  /\ u[n] = LF
  /\ \A j \in 1 .. Len(t) : u[m + j] = t[j]

(* u is the lines ps, cut at the places f; every CR is before its LF.       *)
CutAt(u, ps, f) ==
  /\ f[0] = 0 /\ f[Len(ps)] = Len(u)
  /\ \A j, k \in 0 .. Len(ps) : j <= k => f[j] <= f[k]
  /\ \A k \in 1 .. Len(ps) : LineAt(u, f[k - 1], f[k], ps[k])
Framed(u, ps) ==
  /\ \E f \in [0 .. Len(ps) -> Nat] : CutAt(u, ps, f)
  /\ \A j \in 1 .. Len(u) : u[j] = CR => j < Len(u) /\ u[j + 1] = LF

LinesWait == Framed(stream, pending)

(* Why the loop was left. *)
LoopWasLeft == pc = "cut" =>
  hasEnd(current) \/ (closed /\ wire = <<>>) \/ len = MAX_TELNET_BUFFER

IInv == TypeOK /\ LinesWait /\ LoopWasLeft
---------------------------------------------------------------------------

LEMMA Bounds ==
  /\ MAX_TELNET_BUFFER \in Nat \ {0} /\ MaxLines \in Nat
  /\ CR # LF /\ NUL # CR /\ NUL # LF
BY TelnetAssumption

LEMMA TextsAre ==
  ASSUME NEW t \in Texts
  PROVE  /\ t \in Seq(Char) /\ Len(t) \in Nat
         /\ \A j \in 1 .. Len(t) : t[j] # CR /\ t[j] # LF /\ t[j] # NUL
<1>1. t \in Seq(ToSet(t)) /\ {CR, LF, NUL} \cap ToSet(t) = {}
  BY TelnetAssumption
<1>2. \A j \in 1 .. Len(t) : t[j] \in ToSet(t)
  BY <1>1, ElementOfSeq
<1>3. ToSet(t) \subseteq Char
  BY DEF Char
<1>. QED
  BY <1>1, <1>2, <1>3, LenProperties, SeqMonotonic

LEMMA EndsAre ==
  ASSUME NEW e \in Ends
  PROVE  /\ e \in Seq(Char)
         /\ \/ Len(e) = 1 /\ e[1] = LF
            \/ Len(e) = 2 /\ e[1] = CR /\ e[2] = LF
<1>1. CR \in Char /\ LF \in Char
  <2>1. CR \in {CR, LF, NUL} /\ LF \in {CR, LF, NUL}
    OBVIOUS
  <2>2. \A x \in {CR, LF, NUL} : x \in Char
    BY Zenon DEF Char
  <2>. QED
    BY <2>1, <2>2, Zenon
<1>2. CASE e = <<LF>>
  BY <1>1, <1>2
<1>3. CASE e = <<CR, LF>>
  BY <1>1, <1>3
<1>. QED
  BY <1>2, <1>3 DEF Ends

(* The first place with an x, which SelectInSeq takes. *)
LEMMA FirstPlace ==
  ASSUME NEW s, NEW n \in Nat, NEW x, NEW i \in 1 .. n, s[i] = x,
         \A j \in 1 .. i - 1 : s[j] # x
  PROVE  Min({k \in 1 .. n : s[k] = x}) = i
<1> DEFINE I == {k \in 1 .. n : s[k] = x}
<1>1. i \in I /\ \A y \in I : i <= y
  <2>1. i \in I
    OBVIOUS
  <2>2. ASSUME NEW y \in I, ~(i <= y) PROVE FALSE
    <3>1. y \in 1 .. i - 1
      BY <2>2
    <3>. QED
      BY <2>2, <3>1
  <2>. QED
    BY <2>1, <2>2
<1>2. \A z \in I : (\A y \in I : z <= y) => z = i
  <2>1. \A z \in I : z \in Nat /\ i \in Nat
    OBVIOUS
  <2>2. \A z \in I : z <= i /\ i <= z => z = i
    BY <2>1
  <2>. QED
    BY <1>1, <2>2
<1>3. (CHOOSE z \in I : \A y \in I : z <= y) = i
  <2> HIDE DEF I
  <2>. QED
    BY <1>1, <1>2
<1>. QED
  BY <1>3 DEF Min

(* A buffer c with l characters behind the first a, and w on the wire. *)
LEMMA StreamOf ==
  ASSUME NEW c \in Seq(Char), NEW w \in Seq(Char), NEW a \in Nat, NEW l \in Nat, Len(c) = a + l
  PROVE  /\ SubSeq(c, a + 1, a + l) \o w \in Seq(Char)
         /\ Len(SubSeq(c, a + 1, a + l) \o w) = l + Len(w)
         /\ \A j \in 1 .. l + Len(w) :
              (SubSeq(c, a + 1, a + l) \o w)[j] = IF j <= l THEN c[a + j] ELSE w[j - l]
<1> DEFINE r == SubSeq(c, a + 1, a + l)
<1>1. \A i \in a + 1 .. a + l : c[i] \in Char
  BY ElementOfSeq
<1>2. r \in Seq(Char) /\ Len(r) = l /\ \A i \in 1 .. l : r[i] = c[a + i]
  BY <1>1, SubSeqProperties
<1>3. Len(w) \in Nat
  BY LenProperties
<1>. HIDE DEF r
<1>4. /\ r \o w \in Seq(Char) /\ Len(r \o w) = Len(r) + Len(w)
      /\ \A i \in 1 .. Len(r) + Len(w) : (r \o w)[i] = IF i <= Len(r) THEN r[i] ELSE w[i - Len(r)]
  BY <1>2, ConcatProperties
<1>5. \A j \in 1 .. l + Len(w) : (r \o w)[j] = IF j <= l THEN c[a + j] ELSE w[j - l]
  <2> TAKE j \in 1 .. l + Len(w)
  <2>1. CASE j <= l
    <3>1. j \in 1 .. l
      BY <1>3, <2>1
    <3>. QED
      BY <1>2, <1>4, <2>1, <3>1
  <2>2. CASE ~(j <= l)
    BY <1>2, <1>4, <2>2
  <2>. QED
    BY <2>1, <2>2
<1>. QED
  BY <1>2, <1>4, <1>5 DEF r

(* Where the lines are cut. *)
LEMMA Places ==
  ASSUME NEW u \in Seq(Char), NEW ps \in Seq(Texts), NEW f \in [0 .. Len(ps) -> Nat],
         CutAt(u, ps, f), NEW k \in 1 .. Len(ps)
  PROVE  /\ ps[k] \in Texts /\ Len(ps[k]) \in Nat
         /\ f[k - 1] \in Nat /\ f[k] \in 1 .. Len(u) /\ f[k - 1] <= f[k]
         /\ f[k] = f[k - 1] + Len(ps[k]) + 2 => f[k] - 1 \in 1 .. Len(u)
         /\ \A j \in 1 .. Len(ps[k]) : f[k - 1] + j \in 1 .. Len(u)
<1> DEFINE n == Len(ps)
           a == f[k - 1]
           b == f[k]
           c == Len(ps[k])
           d == Len(u)
<1>1. n \in Nat /\ d \in Nat /\ ps[k] \in Texts /\ c \in Nat
  BY LenProperties, ElementOfSeq, TextsAre
<1>2. k \in 0 .. n /\ k - 1 \in 0 .. n /\ n \in 0 .. n /\ k <= n /\ k - 1 <= k
  BY <1>1
<1>3. a \in Nat /\ b \in Nat /\ a <= b /\ b <= d
  BY <1>2 DEF CutAt
<1>4. b = a + c + 1 \/ b = a + c + 2
  BY DEF CutAt, LineAt
<1> HIDE DEF a, b, c, d
<1>5. /\ b \in 1 .. d /\ (b = a + c + 2 => b - 1 \in 1 .. d)
      /\ \A j \in 1 .. c : a + j \in 1 .. d
  BY <1>1, <1>3, <1>4
<1>. QED
  BY <1>1, <1>3, <1>5 DEF a, b, c, d

(* The peer writes one more line. *)
LEMMA AnotherLine ==
  ASSUME NEW u \in Seq(Char), NEW ps \in Seq(Texts), NEW t \in Texts, NEW e \in Ends,
         Framed(u, ps)
  PROVE  Framed(u \o (t \o e), Append(ps, t))
<1> DEFINE v == u \o (t \o e)
           qs == Append(ps, t)
           n == Len(ps)
<1>1. PICK f \in [0 .. n -> Nat] : CutAt(u, ps, f)
  BY DEF Framed
<1>2. /\ n \in Nat /\ Len(u) \in Nat /\ Len(t) \in Nat /\ Len(e) \in Nat
  BY LenProperties, TextsAre, EndsAre
<1>3. /\ t \o e \in Seq(Char) /\ Len(t \o e) = Len(t) + Len(e)
      /\ \A i \in 1 .. Len(t) : (t \o e)[i] = t[i]
      /\ \A i \in 1 .. Len(e) : (t \o e)[Len(t) + i] = e[i]
  <2>1. /\ t \o e \in Seq(Char) /\ Len(t \o e) = Len(t) + Len(e)
        /\ \A i \in 1 .. Len(t) + Len(e) : (t \o e)[i] = IF i <= Len(t) THEN t[i] ELSE e[i - Len(t)]
    BY TextsAre, EndsAre, ConcatProperties
  <2>. QED
    BY <1>2, <2>1
<1>4. /\ v \in Seq(Char) /\ Len(v) = Len(u) + Len(t) + Len(e)
      /\ \A i \in 1 .. Len(u) : v[i] = u[i]
      /\ \A i \in 1 .. Len(t) : v[Len(u) + i] = t[i]
      /\ \A i \in 1 .. Len(e) : v[Len(u) + Len(t) + i] = e[i]
  <2> DEFINE w == t \o e
  <2>1. w \in Seq(Char) /\ Len(w) = Len(t) + Len(e)
    BY <1>3
  <2> HIDE DEF w
  <2>2. /\ u \o w \in Seq(Char) /\ Len(u \o w) = Len(u) + Len(w)
        /\ \A i \in 1 .. Len(u) + Len(w) : (u \o w)[i] = IF i <= Len(u) THEN u[i] ELSE w[i - Len(u)]
    BY <2>1, ConcatProperties
  <2>3. /\ \A i \in 1 .. Len(u) : (u \o w)[i] = u[i]
        /\ \A i \in 1 .. Len(w) : (u \o w)[Len(u) + i] = w[i]
    BY <1>2, <2>1, <2>2
  <2>4. /\ \A i \in 1 .. Len(t) : w[i] = t[i] /\ i \in 1 .. Len(w)
        /\ \A i \in 1 .. Len(e) : w[Len(t) + i] = e[i] /\ Len(t) + i \in 1 .. Len(w)
              /\ Len(u) + (Len(t) + i) = Len(u) + Len(t) + i
    BY <1>2, <1>3, <2>1 DEF w
  <2>5. /\ \A i \in 1 .. Len(t) : (u \o w)[Len(u) + i] = t[i]
        /\ \A i \in 1 .. Len(e) : (u \o w)[Len(u) + Len(t) + i] = e[i]
    BY <2>3, <2>4
  <2>6. u \o w \in Seq(Char) /\ Len(u \o w) = Len(u) + Len(t) + Len(e)
    BY <1>2, <2>1, <2>2
  <2>. QED
    BY <2>3, <2>5, <2>6 DEF w
<1> HIDE DEF v
<1>5. /\ qs \in Seq(Texts) /\ Len(qs) = n + 1 /\ qs[n + 1] = t
      /\ \A k \in 1 .. n : qs[k] = ps[k]
  BY AppendProperties
<1>lv. Len(v) \in Nat /\ Len(u) <= Len(v) /\ Len(u) + Len(t) < Len(v)
  <2>1. Len(e) = 1 \/ Len(e) = 2
    BY EndsAre
  <2>2. Len(v) = Len(u) + Len(t) + Len(e)
    BY <1>4
  <2> DEFINE a == Len(u)
             b == Len(t)
             c == Len(e)
             d == Len(v)
  <2>3. a \in Nat /\ b \in Nat /\ (c = 1 \/ c = 2) /\ d = a + b + c
    BY <1>2, <2>1, <2>2
  <2> HIDE DEF a, b, c, d
  <2>4. d \in Nat /\ a <= d /\ a + b < d
    BY <2>3
  <2>. QED
    BY <2>4 DEF a, b, d
<1> HIDE DEF qs
<1> DEFINE g == [k \in 0 .. n + 1 |-> IF k <= n THEN f[k] ELSE Len(v)]
<1>6. /\ g \in [0 .. n + 1 -> Nat] /\ g[n + 1] = Len(v)
      /\ \A k \in 0 .. n : g[k] = f[k] /\ f[k] \in Nat
  <2>1. /\ \A k \in 0 .. n : k \in 0 .. n + 1 /\ k <= n
        /\ n + 1 \in 0 .. n + 1 /\ ~(n + 1 <= n)
        /\ \A k \in 0 .. n + 1 : k <= n => k \in 0 .. n
    BY <1>2
  <2>2. \A k \in 0 .. n : f[k] \in Nat
    OBVIOUS
  <2>. QED
    BY <1>lv, <2>1, <2>2, Zenon
<1> HIDE DEF g
<1>7. f[n] = Len(u) /\ \A k \in 0 .. n : f[k] <= Len(u)
  <2>1. f[n] = Len(u) /\ \A k \in 0 .. n : k <= n => f[k] <= f[n]
    BY <1>1, <1>2 DEF CutAt
  <2>. QED
    BY <1>2, <2>1
<1>8. g[0] = 0
  BY <1>1, <1>2, <1>6 DEF CutAt
<1>9. \A j, k \in 0 .. n + 1 : j <= k => g[j] <= g[k]
  <2> SUFFICES ASSUME NEW j \in 0 .. n + 1, NEW k \in 0 .. n + 1, j <= k PROVE g[j] <= g[k]
    OBVIOUS
  <2>1. CASE k <= n
    <3>1. j \in 0 .. n /\ k \in 0 .. n
      BY <1>2, <2>1
    <3>2. f[j] <= f[k]
      BY <1>1, <3>1 DEF CutAt
    <3>. QED
      BY <1>6, <3>1, <3>2
  <2>2. CASE k = n + 1 /\ j <= n
    <3>1. j \in 0 .. n
      BY <1>2, <2>2
    <3>2. f[j] <= Len(v)
      <4>1. f[j] \in Nat /\ f[j] <= Len(u)
        BY <1>6, <1>7, <3>1
      <4>. QED
        BY <1>2, <1>lv, <4>1
    <3>. QED
      BY <1>6, <2>2, <3>1, <3>2
  <2>3. CASE k = n + 1 /\ j = n + 1
    BY <1>2, <1>4, <1>6, <2>3
  <2>. QED
    BY <1>2, <2>1, <2>2, <2>3
<1>10. ASSUME NEW k \in 1 .. n + 1 PROVE LineAt(v, g[k - 1], g[k], qs[k])
  <2>1. CASE k \in 1 .. n
    <3>1. LineAt(u, f[k - 1], f[k], ps[k])
      BY <1>1, <2>1 DEF CutAt
    <3>2. k \in 0 .. n /\ k - 1 \in 0 .. n
      BY <1>2, <2>1
    <3>4. LineAt(v, f[k - 1], f[k], ps[k])
      <4>1. /\ f[k] \in 1 .. Len(u)
            /\ f[k] = f[k - 1] + Len(ps[k]) + 2 => f[k] - 1 \in 1 .. Len(u)
            /\ \A j \in 1 .. Len(ps[k]) : f[k - 1] + j \in 1 .. Len(u)
        BY <1>1, <2>1, Places
      <4>. QED
        BY <1>4, <3>1, <4>1 DEF LineAt
    <3>. QED
      BY <1>5, <1>6, <2>1, <3>2, <3>4
  <2>2. CASE k = n + 1
    <3>1. g[k - 1] = Len(u) /\ g[k] = Len(v) /\ qs[k] = t
      BY <1>2, <1>5, <1>6, <1>7, <2>2
    <3>2. LineAt(v, Len(u), Len(v), t)
      <4>1. CASE Len(e) = 1 /\ e[1] = LF
        <5>1. Len(v) = Len(u) + Len(t) + 1 /\ 1 \in 1 .. Len(e)
          BY <1>4, <4>1
        <5>2. v[Len(v)] = LF
          BY <1>4, <4>1, <5>1
        <5>. QED
          BY <1>4, <5>1, <5>2 DEF LineAt
      <4>2. CASE Len(e) = 2 /\ e[1] = CR /\ e[2] = LF
        <5>1. /\ Len(v) = Len(u) + Len(t) + 2 /\ Len(v) - 1 = Len(u) + Len(t) + 1
              /\ 1 \in 1 .. Len(e) /\ 2 \in 1 .. Len(e)
          BY <1>2, <1>4, <4>2
        <5>2. v[Len(v)] = LF /\ v[Len(v) - 1] = CR
          BY <1>4, <4>2, <5>1
        <5>. QED
          BY <1>4, <5>1, <5>2 DEF LineAt
      <4>. QED
        BY <4>1, <4>2, EndsAre
    <3>. QED
      BY <3>1, <3>2
  <2>. QED
    BY <1>2, <2>1, <2>2
<1>11. ASSUME NEW j \in 1 .. Len(v), v[j] = CR PROVE j < Len(v) /\ v[j + 1] = LF
  <2>1. CASE j \in 1 .. Len(u)
    <3>1. u[j] = CR
      BY <1>4, <1>11, <2>1
    <3>2. j < Len(u) /\ u[j + 1] = LF
      BY <2>1, <3>1 DEF Framed
    <3>3. j + 1 \in 1 .. Len(u) /\ j < Len(v)
      BY <1>2, <1>4, <2>1, <3>2
    <3>. QED
      BY <1>4, <3>2, <3>3
  <2>2. CASE \E i \in 1 .. Len(t) : j = Len(u) + i
    BY <1>4, <1>11, <2>2, TextsAre
  <2>3. CASE \E i \in 1 .. Len(e) : j = Len(u) + Len(t) + i
    <3>1. PICK i \in 1 .. Len(e) : j = Len(u) + Len(t) + i
      BY <2>3
    <3>2. e[i] = CR
      BY <1>4, <1>11, <3>1
    <3>3. Len(e) = 2 /\ i = 1 /\ e[2] = LF
      <4>1. CASE Len(e) = 1 /\ e[1] = LF
        BY <3>2, <4>1, Bounds
      <4>2. CASE Len(e) = 2 /\ e[1] = CR /\ e[2] = LF
        <5>1. i = 1 \/ i = 2
          BY <4>2
        <5>. QED
          BY <3>2, <4>2, <5>1, Bounds
      <4>. QED
        BY <4>1, <4>2, EndsAre
    <3>4. j + 1 = Len(u) + Len(t) + 2 /\ 2 \in 1 .. Len(e) /\ j < Len(v)
      BY <1>2, <1>4, <3>1, <3>3
    <3>. QED
      BY <1>4, <3>3, <3>4
  <2>4. \/ j \in 1 .. Len(u)
        \/ \E i \in 1 .. Len(t) : j = Len(u) + i
        \/ \E i \in 1 .. Len(e) : j = Len(u) + Len(t) + i
    <3>1. j \in Nat /\ j >= 1 /\ j <= Len(u) + Len(t) + Len(e)
      BY <1>2, <1>4, <1>lv
    <3>2. CASE j <= Len(u)
      BY <1>2, <3>1, <3>2
    <3>3. CASE j > Len(u) /\ j <= Len(u) + Len(t)
      <4>1. j - Len(u) \in 1 .. Len(t) /\ j = Len(u) + (j - Len(u))
        BY <1>2, <3>1, <3>3
      <4>. QED
        BY <4>1, Zenon
    <3>4. CASE j > Len(u) + Len(t)
      <4>1. /\ j - (Len(u) + Len(t)) \in 1 .. Len(e)
            /\ j = Len(u) + Len(t) + (j - (Len(u) + Len(t)))
        BY <1>2, <3>1, <3>4
      <4>. QED
        BY <4>1, Zenon
    <3>. QED
      BY <1>2, <3>1, <3>2, <3>3, <3>4
  <2>. QED
    BY <2>1, <2>2, <2>3, <2>4
<1>12. CutAt(v, qs, g)
  BY <1>5, <1>6, <1>8, <1>9, <1>10 DEF CutAt
<1>13. Framed(v, qs)
  BY <1>5, <1>6, <1>11, <1>12 DEF Framed
<1>. QED
  BY <1>13 DEF v, qs

(* The buffer was cut without a line in it: its CRs are NUL now. *)
LEMMA Blanked ==
  ASSUME NEW u \in Seq(Char), NEW v \in Seq(Char), NEW ps \in Seq(Texts),
         Framed(u, ps), Len(v) = Len(u),
         \A j \in 1 .. Len(u) : v[j] = u[j] \/ (u[j] = CR /\ v[j] = NUL)
  PROVE  Framed(v, ps)
<1>1. PICK f \in [0 .. Len(ps) -> Nat] : CutAt(u, ps, f)
  BY DEF Framed
<1>2. ASSUME NEW k \in 1 .. Len(ps) PROVE LineAt(v, f[k - 1], f[k], ps[k])
  <2>1. LineAt(u, f[k - 1], f[k], ps[k])
    BY <1>1 DEF CutAt
  <2>2. /\ f[k] \in 1 .. Len(u) /\ ps[k] \in Texts
        /\ f[k] = f[k - 1] + Len(ps[k]) + 2 => f[k] - 1 \in 1 .. Len(u)
        /\ \A j \in 1 .. Len(ps[k]) : f[k - 1] + j \in 1 .. Len(u)
    BY <1>1, Places
  <2>3. v[f[k]] = LF
    BY <2>1, <2>2, Bounds DEF LineAt
  <2>4. f[k] = f[k - 1] + Len(ps[k]) + 2 /\ u[f[k] - 1] \in {CR, NUL} => v[f[k] - 1] \in {CR, NUL}
    BY <2>2
  <2>5. ASSUME NEW j \in 1 .. Len(ps[k]) PROVE v[f[k - 1] + j] = ps[k][j]
    <3>1. u[f[k - 1] + j] = ps[k][j]
      BY <2>1 DEF LineAt
    <3>2. ps[k][j] # CR
      BY <2>2, TextsAre
    <3>. QED
      BY <2>2, <3>1, <3>2
  <2>. QED
    BY <2>1, <2>3, <2>4, <2>5 DEF LineAt
<1>3. CutAt(v, ps, f)
  BY <1>1, <1>2 DEF CutAt
<1>4. ASSUME NEW j \in 1 .. Len(v), v[j] = CR PROVE j < Len(v) /\ v[j + 1] = LF
  <2>1. u[j] = CR
    BY <1>4, Bounds
  <2>2. j < Len(u) /\ u[j + 1] = LF
    BY <2>1 DEF Framed
  <2>3. j + 1 \in 1 .. Len(u)
    BY <2>2, LenProperties
  <2>. QED
    BY <2>2, <2>3, Bounds
<1>. QED
  BY <1>3, <1>4 DEF Framed

(* The first line of a stream: it ends at its first LF. *)
LEMMA FirstLine ==
  ASSUME NEW u \in Seq(Char), NEW ps \in Seq(Texts), Framed(u, ps),
         NEW i \in 1 .. Len(u), u[i] = LF, \A j \in 1 .. i - 1 : u[j] # LF
  PROVE  /\ ps # <<>> /\ ps[1] \in Texts /\ LineAt(u, 0, i, ps[1])
         /\ \E f \in [0 .. Len(ps) -> Nat] : CutAt(u, ps, f) /\ f[1] = i
<1>1. PICK f \in [0 .. Len(ps) -> Nat] : CutAt(u, ps, f)
  BY DEF Framed
<1>2. Len(ps) \in Nat /\ Len(u) \in Nat
  BY LenProperties
<1>3. Len(ps) # 0
  <2>1. Len(ps) = 0 => Len(u) = 0
    BY <1>1 DEF CutAt
  <2>. QED
    BY <1>2, <2>1
<1>4. ps # <<>> /\ 1 \in 1 .. Len(ps)
  BY <1>2, <1>3, EmptySeq
<1>5. LineAt(u, 0, f[1], ps[1])
  BY <1>1, <1>4 DEF CutAt
<1>6. f[1] \in 1 .. Len(u) /\ ps[1] \in Texts /\ Len(ps[1]) \in Nat
  BY <1>1, <1>4, Places
<1>7. ~(f[1] < i)
  <2>1. f[1] < i => f[1] \in 1 .. i - 1
    BY <1>6
  <2>. QED
    BY <1>5, <2>1 DEF LineAt
<1>8. ~(i < f[1])
  <2> SUFFICES ASSUME i < f[1] PROVE FALSE
    OBVIOUS
  <2>1. i \in 1 .. Len(ps[1]) \/ (f[1] = Len(ps[1]) + 2 /\ i = f[1] - 1)
    BY <1>5, <1>6 DEF LineAt
  <2>2. CASE i \in 1 .. Len(ps[1])
    <3>1. u[0 + i] = ps[1][i] /\ 0 + i = i
      BY <1>5, <2>2 DEF LineAt
    <3>. QED
      BY <1>6, <2>2, <3>1, TextsAre
  <2>3. CASE f[1] = Len(ps[1]) + 2 /\ i = f[1] - 1
    <3>1. f[1] # 0 + Len(ps[1]) + 1
      BY <1>6, <2>3
    <3>. QED
      BY <1>5, <2>3, <3>1, Bounds DEF LineAt
  <2>. QED
    BY <2>1, <2>2, <2>3
<1>9. f[1] = i
  BY <1>6, <1>7, <1>8
<1>. QED
  BY <1>1, <1>4, <1>5, <1>6, <1>9

(* What follows it is the other lines. *)
LEMMA OtherLines ==
  ASSUME NEW u \in Seq(Char), NEW ps \in Seq(Texts), Framed(u, ps), ps # <<>>,
         NEW f \in [0 .. Len(ps) -> Nat], CutAt(u, ps, f),
         NEW v \in Seq(Char), Len(v) = Len(u) - f[1],
         \A j \in 1 .. Len(v) : v[j] = u[f[1] + j]
  PROVE  Framed(v, Tail(ps))
<1> DEFINE qs == Tail(ps)
           n == Len(qs)
           i == f[1]
<1>1. /\ qs \in Seq(Texts) /\ n \in Nat /\ Len(ps) = n + 1
      /\ \A k \in 1 .. n : qs[k] = ps[k + 1]
  BY HeadTailProperties, LenProperties
<1> HIDE DEF qs, n
<1>2. 1 \in 1 .. Len(ps) /\ 1 \in 0 .. Len(ps)
  BY <1>1
<1>3. i \in 1 .. Len(u) /\ i \in Nat /\ Len(u) \in Nat
  BY <1>2, Places, LenProperties
<1> HIDE DEF i
<1>4. \A k \in 0 .. n : k + 1 \in 0 .. Len(ps) /\ 1 <= k + 1
  BY <1>1
<1>5. \A k \in 0 .. n : f[k + 1] \in Nat /\ i <= f[k + 1]
  BY <1>2, <1>4 DEF CutAt, i
<1> DEFINE g == [k \in 0 .. n |-> f[k + 1] - i]
<1>6. g \in [0 .. n -> Nat]
  BY <1>3, <1>5
<1>7. g[0] = 0 /\ g[n] = Len(v)
  <2>1. 0 \in 0 .. n /\ n \in 0 .. n /\ 0 + 1 = 1
    BY <1>1
  <2>2. f[n + 1] = Len(u)
    BY <1>1 DEF CutAt
  <2>. QED
    BY <1>3, <2>1, <2>2 DEF i
<1>8. \A j, k \in 0 .. n : j <= k => g[j] <= g[k]
  <2> TAKE j, k \in 0 .. n
  <2> HAVE j <= k
  <2>1. f[j + 1] <= f[k + 1]
    <3>1. j + 1 \in 0 .. Len(ps) /\ k + 1 \in 0 .. Len(ps) /\ j + 1 <= k + 1
      BY <1>1, <1>4
    <3>. QED
      BY <3>1 DEF CutAt
  <2>. QED
    BY <1>3, <1>5, <2>1
<1>9. ASSUME NEW k \in 1 .. n PROVE LineAt(v, g[k - 1], g[k], qs[k])
  <2> DEFINE a == f[k]
             b == f[k + 1]
             c == Len(qs[k])
  <2>1. k + 1 \in 1 .. Len(ps) /\ (k + 1) - 1 = k /\ k \in 0 .. n /\ k - 1 \in 0 .. n /\ (k - 1) + 1 = k
    BY <1>1
  <2>2. LineAt(u, a, b, qs[k])
    BY <1>1, <2>1 DEF CutAt
  <2>3. /\ a \in Nat /\ b \in 1 .. Len(u) /\ c \in Nat
        /\ b = a + c + 2 => b - 1 \in 1 .. Len(u)
        /\ \A j \in 1 .. c : a + j \in 1 .. Len(u)
    <3>1. /\ f[(k + 1) - 1] \in Nat /\ f[k + 1] \in 1 .. Len(u) /\ Len(ps[k + 1]) \in Nat
          /\ f[k + 1] = f[(k + 1) - 1] + Len(ps[k + 1]) + 2 => f[k + 1] - 1 \in 1 .. Len(u)
          /\ \A j \in 1 .. Len(ps[k + 1]) : f[(k + 1) - 1] + j \in 1 .. Len(u)
      <4> DEFINE p == k + 1
      <4>1. p \in 1 .. Len(ps)
        BY <2>1
      <4> HIDE DEF p
      <4>2. /\ f[p - 1] \in Nat /\ f[p] \in 1 .. Len(u) /\ Len(ps[p]) \in Nat
            /\ f[p] = f[p - 1] + Len(ps[p]) + 2 => f[p] - 1 \in 1 .. Len(u)
            /\ \A j \in 1 .. Len(ps[p]) : f[p - 1] + j \in 1 .. Len(u)
        BY <4>1, Places
      <4>. QED
        BY <4>2 DEF p
    <3>2. qs[k] = ps[k + 1]
      BY <1>1
    <3>. QED
      BY <2>1, <3>1, <3>2
  <2>4. g[k - 1] = a - i /\ g[k] = b - i /\ i <= a
    BY <1>5, <2>1
  <2> HIDE DEF g, a, b
  <2>5. b = a + c + 1 \/ (b = a + c + 2 /\ u[b - 1] \in {CR, NUL})
    BY <2>2 DEF LineAt
  <2> HIDE DEF c
  <2>6. /\ b - i \in 1 .. Len(v) /\ i + (b - i) = b
        /\ b = a + c + 2 => (b - i) - 1 \in 1 .. Len(v) /\ i + ((b - i) - 1) = b - 1
    BY <1>3, <2>3, <2>4, <2>5 DEF i
  <2>7. \A j \in 1 .. c : (a - i) + j \in 1 .. Len(v) /\ i + ((a - i) + j) = a + j
    <3> TAKE j \in 1 .. c
    <3> DEFINE d == Len(u)
               e == Len(v)
    <3>0. a + j \in 1 .. d /\ a \in Nat
      BY <2>3
    <3>1. i \in Nat /\ i <= a /\ d \in Nat /\ e = d - i
      BY <1>3, <2>4 DEF i
    <3>h. j \in Nat /\ j >= 1
      BY <2>3
    <3> HIDE DEF d, e
    <3>2. (a - i) + j \in 1 .. e /\ i + ((a - i) + j) = a + j
      BY <3>0, <3>1, <3>h
    <3>. QED
      BY <3>2 DEF e
  <2>8. v[b - i] = LF
    BY <2>2, <2>6 DEF LineAt, i
  <2>9. \A j \in 1 .. c : v[(a - i) + j] = qs[k][j]
    BY <2>2, <2>7 DEF LineAt, i, c
  <2>10. \/ b - i = (a - i) + c + 1
         \/ b - i = (a - i) + c + 2 /\ v[(b - i) - 1] \in {CR, NUL}
    <3>1. CASE b = a + c + 1
      BY <1>3, <2>3, <3>1
    <3>2. CASE b = a + c + 2 /\ u[b - 1] \in {CR, NUL}
      <4>1. b - i = (a - i) + c + 2
        BY <1>3, <2>3, <3>2
      <4>2. v[(b - i) - 1] = u[b - 1]
        BY <2>6, <3>2 DEF i
      <4>. QED
        BY <3>2, <4>1, <4>2
    <3>. QED
      BY <2>5, <3>1, <3>2
  <2>. QED
    BY <2>4, <2>8, <2>9, <2>10 DEF LineAt, c
<1>10. CutAt(v, qs, g)
  BY <1>7, <1>8, <1>9 DEF CutAt, n
<1> HIDE DEF g
<1>11. ASSUME NEW j \in 1 .. Len(v), v[j] = CR PROVE j < Len(v) /\ v[j + 1] = LF
  <2>1. i + j \in 1 .. Len(u) /\ u[i + j] = CR
    BY <1>3, <1>11 DEF i
  <2>2. i + j < Len(u) /\ u[i + j + 1] = LF
    BY <2>1 DEF Framed
  <2>3. j < Len(v) /\ j + 1 \in 1 .. Len(v) /\ i + j + 1 = i + (j + 1)
    BY <1>3, <2>2 DEF i
  <2>. QED
    BY <2>2, <2>3 DEF i
<1>12. Framed(v, qs)
  BY <1>6, <1>10, <1>11 DEF Framed, n
<1>. QED
  BY <1>12 DEF qs

---------------------------------------------------------------------------

(* The first of the first n places of s that holds x. *)
LEMMA ThereIsAFirst ==
  ASSUME NEW s, NEW n \in Nat, NEW x, \E k \in 1 .. n : s[k] = x
  PROVE  \E i \in 1 .. n : s[i] = x /\ \A j \in 1 .. i - 1 : s[j] # x
<1> DEFINE I == {k \in 1 .. n : s[k] = x}
           R == OpToRel(<, Nat)
<1>1. I \subseteq Nat /\ I # {}
  OBVIOUS
<1>2. PICK i \in I : \A j \in I : ~(<<j, i>> \in R)
  <2> HIDE DEF I
  <2>. QED
    BY <1>1, NatLessThanWellFounded, WFMin, Zenon
<1>3. ASSUME NEW j \in 1 .. i - 1, s[j] = x PROVE FALSE
  <2>1. j \in I /\ j < i /\ j \in Nat /\ i \in Nat
    BY <1>3
  <2>. QED
    BY <1>2, <2>1 DEF OpToRel
<1>. QED
  BY <1>3

(* The buffer after the last pass. *)
LEMMA EndedIs ==
  ASSUME NEW s \in Seq(Char), NEW n \in Nat
  PROVE  /\ ended(s, n) \in Seq(Char) /\ Len(ended(s, n)) = Len(s)
         /\ \A k \in 1 .. Len(s) :
              ended(s, n)[k] = IF k <= n /\ (s[k] = CR \/ s[k] = LF) THEN NUL ELSE s[k]
<1> DEFINE d == ended(s, n)
<1>1. Len(s) \in Nat /\ \A k \in 1 .. Len(s) : s[k] \in Char
  BY LenProperties, ElementOfSeq
<1>2. NUL \in Char
  <2>1. NUL \in {CR, LF, NUL}
    OBVIOUS
  <2>. QED
    BY <2>1, Zenon DEF Char
<1>3. /\ d \in [1 .. Len(s) -> Char]
      /\ \A k \in 1 .. Len(s) : d[k] = IF k <= n /\ (s[k] = CR \/ s[k] = LF) THEN NUL ELSE s[k]
  BY <1>1, <1>2 DEF ended, isEnd
<1> HIDE DEF d
<1>4. d \in Seq(Char) /\ Len(d) = Len(s)
  BY <1>1, <1>3, LenProperties
<1>. QED
  BY <1>3, <1>4 DEF d

(* The text that is returned is the line.  A CR before its LF is NUL then, *)
(* and so the string ends with the text either way.                        *)
LEMMA TextOfLine ==
  ASSUME NEW s \in Seq(Char), NEW i \in 1 .. Len(s), NEW t \in Texts, LineAt(s, 0, i, t)
  PROVE  cString(ended(s, i)) = t
<1> DEFINE d == ended(s, i)
           p == Len(t) + 1
           I == {k \in 1 .. Len(d) : d[k] = NUL}
<1>1. /\ Len(s) \in Nat /\ Len(t) \in Nat /\ i \in Nat
  BY LenProperties, TextsAre
<1>2. /\ d \in Seq(Char) /\ Len(d) = Len(s)
      /\ \A k \in 1 .. Len(s) : d[k] = IF k <= i /\ (s[k] = CR \/ s[k] = LF) THEN NUL ELSE s[k]
  BY <1>1, EndedIs
<1>3. i = Len(t) + 1 \/ (i = Len(t) + 2 /\ s[i - 1] \in {CR, NUL})
  BY <1>1 DEF LineAt
<1>4. p \in 1 .. Len(s) /\ p <= i /\ \A j \in 1 .. Len(t) : j \in 1 .. Len(s) /\ j \in 1 .. p - 1 /\ 0 + j = j
  BY <1>1, <1>3
<1>5. p - 1 = Len(t) /\ Len(t) >= 0
  BY <1>1
<1> HIDE DEF d
<1>6. d[p] = NUL
  <2>1. CASE i = Len(t) + 1
    <3>1. s[p] = LF
      BY <2>1 DEF LineAt
    <3>. QED
      BY <1>2, <1>4, <3>1
  <2>2. CASE i = Len(t) + 2 /\ s[i - 1] \in {CR, NUL}
    <3>1. i - 1 = p
      BY <1>1, <2>2
    <3>. QED
      BY <1>2, <1>4, <2>2, <3>1
  <2>. QED
    BY <1>3, <2>1, <2>2
<1>7. \A j \in 1 .. Len(t) : d[j] = t[j] /\ t[j] # NUL
  <2> TAKE j \in 1 .. Len(t)
  <2>1. s[j] = t[j]
    BY <1>4 DEF LineAt
  <2>2. t[j] # CR /\ t[j] # LF /\ t[j] # NUL
    BY TextsAre
  <2>. QED
    BY <1>2, <1>4, <2>1, <2>2
<1>8. Min(I) = p /\ p \in I
  <2>1. p \in 1 .. Len(d) /\ Len(d) \in Nat
    BY <1>1, <1>2, <1>4
  <2>2. \A j \in 1 .. p - 1 : d[j] # NUL
    BY <1>5, <1>7
  <2> HIDE DEF p
  <2>3. Min({k \in 1 .. Len(d) : d[k] = NUL}) = p
    BY <1>6, <2>1, <2>2, FirstPlace
  <2>. QED
    BY <1>6, <2>1, <2>3
<1>9. SelectInSeq(d, LAMBDA ch : ch = NUL) = p
  BY <1>8 DEF SelectInSeq
<1>10. NUL \in ToSet(d)
  <2>1. p \in DOMAIN d
    BY <1>2, <1>4, LenProperties
  <2>. QED
    BY <1>6, <2>1, Zenon DEF ToSet
<1>11. cString(d) = SubSeq(d, 1, Len(t))
  BY <1>5, <1>9, <1>10 DEF cString
<1>12. SubSeq(d, 1, Len(t)) = t
  <2>1. t \in Seq(Char)
    BY TextsAre
  <2>2. \A k \in 1 .. Len(t) : d[k] \in Char
    BY <1>7, <2>1, ElementOfSeq
  <2>3. /\ SubSeq(d, 1, Len(t)) \in Seq(Char) /\ Len(SubSeq(d, 1, Len(t))) = Len(t)
        /\ \A k \in 1 .. Len(t) : SubSeq(d, 1, Len(t))[k] = d[k]
    <3>1. /\ SubSeq(d, 1, Len(t)) \in Seq(Char)
          /\ Len(SubSeq(d, 1, Len(t))) = IF 1 <= Len(t) THEN Len(t) - 1 + 1 ELSE 0
          /\ \A k \in 1 .. Len(t) - 1 + 1 : SubSeq(d, 1, Len(t))[k] = d[1 + k - 1]
      BY <1>1, <2>2, SubSeqProperties
    <3>2. /\ (IF 1 <= Len(t) THEN Len(t) - 1 + 1 ELSE 0) = Len(t)
          /\ Len(t) - 1 + 1 = Len(t) /\ \A k \in 1 .. Len(t) : 1 + k - 1 = k
      BY <1>1
    <3>. QED
      BY <3>1, <3>2
  <2>. QED
    BY <1>7, <2>1, <2>3, SeqEqual
<1>. QED
  BY <1>11, <1>12 DEF d

---------------------------------------------------------------------------

LEMMA StreamIs ==
  ASSUME TypeOK
  PROVE  /\ stream \in Seq(Char) /\ Len(stream) = len + Len(wire)
         /\ \A j \in 1 .. len + Len(wire) :
              stream[j] = IF j <= len THEN current[at + j] ELSE wire[j - len]
<1>1. current \in Seq(Char) /\ wire \in Seq(Char) /\ at \in Nat /\ len \in Nat /\ Len(current) = at + len
  BY Bounds DEF TypeOK
<1>. QED
  BY <1>1, StreamOf DEF stream

(* While a call runs, the buffer is what is left, at its front. *)
LEMMA InTheCall ==
  ASSUME TypeOK, pc # "app"
  PROVE  /\ at = 0 /\ current \in Seq(Char) /\ wire \in Seq(Char)
         /\ len \in Nat /\ Len(wire) \in Nat /\ Len(current) = len
         /\ stream \in Seq(Char) /\ Len(stream) = len + Len(wire)
         /\ \A j \in 1 .. len + Len(wire) : stream[j] = IF j <= len THEN current[j] ELSE wire[j - len]
<1>1. at = 0 /\ current \in Seq(Char) /\ wire \in Seq(Char) /\ len \in Nat /\ Len(current) = at + len
  BY Bounds DEF TypeOK
<1>2. Len(wire) \in Nat /\ Len(current) = len
  BY <1>1, LenProperties
<1>3. \A j \in 1 .. len + Len(wire) : at + j = j
  BY <1>1, <1>2
<1>. QED
  BY <1>1, <1>2, <1>3, StreamIs

LEMMA Regroup ==
  ASSUME NEW a \in Seq(Char), NEW b \in Seq(Char), NEW c \in Seq(Char)
  PROVE  (a \o b) \o c = a \o (b \o c)
BY ConcatAssociative

LEMMA InitFits == Init => IInv
<1> SUFFICES ASSUME Init PROVE IInv
  OBVIOUS
<1> USE DEF Init
<1>0. <<>> \in Seq(Char) /\ Len(<<>>) = 0 /\ <<>> \in Seq(Texts)
  OBVIOUS
<1>n. 0 \in 0 .. MAX_TELNET_BUFFER /\ 0 <= MAX_TELNET_BUFFER /\ 0 \in 0 .. MaxLines
  BY Bounds
<1>1. TypeOK
  <2>1. Len(current) = at + len /\ at + len <= MAX_TELNET_BUFFER
    BY <1>0, <1>n
  <2>. QED
    BY <1>0, <1>n, <2>1 DEF TypeOK, Null, Nothing
<1>2. Len(stream) = 0
  BY <1>0, <1>1, StreamIs
<1>3. CutAt(stream, <<>>, [k \in 0 .. Len(<<>>) |-> 0])
  BY <1>0, <1>2 DEF CutAt
<1>4. [k \in 0 .. Len(<<>>) |-> 0] \in [0 .. Len(<<>>) -> Nat]
  OBVIOUS
<1>5. LinesWait
  <2>1. \E f \in [0 .. Len(pending) -> Nat] : CutAt(stream, pending, f)
    BY <1>3, <1>4, Zenon
  <2>2. \A j \in 1 .. Len(stream) : FALSE
    BY <1>2
  <2>. QED
    BY <2>1, <2>2, Zenon DEF LinesWait, Framed
<1>. QED
  BY <1>1, <1>5 DEF IInv, LoopWasLeft

(* memmove: what is left is the same, at the front.                        *)
LEMMA CallFits == IInv /\ Call => IInv'
<1> SUFFICES ASSUME IInv, Call PROVE IInv'
  OBVIOUS
<1> DEFINE c == SubSeq(current, at + 1, at + len)
<1>1. /\ current \in Seq(Char) /\ wire \in Seq(Char) /\ at \in Nat /\ len \in Nat /\ Len(current) = at + len
      /\ len <= MAX_TELNET_BUFFER /\ len \in 0 .. MAX_TELNET_BUFFER
  BY Bounds DEF TypeOK, IInv
<1>2. c \in Seq(Char) /\ Len(c) = len /\ \A j \in 1 .. len : c[j] = current[at + j]
  <2>1. \A i \in at + 1 .. at + len : current[i] \in Char
    BY <1>1, ElementOfSeq
  <2>. QED
    BY <1>1, <2>1, SubSeqProperties
<1>3. current' = c /\ at' = 0 /\ len' = len /\ wire' = wire /\ pending' = pending /\ pc' = "scan"
  BY DEF Call, peer
<1>4. TypeOK'
  <2>1. 0 + len = len /\ 0 \in 0 .. MAX_TELNET_BUFFER
    BY <1>1, Bounds
  <2>. QED
    BY <1>1, <1>2, <1>3, <2>1 DEF TypeOK, IInv, Call, peer
<1>5. stream' = stream
  <2> HIDE DEF c
  <2>1. stream' = SubSeq(c, 0 + 1, 0 + len) \o wire
    BY <1>3 DEF stream
  <2>2. SubSeq(c, 0 + 1, 0 + len) = c
    <3>1. SubSeq(c, 1, Len(c)) = c
      BY <1>2, SubSeqFull
    <3>. QED
      BY <1>1, <1>2, <3>1
  <2>. QED
    BY <2>1, <2>2 DEF stream, c
<1>6. LinesWait'
  BY <1>3, <1>5 DEF LinesWait, IInv
<1>. QED
  BY <1>3, <1>4, <1>6 DEF IInv, LoopWasLeft

LEMMA ScanFits == IInv /\ Scan => IInv'
<1> SUFFICES ASSUME IInv, Scan PROVE IInv'
  OBVIOUS
<1> USE DEF Scan, line, peer
<1>1. TypeOK'
  BY DEF TypeOK, IInv
<1>2. LinesWait'
  BY DEF LinesWait, IInv, stream
<1>3. LoopWasLeft'
  BY DEF LoopWasLeft, hasEnd
<1>. QED
  BY <1>1, <1>2, <1>3 DEF IInv

(* A piece moves from the wire to the buffer. *)
LEMMA ReceiveFits == IInv /\ Receive => IInv'
<1> SUFFICES ASSUME IInv, Receive PROVE IInv'
  OBVIOUS
<1>1. /\ at = 0 /\ current \in Seq(Char) /\ wire \in Seq(Char)
      /\ len \in Nat /\ Len(wire) \in Nat /\ Len(current) = len /\ len <= MAX_TELNET_BUFFER
  BY InTheCall DEF Receive, IInv, TypeOK
<1>2. PICK k \in 1 .. Len(wire) :
        /\ k <= MAX_TELNET_BUFFER - len
        /\ current' = current \o SubSeq(wire, 1, k)
        /\ len' = len + k
        /\ wire' = SubSeq(wire, k + 1, Len(wire))
  BY DEF Receive
<1> DEFINE a == SubSeq(wire, 1, k)
           b == SubSeq(wire, k + 1, Len(wire))
<1>3. a \in Seq(Char) /\ Len(a) = k /\ b \in Seq(Char) /\ a \o b = wire
  <2>1. \A i \in 1 .. Len(wire) : wire[i] \in Char
    BY <1>1, ElementOfSeq
  <2>2. /\ a \in Seq(Char) /\ Len(a) = k /\ \A i \in 1 .. k : a[i] = wire[i]
    BY <1>1, <2>1, SubSeqProperties
  <2>3. b \in Seq(Char) /\ Len(b) = Len(wire) - k /\ \A i \in 1 .. Len(wire) - k : b[i] = wire[k + i]
    BY <1>1, <2>1, SubSeqProperties
  <2> HIDE DEF a, b
  <2>4. /\ a \o b \in Seq(Char) /\ Len(a \o b) = Len(a) + Len(b)
        /\ \A i \in 1 .. Len(a) + Len(b) : (a \o b)[i] = IF i <= Len(a) THEN a[i] ELSE b[i - Len(a)]
    BY <2>2, <2>3, ConcatProperties
  <2>5. Len(a \o b) = Len(wire)
    BY <1>1, <2>2, <2>3, <2>4
  <2>6. \A i \in 1 .. Len(a \o b) : (a \o b)[i] = wire[i]
    BY <1>1, <2>2, <2>3, <2>4
  <2>. QED
    BY <1>1, <2>2, <2>3, <2>4, <2>5, <2>6, SeqEqual
<1> HIDE DEF a, b
<1>4. current' = current \o a /\ wire' = b /\ len' = len + k /\ at' = 0
      /\ pending' = pending /\ pc' = "scan" /\ timeout' = timeout /\ result' = result
      /\ closed' = closed /\ told' = told
  BY <1>1, <1>2 DEF Receive, a, b
<1>5. current' \in Seq(Char) /\ Len(current') = len + k
  BY <1>1, <1>3, <1>4, ConcatProperties
<1>6. len + k \in Nat /\ 0 + (len + k) = len + k /\ len + k <= MAX_TELNET_BUFFER
      /\ len + k \in 0 .. MAX_TELNET_BUFFER /\ 0 \in 0 .. MAX_TELNET_BUFFER
  BY <1>1, <1>2, Bounds
<1>7. TypeOK'
  BY <1>3, <1>4, <1>5, <1>6 DEF TypeOK, IInv
<1>8. stream' = stream
  <2>1. stream' = (current \o a) \o b
    <3>1. stream' = SubSeq(current', 0 + 1, 0 + (len + k)) \o b
      BY <1>4 DEF stream
    <3>2. SubSeq(current', 0 + 1, 0 + (len + k)) = current'
      <4>1. SubSeq(current', 1, Len(current')) = current'
        BY <1>5, SubSeqFull
      <4>. QED
        BY <1>5, <1>6, <4>1
    <3>. QED
      BY <1>4, <3>1, <3>2
  <2>2. stream = current \o wire
    <3>1. SubSeq(current, 1, Len(current)) = current
      BY <1>1, SubSeqFull
    <3>2. SubSeq(current, at + 1, at + len) = current
      BY <1>1, <3>1
    <3>. QED
      BY <3>2 DEF stream
  <2>3. (current \o a) \o b = current \o (a \o b)
    BY <1>1, <1>3, Regroup, Zenon
  <2>. QED
    BY <1>3, <2>1, <2>2, <2>3
<1>9. LinesWait'
  BY <1>4, <1>8 DEF LinesWait, IInv
<1>. QED
  BY <1>4, <1>7, <1>9 DEF IInv, LoopWasLeft

LEMMA NothingFits == IInv /\ ReceiveNothing => IInv'
<1> SUFFICES ASSUME IInv, ReceiveNothing PROVE IInv'
  OBVIOUS
<1> USE DEF ReceiveNothing, line, peer
<1>1. TypeOK'
  BY DEF TypeOK, IInv
<1>2. LinesWait'
  BY DEF LinesWait, IInv, stream
<1>3. LoopWasLeft'
  BY DEF LoopWasLeft
<1>. QED
  BY <1>1, <1>2, <1>3 DEF IInv

LEMMA FailFits == IInv /\ ReceiveFails => IInv'
<1> SUFFICES ASSUME IInv, ReceiveFails PROVE IInv'
  OBVIOUS
<1> USE DEF ReceiveFails, line, peer
<1>1. TypeOK'
  BY DEF TypeOK, IInv
<1>2. LinesWait'
  BY DEF LinesWait, IInv, stream
<1>. QED
  BY <1>1, <1>2 DEF IInv, LoopWasLeft

LEMMA CloseFits == IInv /\ Close => IInv'
<1> SUFFICES ASSUME IInv, Close PROVE IInv'
  OBVIOUS
<1> USE DEF Close, line
<1>1. TypeOK'
  BY DEF TypeOK, IInv
<1>2. LinesWait'
  BY DEF LinesWait, IInv, stream
<1>3. LoopWasLeft'
  BY DEF LoopWasLeft, IInv, hasEnd
<1>. QED
  BY <1>1, <1>2, <1>3 DEF IInv

LEMMA TellFits ==
  ASSUME IInv, NEW t \in Texts, NEW e \in Ends, Tell(t, e)
  PROVE  IInv'
<1>1. /\ wire' = wire \o t \o e /\ pending' = Append(pending, t) /\ told' = told + 1
      /\ current' = current /\ at' = at /\ len' = len /\ pc' = pc /\ closed' = closed /\ ~closed
      /\ timeout' = timeout /\ result' = result /\ told < MaxLines
  BY DEF Tell, line
<1>2. /\ wire \in Seq(Char) /\ pending \in Seq(Texts) /\ stream \in Seq(Char)
      /\ t \in Seq(Char) /\ e \in Seq(Char)
  BY StreamIs, TextsAre, EndsAre DEF IInv, TypeOK
<1>3. wire' \in Seq(Char) /\ t \o e \in Seq(Char) /\ wire' = wire \o (t \o e)
  BY <1>1, <1>2, ConcatProperties, ConcatAssociative
<1>4. Append(pending, t) \in Seq(Texts) /\ told + 1 \in 0 .. MaxLines
  BY <1>1, <1>2, Bounds DEF IInv, TypeOK
<1>5. TypeOK'
  BY <1>1, <1>3, <1>4 DEF IInv, TypeOK
<1>6. stream' = stream \o (t \o e)
  <2> DEFINE r == SubSeq(current, at + 1, at + len)
  <2>1. r \in Seq(Char)
    <3>1. at \in Nat /\ len \in Nat /\ Len(current) = at + len /\ current \in Seq(Char)
      BY Bounds DEF IInv, TypeOK
    <3>2. \A i \in at + 1 .. at + len : current[i] \in Char
      BY <3>1, ElementOfSeq
    <3>. QED
      BY <3>1, <3>2, SubSeqProperties
  <2>2. stream' = r \o wire' /\ stream = r \o wire
    BY <1>1 DEF stream
  <2> HIDE DEF r
  <2>. QED
    <3>1. (r \o wire) \o (t \o e) = r \o (wire \o (t \o e))
      <4>1. /\ r \in Seq(Char) /\ wire \in Seq(Char) /\ t \o e \in Seq(Char)
        BY <1>2, <1>3, <2>1
      <4> DEFINE x == t \o e
      <4> HIDE DEF x
      <4>2. x \in Seq(Char)
        BY <4>1 DEF x
      <4>3. (r \o wire) \o x = r \o (wire \o x)
        BY <4>1, <4>2, Regroup
      <4>. QED
        BY <4>3 DEF x
    <3>. QED
      BY <1>3, <2>2, <3>1, Zenon
<1>7. LinesWait'
  BY <1>1, <1>2, <1>6, AnotherLine DEF LinesWait, IInv
<1>8. LoopWasLeft'
  BY <1>1 DEF LoopWasLeft, IInv, hasEnd
<1>. QED
  BY <1>5, <1>7, <1>8 DEF IInv

(* The first LF in the buffer is the first one in the stream.              *)
LEMMA FirstEnd ==
  ASSUME TypeOK, pc = "cut", LF \in ToSet(current)
  PROVE  \E i \in 1 .. len :
           /\ SelectInSeq(current, LAMBDA ch : ch = LF) = i
           /\ stream[i] = LF /\ \A j \in 1 .. i - 1 : stream[j] # LF
<1>1. /\ current \in Seq(Char) /\ len \in Nat /\ Len(wire) \in Nat /\ Len(current) = len
      /\ \A j \in 1 .. len + Len(wire) : stream[j] = IF j <= len THEN current[j] ELSE wire[j - len]
  BY InTheCall
<1>2. \E k \in 1 .. len : current[k] = LF
  <2>1. PICK k \in DOMAIN current : current[k] = LF
    BY DEF ToSet
  <2>2. DOMAIN current = 1 .. len
    BY <1>1, LenProperties
  <2>. QED
    BY <2>1, <2>2
<1>3. PICK i \in 1 .. len : current[i] = LF /\ \A j \in 1 .. i - 1 : current[j] # LF
  <2> HIDE <1>1
  <2>1. len \in Nat
    BY <1>1
  <2>. QED
    BY <1>2, <2>1, ThereIsAFirst
<1>4. Min({k \in 1 .. len : current[k] = LF}) = i
  BY <1>1, <1>3, FirstPlace
<1>5. SelectInSeq(current, LAMBDA ch : ch = LF) = i
  BY <1>1, <1>3, <1>4 DEF SelectInSeq
<1>6. \A j \in 1 .. i : stream[j] = current[j]
  BY <1>1, <1>3
<1>7. i \in 1 .. i /\ \A j \in 1 .. i - 1 : j \in 1 .. i
  BY <1>1
<1>. QED
  BY <1>3, <1>5, <1>6, <1>7

(* The last pass with an LF in the buffer cuts the first line off.         *)
LEMMA CutLine ==
  ASSUME IInv, Cut, LF \in ToSet(current)
  PROVE  /\ pending # <<>> /\ result' = Text(Head(pending))
         /\ IInv'
<1>1. /\ at = 0 /\ current \in Seq(Char) /\ wire \in Seq(Char) /\ pending \in Seq(Texts)
      /\ len \in Nat /\ Len(wire) \in Nat /\ Len(current) = len /\ len <= MAX_TELNET_BUFFER
      /\ stream \in Seq(Char) /\ Len(stream) = len + Len(wire)
      /\ \A j \in 1 .. len + Len(wire) : stream[j] = IF j <= len THEN current[j] ELSE wire[j - len]
  BY InTheCall DEF Cut, IInv, TypeOK
<1>2. PICK i \in 1 .. len :
        /\ SelectInSeq(current, LAMBDA ch : ch = LF) = i
        /\ stream[i] = LF /\ \A j \in 1 .. i - 1 : stream[j] # LF
  BY FirstEnd DEF Cut, IInv
<1>3. /\ current' = IF len > i THEN ended(current, i) ELSE <<>>
      /\ len' = len - i
      /\ at' = IF len > i THEN i ELSE 0
      /\ result' = Text(cString(ended(current, i)))
      /\ pending' = IF pending = <<>> THEN <<>> ELSE Tail(pending)
      /\ pc' = "app" /\ timeout' = timeout /\ wire' = wire /\ closed' = closed /\ told' = told
  BY <1>2 DEF Cut, peer
<1>4. Framed(stream, pending)
  BY DEF IInv, LinesWait
<1>5. i \in 1 .. Len(stream) /\ i \in 1 .. Len(current) /\ i \in Nat /\ i <= len
  BY <1>1
<1>6. pending # <<>> /\ pending[1] \in Texts /\ LineAt(stream, 0, i, pending[1])
  BY <1>1, <1>2, <1>4, <1>5, FirstLine
<1>7. Head(pending) = pending[1] /\ pending' = Tail(pending) /\ Tail(pending) \in Seq(Texts)
  BY <1>1, <1>3, <1>6, HeadTailProperties
<1>8. LineAt(current, 0, i, pending[1])
  <2>1. \A j \in 1 .. i : stream[j] = current[j]
    BY <1>1, <1>5
  <2> DEFINE c == Len(pending[1])
  <2>2. c \in Nat
    BY <1>6, TextsAre
  <2>3. i = 0 + c + 1 \/ (i = 0 + c + 2 /\ stream[i - 1] \in {CR, NUL})
    BY <1>6 DEF LineAt
  <2>4. /\ i \in 1 .. i /\ (i = 0 + c + 2 => i - 1 \in 1 .. i)
        /\ \A j \in 1 .. c : 0 + j \in 1 .. i
    <3> HIDE DEF c
    <3>. QED
      BY <1>5, <2>2, <2>3
  <2>. QED
    BY <1>6, <2>1, <2>3, <2>4 DEF LineAt
<1>9. result' = Text(Head(pending))
  BY <1>1, <1>3, <1>5, <1>6, <1>7, <1>8, TextOfLine
<1>10. TypeOK'
  <2>1. /\ ended(current, i) \in Seq(Char) /\ Len(ended(current, i)) = len
    BY <1>1, <1>5, EndedIs
  <2>2. /\ current' \in Seq(Char) /\ Len(current') = at' + len'
        /\ at' \in 0 .. MAX_TELNET_BUFFER /\ len' \in 0 .. MAX_TELNET_BUFFER
        /\ at' + len' <= MAX_TELNET_BUFFER
    <3>1. CASE len > i
      <4>1. i + (len - i) = len /\ i \in 0 .. MAX_TELNET_BUFFER /\ len - i \in 0 .. MAX_TELNET_BUFFER
        <5>1. i \in Nat /\ len \in Nat /\ i < len /\ len <= MAX_TELNET_BUFFER
          BY <1>1, <1>5, <3>1
        <5>. QED
          BY <5>1, Bounds
      <4>. QED
        BY <1>1, <1>3, <2>1, <3>1, <4>1
    <3>2. CASE ~(len > i)
      <4>1. len - i = 0 /\ 0 \in 0 .. MAX_TELNET_BUFFER /\ 0 <= MAX_TELNET_BUFFER
        <5>1. i \in Nat /\ len \in Nat /\ i = len
          BY <1>1, <1>5, <3>2
        <5>. QED
          BY <5>1, Bounds
      <4>2. <<>> \in Seq(Char) /\ Len(<<>>) = 0 + 0
        OBVIOUS
      <4>. QED
        BY <1>3, <3>2, <4>1, <4>2
    <3>. QED
      BY <3>1, <3>2
  <2>3. result'.kind = "text"
    BY <1>3 DEF Text
  <2>. QED
    BY <1>3, <1>7, <2>2, <2>3 DEF TypeOK, IInv
<1>11. /\ stream' \in Seq(Char) /\ Len(stream') = Len(stream) - i
       /\ \A j \in 1 .. Len(stream') : stream'[j] = stream[i + j]
  <2>1. /\ stream' \in Seq(Char) /\ Len(stream') = len' + Len(wire')
        /\ \A j \in 1 .. len' + Len(wire') :
             stream'[j] = IF j <= len' THEN current'[at' + j] ELSE wire'[j - len']
    <3>1. /\ current' \in Seq(Char) /\ wire' \in Seq(Char) /\ at' \in Nat /\ len' \in Nat
          /\ Len(current') = at' + len'
      BY <1>10, Bounds DEF TypeOK
    <3>. QED
      BY <3>1, StreamOf DEF stream
  <2>2. Len(stream') = Len(stream) - i
    BY <1>1, <1>3, <1>5, <2>1
  <2>3. ASSUME NEW j \in 1 .. Len(stream') PROVE stream'[j] = stream[i + j]
    <3>1. /\ i + j \in 1 .. len + Len(wire) /\ j \in 1 .. len' + Len(wire')
          /\ (i + j) - len = j - (len - i) /\ (j <= len - i <=> i + j <= len)
      BY <1>1, <1>5, <2>1, <2>2
    <3>2. stream[i + j] = IF i + j <= len THEN current[i + j] ELSE wire[(i + j) - len]
      BY <1>1, <3>1
    <3>3. stream'[j] = IF j <= len - i THEN current'[at' + j] ELSE wire[j - (len - i)]
      BY <1>3, <2>1, <3>1
    <3>4. CASE j <= len - i
      <4>1. len > i /\ i + j \in 1 .. Len(current) /\ ~(i + j <= i)
        BY <1>1, <1>5, <3>1, <3>4
      <4>2. ended(current, i)[i + j] = current[i + j]
        BY <1>1, <1>5, <4>1, EndedIs
      <4>. QED
        BY <1>3, <3>1, <3>2, <3>3, <3>4, <4>1, <4>2
    <3>5. CASE ~(j <= len - i)
      BY <3>1, <3>2, <3>3, <3>5
    <3>. QED
      BY <3>4, <3>5
  <2>. QED
    BY <2>1, <2>2, <2>3
<1>12. LinesWait'
  <2>1. PICK f \in [0 .. Len(pending) -> Nat] : CutAt(stream, pending, f) /\ f[1] = i
    BY <1>1, <1>2, <1>4, <1>5, FirstLine
  <2>2. /\ Len(stream') = Len(stream) - f[1]
        /\ \A j \in 1 .. Len(stream') : stream'[j] = stream[f[1] + j]
    BY <1>11, <2>1
  <2>3. Framed(stream', Tail(pending))
    BY <1>1, <1>4, <1>6, <1>11, <2>1, <2>2, OtherLines
  <2>. QED
    BY <1>7, <2>3 DEF LinesWait
<1>. QED
  BY <1>3, <1>6, <1>9, <1>10, <1>12 DEF IInv, LoopWasLeft

(* Without one it makes every CR in the buffer NUL, and returns NULL.      *)
LEMMA CutNothing ==
  ASSUME IInv, Cut, LF \notin ToSet(current)
  PROVE  /\ result' = Null
         /\ hasEnd(current) => Last(current') = NUL
         /\ IInv'
<1>1. /\ at = 0 /\ current \in Seq(Char) /\ wire \in Seq(Char) /\ pending \in Seq(Texts)
      /\ len \in Nat /\ Len(wire) \in Nat /\ Len(current) = len
      /\ stream \in Seq(Char) /\ Len(stream) = len + Len(wire)
      /\ \A j \in 1 .. len + Len(wire) : stream[j] = IF j <= len THEN current[j] ELSE wire[j - len]
  BY InTheCall DEF Cut, IInv, TypeOK
<1>2. /\ current' = ended(current, len) /\ result' = Null /\ at' = at /\ len' = len
      /\ pending' = pending /\ pc' = "app" /\ timeout' = timeout /\ wire' = wire
      /\ closed' = closed /\ told' = told
  BY DEF Cut, peer
<1>3. \A k \in 1 .. len : current[k] # LF
  <2>1. DOMAIN current = 1 .. len
    BY <1>1, LenProperties
  <2>. QED
    BY <2>1, Zenon DEF ToSet
<1>4. /\ current' \in Seq(Char) /\ Len(current') = len
      /\ \A k \in 1 .. len : current'[k] = IF current[k] = CR THEN NUL ELSE current[k]
  BY <1>1, <1>2, <1>3, EndedIs
<1>5. TypeOK'
  <2>1. Len(current') = at' + len'
    BY <1>1, <1>2, <1>4
  <2>. QED
    BY <1>2, <1>4, <2>1 DEF TypeOK, IInv
<1>6. /\ stream' \in Seq(Char) /\ Len(stream') = Len(stream)
      /\ \A j \in 1 .. Len(stream) : stream'[j] = stream[j] \/ (stream[j] = CR /\ stream'[j] = NUL)
  <2>1. /\ stream' \in Seq(Char) /\ Len(stream') = len' + Len(wire')
        /\ \A j \in 1 .. len' + Len(wire') :
             stream'[j] = IF j <= len' THEN current'[at' + j] ELSE wire'[j - len']
    <3>1. /\ current' \in Seq(Char) /\ wire' \in Seq(Char) /\ at' \in Nat /\ len' \in Nat
          /\ Len(current') = at' + len'
      BY <1>5, Bounds DEF TypeOK
    <3>. QED
      BY <3>1, StreamOf DEF stream
  <2>2. ASSUME NEW j \in 1 .. len + Len(wire)
        PROVE  stream'[j] = stream[j] \/ (stream[j] = CR /\ stream'[j] = NUL)
    <3>1. stream'[j] = IF j <= len THEN current'[j] ELSE wire[j - len]
      BY <1>1, <1>2, <2>1
    <3>2. CASE j <= len
      <4>1. j \in 1 .. len
        BY <1>1, <3>2
      <4>. QED
        BY <1>1, <1>4, <3>1, <3>2, <4>1
    <3>3. CASE ~(j <= len)
      BY <1>1, <3>1, <3>3
    <3>. QED
      BY <3>2, <3>3
  <2>. QED
    BY <1>1, <1>2, <2>1, <2>2
<1>7. LinesWait'
  <2>1. Framed(stream, pending)
    BY DEF IInv, LinesWait
  <2>2. Framed(stream', pending)
    BY <1>1, <1>6, <2>1, Blanked
  <2>. QED
    BY <1>2, <2>2 DEF LinesWait
<1>8. ASSUME hasEnd(current) PROVE Last(current') = NUL
  <2>1. PICK k \in 1 .. len : current[k] = CR
    BY <1>1, <1>3, <1>8 DEF hasEnd, isEnd
  <2>2. k \in 1 .. Len(stream) /\ stream[k] = CR
    BY <1>1, <2>1
  <2>3. k < Len(stream) /\ stream[k + 1] = LF
    BY <2>2 DEF IInv, LinesWait, Framed
  <2>4. k = len
    <3>1. CASE k < len
      <4>1. k + 1 \in 1 .. len /\ stream[k + 1] = current[k + 1]
        BY <1>1, <3>1
      <4>. QED
        BY <1>3, <2>3, <4>1
    <3>. QED
      BY <1>1, <3>1
  <2>. QED
    BY <1>4, <2>1, <2>4 DEF Last
<1>. QED
  BY <1>2, <1>5, <1>7, <1>8 DEF IInv, LoopWasLeft
---------------------------------------------------------------------------

(* The buffer is never left, and what waits in it and on the wire is, at   *)
(* every moment, exactly the lines that were not returned, whatever the    *)
(* pieces, the timeouts and the calls that gave up (receiveText).          *)
THEOREM InvariantsHold == Spec => []IInv
<1>1. IInv /\ [Next]_vars => IInv'
  <2> SUFFICES ASSUME IInv, [Next]_vars PROVE IInv'
    OBVIOUS
  <2>1. CASE ReceiveText
    BY <2>1, CallFits, ScanFits, ReceiveFits, NothingFits, FailFits, CutLine, CutNothing
       DEF ReceiveText
  <2>2. CASE Close
    BY <2>2, CloseFits
  <2>3. CASE \E t \in Texts : \E e \in Ends : Tell(t, e)
    BY <2>3, TellFits
  <2>4. CASE UNCHANGED vars
    BY <2>4 DEF vars, line, peer, IInv, TypeOK, LinesWait, LoopWasLeft, stream, hasEnd
  <2>. QED
    BY <2>1, <2>2, <2>3, <2>4 DEF Next
<1>. QED
  BY <1>1, InitFits, PTL DEF Spec

(* Neither memmove nor receive leaves the buffer (NovaTelnetClient).       *)
THEOREM TypeCorrect == Spec => []TypeOK
BY InvariantsHold, PTL DEF IInv

(* Only the last pass returns something, and a text only for a whole line. *)
LEMMA WhoReturns ==
  ASSUME IInv, [Next]_vars, result' # result, result' # Nothing
  PROVE  Cut \/ ReceiveFails
BY DEF Next, ReceiveText, Call, Scan, Receive, ReceiveNothing, Tell, Close, vars

(* receiveText returns the peer's lines whole, in order, none twice and    *)
(* none missing, for any buffer, any texts without line ends, any pieces   *)
(* and any calls that gave up in between.                                  *)
THEOREM LinesComeInOrder == Spec => LinesInOrder
<1>1. IInv /\ [Next]_vars =>
        [result' # result /\ result'.kind = "text" =>
           pending # <<>> /\ result' = Text(Head(pending))]_vars
  <2> SUFFICES ASSUME IInv, [Next]_vars, result' # result, result'.kind = "text"
               PROVE  pending # <<>> /\ result' = Text(Head(pending))
    OBVIOUS
  <2>1. result' # Nothing /\ result' # Null
    BY DEF Nothing, Null
  <2>2. Cut
    BY <2>1, WhoReturns DEF ReceiveFails
  <2>. QED
    BY <2>1, <2>2, CutLine, CutNothing
<1>. QED
  BY <1>1, InvariantsHold, PTL DEF Spec, LinesInOrder

(* NULL has one of four reasons, and the last is a line whose CR came      *)
(* without its LF (receiveText).                                           *)
THEOREM NullHasAReason == Spec => NullIsExplained
<1>1. IInv /\ [Next]_vars =>
        [result' # result /\ result' = Null =>
           \/ closed /\ wire = <<>>
           \/ ~forever(timeout)
           \/ len = MAX_TELNET_BUFFER
           \/ Last(current') = NUL]_vars
  <2> SUFFICES ASSUME IInv, [Next]_vars, result' # result, result' = Null
               PROVE  \/ closed /\ wire = <<>>
                      \/ ~forever(timeout)
                      \/ len = MAX_TELNET_BUFFER
                      \/ Last(current') = NUL
    OBVIOUS
  <2>1. result' # Nothing /\ \A t : result' # Text(t)
    BY DEF Nothing, Null, Text
  <2>2. CASE ReceiveFails
    BY <2>2 DEF ReceiveFails
  <2>3. CASE Cut
    <3>1. LF \notin ToSet(current)
      BY <2>1, <2>3, CutLine
    <3>2. hasEnd(current) => Last(current') = NUL
      BY <2>3, <3>1, CutNothing
    <3>. QED
      BY <2>3, <3>2 DEF IInv, LoopWasLeft, Cut
  <2>. QED
    BY <2>1, <2>2, <2>3, WhoReturns
<1>. QED
  BY <1>1, InvariantsHold, PTL DEF Spec, NullIsExplained

---------------------------------------------------------------------------
(***************************************************************************)
(* Commands.                                                               *)
(***************************************************************************)

(* A set of numbers that holds 0, and the next of each it holds. *)
LEMMA Induct ==
  ASSUME NEW T, 0 \in T, \A n \in Nat : n \in T => n + 1 \in T
  PROVE  \A n \in Nat : n \in T
<1> DEFINE I == {k \in Nat : k \notin T}
           R == OpToRel(<, Nat)
<1> SUFFICES ASSUME I # {} PROVE FALSE
  BY DEF I
<1>1. I \subseteq Nat
  OBVIOUS
<1>2. PICK i \in I : \A j \in I : ~(<<j, i>> \in R)
  <2> HIDE DEF I
  <2>. QED
    BY <1>1, NatLessThanWellFounded, WFMin, Zenon
<1>3. i \in Nat /\ i \notin T /\ i # 0
  OBVIOUS
<1>4. i - 1 \in Nat /\ i - 1 < i /\ (i - 1) + 1 = i
  BY <1>3
<1>5. i - 1 \in T
  <2>1. SUFFICES ASSUME i - 1 \in I PROVE FALSE
    BY <1>4
  <2>. QED
    BY <1>2, <1>3, <1>4, <2>1 DEF OpToRel
<1>. QED
  BY <1>3, <1>4, <1>5

(* Sets of numbers that end are what is put in order. *)
Listed(S) == \E n \in Nat : S \subseteq 0 .. n

LEMMA ListedIsFinite == ASSUME NEW S, Listed(S) PROVE IsFiniteSet(S) /\ S \subseteq Nat
<1>1. PICK n \in Nat : S \subseteq 0 .. n
  BY DEF Listed
<1>2. IsFiniteSet(0 .. n)
  BY FS_Interval
<1>3. IsFiniteSet(S)
  BY <1>1, <1>2, FS_Subset
<1>. QED
  BY <1>1, <1>3

LEMMA InOrderNone == Cardinality({}) = 0 /\ inOrder({}) = <<>> /\ Listed({})
<1>1. Cardinality({}) = 0
  BY FS_EmptySet
<1>2. 0 \in Nat /\ {} \subseteq 0 .. 0
  OBVIOUS
<1>3. Listed({})
  BY <1>2 DEF Listed
<1>4. inOrder({}) = <<>>
  BY <1>1 DEF inOrder
<1>. QED
  BY <1>1, <1>3, <1>4

(* A number above all others comes last. *)
LEMMA InOrderNext ==
  ASSUME NEW S, Listed(S), NEW x \in Nat, \A y \in S : y < x
  PROVE  /\ Listed(S \cup {x})
         /\ Cardinality(S) \in Nat
         /\ Cardinality(S \cup {x}) = Cardinality(S) + 1
         /\ inOrder(S \cup {x}) =
              [k \in 1 .. Cardinality(S) + 1 |->
                 IF k = Cardinality(S) + 1 THEN x ELSE inOrder(S)[k]]
<1> DEFINE n == Cardinality(S)
           U == S \cup {x}
<1>1. n \in Nat /\ Listed(U) /\ Cardinality(U) = n + 1
  <2>1. IsFiniteSet(S) /\ S \subseteq Nat /\ x \notin S
    BY ListedIsFinite
  <2>2. Cardinality(S) \in Nat
    BY <2>1, FS_CardinalityType
  <2>3. IsFiniteSet(U) /\ Cardinality(U) = Cardinality(S) + 1
    BY <2>1, FS_AddElement
  <2>4. U \subseteq 0 .. x
    BY <2>1
  <2>5. Listed(U)
    BY <2>4 DEF Listed
  <2>. QED
    BY <2>1, <2>2, <2>3, <2>5
<1>2. {y \in U : y < x} = S
  BY ListedIsFinite
<1>3. ASSUME NEW z \in S
      PROVE  /\ {y \in U : y < z} = {y \in S : y < z}
             /\ Cardinality({y \in S : y < z}) \in Nat
             /\ Cardinality({y \in S : y < z}) < n
  <2>1. z \in Nat /\ z < x /\ ~(x < z) /\ S \subseteq Nat /\ IsFiniteSet(S)
    BY ListedIsFinite
  <2>2. {y \in U : y < z} = {y \in S : y < z}
    BY <2>1
  <2> DEFINE B == {y \in S : y < z}
  <2>3. B \subseteq S /\ z \notin B
    BY <2>1
  <2>4. IsFiniteSet(B) /\ Cardinality(B) <= n /\ Cardinality(B) # n
    <3> HIDE DEF B
    <3>. QED
      BY <2>1, <2>3, FS_Subset
  <2>5. Cardinality(B) \in Nat
    BY <2>4, FS_CardinalityType
  <2>6. Cardinality(B) < n
    BY <1>1, <2>4, <2>5
  <2>. QED
    BY <2>2, <2>5, <2>6
<1>4. behind(U, n) = {x}
  <2>1. x \in U /\ Cardinality({y \in U : y < x}) = n
    BY <1>2
  <2>2. ASSUME NEW z \in S PROVE Cardinality({y \in U : y < z}) # n
    <3>1. Cardinality({y \in U : y < z}) = Cardinality({y \in S : y < z})
      BY <1>3, Zenon
    <3>2. \A a, b \in Nat : a < b => a # b
      OBVIOUS
    <3>3. Cardinality({y \in S : y < z}) # n
      BY <1>1, <1>3, <3>2, Zenon
    <3>. QED
      BY <3>1, <3>3, Zenon
  <2>. QED
    BY <2>1, <2>2 DEF behind
<1>5. ASSUME NEW m \in 0 .. n - 1 PROVE behind(U, m) = behind(S, m)
  <2>1. Cardinality({y \in U : y < x}) # m
    <3>1. Cardinality({y \in U : y < x}) = n
      BY <1>2, Zenon
    <3>2. n # m
      BY <1>1
    <3>. QED
      BY <3>1, <3>2, Zenon
  <2>2. ASSUME NEW z \in S PROVE {y \in U : y < z} = {y \in S : y < z}
    BY <1>3
  <2>. QED
    BY <2>1, <2>2 DEF behind
<1>6. ASSUME NEW k \in 1 .. n + 1
      PROVE  (CHOOSE z \in behind(U, k - 1) : TRUE) = IF k = n + 1 THEN x ELSE inOrder(S)[k]
  <2>1. CASE k = n + 1
    <3>1. k - 1 = n
      BY <1>1, <2>1
    <3>2. behind(U, k - 1) = {x}
      BY <1>4, <3>1
    <3>3. \A z \in behind(U, k - 1) : z = x
      BY <3>2
    <3>4. \E z \in behind(U, k - 1) : TRUE
      BY <3>2
    <3>. QED
      BY <2>1, <3>3, <3>4
  <2>2. CASE k # n + 1
    <3>1. k - 1 \in 0 .. n - 1 /\ k \in 1 .. n
      BY <1>1, <2>2
    <3>2. behind(U, k - 1) = behind(S, k - 1)
      BY <1>5, <3>1
    <3>3. inOrder(S)[k] = CHOOSE z \in behind(S, k - 1) : TRUE
      BY <3>1 DEF inOrder
    <3>. QED
      BY <2>2, <3>2, <3>3
  <2>. QED
    BY <2>1, <2>2
<1>7. inOrder(U) = [k \in 1 .. n + 1 |-> CHOOSE z \in behind(U, k - 1) : TRUE]
  BY <1>1 DEF inOrder
<1>. QED
  BY <1>1, <1>6, <1>7

(* The numbers put in order are those of the set. *)
LEMMA InOrderOf ==
  ASSUME NEW S, Listed(S)
  PROVE  Cardinality(S) \in Nat /\ inOrder(S) \in [1 .. Cardinality(S) -> S]
<1> DEFINE Fine(U) == Cardinality(U) \in Nat /\ inOrder(U) \in [1 .. Cardinality(U) -> U]
           T == {n \in Nat : \A U \in SUBSET (0 .. n) : n \notin U => Fine(U)}
<1>1. 0 \in T
  <2>1. \A U \in SUBSET (0 .. 0) : 0 \notin U => U = {}
    OBVIOUS
  <2>2. Fine({})
    BY InOrderNone DEF inOrder
  <2>. QED
    BY <2>1, <2>2
<1>2. ASSUME NEW n \in Nat, n \in T PROVE n + 1 \in T
  <2> SUFFICES ASSUME NEW U \in SUBSET (0 .. n + 1), n + 1 \notin U PROVE Fine(U)
    OBVIOUS
  <2>0. U \subseteq 0 .. n
    OBVIOUS
  <2>1. CASE n \notin U
    BY <1>2, <2>0, <2>1
  <2>2. CASE n \in U
    <3> DEFINE V == U \ {n}
    <3>1. V \in SUBSET (0 .. n) /\ n \notin V /\ U = V \cup {n} /\ \A y \in V : y < n
      BY <2>0, <2>2
    <3>2. Fine(V)
      BY <1>2, <3>1
    <3>3. Listed(V)
      BY <3>1 DEF Listed
    <3> HIDE DEF V
    <3>4. /\ Cardinality(V \cup {n}) = Cardinality(V) + 1
          /\ inOrder(V \cup {n}) = [k \in 1 .. Cardinality(V) + 1 |->
                 IF k = Cardinality(V) + 1 THEN n ELSE inOrder(V)[k]]
      BY <3>1, <3>3, InOrderNext
    <3>5. ASSUME NEW k \in 1 .. Cardinality(V) + 1, k # Cardinality(V) + 1
          PROVE  inOrder(V)[k] \in V \cup {n}
      <4>1. k \in 1 .. Cardinality(V)
        BY <3>2, <3>5
      <4>. QED
        BY <3>2, <4>1
    <3>6. Cardinality(V \cup {n}) \in Nat
      BY <3>2, <3>4
    <3>7. inOrder(V \cup {n}) \in [1 .. Cardinality(V) + 1 -> V \cup {n}]
      <4>1. [k \in 1 .. Cardinality(V) + 1 |-> IF k = Cardinality(V) + 1 THEN n ELSE inOrder(V)[k]]
              \in [1 .. Cardinality(V) + 1 -> V \cup {n}]
        BY <3>5
      <4>. QED
        BY <3>4, <4>1, Zenon
    <3>8. Fine(V \cup {n})
      BY <3>4, <3>6, <3>7, Zenon
    <3>. QED
      BY <3>1, <3>8, Zenon
  <2>. QED
    BY <2>1, <2>2
<1>3. \A n \in Nat : n \in T
  <2> HIDE DEF T
  <2>. QED
    BY <1>1, <1>2, Induct
<1>4. \E n \in Nat : S \in SUBSET (0 .. n) /\ n \notin S
  <2>1. PICK b \in Nat : S \subseteq 0 .. b
    BY DEF Listed
  <2>2. S \in SUBSET (0 .. b + 1) /\ b + 1 \notin S /\ b + 1 \in Nat
    BY <2>1
  <2>. QED
    BY <2>2
<1>. QED
  BY <1>3, <1>4

LEMMA InTurnNone == ASSUME NEW f PROVE inTurn(f, {}) = <<>>
<1>1. Cardinality({}) = 0
  BY InOrderNone
<1>. QED
  BY <1>1 DEF inTurn

LEMMA InTurnOf ==
  ASSUME NEW f, NEW V, NEW S, Listed(S), \A y \in S : f[y] \in V
  PROVE  /\ Cardinality(S) \in Nat
         /\ inTurn(f, S) \in Seq(V)
         /\ Len(inTurn(f, S)) = Cardinality(S)
<1>1. Cardinality(S) \in Nat /\ inOrder(S) \in [1 .. Cardinality(S) -> S]
  BY InOrderOf
<1>2. \A k \in 1 .. Cardinality(S) : f[inOrder(S)[k]] \in V
  BY <1>1
<1>3. inTurn(f, S) \in [1 .. Cardinality(S) -> V]
  BY <1>2 DEF inTurn
<1> DEFINE n == Cardinality(S)
<1> HIDE DEF n
<1>4. inTurn(f, S) \in [1 .. n -> V] /\ n \in Nat
  BY <1>1, <1>3 DEF n
<1>5. inTurn(f, S) \in Seq(V) /\ Len(inTurn(f, S)) = n
  BY <1>4
<1>. QED
  BY <1>1, <1>5 DEF n

LEMMA InTurnAt ==
  ASSUME NEW f, NEW S, NEW k \in 1 .. Cardinality(S)
  PROVE  inTurn(f, S)[k] = f[inOrder(S)[k]]
BY DEF inTurn

LEMMA InTurnNext ==
  ASSUME NEW f, NEW V, NEW S, Listed(S), \A y \in S : f[y] \in V,
         NEW x \in Nat, f[x] \in V, \A y \in S : y < x
  PROVE  inTurn(f, S \cup {x}) = Append(inTurn(f, S), f[x])
<1>0. /\ Cardinality(S) \in Nat
      /\ inTurn(f, S) \in Seq(V)
      /\ Len(inTurn(f, S)) = Cardinality(S)
  BY InTurnOf
<1> DEFINE n == Cardinality(S)
           m == Cardinality(S \cup {x})
           r == inOrder(S \cup {x})
           a == inTurn(f, S)
           b == inTurn(f, S \cup {x})
<1>1. n \in Nat /\ a \in Seq(V) /\ Len(a) = n /\ \A k \in 1 .. n : a[k] = f[inOrder(S)[k]]
  BY <1>0, InTurnAt
<1>2. /\ Listed(S \cup {x}) /\ m = n + 1
      /\ r = [k \in 1 .. n + 1 |-> IF k = n + 1 THEN x ELSE inOrder(S)[k]]
  BY InOrderNext
<1>3. \A y \in S \cup {x} : f[y] \in V
  OBVIOUS
<1>4. b \in Seq(V) /\ Len(b) = m /\ \A k \in 1 .. m : b[k] = f[r[k]]
  <2> DEFINE U == S \cup {x}
  <2>1. Listed(U) /\ \A y \in U : f[y] \in V
    BY <1>2, <1>3
  <2> HIDE DEF U
  <2>2. /\ Cardinality(U) \in Nat
        /\ inTurn(f, U) \in Seq(V)
        /\ Len(inTurn(f, U)) = Cardinality(U)
    BY <2>1, InTurnOf
  <2>. QED
    BY <2>2, InTurnAt DEF U
<1>. HIDE DEF n, m, r, a, b
<1>5. /\ Append(a, f[x]) \in Seq(V) /\ Len(Append(a, f[x])) = n + 1
      /\ \A k \in 1 .. n : Append(a, f[x])[k] = a[k]
      /\ Append(a, f[x])[n + 1] = f[x]
  BY <1>1, AppendProperties
<1>6. \A k \in 1 .. n + 1 : r[k] = IF k = n + 1 THEN x ELSE inOrder(S)[k]
  BY <1>2
<1>7. ASSUME NEW k \in 1 .. n + 1 PROVE b[k] = Append(a, f[x])[k]
  <2>1. b[k] = f[r[k]]
    BY <1>2, <1>4
  <2>2. CASE k = n + 1
    BY <1>5, <1>6, <2>1, <2>2
  <2>3. CASE k # n + 1
    <3>1. k \in 1 .. n
      BY <1>1, <2>3
    <3>. QED
      BY <1>1, <1>5, <1>6, <2>1, <2>3, <3>1
  <2>. QED
    BY <2>2, <2>3
<1>8. Len(b) = Len(Append(a, f[x])) /\ \A k \in 1 .. Len(b) : b[k] = Append(a, f[x])[k]
  BY <1>2, <1>4, <1>5, <1>7
<1>9. b = Append(a, f[x])
  BY <1>4, <1>5, <1>8, SeqEqual
<1>. QED
  BY <1>9 DEF a, b

LEMMA InTurnOne ==
  ASSUME NEW f, NEW x \in Nat
  PROVE  inTurn(f, {x}) = <<f[x]>>
<1>1. inTurn(f, {} \cup {x}) = Append(inTurn(f, {}), f[x])
  <2>1. Listed({}) /\ \A y \in {} : f[y] \in {f[x]} /\ y < x
    BY InOrderNone
  <2>2. f[x] \in {f[x]}
    OBVIOUS
  <2>. QED
    BY <2>1, <2>2, InTurnNext
<1>2. {} \cup {x} = {x} /\ Append(<<>>, f[x]) = <<f[x]>>
  OBVIOUS
<1>. QED
  BY <1>1, <1>2, InTurnNone

LEMMA InTurnSame ==
  ASSUME NEW f, NEW g, NEW S, Listed(S), \A y \in S : f[y] = g[y]
  PROVE  inTurn(f, S) = inTurn(g, S)
<1>1. Cardinality(S) \in Nat /\ inOrder(S) \in [1 .. Cardinality(S) -> S]
  BY InOrderOf
<1>2. \A k \in 1 .. Cardinality(S) : f[inOrder(S)[k]] = g[inOrder(S)[k]]
  BY <1>1
<1>. QED
  BY <1>2 DEF inTurn

---------------------------------------------------------------------------

(* Whether the next printed character belongs to the last word. *)
open(text) == \E i \in printed(text) : together(text, i, Len(text))

LEMMA CharsApart ==
  /\ Printed \subseteq Chars /\ Space \in Chars /\ Ctrl \in Chars
  /\ Space \notin Printed /\ Ctrl \notin Printed /\ Space # Ctrl
BY CommandAssumption DEF Chars

(* A text with a character more. *)
LEMMA Longer ==
  ASSUME NEW c \in Seq(Chars), NEW ch \in Chars
  PROVE  /\ Append(c, ch) \in Seq(Chars)
         /\ Len(c) \in Nat
         /\ Len(Append(c, ch)) = Len(c) + 1
         /\ \A i \in 1 .. Len(c) : Append(c, ch)[i] = c[i]
         /\ Append(c, ch)[Len(c) + 1] = ch
         /\ printed(c) \subseteq 1 .. Len(c)
         /\ printed(Append(c, ch)) = IF ch \in Printed THEN printed(c) \cup {Len(c) + 1} ELSE printed(c)
         /\ \A i, j \in 1 .. Len(c) : together(Append(c, ch), i, j) <=> together(c, i, j)
         /\ \A i \in 1 .. Len(c) + 1 :
              together(Append(c, ch), i, Len(c) + 1) <=> together(c, i, Len(c)) /\ ch # Space
<1> DEFINE n == Len(c)
           d == Append(c, ch)
<1>1. /\ d \in Seq(Chars) /\ n \in Nat /\ Len(d) = n + 1
      /\ \A i \in 1 .. n : d[i] = c[i]
      /\ d[n + 1] = ch
      /\ DOMAIN c = 1 .. n /\ DOMAIN d = 1 .. n + 1
  <2>1. d \in Seq(Chars) /\ n \in Nat /\ Len(d) = n + 1 /\ d[n + 1] = ch
        /\ \A i \in 1 .. n : d[i] = c[i]
    BY AppendProperties, LenProperties
  <2>2. DOMAIN c = 1 .. n /\ DOMAIN d = 1 .. Len(d)
    BY <2>1, LenProperties
  <2>. QED
    BY <2>1, <2>2
<1> HIDE DEF n, d
<1>2. 1 .. n + 1 = (1 .. n) \cup {n + 1} /\ n + 1 \notin 1 .. n
  BY <1>1
<1>3. printed(c) \subseteq 1 .. n
  BY <1>1 DEF printed
<1>4. printed(d) = IF ch \in Printed THEN printed(c) \cup {n + 1} ELSE printed(c)
  BY <1>1, <1>2 DEF printed
<1>5. ASSUME NEW i \in 1 .. n, NEW j \in 1 .. n PROVE together(d, i, j) <=> together(c, i, j)
  <2>1. \A k \in i .. j : k \in 1 .. n
    BY <1>1
  <2>. QED
    BY <1>1, <2>1 DEF together
<1>6. ASSUME NEW i \in 1 .. n + 1
      PROVE  together(d, i, n + 1) <=> together(c, i, n) /\ ch # Space
  <2>1. \A k \in i .. n : k \in 1 .. n
    BY <1>1
  <2>2. i .. n + 1 = (i .. n) \cup {n + 1}
    BY <1>1
  <2>. QED
    BY <1>1, <2>1, <2>2 DEF together
<1>. QED
  BY <1>1, <1>3, <1>4, <1>5, <1>6 DEF n, d

(* Where the words of a longer text start, and which characters they have. *)
LEMMA StartsOfLonger ==
  ASSUME NEW c \in Seq(Chars), NEW ch \in Chars
  PROVE  /\ starts(c) \subseteq printed(c)
         /\ ch \notin Printed => starts(Append(c, ch)) = starts(c)
         /\ ch \in Printed /\ open(c) => starts(Append(c, ch)) = starts(c)
         /\ ch \in Printed /\ ~open(c) => starts(Append(c, ch)) = starts(c) \cup {Len(c) + 1}
<1> DEFINE n == Len(c)
           d == Append(c, ch)
<1>1. /\ n \in Nat /\ printed(c) \subseteq 1 .. n
      /\ printed(d) = IF ch \in Printed THEN printed(c) \cup {n + 1} ELSE printed(c)
      /\ \A i, j \in 1 .. n : together(d, i, j) <=> together(c, i, j)
      /\ \A i \in 1 .. n + 1 : together(d, i, n + 1) <=> together(c, i, n) /\ ch # Space
  BY Longer, Zenon
<1> HIDE DEF n, d
<1>2. starts(c) \subseteq printed(c)
  BY DEF starts
<1>3. n + 1 \notin 1 .. n /\ \A i \in 1 .. n : i < n + 1 /\ ~(n + 1 < i) /\ i \in 1 .. n + 1
  BY <1>1
<1>4. ASSUME NEW i \in printed(c) PROVE i \in starts(d) <=> i \in starts(c)
  <2>1. i \in 1 .. n /\ i \in printed(d) /\ ~(n + 1 < i)
    BY <1>1, <1>3
  <2>2. \A j \in printed(c) : together(d, j, i) <=> together(c, j, i)
    BY <1>1, <2>1
  <2>3. (\A j \in printed(d) : j < i => ~together(d, j, i))
          <=> (\A j \in printed(c) : j < i => ~together(c, j, i))
    BY <1>1, <2>1, <2>2
  <2>. QED
    BY <2>1, <2>3 DEF starts
<1>5. CASE ch \notin Printed
  <2>1. starts(d) \subseteq printed(c)
    BY <1>1, <1>5 DEF starts
  <2>. QED
    BY <1>2, <1>4, <1>5, <2>1 DEF n, d
<1>6. CASE ch \in Printed
  <2>1. ch # Space
    BY <1>6, CharsApart
  <2>2. starts(d) \subseteq printed(c) \cup {n + 1}
    BY <1>1, <1>6 DEF starts
  <2>3. n + 1 \in printed(d) /\ n + 1 \notin printed(c) /\ ~(n + 1 < n + 1)
    BY <1>1, <1>3, <1>6
  <2>4. n + 1 \in starts(d) <=> ~open(c)
    <3>1. \A j \in printed(c) : j < n + 1 /\ (together(d, j, n + 1) <=> together(c, j, n))
      BY <1>1, <1>3, <2>1
    <3>2. printed(d) = printed(c) \cup {n + 1}
      BY <1>1, <1>6
    <3>3. (\A j \in printed(d) : j < n + 1 => ~together(d, j, n + 1))
            <=> (\A j \in printed(c) : ~together(c, j, n))
      BY <2>3, <3>1, <3>2
    <3>4. n + 1 \in starts(d) <=> (\A j \in printed(c) : ~together(c, j, n))
      BY <2>3, <3>3, Zenon DEF starts
    <3>. QED
      BY <3>4 DEF open, n
  <2>5. \A x \in printed(c) \cup {n + 1} :
          x \in starts(d) <=> x \in starts(c) \/ (x = n + 1 /\ ~open(c))
    BY <1>2, <1>4, <2>3, <2>4
  <2>6. open(c) => starts(d) = starts(c)
    BY <1>2, <2>2, <2>3, <2>5
  <2>7. ~open(c) => starts(d) = starts(c) \cup {n + 1}
    BY <1>2, <2>2, <2>3, <2>5
  <2>. QED
    BY <1>2, <1>6, <2>6, <2>7 DEF n, d
<1>. QED
  BY <1>5, <1>6

LEMMA WordAtLonger ==
  ASSUME NEW c \in Seq(Chars), NEW ch \in Chars, NEW i \in printed(c)
  PROVE  wordAt(Append(c, ch), i) =
           IF ch \in Printed /\ together(c, i, Len(c)) THEN wordAt(c, i) \cup {Len(c) + 1}
                                                       ELSE wordAt(c, i)
<1> DEFINE n == Len(c)
           d == Append(c, ch)
<1>1. /\ n \in Nat /\ printed(c) \subseteq 1 .. n
      /\ printed(d) = IF ch \in Printed THEN printed(c) \cup {n + 1} ELSE printed(c)
      /\ \A k, j \in 1 .. n : together(d, k, j) <=> together(c, k, j)
      /\ \A k \in 1 .. n + 1 : together(d, k, n + 1) <=> together(c, k, n) /\ ch # Space
  BY Longer, Zenon
<1> HIDE DEF n, d
<1>2. i \in 1 .. n /\ i <= n + 1 /\ i \in 1 .. n + 1 /\ n + 1 \notin 1 .. n
  BY <1>1
<1>3. \A j \in printed(c) : j \in wordAt(d, i) <=> j \in wordAt(c, i)
  <2> TAKE j \in printed(c)
  <2>1. j \in printed(d) /\ (together(d, i, j) <=> together(c, i, j))
    BY <1>1, <1>2
  <2>. QED
    BY <2>1 DEF wordAt
<1>4. wordAt(c, i) \subseteq printed(c) /\ wordAt(d, i) \subseteq printed(d) /\ n + 1 \notin printed(c)
  BY <1>1, <1>2 DEF wordAt
<1>5. CASE ch \in Printed
  <2>1. ch # Space
    BY <1>5, CharsApart
  <2>2. n + 1 \in printed(d) /\ printed(d) = printed(c) \cup {n + 1}
    BY <1>1, <1>5
  <2>3. n + 1 \in wordAt(d, i) <=> together(c, i, n)
    BY <1>1, <1>2, <2>1, <2>2 DEF wordAt
  <2> DEFINE v == wordAt(c, i)
             w == wordAt(d, i)
  <2>4. w = IF together(c, i, n) THEN v \cup {n + 1} ELSE v
    <3>1. /\ \A j \in printed(c) : j \in w <=> j \in v
          /\ v \subseteq printed(c) /\ w \subseteq printed(c) \cup {n + 1}
          /\ n + 1 \in w <=> together(c, i, n)
          /\ n + 1 \notin printed(c)
      BY <1>3, <1>4, <2>2, <2>3
    <3> HIDE DEF v, w
    <3>2. CASE together(c, i, n)
      BY <3>1, <3>2
    <3>3. CASE ~together(c, i, n)
      <4>1. \A x \in w : x \in printed(c)
        BY <3>1, <3>3
      <4>2. \A x \in v : x \in w
        BY <3>1
      <4>3. \A x \in w : x \in v
        BY <3>1, <4>1
      <4>. QED
        BY <3>3, <4>2, <4>3
    <3>. QED
      BY <3>2, <3>3
  <2>. QED
    BY <1>5, <2>4 DEF n, d
<1>6. CASE ch \notin Printed
  <2>1. wordAt(d, i) = wordAt(c, i)
    BY <1>1, <1>3, <1>4, <1>6
  <2>. QED
    BY <1>6, <2>1 DEF n, d
<1>. QED
  BY <1>5, <1>6

(* The word that starts at i, and those that start in S. *)
textAt(c, i) == inTurn(c, wordAt(c, i))
textsAt(c, S) == inTurn([i \in S |-> textAt(c, i)], S)

LEMMA PlacesAreListed ==
  ASSUME NEW c \in Seq(Chars)
  PROVE  /\ Listed(printed(c)) /\ Listed(starts(c)) /\ starts(c) \subseteq printed(c)
         /\ \A i : Listed(wordAt(c, i)) /\ wordAt(c, i) \subseteq printed(c)
         /\ \A i \in printed(c) : c[i] \in Printed /\ i \in 1 .. Len(c)
<1>1. Len(c) \in Nat /\ DOMAIN c = 1 .. Len(c)
  BY LenProperties
<1>2. \A i \in printed(c) : c[i] \in Printed /\ i \in 1 .. Len(c)
  BY <1>1 DEF printed
<1>3. \A S \in SUBSET printed(c) : S \subseteq 0 .. Len(c)
  BY <1>1, <1>2
<1>4. \A S \in SUBSET printed(c) : Listed(S)
  BY <1>1, <1>3 DEF Listed
<1>5. printed(c) \in SUBSET printed(c) /\ starts(c) \in SUBSET printed(c)
      /\ \A i : wordAt(c, i) \in SUBSET printed(c)
  BY DEF starts, wordAt
<1>. QED
  BY <1>2, <1>4, <1>5

LEMMA TextAtIs ==
  ASSUME NEW c \in Seq(Chars), NEW i
  PROVE  textAt(c, i) \in Seq(Printed)
<1>1. Listed(wordAt(c, i)) /\ \A y \in wordAt(c, i) : c[y] \in Printed
  BY PlacesAreListed
<1>. QED
  BY <1>1, InTurnOf DEF textAt

(* What a character more makes of a word. *)
LEMMA TextAtLonger ==
  ASSUME NEW c \in Seq(Chars), NEW ch \in Chars, NEW i \in printed(c)
  PROVE  textAt(Append(c, ch), i) =
           IF ch \in Printed /\ together(c, i, Len(c)) THEN Append(textAt(c, i), ch)
                                                       ELSE textAt(c, i)
<1> DEFINE n == Len(c)
           d == Append(c, ch)
           w == wordAt(c, i)
<1>1. n \in Nat /\ d[n + 1] = ch /\ (\A j \in 1 .. n : d[j] = c[j])
  BY Longer, Zenon
<1>2. Listed(w) /\ \A y \in w : c[y] \in Printed /\ y \in 1 .. n
  BY PlacesAreListed
<1>3. wordAt(d, i) = IF ch \in Printed /\ together(c, i, n) THEN w \cup {n + 1} ELSE w
  BY WordAtLonger, Zenon
<1> HIDE DEF n, d, w
<1>4. \A y \in w : d[y] = c[y]
  BY <1>1, <1>2
<1>5. inTurn(d, w) = inTurn(c, w)
  BY <1>2, <1>4, InTurnSame
<1>6. CASE ch \in Printed /\ together(c, i, n)
  <2>1. n + 1 \in Nat /\ \A y \in w : y < n + 1
    BY <1>1, <1>2
  <2>2. d[n + 1] \in Printed /\ \A y \in w : d[y] \in Printed
    BY <1>1, <1>2, <1>4, <1>6
  <2>3. inTurn(d, w \cup {n + 1}) = Append(inTurn(d, w), d[n + 1])
    BY <1>2, <2>1, <2>2, InTurnNext
  <2>. QED
    BY <1>1, <1>3, <1>5, <1>6, <2>3 DEF textAt, n, d, w
<1>7. CASE ~(ch \in Printed /\ together(c, i, n))
  BY <1>3, <1>5, <1>7 DEF textAt, n, d, w
<1>. QED
  BY <1>6, <1>7

LEMMA TextsAtSame ==
  ASSUME NEW c, NEW d, NEW S, Listed(S), \A i \in S : textAt(d, i) = textAt(c, i)
  PROVE  textsAt(d, S) = textsAt(c, S)
<1> DEFINE f == [i \in S |-> textAt(c, i)]
           g == [i \in S |-> textAt(d, i)]
<1>1. f = g
  OBVIOUS
<1>. QED
  BY <1>1 DEF textsAt

LEMMA TextsAtNext ==
  ASSUME NEW c \in Seq(Chars), NEW S, Listed(S), NEW x \in Nat, \A y \in S : y < x
  PROVE  /\ textsAt(c, S) \in Seq(Seq(Printed))
         /\ textsAt(c, S \cup {x}) = Append(textsAt(c, S), textAt(c, x))
<1> DEFINE f == [i \in S |-> textAt(c, i)]
           g == [i \in S \cup {x} |-> textAt(c, i)]
<1>1. \A i : textAt(c, i) \in Seq(Printed)
  BY TextAtIs
<1>2. g[x] = textAt(c, x) /\ \A y \in S : g[y] = f[y] /\ f[y] \in Seq(Printed)
  BY <1>1
<1> HIDE DEF f, g
<1>3. inTurn(g, S) = inTurn(f, S)
  BY <1>2, InTurnSame
<1>4. g[x] \in Seq(Printed) /\ \A y \in S : g[y] \in Seq(Printed)
  BY <1>1, <1>2
<1>5. inTurn(g, S \cup {x}) = Append(inTurn(g, S), g[x])
  BY <1>4, InTurnNext
<1>6. inTurn(f, S) \in Seq(Seq(Printed))
  BY <1>2, InTurnOf
<1>. QED
  BY <1>2, <1>3, <1>5, <1>6 DEF textsAt, f, g

LEMMA WordsAre ==
  ASSUME NEW c \in Seq(Chars)
  PROVE  wordsIn(c) = textsAt(c, starts(c)) /\ wordsIn(c) \in Seq(Seq(Printed))
<1> DEFINE f == [i \in starts(c) |-> textAt(c, i)]
<1>1. Listed(starts(c)) /\ \A i \in starts(c) : f[i] \in Seq(Printed)
  BY PlacesAreListed, TextAtIs
<1> HIDE DEF f
<1>2. inTurn(f, starts(c)) \in Seq(Seq(Printed))
  BY <1>1, InTurnOf
<1>. QED
  BY <1>2 DEF wordsIn, textsAt, textAt, f

(* The word a text ends in starts behind all others. *)
LEMMA OpenWord ==
  ASSUME NEW c \in Seq(Chars), open(c)
  PROVE  \E i \in starts(c) :
           /\ together(c, i, Len(c))
           /\ \A j \in starts(c) : j # i => j < i /\ ~together(c, j, Len(c))
<1> DEFINE n == Len(c)
           I == {j \in printed(c) : together(c, j, n)}
           R == OpToRel(<, Nat)
<1>1. n \in Nat /\ \A i \in printed(c) : i \in 1 .. n
  BY PlacesAreListed, LenProperties
<1>2. I \subseteq Nat /\ I # {}
  BY <1>1 DEF open
<1>3. PICK i \in I : \A j \in I : ~(<<j, i>> \in R)
  <2> HIDE DEF I
  <2>. QED
    BY <1>2, NatLessThanWellFounded, WFMin, Zenon
<1>4. i \in printed(c) /\ together(c, i, n) /\ i \in 1 .. n
  BY <1>1
<1>5. ASSUME NEW j \in I PROVE ~(j < i)
  <2>1. j \in Nat /\ i \in Nat
    BY <1>2, <1>4
  <2>. QED
    BY <1>3, <2>1 DEF OpToRel
<1>6. ASSUME NEW j \in printed(c), j < i PROVE ~together(c, j, i) /\ ~together(c, j, n)
  <2>1. ~together(c, j, n)
    BY <1>5, <1>6
  <2>2. \A k \in j .. n : k \in j .. i \/ k \in i .. n
    BY <1>1, <1>4
  <2>3. together(c, j, i) => together(c, j, n)
    BY <1>4, <2>2 DEF together
  <2>. QED
    BY <2>1, <2>3
<1>7. i \in starts(c)
  BY <1>4, <1>6 DEF starts
<1>8. ASSUME NEW j \in starts(c), j # i PROVE j < i
  <2>1. j \in printed(c) /\ j \in 1 .. n
    BY <1>1 DEF starts
  <2>2. SUFFICES ASSUME i < j PROVE FALSE
    BY <1>4, <1>8, <2>1
  <2>3. ~together(c, i, j)
    BY <1>4, <2>2 DEF starts
  <2>4. \A k \in i .. j : k \in i .. n
    BY <1>1, <1>4, <2>1
  <2>. QED
    BY <1>4, <2>3, <2>4 DEF together
<1>9. starts(c) \subseteq printed(c)
  BY DEF starts
<1>. QED
  BY <1>4, <1>6, <1>7, <1>8, <1>9

(* A text is read into words that are done, and one that is not or is none. *)
Reads(text, ws, w) ==
  \/ open(text) /\ w # <<>> /\ wordsIn(text) = Append(ws, w)
  \/ ~open(text) /\ w = <<>> /\ wordsIn(text) = ws

LEMMA ReadsNothing == Reads(<<>>, <<>>, <<>>)
<1>1. printed(<<>>) = {}
  BY DEF printed
<1>2. starts(<<>>) = {} /\ ~open(<<>>)
  BY <1>1 DEF starts, open
<1>3. wordsIn(<<>>) = <<>>
  BY <1>2, InTurnNone DEF wordsIn
<1>. QED
  BY <1>2, <1>3 DEF Reads

LEMMA OpenLonger ==
  ASSUME NEW c \in Seq(Chars), NEW ch \in Chars
  PROVE  open(Append(c, ch)) <=> ch \in Printed \/ (open(c) /\ ch # Space)
<1> DEFINE n == Len(c)
           d == Append(c, ch)
<1>1. /\ n \in Nat /\ Len(d) = n + 1 /\ printed(c) \subseteq 1 .. n
      /\ printed(d) = IF ch \in Printed THEN printed(c) \cup {n + 1} ELSE printed(c)
      /\ \A i \in 1 .. n + 1 : together(d, i, n + 1) <=> together(c, i, n) /\ ch # Space
  BY Longer, Zenon
<1> HIDE DEF n, d
<1>2. CASE ch \in Printed
  <2>1. n + 1 \in printed(d) /\ ch # Space /\ n + 1 \in 1 .. n + 1
    BY <1>1, <1>2, CharsApart
  <2>2. together(c, n + 1, n)
    BY <1>1 DEF together
  <2>. QED
    BY <1>1, <1>2, <2>1, <2>2 DEF open, d
<1>3. CASE ch \notin Printed
  <2>1. printed(d) = printed(c) /\ \A i \in printed(c) : i \in 1 .. n + 1
    BY <1>1, <1>3
  <2>2. open(d) <=> open(c) /\ ch # Space
    BY <1>1, <2>1 DEF open, n
  <2>. QED
    BY <1>3, <2>2 DEF d
<1>. QED
  BY <1>2, <1>3

LEMMA NotPrinted ==
  ASSUME NEW c \in Seq(Chars), NEW ch \in Chars, ch \notin Printed
  PROVE  wordsIn(Append(c, ch)) = wordsIn(c)
<1> DEFINE d == Append(c, ch)
<1>1. d \in Seq(Chars) /\ starts(d) = starts(c)
  BY StartsOfLonger, Longer, Zenon
<1>2. Listed(starts(c)) /\ \A i \in starts(c) : textAt(d, i) = textAt(c, i)
  BY PlacesAreListed, TextAtLonger
<1> HIDE DEF d
<1>3. textsAt(d, starts(c)) = textsAt(c, starts(c))
  BY <1>2, TextsAtSame
<1>4. wordsIn(d) = textsAt(d, starts(d)) /\ wordsIn(c) = textsAt(c, starts(c))
  BY <1>1, WordsAre
<1>. QED
  BY <1>1, <1>3, <1>4 DEF d

(* A printed character starts a word, *)
LEMMA WordStarts ==
  ASSUME NEW c \in Seq(Chars), NEW ch \in Printed, ~open(c)
  PROVE  wordsIn(Append(c, ch)) = Append(wordsIn(c), <<ch>>)
<1> DEFINE n == Len(c)
           d == Append(c, ch)
           S == starts(c)
<1>0. ch \in Chars
  BY CharsApart
<1>1. d \in Seq(Chars) /\ n \in Nat /\ d[n + 1] = ch /\ starts(d) = S \cup {n + 1}
  BY <1>0, StartsOfLonger, Longer, Zenon
<1>2. Listed(S) /\ \A i \in S : i \in printed(c) /\ i < n + 1
  BY <1>1, PlacesAreListed
<1>3. \A i \in S : textAt(d, i) = textAt(c, i)
  <2>1. \A i \in S : ~together(c, i, n)
    BY <1>2 DEF open
  <2>. QED
    BY <1>0, <1>2, <2>1, TextAtLonger
<1>4. wordAt(d, n + 1) = {n + 1}
  <2>1. /\ printed(d) = printed(c) \cup {n + 1} /\ printed(c) \subseteq 1 .. n
        /\ together(d, n + 1, n + 1) <=> together(c, n + 1, n) /\ ch # Space
    <3>1. n + 1 \in 1 .. Len(c) + 1
      BY <1>1
    <3>. QED
      BY <1>0, <3>1, Longer
  <2>2. together(c, n + 1, n) /\ ch # Space
    BY <1>1, CharsApart DEF together
  <2>. QED
    BY <1>1, <2>1, <2>2 DEF wordAt
<1> HIDE DEF n, d, S
<1>5. textAt(d, n + 1) = <<ch>>
  BY <1>1, <1>4, InTurnOne DEF textAt
<1>6. textsAt(d, S \cup {n + 1}) = Append(textsAt(d, S), textAt(d, n + 1))
  <2>1. n + 1 \in Nat /\ d \in Seq(Chars) /\ Listed(S) /\ \A y \in S : y < n + 1
    BY <1>1, <1>2
  <2>. QED
    BY <2>1, TextsAtNext, Zenon
<1>7. textsAt(d, S) = textsAt(c, S)
  BY <1>2, <1>3, TextsAtSame
<1>8. wordsIn(d) = textsAt(d, S \cup {n + 1}) /\ wordsIn(c) = textsAt(c, S)
  BY <1>1, WordsAre DEF S
<1>. QED
  BY <1>5, <1>6, <1>7, <1>8 DEF d

(* or belongs to the last. *)
LEMMA WordGoesOn ==
  ASSUME NEW c \in Seq(Chars), NEW ch \in Printed, open(c)
  PROVE  \E ws \in Seq(Seq(Printed)), w \in Seq(Printed) :
           /\ wordsIn(c) = Append(ws, w)
           /\ wordsIn(Append(c, ch)) = Append(ws, Append(w, ch))
<1> DEFINE n == Len(c)
           d == Append(c, ch)
<1>0. ch \in Chars
  BY CharsApart
<1>1. d \in Seq(Chars) /\ starts(d) = starts(c)
  BY <1>0, StartsOfLonger, Longer, Zenon
<1>2. PICK i \in starts(c) :
        /\ together(c, i, n)
        /\ \A j \in starts(c) : j # i => j < i /\ ~together(c, j, n)
  BY OpenWord
<1> DEFINE S == starts(c) \ {i}
<1>3. starts(c) = S \cup {i} /\ \A j \in S : j < i /\ j \in starts(c) /\ ~together(c, j, n)
  BY <1>2
<1>4. /\ Listed(starts(c)) /\ \A j \in starts(c) : j \in printed(c) /\ j \in Nat
  BY PlacesAreListed
<1>5. Listed(S)
  BY <1>4 DEF Listed
<1>6. /\ textAt(d, i) = Append(textAt(c, i), ch)
      /\ \A j \in S : textAt(d, j) = textAt(c, j)
  BY <1>0, <1>2, <1>3, <1>4, TextAtLonger
<1> HIDE DEF n, d, S
<1>7. textsAt(d, S) = textsAt(c, S)
  BY <1>5, <1>6, TextsAtSame
<1>8. /\ textsAt(c, S) \in Seq(Seq(Printed))
      /\ textsAt(c, S \cup {i}) = Append(textsAt(c, S), textAt(c, i))
  BY <1>3, <1>4, <1>5, TextsAtNext
<1>9. textsAt(d, S \cup {i}) = Append(textsAt(d, S), textAt(d, i))
  BY <1>1, <1>3, <1>4, <1>5, TextsAtNext
<1>10. wordsIn(d) = textsAt(d, S \cup {i}) /\ wordsIn(c) = textsAt(c, S \cup {i})
  BY <1>1, <1>3, WordsAre
<1>11. textAt(c, i) \in Seq(Printed)
  BY TextAtIs
<1>. QED
  BY <1>6, <1>7, <1>8, <1>9, <1>10, <1>11 DEF d

LEMMA AppendSame ==
  ASSUME NEW V
  PROVE  \A s, t \in Seq(V) : \A x, y \in V : Append(s, x) = Append(t, y) => s = t /\ x = y
BY AppendInjective

LEMMA AppendSomething ==
  ASSUME NEW V, NEW s \in Seq(V), NEW x \in V
  PROVE  Append(s, x) # <<>> /\ Append(s, x) \in Seq(V) /\ Append(<<>>, x) = <<x>> /\ <<x>> \in Seq(V)
<1>1. Len(Append(s, x)) = Len(s) + 1 /\ Len(s) \in Nat /\ Append(s, x) \in Seq(V)
  BY AppendProperties, LenProperties
<1>2. Len(<<>>) = 0
  OBVIOUS
<1>. QED
  BY <1>1, <1>2

(* How reading goes on, character by character. *)
LEMMA ReadsOn ==
  ASSUME NEW c \in Seq(Chars), NEW ch \in Chars,
         NEW ws \in Seq(Seq(Printed)), NEW w \in Seq(Printed), Reads(c, ws, w)
  PROVE  /\ ch = Ctrl => Reads(Append(c, ch), ws, w)
         /\ ch = Space /\ w = <<>> => Reads(Append(c, ch), ws, <<>>)
         /\ ch = Space /\ w # <<>> => Reads(Append(c, ch), Append(ws, w), <<>>)
         /\ ch \in Printed => Reads(Append(c, ch), ws, Append(w, ch))
<1> DEFINE d == Append(c, ch)
<1>1. open(d) <=> ch \in Printed \/ (open(c) /\ ch # Space)
  BY OpenLonger, Zenon
<1>2. CASE ch \notin Printed
  <2>1. wordsIn(d) = wordsIn(c)
    BY <1>2, NotPrinted, Zenon
  <2> HIDE DEF d
  <2>2. ch = Ctrl => ch # Space
    BY CharsApart
  <2>3. CASE ch # Space
    BY <1>1, <1>2, <2>1, <2>3 DEF Reads, d
  <2>4. CASE ch = Space
    BY <1>1, <1>2, <2>1, <2>2, <2>4 DEF Reads, d
  <2>. QED
    BY <2>3, <2>4
<1>3. CASE ch \in Printed
  <2>1. ch # Ctrl /\ ch # Space
    BY <1>3, CharsApart
  <2>2. Append(w, ch) # <<>> /\ Append(w, ch) \in Seq(Printed)
    BY <1>3, AppendSomething
  <2>3. CASE open(c)
    <3>1. w # <<>> /\ wordsIn(c) = Append(ws, w)
      BY <2>3 DEF Reads
    <3>2. PICK vs \in Seq(Seq(Printed)), v \in Seq(Printed) :
            wordsIn(c) = Append(vs, v) /\ wordsIn(d) = Append(vs, Append(v, ch))
      BY <1>3, <2>3, WordGoesOn, Zenon
    <3>3. vs = ws /\ v = w
      <4>1. Append(vs, v) = Append(ws, w)
        BY <3>1, <3>2
      <4> DEFINE V == Seq(Printed)
      <4>2. vs \in Seq(V) /\ ws \in Seq(V) /\ v \in V /\ w \in V
        OBVIOUS
      <4> HIDE DEF V
      <4>3. \A s, t \in Seq(V) : \A x, y \in V : Append(s, x) = Append(t, y) => s = t /\ x = y
        BY AppendSame, Zenon
      <4>4. \A x, y \in V : Append(vs, x) = Append(ws, y) => vs = ws /\ x = y
        BY <4>2, <4>3, Zenon
      <4>. QED
        BY <4>1, <4>2, <4>4, Zenon
    <3> HIDE DEF d
    <3>. QED
      BY <1>1, <1>3, <2>1, <2>2, <3>2, <3>3 DEF Reads, d
  <2>4. CASE ~open(c)
    <3>1. w = <<>> /\ wordsIn(c) = ws
      BY <2>4 DEF Reads
    <3>2. wordsIn(d) = Append(ws, <<ch>>)
      BY <1>3, <2>4, <3>1, WordStarts, Zenon
    <3>3. Append(w, ch) = <<ch>>
      BY <3>1
    <3> HIDE DEF d
    <3>. QED
      BY <1>1, <1>3, <2>1, <2>2, <3>2, <3>3 DEF Reads, d
  <2>. QED
    BY <2>3, <2>4
<1>. QED
  BY <1>2, <1>3

---------------------------------------------------------------------------

(* The first n of a sequence. *)
LEMMA UpToIs ==
  ASSUME NEW V, NEW s \in Seq(V), NEW n \in Nat
  PROVE  /\ upTo(s, n) \in Seq(V)
         /\ Len(s) \in Nat
         /\ Len(upTo(s, n)) = IF Len(s) < n THEN Len(s) ELSE n
         /\ \A i \in 1 .. Len(upTo(s, n)) : upTo(s, n)[i] = s[i]
<1> DEFINE m == IF Len(s) < n THEN Len(s) ELSE n
           t == SubSeq(s, 1, m)
<1>1. Len(s) \in Nat /\ m \in Nat /\ m <= Len(s)
  BY LenProperties
<1>2. \A i \in 1 .. m : s[i] \in V
  <2> HIDE DEF m
  <2>1. \A i \in 1 .. m : i \in 1 .. Len(s)
    BY <1>1
  <2>. QED
    BY <2>1, ElementOfSeq
<1> HIDE DEF m
<1>3. /\ t \in Seq(V) /\ Len(t) = (IF 1 <= m THEN m - 1 + 1 ELSE 0)
      /\ \A i \in 1 .. m - 1 + 1 : t[i] = s[1 + i - 1]
  <2>1. 1 \in Int /\ m \in Int
    BY <1>1
  <2>. QED
    BY <1>2, <2>1, SubSeqProperties
<1> HIDE DEF t
<1>4. Len(t) = m /\ \A i \in 1 .. m : t[i] = s[i]
  <2>1. m - 1 + 1 = m /\ (~(1 <= m) => m = 0)
    BY <1>1
  <2>2. \A i \in 1 .. m : 1 + i - 1 = i
    BY <1>1
  <2>. QED
    BY <1>3, <2>1, <2>2
<1>. QED
  BY <1>1, <1>3, <1>4 DEF upTo, t, m

LEMMA UpToAll ==
  ASSUME NEW V, NEW s \in Seq(V), NEW n \in Nat, Len(s) <= n
  PROVE  upTo(s, n) = s
<1> DEFINE t == upTo(s, n)
<1>1. /\ t \in Seq(V) /\ Len(s) \in Nat
      /\ Len(t) = IF Len(s) < n THEN Len(s) ELSE n
      /\ \A i \in 1 .. Len(t) : t[i] = s[i]
  BY UpToIs, Zenon
<1> HIDE DEF t
<1>2. Len(t) = Len(s)
  BY <1>1
<1>3. t = s
  BY <1>1, <1>2, SeqEqual
<1>. QED
  BY <1>3 DEF t

LEMMA UpToNoMore ==
  ASSUME NEW V, NEW s \in Seq(V), NEW x \in V, NEW n \in Nat, n <= Len(s)
  PROVE  upTo(Append(s, x), n) = upTo(s, n)
<1> DEFINE a == Append(s, x)
           t == upTo(s, n)
           u == upTo(a, n)
<1>1. /\ a \in Seq(V) /\ Len(a) = Len(s) + 1
      /\ \A i \in 1 .. Len(s) : a[i] = s[i]
  BY AppendProperties
<1>2. /\ t \in Seq(V) /\ Len(s) \in Nat
      /\ Len(t) = IF Len(s) < n THEN Len(s) ELSE n
      /\ \A i \in 1 .. Len(t) : t[i] = s[i]
  BY UpToIs, Zenon
<1>3. /\ u \in Seq(V)
      /\ Len(u) = IF Len(a) < n THEN Len(a) ELSE n
      /\ \A i \in 1 .. Len(u) : u[i] = a[i]
  <2> HIDE DEF a
  <2>. QED
    BY <1>1, UpToIs, Zenon
<1> HIDE DEF a, t, u
<1>4. Len(t) = n /\ Len(u) = n
  BY <1>1, <1>2, <1>3
<1>5. \A i \in 1 .. n : i \in 1 .. Len(s)
  BY <1>2
<1>6. \A i \in 1 .. n : u[i] = t[i]
  BY <1>1, <1>2, <1>3, <1>4, <1>5
<1>7. u = t
  BY <1>2, <1>3, <1>4, <1>6, SeqEqual
<1>. QED
  BY <1>7 DEF a, t, u

LEMMA UpToLess ==
  ASSUME NEW V, NEW s \in Seq(V), NEW n \in Nat, NEW m \in Nat, m <= n
  PROVE  upTo(upTo(s, n), m) = upTo(s, m)
<1> DEFINE t == upTo(s, n)
           u == upTo(t, m)
           v == upTo(s, m)
<1>1. /\ t \in Seq(V) /\ Len(s) \in Nat
      /\ Len(t) = IF Len(s) < n THEN Len(s) ELSE n
      /\ \A i \in 1 .. Len(t) : t[i] = s[i]
  BY UpToIs, Zenon
<1>2. /\ v \in Seq(V)
      /\ Len(v) = IF Len(s) < m THEN Len(s) ELSE m
      /\ \A i \in 1 .. Len(v) : v[i] = s[i]
  BY UpToIs, Zenon
<1>3. /\ u \in Seq(V)
      /\ Len(u) = IF Len(t) < m THEN Len(t) ELSE m
      /\ \A i \in 1 .. Len(u) : u[i] = t[i]
  <2> HIDE DEF t
  <2>. QED
    BY <1>1, UpToIs, Zenon
<1> HIDE DEF t, u, v
<1>4. Len(u) = Len(v) /\ Len(u) <= Len(t)
  BY <1>1, <1>2, <1>3
<1>5. \A i \in 1 .. Len(u) : i \in 1 .. Len(t)
  BY <1>1, <1>3, <1>4
<1>6. \A i \in 1 .. Len(u) : u[i] = v[i]
  BY <1>1, <1>2, <1>3, <1>4, <1>5
<1>7. u = v
  BY <1>2, <1>3, <1>4, <1>6, SeqEqual
<1>. QED
  BY <1>7 DEF t, u, v

(* Words, each up to what there is room for. *)
cut(w) == upTo(w, MAX_ARG_LEN - 1)
cutAll(ws) == [k \in DOMAIN ws |-> cut(ws[k])]

LEMMA CutAllIs ==
  ASSUME NEW V, NEW ws \in Seq(Seq(V))
  PROVE  cutAll(ws) \in Seq(Seq(V)) /\ Len(cutAll(ws)) = Len(ws)
         /\ \A k \in 1 .. Len(ws) : cutAll(ws)[k] = cut(ws[k])
<1>0. MAX_ARG_LEN - 1 \in Nat
  BY CommandAssumption
<1>1. Len(ws) \in Nat /\ DOMAIN ws = 1 .. Len(ws) /\ \A k \in 1 .. Len(ws) : ws[k] \in Seq(V)
  BY LenProperties, ElementOfSeq
<1>2. \A k \in 1 .. Len(ws) : cut(ws[k]) \in Seq(V)
  BY <1>0, <1>1, UpToIs DEF cut
<1> DEFINE n == Len(ws)
           W == Seq(V)
<1>3. cutAll(ws) = [k \in 1 .. n |-> cut(ws[k])] /\ n \in Nat /\ \A k \in 1 .. n : cut(ws[k]) \in W
  BY <1>1, <1>2 DEF cutAll
<1> HIDE DEF n, W
<1>4. cutAll(ws) \in [1 .. n -> W]
  BY <1>3
<1>5. cutAll(ws) \in Seq(W) /\ Len(cutAll(ws)) = n
  BY <1>3, <1>4
<1>. QED
  BY <1>3, <1>5 DEF n, W

LEMMA CutAllNext ==
  ASSUME NEW V, NEW ws \in Seq(Seq(V)), NEW w \in Seq(V)
  PROVE  cutAll(Append(ws, w)) = Append(cutAll(ws), cut(w))
<1> DEFINE W == Seq(V)
           a == Append(ws, w)
           b == cutAll(ws)
           c == cutAll(a)
           d == Append(b, cut(w))
<1>0. cut(w) \in W
  <2>1. MAX_ARG_LEN - 1 \in Nat
    BY CommandAssumption
  <2>. QED
    BY <2>1, UpToIs DEF cut
<1>1. b \in Seq(W) /\ Len(b) = Len(ws) /\ \A k \in 1 .. Len(ws) : b[k] = cut(ws[k])
  BY CutAllIs
<1>2. /\ a \in Seq(W) /\ Len(a) = Len(ws) + 1 /\ Len(ws) \in Nat
      /\ \A k \in 1 .. Len(ws) : a[k] = ws[k]
      /\ a[Len(ws) + 1] = w
  BY AppendProperties, LenProperties
<1>3. c \in Seq(W) /\ Len(c) = Len(a) /\ \A k \in 1 .. Len(a) : c[k] = cut(a[k])
  <2> HIDE DEF a
  <2>. QED
    BY <1>2, CutAllIs
<1> HIDE DEF W, a, b, c
<1>4. /\ d \in Seq(W) /\ Len(d) = Len(ws) + 1
      /\ \A k \in 1 .. Len(ws) : d[k] = b[k]
      /\ d[Len(ws) + 1] = cut(w)
  BY <1>0, <1>1, AppendProperties
<1> HIDE DEF d
<1>5. ASSUME NEW k \in 1 .. Len(ws) + 1 PROVE c[k] = d[k]
  <2>1. k = Len(ws) + 1 \/ k \in 1 .. Len(ws)
    BY <1>2
  <2>. QED
    BY <1>1, <1>2, <1>3, <1>4, <2>1
<1>6. c = d
  BY <1>2, <1>3, <1>4, <1>5, SeqEqual
<1>. QED
  BY <1>6 DEF a, b, c, d

---------------------------------------------------------------------------

nothingRead == [words |-> <<>>, word |-> <<>>]

(* reading is a function: what it is at n is step of what it is before. *)
LEMMA ReadingIs ==
  ASSUME NEW c \in Seq(Chars)
  PROVE  /\ reading(c)[0] = nothingRead
         /\ \A n \in 1 .. Len(c) : reading(c)[n] = step(reading(c)[n - 1], c[n])
<1> DEFINE N == Len(c)
           Rec(f, m) == f[0] = nothingRead /\ \A n \in 1 .. m : f[n] = step(f[n - 1], c[n])
           T == {m \in Nat : \E f : Rec(f, m)}
           Body(g) == [n \in 0 .. N |-> IF n = 0 THEN nothingRead ELSE step(g[n - 1], c[n])]
<1>1. N \in Nat
  BY LenProperties
<1> HIDE DEF N
<1>2. 0 \in T
  <2> DEFINE f == [n \in {0} |-> nothingRead]
  <2>1. Rec(f, 0)
    OBVIOUS
  <2> HIDE DEF f, Rec
  <2>. QED
    BY <2>1
<1>3. ASSUME NEW m \in Nat, m \in T PROVE m + 1 \in T
  <2>1. PICK f : Rec(f, m)
    BY <1>3
  <2> DEFINE g == [n \in 0 .. m + 1 |-> IF n = m + 1 THEN step(f[m], c[m + 1]) ELSE f[n]]
  <2>2. g[0] = nothingRead /\ g[m + 1] = step(f[m], c[m + 1]) /\ \A n \in 0 .. m : g[n] = f[n]
    BY <2>1
  <2> HIDE DEF g
  <2>3. ASSUME NEW n \in 1 .. m + 1 PROVE g[n] = step(g[n - 1], c[n])
    <3>1. CASE n = m + 1
      <4>1. n - 1 = m /\ m \in 0 .. m
        BY <3>1
      <4>. QED
        BY <2>2, <3>1, <4>1
    <3>2. CASE n # m + 1
      <4>1. n \in 1 .. m /\ n \in 0 .. m /\ n - 1 \in 0 .. m
        BY <3>2
      <4>. QED
        BY <2>1, <2>2, <4>1
    <3>. QED
      BY <3>1, <3>2
  <2>4. Rec(g, m + 1)
    BY <2>2, <2>3
  <2> HIDE DEF Rec
  <2>. QED
    BY <2>4
<1>4. N \in T
  <2> HIDE DEF T
  <2>. QED
    BY <1>1, <1>2, <1>3, Induct
<1>5. PICK f : Rec(f, N)
  <2> HIDE DEF Rec
  <2>. QED
    BY <1>4
<1>6. \E g : g = Body(g)
  <2> DEFINE g == [n \in 0 .. N |-> f[n]]
  <2>1. ASSUME NEW n \in 0 .. N
        PROVE  g[n] = IF n = 0 THEN nothingRead ELSE step(g[n - 1], c[n])
    <3>1. CASE n = 0
      BY <1>5, <3>1
    <3>2. CASE n # 0
      <4>1. n \in 1 .. N /\ n - 1 \in 0 .. N
        BY <1>1, <3>2
      <4>2. g[n] = f[n] /\ g[n - 1] = f[n - 1]
        BY <4>1
      <4> HIDE DEF g
      <4>3. f[n] = step(f[n - 1], c[n])
        BY <1>5, <4>1
      <4>. QED
        BY <3>2, <4>2, <4>3
    <3>. QED
      BY <3>1, <3>2
  <2>2. g = [n \in 0 .. N |-> g[n]]
    OBVIOUS
  <2> HIDE DEF g
  <2>3. g = Body(g)
    BY <2>1, <2>2
  <2> HIDE DEF Body
  <2>. QED
    BY <2>3
<1>7. reading(c) = CHOOSE g : g = Body(g)
  BY DEF reading, nothingRead, N
<1>8. reading(c) = Body(reading(c))
  <2> HIDE DEF Body
  <2>. QED
    BY <1>6, <1>7
<1> DEFINE r == reading(c)
<1> HIDE DEF r
<1>9. r = [n \in 0 .. N |-> IF n = 0 THEN nothingRead ELSE step(r[n - 1], c[n])]
  BY <1>8 DEF r
<1>10. r[0] = nothingRead
  BY <1>1, <1>9
<1>11. ASSUME NEW n \in 1 .. N PROVE r[n] = step(r[n - 1], c[n])
  <2>1. n \in 0 .. N /\ n # 0
    BY <1>1
  <2>. QED
    BY <1>9, <2>1
<1>. QED
  BY <1>10, <1>11 DEF r, N

Word == Seq(Printed)

(* What apply keeps of the words that are done, and of the one that is not. *)
Keeps(st, ws, w) ==
  /\ st \in [words : Seq(Word), word : Word]
  /\ st.words = cutAll(upTo(ws, MAX_ARG_CT))
  /\ Len(ws) < MAX_ARG_CT => st.word = upTo(w, MAX_ARG_LEN)

LEMMA Limits ==
  /\ MAX_ARG_CT \in Nat /\ MAX_ARG_CT # 0 /\ 0 < MAX_ARG_CT
  /\ MAX_ARG_LEN \in Nat /\ MAX_ARG_LEN - 1 \in Nat
  /\ MAX_ARG_LEN - 1 <= MAX_ARG_LEN /\ 0 < MAX_ARG_LEN - 1 /\ 0 < MAX_ARG_LEN
<1>1. MAX_ARG_CT \in Nat \ {0} /\ MAX_ARG_LEN \in Nat \ {0, 1}
  BY CommandAssumption
<1>2. \A n \in Nat \ {0} : n # 0 /\ 0 < n
  OBVIOUS
<1>3. \A n \in Nat \ {0, 1} : n - 1 \in Nat /\ n - 1 <= n /\ 0 < n - 1 /\ 0 < n
  OBVIOUS
<1>. QED
  BY <1>1, <1>2, <1>3

LEMMA UpToNothing == ASSUME NEW n \in Nat PROVE upTo(<<>>, n) = <<>> /\ <<>> \in Word
<1> DEFINE e == <<>>
<1>1. e \in Word /\ e \in Seq(Printed) /\ Len(e) <= n
  BY DEF Word
<1> HIDE DEF e
<1>2. upTo(e, n) = e
  BY <1>1, UpToAll
<1>. QED
  BY <1>1, <1>2 DEF e

LEMMA NothingKept == Keeps(nothingRead, <<>>, <<>>)
<1>1. <<>> \in Seq(Word) /\ <<>> \in Word /\ Len(<<>>) = 0 /\ DOMAIN <<>> = {}
  BY DEF Word
<1>2. upTo(<<>>, MAX_ARG_CT) = <<>> /\ upTo(<<>>, MAX_ARG_LEN) = <<>>
  BY Limits, UpToNothing
<1>3. cutAll(<<>>) = <<>>
  BY <1>1 DEF cutAll
<1>. QED
  BY <1>1, <1>2, <1>3 DEF Keeps, nothingRead

(* With all the words it has room for, it passes over what comes. *)
LEMMA PassesOver ==
  ASSUME NEW st, NEW ws \in Seq(Word), NEW w \in Word, Keeps(st, ws, w),
         ~(Len(ws) < MAX_ARG_CT), NEW ch
  PROVE  /\ step(st, ch) = st
         /\ \A v \in Word : Keeps(st, ws, v) /\ Keeps(st, Append(ws, w), v)
<1> DEFINE K == MAX_ARG_CT
           us == upTo(ws, K)
<1>1. K \in Nat /\ Len(ws) \in Nat /\ K <= Len(ws)
  BY Limits, LenProperties
<1>2. us \in Seq(Word) /\ Len(us) = K
  BY <1>1, UpToIs
<1>3. Len(cutAll(us)) = Len(us)
  <2> HIDE DEF us
  <2>. QED
    BY <1>2, CutAllIs DEF Word
<1>4. upTo(Append(ws, w), K) = us
  BY <1>1, UpToNoMore
<1>5. Len(Append(ws, w)) = Len(ws) + 1
  BY AppendProperties
<1>6. ~(Len(Append(ws, w)) < K)
  BY <1>1, <1>5
<1> HIDE DEF us
<1>7. Len(st.words) = MAX_ARG_CT
  BY <1>2, <1>3 DEF Keeps, us
<1>8. step(st, ch) = st
  <2>1. ~(Len(st.words) < MAX_ARG_CT)
    BY <1>1, <1>7
  <2>. QED
    BY <1>7, <2>1, Zenon DEF step
<1>. QED
  BY <1>4, <1>6, <1>8 DEF Keeps, us

LEMMA KeepsOn ==
  ASSUME NEW st, NEW ws \in Seq(Word), NEW w \in Word, Keeps(st, ws, w),
         Len(ws) < MAX_ARG_CT
  PROVE  /\ step(st, Ctrl) = st
         /\ w = <<>> => Keeps(step(st, Space), ws, <<>>)
         /\ w # <<>> => Keeps(step(st, Space), Append(ws, w), <<>>)
         /\ \A ch \in Printed : Keeps(step(st, ch), ws, Append(w, ch))
<1> DEFINE K == MAX_ARG_CT
           L == MAX_ARG_LEN
           u == upTo(w, L)
<1>1. K \in Nat /\ Len(ws) \in Nat /\ Len(ws) <= K /\ Len(ws) # K
  BY Limits, LenProperties
<1>2. upTo(ws, K) = ws
  BY <1>1, UpToAll
<1>3. /\ st \in [words : Seq(Word), word : Word]
      /\ st.words = cutAll(ws) /\ st.word = u
  BY <1>2 DEF Keeps
<1>4. Len(cutAll(ws)) = Len(ws) /\ cutAll(ws) \in Seq(Word)
  BY CutAllIs DEF Word
<1>5. /\ u \in Word /\ Len(w) \in Nat
      /\ Len(u) = IF Len(w) < L THEN Len(w) ELSE L
  BY Limits, UpToIs DEF Word
<1>6. cut(w) \in Word /\ upTo(u, L - 1) = cut(w)
  BY Limits, UpToIs, UpToLess DEF Word, cut
<1>7. w = <<>> <=> u = <<>>
  <2>1. \A x \in Word : x = <<>> <=> Len(x) = 0
    BY EmptySeq DEF Word
  <2>2. Len(w) = 0 <=> Len(u) = 0
    BY <1>5, Limits
  <2>. QED
    BY <1>5, <2>1, <2>2
<1> HIDE DEF u
<1>8. /\ Len(st.words) # MAX_ARG_CT /\ Len(st.words) < MAX_ARG_CT
  BY <1>1, <1>3, <1>4
<1>9. step(st, Ctrl) = st
  BY <1>8, CharsApart DEF step
<1>10. step(st, Space) = endWord(st)
  BY <1>8, CharsApart DEF step
<1>11. upTo(<<>>, MAX_ARG_LEN) = <<>> /\ <<>> \in Word
  BY Limits, UpToNothing
<1>12. ASSUME w = <<>> PROVE Keeps(step(st, Space), ws, <<>>)
  <2>1. endWord(st) = st
    BY <1>3, <1>7, <1>12 DEF endWord
  <2>. QED
    BY <1>10, <1>12, <2>1
<1>13. ASSUME w # <<>> PROVE Keeps(step(st, Space), Append(ws, w), <<>>)
  <2> DEFINE vs == Append(ws, w)
  <2>1. endWord(st) = [words |-> Append(cutAll(ws), cut(w)), word |-> <<>>]
    BY <1>3, <1>6, <1>7, <1>13 DEF endWord
  <2>2. cutAll(vs) = Append(cutAll(ws), cut(w))
    BY CutAllNext DEF Word
  <2>3. vs \in Seq(Word) /\ Len(vs) = Len(ws) + 1
    BY AppendProperties
  <2> HIDE DEF vs
  <2>4. Len(vs) <= K
    BY <1>1, <2>3
  <2>5. upTo(vs, K) = vs
    BY <1>1, <2>3, <2>4, UpToAll
  <2>6. Append(cutAll(ws), cut(w)) \in Seq(Word)
    BY <1>4, <1>6, AppendProperties
  <2>. QED
    BY <1>10, <1>11, <2>1, <2>2, <2>5, <2>6 DEF Keeps, vs
<1>14. ASSUME NEW ch \in Printed PROVE Keeps(step(st, ch), ws, Append(w, ch))
  <2> DEFINE x == IF Len(u) < L THEN Append(u, ch) ELSE u
  <2>1. ch # Ctrl /\ ch # Space
    BY CharsApart
  <2>2. step(st, ch) = [st EXCEPT !.word = x]
    BY <1>3, <1>8, <2>1 DEF step
  <2>3. x = upTo(Append(w, ch), L) /\ x \in Word
    <3>1. CASE Len(u) < L
      <4>1. Len(w) < L
        BY <1>5, <3>1, Limits
      <4>2. u = w
        BY <4>1, <1>5, Limits, UpToAll DEF Word, u
      <4>3. Append(w, ch) \in Word /\ Len(Append(w, ch)) = Len(w) + 1
        BY AppendProperties DEF Word
      <4>4. Len(Append(w, ch)) <= L
        BY <4>1, <4>3, <1>5, Limits
      <4>5. upTo(Append(w, ch), L) = Append(w, ch)
        <5> DEFINE y == Append(w, ch)
        <5>1. y \in Seq(Printed) /\ Len(y) <= L
          BY <4>3, <4>4 DEF Word
        <5> HIDE DEF y
        <5>2. upTo(y, L) = y
          BY <5>1, Limits, UpToAll
        <5>. QED
          BY <5>2 DEF y
      <4>. QED
        BY <3>1, <4>2, <4>3, <4>5
    <3>2. CASE ~(Len(u) < L)
      <4>1. L <= Len(w)
        BY <1>5, <3>2, Limits
      <4>2. upTo(Append(w, ch), L) = u
        BY <4>1, Limits, UpToNoMore DEF Word, u
      <4>. QED
        BY <1>5, <3>2, <4>2
    <3>. QED
      BY <3>1, <3>2
  <2> HIDE DEF x
  <2>4. /\ step(st, ch) \in [words : Seq(Word), word : Word]
        /\ step(st, ch).words = st.words /\ step(st, ch).word = x
    BY <1>3, <2>2, <2>3
  <2>. QED
    BY <1>2, <1>3, <2>3, <2>4 DEF Keeps
<1>. QED
  BY <1>9, <1>12, <1>13, <1>14

LEMMA StepReads ==
  ASSUME NEW c \in Seq(Chars), NEW ch \in Chars, NEW st,
         NEW ws \in Seq(Word), NEW w \in Word, Reads(c, ws, w), Keeps(st, ws, w)
  PROVE  \E vs \in Seq(Word), v \in Word :
           /\ Reads(Append(c, ch), vs, v)
           /\ Keeps(step(st, ch), vs, v)
           /\ ch = Space => v = <<>>
<1> DEFINE d == Append(c, ch)
<1>1. /\ ch = Ctrl => Reads(d, ws, w)
      /\ ch = Space /\ w = <<>> => Reads(d, ws, <<>>)
      /\ ch = Space /\ w # <<>> => Reads(d, Append(ws, w), <<>>)
      /\ ch \in Printed => Reads(d, ws, Append(w, ch))
  BY ReadsOn DEF Word
<1>2. Append(ws, w) \in Seq(Word) /\ <<>> \in Word
  BY AppendSomething, Limits, UpToNothing
<1>3. ch \in Printed => Append(w, ch) \in Word
  BY AppendSomething DEF Word
<1>4. ch = Space \/ ch = Ctrl \/ ch \in Printed
  BY DEF Chars
<1>5. Space # Ctrl /\ ~(Space \in Printed)
  BY CharsApart
<1> HIDE DEF d
<1>6. CASE Len(ws) < MAX_ARG_CT
  <2>1. /\ step(st, Ctrl) = st
        /\ w = <<>> => Keeps(step(st, Space), ws, <<>>)
        /\ w # <<>> => Keeps(step(st, Space), Append(ws, w), <<>>)
        /\ \A x \in Printed : Keeps(step(st, x), ws, Append(w, x))
    BY <1>6, KeepsOn
  <2>2. CASE ch = Space /\ w = <<>>
    BY <1>1, <1>2, <2>1, <2>2 DEF d
  <2>3. CASE ch = Space /\ w # <<>>
    BY <1>1, <1>2, <2>1, <2>3 DEF d
  <2>4. CASE ch = Ctrl
    BY <1>1, <1>5, <2>1, <2>4 DEF d
  <2>5. CASE ch \in Printed
    BY <1>1, <1>3, <1>5, <2>1, <2>5 DEF d
  <2>. QED
    BY <1>4, <2>2, <2>3, <2>4, <2>5
<1>7. CASE ~(Len(ws) < MAX_ARG_CT)
  <2>1. step(st, ch) = st /\ \A v \in Word : Keeps(st, ws, v) /\ Keeps(st, Append(ws, w), v)
    BY <1>7, PassesOver
  <2>2. CASE ch = Space /\ w = <<>>
    BY <1>1, <1>2, <2>1, <2>2 DEF d
  <2>3. CASE ch = Space /\ w # <<>>
    BY <1>1, <1>2, <2>1, <2>3 DEF d
  <2>4. CASE ch = Ctrl
    BY <1>1, <1>5, <2>1, <2>4 DEF d
  <2>5. CASE ch \in Printed
    BY <1>1, <1>3, <1>5, <2>1, <2>5 DEF d
  <2>. QED
    BY <1>4, <2>2, <2>3, <2>4, <2>5
<1>. QED
  BY <1>6, <1>7

LEMMA PrefixNext ==
  ASSUME NEW V, NEW s \in Seq(V), NEW n \in Nat, n < Len(s)
  PROVE  /\ SubSeq(s, 1, n) \in Seq(V)
         /\ s[n + 1] \in V
         /\ SubSeq(s, 1, n + 1) = Append(SubSeq(s, 1, n), s[n + 1])
<1>1. Len(s) \in Nat /\ n + 1 \in 1 .. Len(s)
  BY LenProperties
<1>2. s[n + 1] \in V /\ \A i \in 1 .. n + 1 : s[i] \in V
  <2>1. \A i \in 1 .. n + 1 : i \in 1 .. Len(s)
    BY <1>1
  <2>. QED
    BY <1>1, <2>1, ElementOfSeq
<1> DEFINE a == SubSeq(s, 1, n)
           b == SubSeq(s, 1, n + 1)
           d == Append(a, s[n + 1])
<1>3. /\ a \in Seq(V) /\ Len(a) = n /\ \A i \in 1 .. n : a[i] = s[i]
  BY <1>2, SubSeqProperties
<1>4. /\ b \in Seq(V) /\ Len(b) = n + 1 /\ \A i \in 1 .. n + 1 : b[i] = s[i]
  BY <1>2, SubSeqProperties
<1> HIDE DEF a, b
<1>5. /\ d \in Seq(V) /\ Len(d) = n + 1 /\ d[n + 1] = s[n + 1]
      /\ \A i \in 1 .. n : d[i] = a[i]
  BY <1>2, <1>3, AppendProperties
<1> HIDE DEF d
<1>6. ASSUME NEW i \in 1 .. n + 1 PROVE b[i] = d[i]
  <2>1. i = n + 1 \/ i \in 1 .. n
    OBVIOUS
  <2>. QED
    BY <1>3, <1>4, <1>5, <2>1
<1>7. b = d
  BY <1>4, <1>5, <1>6, SeqEqual
<1>. QED
  BY <1>2, <1>3, <1>7 DEF a, b, d

LEMMA ReadsPrefixes ==
  ASSUME NEW c \in Seq(Chars)
  PROVE  \E ws \in Seq(Word), w \in Word : Reads(c, ws, w) /\ Keeps(reading(c)[Len(c)], ws, w)
<1> DEFINE P(n) == \E ws \in Seq(Word), w \in Word :
                     Reads(SubSeq(c, 1, n), ws, w) /\ Keeps(reading(c)[n], ws, w)
           T == {n \in Nat : n <= Len(c) => P(n)}
<1>1. Len(c) \in Nat
  BY LenProperties
<1>2. 0 \in T
  <2>1. SubSeq(c, 1, 0) = <<>>
    BY SubSeqEmpty
  <2>2. <<>> \in Seq(Word) /\ <<>> \in Word
    BY DEF Word
  <2>3. Reads(SubSeq(c, 1, 0), <<>>, <<>>) /\ Keeps(reading(c)[0], <<>>, <<>>)
    BY <2>1, ReadsNothing, NothingKept, ReadingIs
  <2>4. P(0)
    BY <2>2, <2>3
  <2> HIDE DEF P
  <2>. QED
    BY <2>4
<1>3. ASSUME NEW n \in Nat, n \in T PROVE n + 1 \in T
  <2> HIDE DEF P
  <2> SUFFICES ASSUME n + 1 <= Len(c) PROVE P(n + 1)
    OBVIOUS
  <2>1. n <= Len(c) /\ n < Len(c) /\ n + 1 \in 1 .. Len(c)
    BY <1>1
  <2> DEFINE d == SubSeq(c, 1, n)
             ch == c[n + 1]
             st == reading(c)[n]
  <2>2. PICK ws \in Seq(Word), w \in Word : Reads(d, ws, w) /\ Keeps(st, ws, w)
    <3>1. P(n)
      BY <1>3, <2>1
    <3>. QED
      BY <3>1 DEF P
  <2>3. d \in Seq(Chars) /\ ch \in Chars /\ SubSeq(c, 1, n + 1) = Append(d, ch)
    BY <2>1, PrefixNext
  <2>4. reading(c)[n + 1] = step(st, ch)
    <3>1. (n + 1) - 1 = n
      OBVIOUS
    <3>. QED
      BY <2>1, <3>1, ReadingIs
  <2> HIDE DEF d, ch, st
  <2>5. PICK vs \in Seq(Word), v \in Word :
          Reads(Append(d, ch), vs, v) /\ Keeps(step(st, ch), vs, v)
    BY <2>2, <2>3, StepReads, Zenon
  <2>. QED
    BY <2>3, <2>4, <2>5 DEF P
<1>4. Len(c) \in T
  <2> HIDE DEF T
  <2>. QED
    BY <1>1, <1>2, <1>3, Induct
<1>5. SubSeq(c, 1, Len(c)) = c
  BY SubSeqFull
<1>6. P(Len(c))
  <2> HIDE DEF P
  <2>. QED
    BY <1>1, <1>4
<1>. QED
  BY <1>5, <1>6

(* What apply makes of any line: its words, each up to its limit and all   *)
(* up to theirs, however the line is put together and however long it is.  *)
THEOREM SplitIsWhatWasTyped ==
  ASSUME NEW c \in Seq(Chars)
  PROVE  split(c) = cutAll(upTo(wordsIn(c), MAX_ARG_CT))
<1> DEFINE st == reading(c)[Len(c)]
<1>1. PICK ws \in Seq(Word), w \in Word : Reads(c, ws, w) /\ Keeps(st, ws, w)
  BY ReadsPrefixes
<1> HIDE DEF st
<1>2. Space \in Chars /\ Space \notin Printed
  BY CharsApart
<1>3. PICK vs \in Seq(Word), v \in Word :
        /\ Reads(Append(c, Space), vs, v)
        /\ Keeps(step(st, Space), vs, v)
        /\ v = <<>>
  BY <1>1, <1>2, StepReads
<1>4. wordsIn(Append(c, Space)) = vs
  BY <1>3 DEF Reads
<1>5. wordsIn(Append(c, Space)) = wordsIn(c)
  BY <1>2, NotPrinted
<1>6. step(st, Space).words = cutAll(upTo(vs, MAX_ARG_CT))
  BY <1>3 DEF Keeps
<1>. QED
  BY <1>4, <1>5, <1>6 DEF split, st

---------------------------------------------------------------------------

(* A word of a line has a character. *)
LEMMA WordsHaveCharacters ==
  ASSUME NEW c \in Seq(Chars), NEW i \in starts(c)
  PROVE  textAt(c, i) # <<>>
<1>1. i \in printed(c) /\ c[i] # Space /\ i \in Nat
  BY PlacesAreListed, CharsApart
<1>2. \A k \in i .. i : k = i
  BY <1>1
<1>3. i \in wordAt(c, i)
  BY <1>1, <1>2 DEF wordAt, together
<1>4. Listed(wordAt(c, i)) /\ \A y \in wordAt(c, i) : c[y] \in Printed
  BY PlacesAreListed
<1>5. Cardinality(wordAt(c, i)) # 0
  BY <1>3, <1>4, FS_EmptySet, ListedIsFinite
<1>6. Len(textAt(c, i)) # 0
  BY <1>4, <1>5, InTurnOf DEF textAt
<1>. QED
  BY <1>6

LEMMA WordsInAreWords ==
  ASSUME NEW c \in Seq(Chars)
  PROVE  wordsIn(c) \in Seq(Word) /\ \A k \in 1 .. Len(wordsIn(c)) : wordsIn(c)[k] # <<>>
<1> DEFINE f == [i \in starts(c) |-> textAt(c, i)]
           S == starts(c)
<1>1. /\ Listed(S)
      /\ \A i \in S : f[i] \in Word /\ f[i] # <<>>
  BY PlacesAreListed, TextAtIs, WordsHaveCharacters DEF Word
<1>2. wordsIn(c) = inTurn(f, S)
  BY DEF wordsIn, textAt
<1> HIDE DEF f, S
<1>3. inTurn(f, S) \in Seq(Word) /\ Len(inTurn(f, S)) = Cardinality(S)
  BY <1>1, InTurnOf
<1>4. inOrder(S) \in [1 .. Cardinality(S) -> S]
  BY <1>1, InOrderOf
<1>5. ASSUME NEW k \in 1 .. Cardinality(S) PROVE inTurn(f, S)[k] # <<>>
  <2>1. inOrder(S)[k] \in S
    BY <1>4
  <2>2. inTurn(f, S)[k] = f[inOrder(S)[k]]
    BY InTurnAt
  <2>. QED
    BY <1>1, <2>1, <2>2
<1>. QED
  BY <1>2, <1>3, <1>5

(* So has each word that apply makes of it. *)
LEMMA SplitIntoWords ==
  ASSUME NEW c \in Seq(Chars)
  PROVE  split(c) \in Seq(Word) /\ \A k \in 1 .. Len(split(c)) : split(c)[k] # <<>>
<1> DEFINE ws == wordsIn(c)
           us == upTo(ws, MAX_ARG_CT)
<1>1. ws \in Seq(Word) /\ \A k \in 1 .. Len(ws) : ws[k] # <<>>
  BY WordsInAreWords
<1> HIDE DEF ws
<1>2. /\ us \in Seq(Word) /\ Len(ws) \in Nat
      /\ Len(us) = IF Len(ws) < MAX_ARG_CT THEN Len(ws) ELSE MAX_ARG_CT
      /\ \A k \in 1 .. Len(us) : us[k] = ws[k]
  BY <1>1, Limits, UpToIs, Zenon
<1> HIDE DEF us
<1>3. Len(us) \in Nat /\ Len(us) <= Len(ws)
  BY <1>2, Limits
<1>4. \A k \in 1 .. Len(us) : k \in 1 .. Len(ws)
  BY <1>2, <1>3
<1>5. \A k \in 1 .. Len(us) : us[k] # <<>> /\ us[k] \in Word
  BY <1>1, <1>2, <1>4, ElementOfSeq
<1>6. cutAll(us) \in Seq(Word) /\ Len(cutAll(us)) = Len(us) /\ \A k \in 1 .. Len(us) : cutAll(us)[k] = cut(us[k])
  BY <1>2, CutAllIs DEF Word
<1>7. ASSUME NEW w \in Word, w # <<>> PROVE cut(w) # <<>>
  <2>1. Len(w) \in Nat /\ Len(w) # 0
    BY <1>7, EmptySeq DEF Word
  <2>2. Len(cut(w)) = IF Len(w) < MAX_ARG_LEN - 1 THEN Len(w) ELSE MAX_ARG_LEN - 1
    BY Limits, UpToIs DEF Word, cut
  <2>3. Len(cut(w)) # 0
    BY <2>1, <2>2, Limits
  <2>. QED
    BY <2>3
<1>8. split(c) = cutAll(us)
  BY SplitIsWhatWasTyped DEF us, ws
<1>. QED
  BY <1>5, <1>6, <1>7, <1>8

LEMMA AppendBehind ==
  ASSUME NEW V, NEW v \in Seq(V), NEW a \in Seq(V), NEW ch \in V
  PROVE  v \o Append(a, ch) = Append(v \o a, ch)
<1>1. Append(a, ch) = a \o <<ch>> /\ <<ch>> \in Seq(V)
  BY AppendIsConcat
<1>2. v \o a \in Seq(V)
  BY ConcatProperties
<1>3. Append(v \o a, ch) = (v \o a) \o <<ch>>
  BY <1>2, AppendIsConcat
<1>4. (v \o a) \o <<ch>> = v \o (a \o <<ch>>)
  BY <1>1, ConcatAssociative
<1>. QED
  BY <1>1, <1>3, <1>4

(* What is said goes on with a space and a word, and is read so. *)
LEMMA OneMoreWord ==
  ASSUME NEW u \in Seq(Chars), NEW x \in Word, x # <<>>
  PROVE  /\ u \o (<<Space>> \o x) \in Seq(Chars)
         /\ wordsIn(u \o (<<Space>> \o x)) = Append(wordsIn(u), x)
<1> DEFINE v == Append(u, Space)
           ws == wordsIn(u)
           y(n) == SubSeq(x, 1, n)
           T == {n \in Nat : n <= Len(x) => v \o y(n) \in Seq(Chars) /\ Reads(v \o y(n), ws, y(n))}
<1>0. Space \in Chars /\ Space \notin Printed /\ Printed \subseteq Chars
  BY CharsApart
<1>1. v \in Seq(Chars) /\ ws \in Seq(Word) /\ Len(x) \in Nat /\ x \in Seq(Printed)
  BY <1>0, Longer, WordsInAreWords, LenProperties DEF Word
<1>2. 0 \in T
  <2>1. wordsIn(v) = ws /\ ~open(v)
    BY <1>0, NotPrinted, OpenLonger
  <2>2. y(0) = <<>>
    BY SubSeqEmpty
  <2>3. v \o <<>> = v
    BY <1>1, ConcatEmptySeq
  <2>4. Reads(v, ws, <<>>)
    BY <2>1 DEF Reads
  <2> HIDE DEF y, v, ws
  <2>. QED
    BY <1>1, <2>2, <2>3, <2>4
<1>3. ASSUME NEW n \in Nat, n \in T PROVE n + 1 \in T
  <2> SUFFICES ASSUME n + 1 <= Len(x)
               PROVE  v \o y(n + 1) \in Seq(Chars) /\ Reads(v \o y(n + 1), ws, y(n + 1))
    OBVIOUS
  <2>1. n <= Len(x) /\ n < Len(x)
    BY <1>1
  <2>2. v \o y(n) \in Seq(Chars) /\ Reads(v \o y(n), ws, y(n))
    BY <1>3, <2>1
  <2> DEFINE a == y(n)
             ch == x[n + 1]
  <2>3. a \in Seq(Printed) /\ ch \in Printed /\ y(n + 1) = Append(a, ch)
    BY <1>1, <2>1, PrefixNext
  <2> HIDE DEF y, v, ws, a, ch
  <2>4. a \in Seq(Chars) /\ ch \in Chars
    BY <1>0, <2>3, SeqMonotonic
  <2>5. v \o Append(a, ch) = Append(v \o a, ch)
    BY <1>1, <2>4, AppendBehind
  <2>6. Append(v \o a, ch) \in Seq(Chars) /\ Reads(Append(v \o a, ch), ws, Append(a, ch))
    <3>1. v \o a \in Seq(Chars) /\ Reads(v \o a, ws, a)
      BY <2>2 DEF a
    <3>2. ws \in Seq(Seq(Printed))
      BY <1>1 DEF Word
    <3> DEFINE b == v \o a
    <3>3. b \in Seq(Chars) /\ Reads(b, ws, a)
      BY <3>1
    <3> HIDE DEF b
    <3>4. Append(b, ch) \in Seq(Chars) /\ Reads(Append(b, ch), ws, Append(a, ch))
      BY <2>3, <2>4, <3>2, <3>3, ReadsOn, AppendSomething
    <3>. QED
      BY <3>4 DEF b
  <2>. QED
    BY <2>3, <2>5, <2>6
<1>4. Len(x) \in T
  <2> HIDE DEF T
  <2>. QED
    BY <1>1, <1>2, <1>3, Induct
<1>5. y(Len(x)) = x
  BY <1>1, SubSeqFull
<1>6. v \o x \in Seq(Chars) /\ Reads(v \o x, ws, x)
  <2> HIDE DEF y
  <2>. QED
    BY <1>1, <1>4, <1>5
<1>7. u \o (<<Space>> \o x) = v \o x
  <2>1. x \in Seq(Chars) /\ <<Space>> \in Seq(Chars)
    BY <1>0, <1>1, SeqMonotonic
  <2>2. v = u \o <<Space>>
    BY <1>0, AppendIsConcat
  <2>. QED
    BY <2>1, <2>2, ConcatAssociative
<1> HIDE DEF v, ws
<1>8. wordsIn(v \o x) = Append(ws, x)
  BY <1>6 DEF Reads
<1>. QED
  BY <1>6, <1>7, <1>8 DEF ws

(* The parts a say is put together from. *)
partsOf(words) == [i \in 1 .. Len(words) |-> <<Space>> \o (IF i = 1 THEN <<name>> ELSE words[i])]

heard(words, n) == [k \in 1 .. n |-> IF k = 1 THEN <<name>> ELSE words[k]]

LEMMA FlattenIs ==
  ASSUME NEW s, NEW n \in Nat, Len(s) = n, n # 0
  PROVE  \E f : /\ f[1] = s[1]
                /\ \A i \in 2 .. n : f[i] = f[i - 1] \o s[i]
                /\ FlattenSeq(s) = f[n]
<1> DEFINE Rec(f, m) == f[1] = s[1] /\ \A i \in 2 .. m : f[i] = f[i - 1] \o s[i]
           T == {m \in Nat : \E f : Rec(f, m)}
           Body(g) == [i \in 1 .. n |-> IF i = 1 THEN s[i] ELSE g[i - 1] \o s[i]]
<1>1. n \in Nat /\ 1 \in 1 .. n /\ n \in 1 .. n
  OBVIOUS
<1>2. 0 \in T
  <2> DEFINE f == [i \in {1} |-> s[1]]
  <2>1. f[1] = s[1] /\ \A i \in 2 .. 0 : FALSE
    OBVIOUS
  <2> HIDE DEF f
  <2>2. Rec(f, 0)
    BY <2>1
  <2> HIDE DEF Rec
  <2>. QED
    BY <2>2
<1>3. ASSUME NEW m \in Nat, m \in T PROVE m + 1 \in T
  <2>1. PICK f : Rec(f, m)
    BY <1>3
  <2> DEFINE g == [i \in 0 .. m + 1 |-> IF i = m + 1 /\ i # 1 THEN f[m] \o s[m + 1] ELSE f[i]]
  <2>2. g[1] = f[1] /\ \A i \in 1 .. m : g[i] = f[i]
    OBVIOUS
  <2>3. ASSUME m # 0 PROVE g[m + 1] = f[m] \o s[m + 1]
    <3>1. m + 1 # 1 /\ m + 1 \in 0 .. m + 1
      BY <2>3
    <3>. QED
      BY <3>1
  <2> HIDE DEF g
  <2>4. ASSUME NEW i \in 2 .. m + 1 PROVE g[i] = g[i - 1] \o s[i]
    <3>1. CASE i = m + 1
      <4>1. i - 1 = m /\ m \in 1 .. m /\ m # 0
        BY <3>1
      <4>. QED
        BY <2>2, <2>3, <3>1, <4>1
    <3>2. CASE i # m + 1
      <4>1. i \in 2 .. m /\ i \in 1 .. m /\ i - 1 \in 1 .. m
        BY <3>2
      <4>. QED
        BY <2>1, <2>2, <4>1
    <3>. QED
      BY <3>1, <3>2
  <2>5. Rec(g, m + 1)
    BY <2>1, <2>2, <2>4
  <2> HIDE DEF Rec
  <2>. QED
    BY <2>5
<1>4. n \in T
  <2> HIDE DEF T
  <2>. QED
    BY <1>1, <1>2, <1>3, Induct
<1>5. PICK f : Rec(f, n)
  <2> HIDE DEF Rec
  <2>. QED
    BY <1>4
<1>6. \E g : g = Body(g)
  <2> DEFINE g == [i \in 1 .. n |-> f[i]]
  <2>1. ASSUME NEW i \in 1 .. n
        PROVE  g[i] = IF i = 1 THEN s[i] ELSE g[i - 1] \o s[i]
    <3>1. CASE i = 1
      BY <1>5, <3>1
    <3>2. CASE i # 1
      <4>1. i \in 2 .. n /\ i - 1 \in 1 .. n
        BY <3>2
      <4>2. g[i] = f[i] /\ g[i - 1] = f[i - 1]
        BY <4>1
      <4> HIDE DEF g
      <4>3. f[i] = f[i - 1] \o s[i]
        BY <1>5, <4>1
      <4>. QED
        BY <3>2, <4>2, <4>3
    <3>. QED
      BY <3>1, <3>2
  <2>2. g = [i \in 1 .. n |-> g[i]]
    OBVIOUS
  <2> HIDE DEF g
  <2>3. g = Body(g)
    BY <2>1, <2>2
  <2> HIDE DEF Body
  <2>. QED
    BY <2>3
<1> DEFINE r == CHOOSE g : g = Body(g)
<1>7. r = Body(r)
  <2> HIDE DEF Body
  <2>. QED
    BY <1>6
<1>8. FlattenSeq(s) = r[n]
  BY DEF FlattenSeq
<1> HIDE DEF r
<1>9. r[1] = s[1]
  BY <1>1, <1>7
<1>10. ASSUME NEW i \in 2 .. n PROVE r[i] = r[i - 1] \o s[i]
  <2>1. i \in 1 .. n /\ i # 1
    OBVIOUS
  <2>. QED
    BY <1>7, <2>1
<1>. QED
  BY <1>8, <1>9, <1>10

LEMMA HeardNext ==
  ASSUME NEW words \in Seq(Word), NEW n \in Nat, n # 0, n + 1 <= Len(words)
  PROVE  /\ heard(words, n) \in Seq(Word)
         /\ Append(heard(words, n), words[n + 1]) = heard(words, n + 1)
<1> DEFINE h(m) == heard(words, m)
<1>1. Len(words) \in Nat /\ \A k \in 1 .. Len(words) : words[k] \in Word
  BY LenProperties, ElementOfSeq
<1>2. <<name>> \in Word
  BY CommandAssumption DEF Word
<1>3. ASSUME NEW m \in Nat, m <= Len(words)
      PROVE  /\ h(m) \in Seq(Word) /\ Len(h(m)) = m
             /\ \A k \in 1 .. m : h(m)[k] = IF k = 1 THEN <<name>> ELSE words[k]
  <2>1. \A k \in 1 .. m : (IF k = 1 THEN <<name>> ELSE words[k]) \in Word
    <3>1. \A k \in 1 .. m : k \in 1 .. Len(words)
      BY <1>1, <1>3
    <3>. QED
      BY <1>1, <1>2, <3>1
  <2>2. h(m) \in [1 .. m -> Word]
    BY <2>1 DEF heard
  <2>3. \A k \in 1 .. m : h(m)[k] = IF k = 1 THEN <<name>> ELSE words[k]
    BY DEF heard
  <2> HIDE DEF h
  <2>. QED
    BY <2>2, <2>3
<1> DEFINE a == h(n)
           b == h(n + 1)
           d == Append(a, words[n + 1])
<1>4. /\ a \in Seq(Word) /\ Len(a) = n
      /\ \A k \in 1 .. n : a[k] = IF k = 1 THEN <<name>> ELSE words[k]
  <2>1. n <= Len(words)
    BY <1>1
  <2> HIDE DEF h
  <2>. QED
    BY <1>3, <2>1
<1>5. /\ b \in Seq(Word) /\ Len(b) = n + 1
      /\ \A k \in 1 .. n + 1 : b[k] = IF k = 1 THEN <<name>> ELSE words[k]
  <2> DEFINE m == n + 1
  <2>1. m \in Nat /\ m <= Len(words)
    OBVIOUS
  <2> HIDE DEF h, m
  <2>2. /\ h(m) \in Seq(Word) /\ Len(h(m)) = m
        /\ \A k \in 1 .. m : h(m)[k] = IF k = 1 THEN <<name>> ELSE words[k]
    BY <1>3, <2>1
  <2>. QED
    BY <2>2 DEF m
<1> HIDE DEF h, a, b
<1>6. words[n + 1] \in Word
  BY <1>1
<1>7. /\ d \in Seq(Word) /\ Len(d) = n + 1 /\ d[n + 1] = words[n + 1]
      /\ \A k \in 1 .. n : d[k] = a[k]
  BY <1>4, <1>6, AppendProperties
<1> HIDE DEF d
<1>8. ASSUME NEW k \in 1 .. n + 1 PROVE d[k] = b[k]
  <2>1. (k = n + 1 /\ k # 1) \/ k \in 1 .. n
    OBVIOUS
  <2>. QED
    BY <1>4, <1>5, <1>7, <2>1
<1>9. d = b
  BY <1>5, <1>7, <1>8, SeqEqual
<1>. QED
  BY <1>4, <1>9 DEF a, b, d, h

LEMMA SayableGoesOn ==
  ASSUME NEW u \in Seq(Printed \cup {Space}), NEW x \in Word
  PROVE  u \o (<<Space>> \o x) \in Seq(Printed \cup {Space})
<1> DEFINE V == Printed \cup {Space}
<1>1. x \in Seq(V)
  BY SeqMonotonic DEF Word
<1>2. <<Space>> \in Seq(V)
  OBVIOUS
<1>3. u \in Seq(V)
  OBVIOUS
<1> HIDE DEF V
<1>4. <<Space>> \o x \in Seq(V)
  BY <1>1, <1>2, ConcatProperties
<1>5. u \o (<<Space>> \o x) \in Seq(V)
  BY <1>3, <1>4, ConcatProperties
<1>. QED
  BY <1>5 DEF V

(* What is said is read as the name and the words behind the first. *)
LEMMA SayingIsRead ==
  ASSUME NEW words \in Seq(Word), words # <<>>, \A k \in 1 .. Len(words) : words[k] # <<>>
  PROVE  /\ saying(words) \in Seq(Printed \cup {Space})
         /\ wordsIn(saying(words)) = heard(words, Len(words))
<1> DEFINE n == Len(words)
           s == partsOf(words)
           Sayable == Printed \cup {Space}
           x(i) == IF i = 1 THEN <<name>> ELSE words[i]
<1>1. n \in Nat /\ n # 0 /\ \A i \in 1 .. n : words[i] \in Word /\ words[i] # <<>>
  BY EmptySeq, ElementOfSeq
<1>2. \A i \in 1 .. n : x(i) \in Word /\ x(i) # <<>>
  <2>1. <<name>> \in Word /\ <<name>> # <<>>
    BY CommandAssumption, AppendSomething DEF Word
  <2>. QED
    BY <1>1, <2>1
<1>3. Len(s) = n /\ \A i \in 1 .. n : s[i] = <<Space>> \o x(i)
  BY <1>1 DEF partsOf
<1>4. saying(words) = FlattenSeq(s)
  BY DEF saying, partsOf
<1>0. x(1) = <<name>> /\ \A i \in 1 .. n : i # 1 => x(i) = words[i]
  OBVIOUS
<1> HIDE DEF n, s, x
<1>5. PICK f : /\ f[1] = s[1]
               /\ \A i \in 2 .. n : f[i] = f[i - 1] \o s[i]
               /\ FlattenSeq(s) = f[n]
  BY <1>1, <1>3, FlattenIs
<1> DEFINE P(m) == f[m] \in Seq(Sayable) /\ wordsIn(f[m]) = heard(words, m)
           T == {m \in Nat : m + 1 <= n => P(m + 1)}
<1>6. 0 \in T
  <2> DEFINE e == <<>>
  <2>1. e \in Seq(Sayable) /\ e \in Seq(Chars) /\ wordsIn(e) = <<>>
    BY ReadsNothing DEF Reads
  <2>2. f[1] = <<Space>> \o x(1) /\ 1 \in 1 .. n
    BY <1>1, <1>3, <1>5
  <2>3. e \o (<<Space>> \o x(1)) = <<Space>> \o x(1)
    <3>1. x(1) \in Seq(Chars) /\ <<Space>> \in Seq(Chars)
      BY <1>2, <2>2, CharsApart, SeqMonotonic DEF Word
    <3>2. <<Space>> \o x(1) \in Seq(Chars)
      BY <3>1, ConcatProperties
    <3>. QED
      BY <3>2, ConcatEmptySeq
  <2>4. x(1) \in Word /\ x(1) # <<>> /\ x(1) = <<name>>
    BY <1>2, <1>0, <2>2
  <2> HIDE DEF e
  <2>5. /\ e \o (<<Space>> \o x(1)) \in Seq(Sayable)
        /\ wordsIn(e \o (<<Space>> \o x(1))) = Append(wordsIn(e), x(1))
    BY <2>1, <2>4, OneMoreWord, SayableGoesOn
  <2>6. Append(<<>>, x(1)) = <<x(1)>> /\ heard(words, 1) = <<x(1)>>
    BY <2>4 DEF heard
  <2>7. P(1)
    BY <2>1, <2>2, <2>3, <2>5, <2>6
  <2> HIDE DEF P
  <2>. QED
    BY <2>7
<1>7. ASSUME NEW m \in Nat, m \in T PROVE m + 1 \in T
  <2> SUFFICES ASSUME (m + 1) + 1 <= n PROVE P((m + 1) + 1)
    BY DEF T
  <2> DEFINE k == m + 1
             u == f[k]
  <2>1. k \in Nat /\ k # 0 /\ k <= n /\ k + 1 \in 2 .. n /\ k + 1 \in 1 .. n /\ (k + 1) - 1 = k /\ k + 1 # 1
    BY <1>1
  <2>2. P(k)
    BY <1>7, <2>1 DEF T
  <2> HIDE DEF k
  <2>3. f[k + 1] = u \o (<<Space>> \o words[k + 1]) /\ words[k + 1] \in Word /\ words[k + 1] # <<>>
    BY <1>1, <1>3, <1>5, <1>0, <2>1
  <2>4. u \in Seq(Sayable) /\ u \in Seq(Chars) /\ wordsIn(u) = heard(words, k)
    <3>1. Sayable \subseteq Chars
      BY CharsApart
    <3>2. u \in Seq(Sayable) /\ wordsIn(u) = heard(words, k)
      BY <2>2
    <3> HIDE DEF u, Sayable
    <3>. QED
      BY <3>1, <3>2, SeqMonotonic
  <2> HIDE DEF u
  <2>5. f[k + 1] \in Seq(Sayable) /\ wordsIn(f[k + 1]) = Append(heard(words, k), words[k + 1])
    BY <2>3, <2>4, OneMoreWord, SayableGoesOn
  <2>6. Append(heard(words, k), words[k + 1]) = heard(words, k + 1)
    BY <2>1, HeardNext DEF n
  <2>. QED
    BY <2>5, <2>6 DEF k
<1>8. n \in Nat /\ n - 1 \in Nat /\ (n - 1) + 1 = n
  BY <1>1
<1>9. n - 1 \in T
  <2> HIDE DEF T
  <2>. QED
    BY <1>6, <1>7, <1>8, Induct
<1>10. P(n)
  BY <1>8, <1>9
<1>. QED
  BY <1>4, <1>5, <1>10 DEF n

---------------------------------------------------------------------------

(* What was said came of the line last applied. *)
SaidIsWhatCame ==
  said # <<>> => split(applied) # <<>> /\ said = room(saying(split(applied)))

CommandIInv == CommandTypeOK /\ SaidIsWhatCame

LEMMA RepliesAre ==
  \A x, y \in Replies : /\ <<x>> \in Seq(Replies) /\ Len(<<x>>) <= 2
                        /\ <<x, y>> \in Seq(Replies) /\ Len(<<x, y>>) <= 2
                        /\ <<>> \in Seq(Replies) /\ Len(<<>>) <= 2
<1> DEFINE R == Replies
<1> HIDE DEF R
<1>1. \A x, y \in R : /\ <<x>> \in Seq(R) /\ Len(<<x>>) <= 2
                      /\ <<x, y>> \in Seq(R) /\ Len(<<x, y>>) <= 2
                      /\ <<>> \in Seq(R) /\ Len(<<>>) <= 2
  OBVIOUS
<1>. QED
  BY <1>1 DEF R

Answered(as) == as \in Seq(Replies) /\ Len(as) <= 2
Sayable(text) == text \in Seq(Printed \cup {Space}) /\ Len(text) <= SayRoom

LEMMA AllAreAnswers ==
  /\ Answered(<<>>)
  /\ Answered(<<"password ignored", "@status login 1">>)
  /\ Answered(<<"password ignored", "@error login failed">>)
  /\ Answered(<<"@look begins", "@look ends">>)
  /\ Answered(<<"@move requested">>) /\ Answered(<<"@fire requested">>)
  /\ Answered(<<"@error not understood">>)
<1>1. /\ "password ignored" \in Replies /\ "@status login 1" \in Replies
      /\ "@error login failed" \in Replies /\ "@look begins" \in Replies
      /\ "@look ends" \in Replies /\ "@move requested" \in Replies
      /\ "@fire requested" \in Replies /\ "@error not understood" \in Replies
  BY DEF Replies
<1>. QED
  BY <1>1, RepliesAre, Zenon DEF Answered

LEMMA NothingIsSayable == Sayable(<<>>)
<1>1. \A n \in Nat : 0 <= n
  OBVIOUS
<1>2. Len(<<>>) = 0 /\ <<>> \in Seq(Printed \cup {Space}) /\ SayRoom \in Nat
  BY CommandAssumption
<1>. QED
  BY <1>1, <1>2 DEF Sayable

LEMMA RoomIs ==
  ASSUME NEW c \in Seq(Chars), split(c) # <<>>
  PROVE  Sayable(room(saying(split(c))))
<1> DEFINE t == saying(split(c))
<1>1. t \in Seq(Printed \cup {Space})
  BY SplitIntoWords, SayingIsRead
<1> HIDE DEF t
<1>2. SayRoom \in Nat
  BY CommandAssumption
<1>3. upTo(t, SayRoom) \in Seq(Printed \cup {Space})
  BY <1>1, <1>2, UpToIs
<1>4. Len(t) \in Nat /\ Len(upTo(t, SayRoom)) = IF Len(t) < SayRoom THEN Len(t) ELSE SayRoom
  BY <1>1, <1>2, UpToIs
<1>5. Len(upTo(t, SayRoom)) <= SayRoom
  BY <1>2, <1>4
<1>. QED
  BY <1>3, <1>5 DEF Sayable, room, t

LEMMA CommandInitFits == CommandInit => CommandIInv
<1> SUFFICES ASSUME CommandInit PROVE CommandIInv
  OBVIOUS
<1>1. typed = <<>> /\ applied = <<>> /\ answer = <<>> /\ said = <<>> /\ player = "out"
  BY DEF CommandInit
<1>2. <<>> \in Seq(Chars) /\ Len(<<>>) <= MaxTyped
  <2>1. Len(<<>>) = 0 /\ MaxTyped \in Nat /\ <<>> \in Seq(Chars)
    BY CommandAssumption
  <2>2. \A n \in Nat : 0 <= n
    OBVIOUS
  <2>. QED
    BY <2>1, <2>2
<1>. QED
  BY <1>1, <1>2, AllAreAnswers, NothingIsSayable
     DEF CommandIInv, CommandTypeOK, SaidIsWhatCame, Answered, Sayable

LEMMA DispatchFits ==
  ASSUME player \in {"out", "alive", "dead"}, NEW c \in Seq(Chars), split(c) # <<>>,
         dispatch(split(c), split(c)[1][1])
  PROVE  /\ player' \in {"out", "alive", "dead"} /\ Answered(answer') /\ Sayable(said')
         /\ said' # <<>> => said' = room(saying(split(c)))
<1> DEFINE P == {"out", "alive", "dead"}
           words == split(c)
           first == split(c)[1][1]
<1>1. "alive" \in P /\ player \in P
  OBVIOUS
<1>2. Sayable(room(saying(words)))
  BY RoomIs
<1> HIDE DEF P, words, first
<1>3. ASSUME NEW fits \in BOOLEAN, login(fits) PROVE player' \in P /\ Answered(answer')
  BY <1>1, <1>3, AllAreAnswers DEF login
<1>4. CASE first = "c" /\ (\E fits \in BOOLEAN : login(fits)) /\ said' = <<>>
  BY <1>3, <1>4, NothingIsSayable DEF P, words
<1>5. CASE /\ said' = (IF isEmbodied THEN room(saying(words)) ELSE <<>>)
           /\ answer' = <<>> /\ player' = player
  BY <1>1, <1>2, <1>5, AllAreAnswers, NothingIsSayable DEF P, words
<1>6. CASE /\ answer' =
                CASE first = "l" /\ isEmbodied -> <<"@look begins", "@look ends">>
                  [] first = "g" /\ towards(words) /\ player = "alive" -> <<"@move requested">>
                  [] first = "f" /\ towards(words) /\ player = "alive" -> <<"@fire requested">>
                  [] OTHER -> <<>>
           /\ said' = <<>> /\ player' = player
  <2>1. Answered(answer')
    BY <1>6, AllAreAnswers
  <2>. QED
    BY <1>1, <1>6, <2>1, NothingIsSayable DEF P, words
<1>7. CASE answer' = <<"@error not understood">> /\ said' = <<>> /\ player' = player
  BY <1>1, <1>7, AllAreAnswers, NothingIsSayable DEF P, words
<1>8. dispatch(words, first)
  BY DEF words, first
<1>. QED
  BY <1>4, <1>5, <1>6, <1>7, <1>8, Zenon DEF dispatch

LEMMA CommandStepFits == CommandIInv /\ [CommandNext]_commandVars => CommandIInv'
<1> SUFFICES ASSUME CommandIInv, [CommandNext]_commandVars PROVE CommandIInv'
  OBVIOUS
<1> USE DEF CommandIInv
<1>1. /\ typed \in Seq(Chars) /\ Len(typed) <= MaxTyped
      /\ applied \in Seq(Chars) /\ Len(applied) <= MaxTyped
      /\ player \in {"out", "alive", "dead"} /\ Answered(answer) /\ Sayable(said)
      /\ SaidIsWhatCame
  BY DEF CommandTypeOK, Answered, Sayable
<1>2. <<>> \in Seq(Chars) /\ Len(<<>>) <= MaxTyped
  <2>1. Len(<<>>) = 0 /\ MaxTyped \in Nat /\ <<>> \in Seq(Chars)
    BY CommandAssumption
  <2>2. \A n \in Nat : 0 <= n
    OBVIOUS
  <2>. QED
    BY <2>1, <2>2
<1>3. SUFFICES /\ typed' \in Seq(Chars) /\ Len(typed') <= MaxTyped
               /\ applied' \in Seq(Chars) /\ Len(applied') <= MaxTyped
               /\ player' \in {"out", "alive", "dead"} /\ Answered(answer') /\ Sayable(said')
               /\ SaidIsWhatCame'
  BY DEF CommandTypeOK, Answered, Sayable
<1>4. CASE \E ch \in Chars : Type(ch)
  <2>1. PICK ch \in Chars : Type(ch)
    BY <1>4
  <2>2. Len(typed) < MaxTyped /\ typed' = Append(typed, ch)
    BY <2>1 DEF Type
  <2>3. Append(typed, ch) \in Seq(Chars) /\ Len(Append(typed, ch)) = Len(typed) + 1 /\ Len(typed) \in Nat
    BY <1>1, AppendProperties, LenProperties
  <2>4. Len(typed') <= MaxTyped
    BY <2>2, <2>3, CommandAssumption
  <2>5. applied' = <<>> /\ answer' = <<>> /\ said' = <<>> /\ player' = player
    BY <2>1 DEF Type
  <2>. QED
    BY <1>1, <1>2, <2>2, <2>3, <2>4, <2>5, AllAreAnswers, NothingIsSayable DEF SaidIsWhatCame
<1>5. CASE Apply
  <2>1. typed' = <<>> /\ applied' = typed
    BY <1>5 DEF Apply
  <2>2. CASE split(typed) = <<>>
    <3>1. answer' = <<>> /\ said' = <<>> /\ player' = player
      BY <1>5, <2>2 DEF Apply
    <3>. QED
      BY <1>1, <1>2, <2>1, <3>1, AllAreAnswers, NothingIsSayable DEF SaidIsWhatCame
  <2>3. CASE split(typed) # <<>>
    <3>1. dispatch(split(typed), split(typed)[1][1])
      BY <1>5, <2>3 DEF Apply
    <3>2. /\ player' \in {"out", "alive", "dead"} /\ Answered(answer') /\ Sayable(said')
          /\ said' # <<>> => said' = room(saying(split(typed)))
      BY <1>1, <2>3, <3>1, DispatchFits
    <3>3. SaidIsWhatCame'
      BY <2>1, <2>3, <3>2 DEF SaidIsWhatCame
    <3>. QED
      BY <1>1, <1>2, <2>1, <3>2, <3>3
  <2>. QED
    BY <2>2, <2>3
<1>6. CASE Die
  BY <1>1, <1>6 DEF Die, SaidIsWhatCame
<1>7. CASE Shutdown
  BY <1>1, <1>2, <1>7, AllAreAnswers, NothingIsSayable DEF Shutdown, SaidIsWhatCame
<1>8. CASE UNCHANGED commandVars
  BY <1>1, <1>8 DEF commandVars, SaidIsWhatCame
<1>. QED
  BY <1>4, <1>5, <1>6, <1>7, <1>8 DEF CommandNext

(* No line takes apply, login or Shutdown out of the types, and a say is    *)
(* what came of the line last applied.                                     *)
THEOREM CommandInvariantsHold == CommandSpec => []CommandIInv
BY CommandInitFits, CommandStepFits, PTL DEF CommandSpec

(* The words and what is said fit the arrays of Player::apply, at any time. *)
THEOREM CommandTypeCorrect == CommandSpec => []CommandTypeOK
<1>1. CommandIInv => CommandTypeOK
  BY DEF CommandIInv
<1>. QED
  BY <1>1, CommandInvariantsHold, PTL

(* Player::apply finds the words that were typed. *)
THEOREM WordsAreAsTyped == CommandSpec => []WordsAsTyped
<1>1. CommandIInv => WordsAsTyped
  <2> SUFFICES ASSUME CommandIInv PROVE WordsAsTyped
    OBVIOUS
  <2>1. split(typed) = cutAll(upTo(wordsIn(typed), MAX_ARG_CT))
    BY SplitIsWhatWasTyped DEF CommandIInv, CommandTypeOK
  <2>. QED
    BY <2>1 DEF WordsAsTyped, cutAll, cut
<1>. QED
  BY <1>1, CommandInvariantsHold, PTL

LEMMA WholeIsHeard ==
  ASSUME NEW words \in Seq(Word), words # <<>>
  PROVE  heard(words, Len(words)) = <<<<name>>>> \o Tail(words)
<1> DEFINE n == Len(words)
           t == Tail(words)
           a == heard(words, n)
           o == <<<<name>>>>
           b == o \o t
<1>1. n \in Nat /\ n # 0 /\ \A k \in 1 .. n : words[k] \in Word
  BY EmptySeq, LenProperties, ElementOfSeq
<1>2. t \in Seq(Word) /\ Len(t) = n - 1 /\ \A i \in 1 .. Len(t) : t[i] = words[i + 1]
  BY HeadTailProperties
<1>3. o \in Seq(Word) /\ Len(o) = 1 /\ o[1] = <<name>>
  <2>1. <<name>> \in Word
    BY CommandAssumption, AppendSomething DEF Word
  <2>. QED
    BY <2>1
<1>4. \A k \in 1 .. n : a[k] = IF k = 1 THEN <<name>> ELSE words[k]
  BY DEF heard
<1>5. a \in Seq(Word) /\ Len(a) = n
  <2>1. <<name>> \in Word
    BY CommandAssumption, AppendSomething DEF Word
  <2>2. a \in [1 .. n -> Word]
    BY <1>1, <2>1 DEF heard
  <2> HIDE DEF a, n
  <2>. QED
    BY <1>1, <2>2
<1> HIDE DEF n, t, a, o
<1>6. /\ b \in Seq(Word) /\ Len(b) = Len(o) + Len(t)
      /\ \A i \in 1 .. Len(o) + Len(t) : b[i] = IF i <= Len(o) THEN o[i] ELSE t[i - Len(o)]
  BY <1>2, <1>3, ConcatProperties
<1> HIDE DEF b
<1>7. Len(b) = n
  BY <1>1, <1>2, <1>3, <1>6
<1>8. ASSUME NEW i \in 1 .. n PROVE a[i] = b[i]
  <2>1. CASE i = 1
    <3>1. b[i] = o[i]
      BY <1>3, <1>6, <1>7, <2>1
    <3>. QED
      BY <1>3, <1>4, <2>1, <3>1
  <2>2. CASE i # 1
    <3>1. ~(i <= 1) /\ i - 1 \in 1 .. n - 1 /\ (i - 1) + 1 = i
      BY <1>1, <2>2
    <3>2. b[i] = t[i - 1]
      BY <1>3, <1>6, <1>7, <3>1
    <3>3. t[i - 1] = words[i]
      BY <1>2, <3>1
    <3>. QED
      BY <1>4, <2>2, <3>2, <3>3
  <2>. QED
    BY <2>1, <2>2
<1>9. a = b
  BY <1>5, <1>6, <1>7, <1>8, SeqEqual
<1>. QED
  BY <1>9 DEF a, b, o, t, n

(* Who reads what Player::apply broadcasts finds who said it and what. *)
THEOREM SaysAreHeard == CommandSpec => []SayIsHeard
<1>1. CommandIInv => SayIsHeard
  <2> SUFFICES ASSUME CommandIInv, said # <<>>
               PROVE  /\ IsPrefix(said, saying(split(applied)))
                      /\ Len(said) <= SayRoom
                      /\ Len(said) < SayRoom =>
                           wordsIn(said) = <<<<name>>>> \o Tail(split(applied))
    BY DEF SayIsHeard
  <2> DEFINE words == split(applied)
             t == saying(words)
             V == Printed \cup {Space}
  <2>1. applied \in Seq(Chars) /\ words # <<>> /\ said = upTo(t, SayRoom) /\ SayRoom \in Nat
    BY CommandAssumption DEF CommandIInv, CommandTypeOK, SaidIsWhatCame, room
  <2>2. words \in Seq(Word) /\ \A k \in 1 .. Len(words) : words[k] # <<>>
    BY <2>1, SplitIntoWords
  <2> HIDE DEF words
  <2>3. t \in Seq(V) /\ wordsIn(t) = heard(words, Len(words))
    BY <2>1, <2>2, SayingIsRead
  <2>4. heard(words, Len(words)) = <<<<name>>>> \o Tail(words)
    BY <2>1, <2>2, WholeIsHeard
  <2> HIDE DEF t, V
  <2>5. /\ said \in Seq(V) /\ Len(t) \in Nat
        /\ Len(said) = IF Len(t) < SayRoom THEN Len(t) ELSE SayRoom
    BY <2>1, <2>3, UpToIs
  <2>6. Len(said) <= SayRoom /\ Len(said) <= Len(t)
    BY <2>1, <2>5
  <2>7. IsPrefix(said, t)
    <3>1. SubSeq(said, 1, Len(said)) = said
      BY <2>5, SubSeqFull
    <3>2. said = SubSeq(t, 1, Len(said))
      BY <2>1, <2>5 DEF upTo
    <3>. QED
      BY <2>6, <3>1, <3>2 DEF IsPrefix
  <2>8. ASSUME Len(said) < SayRoom PROVE wordsIn(said) = <<<<name>>>> \o Tail(words)
    <3>1. Len(t) <= SayRoom
      BY <2>1, <2>5, <2>8
    <3>2. said = t
      BY <2>1, <2>3, <3>1, UpToAll
    <3>. QED
      BY <2>3, <2>4, <3>2
  <2>. QED
    BY <2>6, <2>7, <2>8 DEF words, t
<1>. QED
  BY <1>1, CommandInvariantsHold, PTL

---------------------------------------------------------------------------

(* While a player types, nothing of the last line's answer is left. *)
NothingLeft == typed # <<>> => answer = <<>>

LEMMA TypingForgets == CommandSpec => []NothingLeft
<1>1. CommandInit => NothingLeft
  BY DEF CommandInit, NothingLeft
<1>2. NothingLeft /\ [CommandNext]_commandVars => NothingLeft'
  BY DEF NothingLeft, CommandNext, commandVars, Type, Apply, Die, Shutdown
<1>. QED
  BY <1>1, <1>2, PTL DEF CommandSpec

tellsLogin(as) == \E i \in DOMAIN as : as[i] = "@status login 1"

(* Which answers tell of a login. *)
LEMMA Answers ==
  /\ tellsLogin(<<"password ignored", "@status login 1">>)
  /\ ~tellsLogin(<<>>)
  /\ ~tellsLogin(<<"password ignored", "@error login failed">>)
  /\ ~tellsLogin(<<"@look begins", "@look ends">>)
  /\ ~tellsLogin(<<"@move requested">>) /\ ~tellsLogin(<<"@fire requested">>)
  /\ ~tellsLogin(<<"@error not understood">>)
  /\ <<"password ignored", "@status login 1">> # <<>>
<1> USE DEF tellsLogin
<1>1. \A x, y : tellsLogin(<<x, y>>) <=> x = "@status login 1" \/ y = "@status login 1"
  <2> TAKE x, y
  <2>1. DOMAIN <<x, y>> = {1, 2} /\ <<x, y>>[1] = x /\ <<x, y>>[2] = y
    OBVIOUS
  <2>. QED
    BY <2>1, Zenon
<1>2. \A x : tellsLogin(<<x>>) <=> x = "@status login 1"
  <2> TAKE x
  <2>1. DOMAIN <<x>> = {1} /\ <<x>>[1] = x
    OBVIOUS
  <2>. QED
    BY <2>1, Zenon
<1>3. ~tellsLogin(<<>>)
  OBVIOUS
<1>4. <<"password ignored", "@status login 1">> # <<>>
  OBVIOUS
<1>. QED
  <2>1. "@error login failed" # "@status login 1" /\ "password ignored" # "@status login 1"
        /\ "@look begins" # "@status login 1" /\ "@look ends" # "@status login 1"
        /\ "@move requested" # "@status login 1" /\ "@fire requested" # "@status login 1"
        /\ "@error not understood" # "@status login 1"
    OBVIOUS
  <2>. QED
    BY <1>1, <1>2, <1>3, <1>4, <2>1, Zenon

(* A client is told of its login exactly when it enters the game           *)
(* (Player::apply, "connect"), whatever was typed.                         *)
THEOREM LoginsAreTold == CommandSpec => LoginIsTold
<1> DEFINE Step == (player = "out" /\ player' = "alive") <=> (answer' # answer /\ tellsLogin(answer'))
<1>1. NothingLeft /\ [CommandNext]_commandVars => [Step]_commandVars
  <2> SUFFICES ASSUME NothingLeft, CommandNext PROVE Step
    OBVIOUS
  <2>1. CASE Die
    BY <2>1 DEF Die
  <2>2. CASE Shutdown \/ \E ch \in Chars : Type(ch)
    BY <2>2, Answers DEF Shutdown, Type
  <2>3. CASE Apply
    <3>1. answer = <<>>
      BY <2>3 DEF Apply, NothingLeft
    <3>2. CASE answer' = <<>> /\ player' = player
      BY <3>1, <3>2
    <3>3. CASE dispatch(split(typed), split(typed)[1][1])
      <4>1. CASE \E fits \in BOOLEAN : login(fits)
        <5>1. PICK fits \in BOOLEAN : login(fits)
          BY <4>1
        <5>2. CASE player = "out" /\ fits
          <6>1. player' = "alive" /\ answer' = <<"password ignored", "@status login 1">>
            BY <5>1, <5>2 DEF login, isEmbodied
          <6>. QED
            BY <3>1, <5>2, <6>1, Answers
        <5>3. CASE ~(player = "out" /\ fits)
          <6>1. player' = player /\ answer' = <<"password ignored", "@error login failed">>
            BY <5>1, <5>3 DEF login, isEmbodied
          <6>. QED
            BY <3>1, <6>1, Answers
        <5>. QED
          BY <5>2, <5>3
      <4>2. CASE player' = player /\ ~tellsLogin(answer')
        BY <4>2
      <4>. QED
        BY <3>3, <4>1, <4>2, Answers DEF dispatch
    <3>. QED
      BY <2>3, <3>2, <3>3 DEF Apply
  <2>. QED
    BY <2>1, <2>2, <2>3 DEF CommandNext
<1>. QED
  BY <1>1, TypingForgets, PTL DEF CommandSpec, LoginIsTold, tellsLogin

---------------------------------------------------------------------------
(***************************************************************************)
(* SocketExample.                                                          *)
(***************************************************************************)

(* The letter the server saw last; the client begins behind the first. *)
seen == IF data = <<>> THEN 1 ELSE data[1].of

(* The server reads pair after pair, as long as none was cut. *)
Whole ==
  /\ link = "open" => stage["server"] \in {"check", "receive", "leave", "done"}
  /\ Len(data) # 1

(* The pairs xs are what is on the way, one after the other. *)
Carries(w, xs) ==
  /\ Len(w) = 2 * Len(xs)
  /\ \A j \in 1 .. Len(xs) : w[2 * j - 1] = capital(xs[j]) /\ w[2 * j] = small(xs[j])

(* Behind letter k they follow each other; only the last is Quit. *)
Follows(xs, k) ==
  \A j \in 1 .. Len(xs) :
    /\ xs[j] = Quit => j = Len(xs)
    /\ xs[j] # Quit => xs[j] = next(IF j = 1 THEN k ELSE xs[j - 1])

end(xs, k) == IF xs = <<>> THEN k ELSE xs[Len(xs)]

(* Where the threads are while there is no connection. *)
LinkFits ==
  /\ stage["main"] = "start server" => stage["server"] = "off"
  /\ stage["main"] \in {"start server", "start client"} => stage["client"] = "off"
  /\ stage["client"] \in {"off", "connect"} => letter = 1 /\ link = "none"
  /\ link = "none" => sent = <<>>
  /\ link # "open" => stage["server"] \in {"off", "loop", "begin", "accept", "done"} /\ data = <<>>

(* What the server has is a pair, or a first character that it will not go *)
(* on with: it starts over and waits for another client.                   *)
DataFits ==
  /\ Len(data) = 2 => \E k \in 0 .. Letters : data = pair(k)
  /\ Len(data) = 1 => stage["server"] \notin {"check", "receive"}
  /\ stage["server"] = "leave" => Len(data) = 1 \/ "server" \in ending \/ data = pair(Quit)
  /\ stage["server"] = "loop" /\ link = "open" => Len(data) = 1

(* What is on the way goes on where the server is, up to the client. *)
OnTheWay(xs) ==
  /\ Carries(sent, xs)
  /\ Follows(xs, seen)
  /\ end(xs, seen) = IF stage["client"] = "done" THEN Quit ELSE letter
PairsOnTheWay == Whole /\ link # "none" => \E xs \in Seq(0 .. Letters) : OnTheWay(xs)

SocketIInv == SocketTypeOK /\ LinkFits /\ DataFits /\ PairsOnTheWay

---------------------------------------------------------------------------

LEMMA Numbers ==
  /\ Letters \in Nat \ {0} /\ WireSize \in Nat /\ 1 \in 1 .. Letters
  /\ Quit = 0 /\ Quit \in 0 .. Letters /\ 1 .. Letters \subseteq 0 .. Letters
BY SocketAssumption DEF Quit

LEMMA NoneLeft == Len(<<>>) = 0 /\ Len(<<>>) # 1 /\ Len(<<>>) # 2
OBVIOUS

LEMMA Amounts == 1 # 2 /\ 1 <= 2 /\ 2 <= 2
OBVIOUS

LEMMA OneIs == ASSUME NEW n \in Nat, n - 1 = 0 PROVE n = 1
OBVIOUS

LEMMA UpToTwo == ASSUME NEW n \in Nat, n <= 2 PROVE n = 0 \/ n = 1 \/ n = 2
OBVIOUS

LEMMA OldOrNew == ASSUME NEW n \in Nat, NEW j \in 1 .. n + 1 PROVE j \in 1 .. n \/ j = n + 1
OBVIOUS

LEMMA NextLetter == ASSUME NEW k \in 0 .. Letters PROVE next(k) \in 1 .. Letters
BY SocketAssumption DEF next

LEMMA PairOf ==
  ASSUME NEW k \in 0 .. Letters
  PROVE  /\ pair(k) \in Seq(Signs) /\ Len(pair(k)) = 2 /\ pair(k) # <<>>
         /\ pair(k)[1] = capital(k) /\ pair(k)[2] = small(k) /\ pair(k)[1].of = k
<1>1. capital(k) \in Signs /\ small(k) \in Signs
  BY DEF capital, small, Signs
<1>. QED
  BY <1>1 DEF pair, capital

(* What receive takes, and what it leaves. *)
LEMMA Taken ==
  ASSUME NEW S, NEW s \in Seq(S), NEW n \in 1 .. Len(s), NEW m, m = n + 1
  PROVE  /\ SubSeq(s, 1, n) \in Seq(S) /\ Len(SubSeq(s, 1, n)) = n
         /\ \A i \in 1 .. n : SubSeq(s, 1, n)[i] = s[i]
         /\ SubSeq(s, m, Len(s)) \in Seq(S) /\ Len(SubSeq(s, m, Len(s))) = Len(s) - n
         /\ \A i \in 1 .. Len(s) - n : SubSeq(s, m, Len(s))[i] = s[i + n]
<1>1. Len(s) \in Nat /\ n \in Int /\ n <= Len(s)
  BY LenProperties
<1>2. \A i \in 1 .. n : s[i] \in S
  BY <1>1, ElementOfSeq
<1>3. \A i \in n + 1 .. Len(s) : s[i] \in S
  BY <1>1, ElementOfSeq
<1>4. SubSeq(s, 1, n) \in Seq(S) /\ Len(SubSeq(s, 1, n)) = n
      /\ \A i \in 1 .. n : SubSeq(s, 1, n)[i] = s[i]
  BY <1>1, <1>2, SubSeqProperties
<1>5. /\ SubSeq(s, n + 1, Len(s)) \in Seq(S) /\ Len(SubSeq(s, n + 1, Len(s))) = Len(s) - n
      /\ \A i \in 1 .. Len(s) - n : SubSeq(s, n + 1, Len(s))[i] = s[n + 1 + i - 1]
  BY <1>1, <1>3, SubSeqProperties
<1>. QED
  BY <1>1, <1>4, <1>5

LEMMA TwoTaken ==
  ASSUME NEW S, NEW s \in Seq(S), 2 <= Len(s)
  PROVE  /\ SubSeq(s, 1, 2) \in Seq(S) /\ Len(SubSeq(s, 1, 2)) = 2
         /\ \A i \in 1 .. 2 : SubSeq(s, 1, 2)[i] = s[i]
         /\ SubSeq(s, 3, Len(s)) \in Seq(S) /\ Len(SubSeq(s, 3, Len(s))) = Len(s) - 2
         /\ \A i \in 1 .. Len(s) - 2 : SubSeq(s, 3, Len(s))[i] = s[i + 2]
<1> DEFINE n == 2
           m == 3
<1>1. Len(s) \in Nat /\ n \in 1 .. Len(s) /\ m = n + 1
  BY LenProperties
<1> HIDE DEF n, m
<1>2. /\ SubSeq(s, 1, n) \in Seq(S) /\ Len(SubSeq(s, 1, n)) = n
      /\ \A i \in 1 .. n : SubSeq(s, 1, n)[i] = s[i]
      /\ SubSeq(s, m, Len(s)) \in Seq(S) /\ Len(SubSeq(s, m, Len(s))) = Len(s) - n
      /\ \A i \in 1 .. Len(s) - n : SubSeq(s, m, Len(s))[i] = s[i + n]
  BY <1>1, Taken
<1>. QED
  BY <1>2 DEF n, m

(* The first pair is received, and what follows goes on behind it. *)
LEMMA FirstPair ==
  ASSUME NEW w \in Seq(Signs), NEW xs \in Seq(0 .. Letters), NEW k \in 0 .. Letters,
         Carries(w, xs), Follows(xs, k), 2 <= Len(w)
  PROVE  /\ xs # <<>> /\ xs[1] \in 0 .. Letters
         /\ SubSeq(w, 1, 2) = pair(xs[1])
         /\ xs[1] # Quit => xs[1] = next(k)
         /\ Tail(xs) \in Seq(0 .. Letters)
         /\ Carries(SubSeq(w, 3, Len(w)), Tail(xs))
         /\ Follows(Tail(xs), xs[1])
         /\ end(Tail(xs), xs[1]) = end(xs, k)
<1> DEFINE rest == SubSeq(w, 3, Len(w))
           ys == Tail(xs)
<1>1. Len(xs) \in Nat /\ Len(w) = 2 * Len(xs) /\ Len(xs) >= 1 /\ xs # <<>> /\ 1 \in 1 .. Len(xs)
  BY LenProperties, EmptySeq DEF Carries
<1>2. xs[1] \in 0 .. Letters
  BY <1>1, ElementOfSeq
<1>3. /\ ys \in Seq(0 .. Letters) /\ Len(ys) = Len(xs) - 1
      /\ \A i \in 1 .. Len(ys) : ys[i] = xs[i + 1]
  BY <1>1, HeadTailProperties
<1>4. /\ SubSeq(w, 1, 2) \in Seq(Signs) /\ Len(SubSeq(w, 1, 2)) = 2
      /\ SubSeq(w, 1, 2)[1] = w[1] /\ SubSeq(w, 1, 2)[2] = w[2]
      /\ Len(rest) = Len(w) - 2
      /\ \A i \in 1 .. Len(w) - 2 : rest[i] = w[i + 2]
  <2>1. 1 \in 1 .. 2 /\ 2 \in 1 .. 2
    OBVIOUS
  <2>. QED
    BY <2>1, TwoTaken, Zenon
<1>5. SubSeq(w, 1, 2) = pair(xs[1])
  <2>1. w[1] = capital(xs[1]) /\ w[2] = small(xs[1])
    <3>1. 1 \in 1 .. Len(xs) /\ 2 * 1 - 1 = 1 /\ 2 * 1 = 2
      BY <1>1
    <3>. QED
      BY <3>1 DEF Carries
  <2>2. \A i \in 1 .. 2 : SubSeq(w, 1, 2)[i] = pair(xs[1])[i]
    <3>1. \A i \in 1 .. 2 : i = 1 \/ i = 2
      OBVIOUS
    <3>. QED
      BY <1>2, <1>4, <2>1, <3>1, PairOf
  <2>. QED
    BY <1>2, <1>4, <2>2, PairOf, SeqEqual
<1>6. xs[1] # Quit => xs[1] = next(k)
  BY <1>1 DEF Follows
<1>7. Carries(rest, ys)
  <2>1. Len(rest) = 2 * Len(ys)
    BY <1>1, <1>3, <1>4
  <2>2. ASSUME NEW j \in 1 .. Len(ys)
        PROVE  rest[2 * j - 1] = capital(ys[j]) /\ rest[2 * j] = small(ys[j])
    <3>1. /\ 2 * j - 1 \in 1 .. Len(w) - 2 /\ 2 * j \in 1 .. Len(w) - 2
          /\ 2 * j - 1 + 2 = 2 * (j + 1) - 1 /\ 2 * j + 2 = 2 * (j + 1)
          /\ j + 1 \in 1 .. Len(xs)
      BY <1>1, <1>3
    <3>2. rest[2 * j - 1] = w[2 * (j + 1) - 1] /\ rest[2 * j] = w[2 * (j + 1)]
      BY <1>4, <3>1
    <3>3. w[2 * (j + 1) - 1] = capital(xs[j + 1]) /\ w[2 * (j + 1)] = small(xs[j + 1])
      BY <3>1 DEF Carries
    <3>. QED
      BY <1>3, <3>2, <3>3
  <2>. QED
    BY <2>1, <2>2 DEF Carries
<1>8. Follows(ys, xs[1])
  <2> SUFFICES ASSUME NEW j \in 1 .. Len(ys)
               PROVE  /\ ys[j] = Quit => j = Len(ys)
                      /\ ys[j] # Quit => ys[j] = next(IF j = 1 THEN xs[1] ELSE ys[j - 1])
    BY DEF Follows
  <2>1. /\ j + 1 \in 1 .. Len(xs) /\ j + 1 # 1 /\ (j + 1) - 1 = j /\ ys[j] = xs[j + 1]
        /\ j + 1 = Len(xs) <=> j = Len(ys)
        /\ j # 1 => j - 1 \in 1 .. Len(ys) /\ (j - 1) + 1 = j
    BY <1>1, <1>3
  <2>2. /\ xs[j + 1] = Quit => j + 1 = Len(xs)
        /\ xs[j + 1] # Quit => xs[j + 1] = next(xs[j])
    BY <2>1 DEF Follows
  <2>3. xs[j] = IF j = 1 THEN xs[1] ELSE ys[j - 1]
    BY <1>3, <2>1
  <2>. QED
    BY <2>1, <2>2, <2>3
<1>9. end(ys, xs[1]) = end(xs, k)
  <2>1. CASE ys = <<>>
    <3>1. Len(ys) = 0
      BY <2>1, NoneLeft, Zenon
    <3>2. Len(xs) = 1
      BY <1>1, <1>3, <3>1, OneIs
    <3>. QED
      BY <1>1, <2>1, <3>2 DEF end
  <2>2. CASE ys # <<>>
    <3>1. Len(ys) \in 1 .. Len(ys) /\ Len(ys) + 1 = Len(xs)
      BY <1>1, <1>3, <2>2, EmptySeq
    <3>. QED
      BY <1>1, <1>3, <2>2, <3>1 DEF end
  <2>. QED
    BY <2>1, <2>2
<1>. QED
  BY <1>1, <1>2, <1>3, <1>5, <1>6, <1>7, <1>8, <1>9

(* Another pair is sent behind the others. *)
LEMMA AnotherPair ==
  ASSUME NEW w \in Seq(Signs), NEW xs \in Seq(0 .. Letters), NEW k \in 0 .. Letters,
         NEW x \in 0 .. Letters, Carries(w, xs), Follows(xs, k),
         xs # <<>> => end(xs, k) # Quit, x # Quit => x = next(end(xs, k))
  PROVE  /\ Append(xs, x) \in Seq(0 .. Letters)
         /\ Carries(w \o pair(x), Append(xs, x))
         /\ Follows(Append(xs, x), k)
         /\ end(Append(xs, x), k) = x
<1> DEFINE ys == Append(xs, x)
           v == w \o pair(x)
<1>1. Len(xs) \in Nat /\ Len(w) = 2 * Len(xs)
  BY LenProperties DEF Carries
<1>2. /\ ys \in Seq(0 .. Letters) /\ ys # <<>> /\ Len(ys) = Len(xs) + 1
      /\ \A i \in 1 .. Len(xs) : ys[i] = xs[i]
      /\ ys[Len(xs) + 1] = x
  BY AppendProperties
<1>3. /\ Len(v) = Len(w) + 2
      /\ \A i \in 1 .. Len(w) : v[i] = w[i]
      /\ v[Len(w) + 1] = capital(x) /\ v[Len(w) + 2] = small(x)
  <2>1. /\ Len(v) = Len(w) + 2
        /\ \A i \in 1 .. Len(w) + 2 : v[i] = IF i <= Len(w) THEN w[i] ELSE pair(x)[i - Len(w)]
    <3> DEFINE p == pair(x)
    <3>1. p \in Seq(Signs) /\ Len(p) = 2
      BY PairOf
    <3>2. /\ Len(w \o p) = Len(w) + Len(p)
          /\ \A i \in 1 .. Len(w) + Len(p) : (w \o p)[i] = IF i <= Len(w) THEN w[i] ELSE p[i - Len(w)]
      <4> HIDE DEF p
      <4>. QED
        BY <3>1, ConcatProperties
    <3>. QED
      BY <3>1, <3>2, Zenon
  <2>2. Len(w) \in Nat /\ (Len(w) + 1) - Len(w) = 1 /\ (Len(w) + 2) - Len(w) = 2
    BY <1>1
  <2>. QED
    BY <2>1, <2>2, PairOf
<1>4. Carries(v, ys)
  <2>1. Len(v) = 2 * Len(ys)
    BY <1>1, <1>2, <1>3
  <2>2. ASSUME NEW j \in 1 .. Len(ys)
        PROVE  v[2 * j - 1] = capital(ys[j]) /\ v[2 * j] = small(ys[j])
    <3>1. CASE j \in 1 .. Len(xs)
      <4>1. 2 * j - 1 \in 1 .. Len(w) /\ 2 * j \in 1 .. Len(w)
        BY <1>1, <3>1
      <4>2. w[2 * j - 1] = capital(xs[j]) /\ w[2 * j] = small(xs[j])
        BY <3>1 DEF Carries
      <4>. QED
        BY <1>2, <1>3, <3>1, <4>1, <4>2
    <3>2. CASE j = Len(xs) + 1
      <4>1. 2 * j - 1 = Len(w) + 1 /\ 2 * j = Len(w) + 2
        BY <1>1, <3>2
      <4>2. ys[j] = x /\ v[2 * j - 1] = capital(x) /\ v[2 * j] = small(x)
        BY <1>2, <1>3, <3>2, <4>1, Zenon
      <4>. QED
        BY <4>2, Zenon
    <3>. QED
      BY <1>1, <1>2, <3>1, <3>2, OldOrNew, Zenon
  <2>. QED
    BY <2>1, <2>2 DEF Carries
<1>5. Follows(ys, k)
  <2> SUFFICES ASSUME NEW j \in 1 .. Len(ys)
               PROVE  /\ ys[j] = Quit => j = Len(ys)
                      /\ ys[j] # Quit => ys[j] = next(IF j = 1 THEN k ELSE ys[j - 1])
    BY DEF Follows
  <2>1. CASE j \in 1 .. Len(xs)
    <3>1. /\ xs[j] # Quit /\ xs[j] = next(IF j = 1 THEN k ELSE xs[j - 1])
      <4>1. xs # <<>>
        BY <1>1, <2>1, NoneLeft
      <4>2. xs[Len(xs)] # Quit
        BY <4>1 DEF end
      <4>. QED
        BY <2>1, <4>2 DEF Follows
    <3>2. j # 1 => j - 1 \in 1 .. Len(xs)
      BY <1>1, <2>1
    <3>. QED
      BY <1>2, <2>1, <3>1, <3>2
  <2>2. CASE j = Len(xs) + 1
    <3>1. /\ xs = <<>> <=> j = 1
          /\ j # 1 => j - 1 = Len(xs) /\ Len(xs) \in 1 .. Len(xs)
      BY <1>1, <2>2, EmptySeq
    <3>2. end(xs, k) = IF j = 1 THEN k ELSE ys[j - 1]
      BY <1>2, <3>1 DEF end
    <3>. QED
      BY <1>2, <2>2, <3>2
  <2>. QED
    BY <1>1, <1>2, <2>1, <2>2
<1>6. end(ys, k) = x
  BY <1>2 DEF end
<1>. QED
  BY <1>2, <1>4, <1>5, <1>6

LEMMA SeenIs == ASSUME SocketTypeOK, DataFits, Whole PROVE seen \in 0 .. Letters
<1>1. (Len(data) = 0 \/ Len(data) = 1 \/ Len(data) = 2) /\ (Len(data) = 0 <=> data = <<>>)
  <2>1. data \in Seq(Signs) /\ Len(data) <= 2
    BY DEF SocketTypeOK
  <2>2. Len(data) \in Nat /\ (Len(data) = 0 <=> data = <<>>)
    BY <2>1, EmptySeq, LenProperties
  <2>. QED
    BY <2>1, <2>2, UpToTwo
<1>2. CASE data = <<>>
  BY <1>2, Numbers DEF seen
<1>3. CASE Len(data) = 2
  BY <1>1, <1>3, PairOf DEF DataFits, seen
<1>. QED
  BY <1>1, <1>2, <1>3 DEF Whole

LEMMA SocketInitFits == SocketInit => SocketIInv
<1>. SUFFICES ASSUME SocketInit PROVE SocketIInv
  OBVIOUS
<1>1. SocketTypeOK
  <2>1. stage \in [main : MainLabels, server : ServerLabels, client : ClientLabels]
    BY DEF SocketInit, MainLabels, ServerLabels, ClientLabels
  <2>2. <<>> \in Seq(Signs) /\ 0 <= WireSize /\ 0 <= 2
    BY Numbers, EmptySeq
  <2>3. Len(sent) <= WireSize /\ Len(data) <= 2
    BY <2>2, NoneLeft DEF SocketInit
  <2>. QED
    BY <2>1, <2>2, <2>3, Numbers DEF SocketInit, SocketTypeOK
<1>2. LinkFits
  BY DEF SocketInit, LinkFits
<1>3. DataFits
  <2>1. Len(data) # 1 /\ Len(data) # 2
    BY NoneLeft, Zenon DEF SocketInit
  <2>. QED
    BY <2>1 DEF SocketInit, DataFits
<1>4. PairsOnTheWay
  BY DEF SocketInit, PairsOnTheWay
<1>. QED
  BY <1>1, <1>2, <1>3, <1>4 DEF SocketIInv

(* A step that leaves the connection and the data alone.                   *)
LEMMA Undisturbed ==
  ASSUME PairsOnTheWay, UNCHANGED <<link, letter, sent, data>>,
         (stage["client"] = "done")' <=> stage["client"] = "done", Whole' => Whole
  PROVE  PairsOnTheWay'
BY DEF PairsOnTheWay, OnTheWay, seen

LEMMA MainKeeps == ASSUME SocketIInv, Main PROVE SocketIInv'
<1>1. /\ UNCHANGED <<listening, link, letter, sent, data>>
      /\ ending' \subseteq Workers
  BY DEF Main, Start, End, Join, Goto, SocketIInv, SocketTypeOK, Workers
<1>2. /\ stage' \in [main : MainLabels, server : ServerLabels, client : ClientLabels]
      /\ stage'["main"] \notin {"start server"}
      /\ stage'["main"] = "start client" => stage["main"] = "start server"
      /\ \/ stage'["server"] = stage["server"]
         \/ stage["main"] = "start server" /\ stage["server"] = "off" /\ stage'["server"] = "loop"
      /\ \/ stage'["client"] = stage["client"]
         \/ stage["client"] = "off" /\ stage'["client"] = "connect" /\ stage'["main"] = "end client"
  BY DEF Main, Start, End, Join, Goto, SocketIInv, SocketTypeOK, LinkFits, MainLabels, ServerLabels, ClientLabels
<1>3. /\ stage'["client"] # stage["client"] => stage'["main"] = "end client"
      /\ stage'["main"] = "start client" => stage["client"] = "off"
  BY <1>2 DEF SocketIInv, LinkFits
<1>4. SocketTypeOK' /\ LinkFits' /\ DataFits'
  <2>1. SocketTypeOK' /\ LinkFits'
    BY <1>1, <1>2, <1>3 DEF SocketIInv, SocketTypeOK, LinkFits
  <2>2. "server" \in ending => "server" \in ending'
    BY DEF Main, Start, End, Join
  <2>3. link = "open" => stage["main"] # "start server"
    BY DEF SocketIInv, LinkFits
  <2>4. DataFits'
    BY <1>1, <1>2, <2>2, <2>3 DEF SocketIInv, DataFits
  <2>. QED
    BY <2>1, <2>4
<1>5. PairsOnTheWay'
  BY <1>1, <1>2, Undisturbed DEF SocketIInv, Whole, LinkFits
<1>. QED
  BY <1>4, <1>5 DEF SocketIInv

LEMMA LoopKeeps == ASSUME SocketIInv, Loop PROVE SocketIInv'
<1>1. /\ UNCHANGED <<ending, listening, link, letter, sent>>
      /\ stage["server"] = "loop"
      /\ \/ stage'["server"] = "done" /\ data' = data
         \/ stage'["server"] = "begin" /\ data' = <<>>
      /\ stage' \in [main : MainLabels, server : ServerLabels, client : ClientLabels]
      /\ stage'["main"] = stage["main"] /\ stage'["client"] = stage["client"]
  BY DEF Loop, Goto, SocketIInv, SocketTypeOK, MainLabels, ServerLabels, ClientLabels
<1>2. data' \in Seq(Signs) /\ Len(data') <= 2
  <2>1. <<>> \in Seq(Signs) /\ Len(<<>>) <= 2
    BY EmptySeq, NoneLeft
  <2>. QED
    BY <1>1, <2>1 DEF SocketIInv, SocketTypeOK
<1>3. SocketTypeOK'
  BY <1>1, <1>2 DEF SocketIInv, SocketTypeOK
<1>4. LinkFits'
  BY <1>1 DEF SocketIInv, LinkFits
<1>5. CASE stage'["server"] = "done" /\ data' = data
  <2>1. DataFits'
    BY <1>1, <1>5 DEF SocketIInv, DataFits
  <2>2. PairsOnTheWay'
    BY <1>1, <1>5, Undisturbed DEF SocketIInv, Whole, DataFits
  <2>. QED
    BY <1>3, <1>4, <2>1, <2>2 DEF SocketIInv
<1>6. CASE stage'["server"] = "begin" /\ data' = <<>>
  <2>1. Len(data') # 1 /\ Len(data') # 2
    BY <1>6, NoneLeft
  <2>2. DataFits'
    BY <1>6, <2>1 DEF DataFits
  <2>3. CASE link = "open"
    BY <1>1, <1>3, <1>4, <1>6, <2>2, <2>3 DEF SocketIInv, PairsOnTheWay, Whole
  <2>4. CASE link # "open"
    <3>1. data' = data
      BY <1>6, <2>4 DEF SocketIInv, LinkFits
    <3>2. PairsOnTheWay'
      BY <1>1, <2>4, <3>1, Undisturbed DEF SocketIInv, Whole
    <3>. QED
      BY <1>3, <1>4, <2>2, <3>2 DEF SocketIInv
  <2>. QED
    BY <2>3, <2>4
<1>. QED
  BY <1>1, <1>5, <1>6

(* Begin, Accept, Check and Leave: the server goes on, and nothing moves.   *)
LEMMA ServerKeeps == ASSUME SocketIInv, Begin \/ Accept \/ Check \/ Leave PROVE SocketIInv'
<1>1. /\ UNCHANGED <<ending, letter, sent, data>> /\ listening' \in BOOLEAN
      /\ stage' \in [main : MainLabels, server : ServerLabels, client : ClientLabels]
      /\ stage'["main"] = stage["main"] /\ stage'["client"] = stage["client"]
      /\ \/ stage["server"] = "begin" /\ stage'["server"] \in {"begin", "accept"} /\ link' = link
         \/ /\ stage["server"] = "accept" /\ stage'["server"] = "check"
            /\ link = "backlog" /\ link' = "open"
         \/ /\ stage["server"] = "check" /\ link' = link
            /\ stage'["server"] = IF "server" \in ending \/ data = pair(Quit) THEN "leave" ELSE "receive"
         \/ /\ stage["server"] = "leave" /\ link' = link
            /\ stage'["server"] = IF "server" \in ending \/ data = pair(Quit) THEN "done" ELSE "loop"
  BY DEF Begin, Accept, Check, Leave, Goto, SocketIInv, SocketTypeOK, MainLabels, ServerLabels, ClientLabels
<1>2. SocketTypeOK' /\ LinkFits'
  BY <1>1 DEF SocketIInv, SocketTypeOK, LinkFits
<1>3. link' # "open" => data = <<>>
  BY <1>1 DEF SocketIInv, LinkFits
<1>4. DataFits'
  <2>1. data = <<>> => Len(data) # 1
    BY NoneLeft
  <2>. QED
    BY <1>1, <2>1 DEF SocketIInv, DataFits, LinkFits
<1>5. PairsOnTheWay'
  <2>1. Whole' => Whole
    BY <1>1 DEF Whole
  <2>2. (link' # "none") <=> link # "none"
    BY <1>1
  <2>. QED
    BY <1>1, <2>1, <2>2 DEF SocketIInv, PairsOnTheWay, OnTheWay, seen
<1>. QED
  BY <1>2, <1>4, <1>5 DEF SocketIInv

(* What a receive of n characters does when the server is aligned.          *)
LEMMA Received ==
  ASSUME SocketIInv, ReceivePair
  PROVE  /\ UNCHANGED <<ending, listening, link, letter>> /\ link = "open"
         /\ stage["server"] = "receive" /\ Whole
         /\ stage' \in [main : MainLabels, server : ServerLabels, client : ClientLabels]
         /\ stage'["main"] = stage["main"] /\ stage'["client"] = stage["client"]
         /\ data' \in Seq(Signs) /\ Len(data') <= 2 /\ sent' \in Seq(Signs) /\ Len(sent') <= WireSize
         /\ \/ Len(data') = 1 /\ stage'["server"] = "leave"
            \/ /\ Len(data') = 2 /\ stage'["server"] = "check" /\ 2 <= Len(sent)
               /\ data' = SubSeq(sent, 1, 2) /\ sent' = SubSeq(sent, 3, Len(sent))
<1>1. PICK n \in {1, 2} :
        /\ n <= Len(sent)
        /\ data' = SubSeq(sent, 1, n)
        /\ sent' = SubSeq(sent, n + 1, Len(sent))
        /\ Goto("server", "receive", IF n = 2 THEN "check" ELSE "leave")
  BY DEF ReceivePair
<1>2. sent \in Seq(Signs) /\ Len(sent) \in Nat /\ Len(sent) <= WireSize
  BY LenProperties DEF SocketIInv, SocketTypeOK
<1>3. /\ UNCHANGED <<ending, listening, link, letter>> /\ stage["server"] = "receive"
      /\ stage' = [stage EXCEPT !["server"] = IF n = 2 THEN "check" ELSE "leave"]
  BY <1>1 DEF ReceivePair, Goto
<1>4. link = "open" /\ Whole
  BY <1>3 DEF SocketIInv, LinkFits, DataFits, Whole
<1>5. /\ stage' \in [main : MainLabels, server : ServerLabels, client : ClientLabels]
      /\ stage'["main"] = stage["main"] /\ stage'["client"] = stage["client"]
      /\ stage'["server"] = IF n = 2 THEN "check" ELSE "leave"
  BY <1>3 DEF SocketIInv, SocketTypeOK, MainLabels, ServerLabels, ClientLabels
<1>6. /\ data' \in Seq(Signs) /\ Len(data') = n /\ sent' \in Seq(Signs)
      /\ Len(sent') = Len(sent) - n
  <2> DEFINE m == n + 1
  <2>1. n \in 1 .. Len(sent) /\ m = n + 1
    BY <1>1, <1>2
  <2> HIDE DEF m
  <2>2. /\ SubSeq(sent, 1, n) \in Seq(Signs) /\ Len(SubSeq(sent, 1, n)) = n
        /\ SubSeq(sent, m, Len(sent)) \in Seq(Signs)
        /\ Len(SubSeq(sent, m, Len(sent))) = Len(sent) - n
    <3>1. sent \in Seq(Signs)
      BY <1>2
    <3>. QED
      BY <2>1, <3>1, Taken, SMTT(60)
  <2>. QED
    BY <1>1, <2>2 DEF m
<1>7. Len(sent') <= WireSize
  BY <1>1, <1>2, <1>6, Numbers
<1>8. CASE n = 1
  BY <1>3, <1>4, <1>5, <1>6, <1>7, <1>8, Amounts, Zenon
<1>9. CASE n = 2
  <2>1. 2 + 1 = 3
    OBVIOUS
  <2>. QED
    BY <1>1, <1>3, <1>4, <1>5, <1>6, <1>7, <1>9, <2>1, Amounts, Zenon
<1>. QED
  BY <1>1, <1>8, <1>9

LEMMA ReceiveKeeps == ASSUME SocketIInv, ReceivePair PROVE SocketIInv'
<1>1. SocketTypeOK'
  BY Received DEF SocketIInv, SocketTypeOK
<1>2. LinkFits'
  BY Received DEF SocketIInv, LinkFits
<1>3. CASE Len(data') = 1 /\ stage'["server"] = "leave"
  <2>1. DataFits'
    BY <1>3 DEF DataFits
  <2>2. PairsOnTheWay'
    BY <1>3 DEF PairsOnTheWay, Whole
  <2>. QED
    BY <1>1, <1>2, <2>1, <2>2 DEF SocketIInv
<1>4. CASE /\ Len(data') = 2 /\ stage'["server"] = "check" /\ 2 <= Len(sent)
           /\ data' = SubSeq(sent, 1, 2) /\ sent' = SubSeq(sent, 3, Len(sent))
  <2>1. PICK xs \in Seq(0 .. Letters) : OnTheWay(xs)
    BY Received DEF SocketIInv, PairsOnTheWay
  <2>2. /\ sent \in Seq(Signs) /\ seen \in 0 .. Letters
        /\ Carries(sent, xs) /\ Follows(xs, seen)
    BY <2>1, Received, SeenIs DEF OnTheWay, SocketIInv, SocketTypeOK
  <2>3. /\ xs[1] \in 0 .. Letters
        /\ data' = pair(xs[1])
        /\ Tail(xs) \in Seq(0 .. Letters)
        /\ Carries(sent', Tail(xs))
        /\ Follows(Tail(xs), xs[1])
        /\ end(Tail(xs), xs[1]) = end(xs, seen)
    BY <1>4, <2>2, FirstPair
  <2>4. seen' = xs[1]
    BY <2>3, PairOf DEF seen
  <2>5. OnTheWay(Tail(xs))'
    BY <2>1, <2>3, <2>4, Received DEF OnTheWay
  <2>6. PairsOnTheWay'
    BY <2>3, <2>5 DEF PairsOnTheWay
  <2>7. DataFits'
    <3>1. Len(data') # 1 /\ stage'["server"] # "leave" /\ stage'["server"] # "loop"
      BY <1>4, Amounts
    <3>. QED
      BY <2>3, <3>1, Zenon DEF DataFits
  <2>. QED
    BY <1>1, <1>2, <2>6, <2>7 DEF SocketIInv
<1>. QED
  BY <1>3, <1>4, Received

(* The client connects, or does not; nothing is on the way.                 *)
LEMMA ConnectKeeps == ASSUME SocketIInv, Connect PROVE SocketIInv'
<1>1. /\ UNCHANGED <<ending, listening, letter, sent, data>> /\ stage["client"] = "connect"
      /\ stage' \in [main : MainLabels, server : ServerLabels, client : ClientLabels]
      /\ stage'["main"] = stage["main"] /\ stage'["server"] = stage["server"] /\ stage'["client"] = "check"
      /\ link' \in {"backlog", "none"}
  BY DEF Connect, Goto, SocketIInv, SocketTypeOK, MainLabels, ServerLabels, ClientLabels
<1>2. letter = 1 /\ link = "none" /\ sent = <<>> /\ data = <<>>
  BY <1>1 DEF SocketIInv, LinkFits
<1>3. SocketTypeOK' /\ LinkFits'
  BY <1>1, <1>2 DEF SocketIInv, SocketTypeOK, LinkFits
<1>4. DataFits'
  BY <1>1, <1>2 DEF SocketIInv, DataFits
<1>5. OnTheWay(<<>>)' /\ <<>> \in Seq(0 .. Letters)
  <2>1. \A j \in 1 .. 0 : FALSE
    OBVIOUS
  <2>2. Carries(<<>>, <<>>) /\ Follows(<<>>, 1)
    BY <2>1, NoneLeft DEF Carries, Follows
  <2>3. sent' = <<>> /\ seen' = 1 /\ ~(stage'["client"] = "done") /\ end(<<>>, 1) = 1 /\ letter' = 1
    BY <1>1, <1>2 DEF seen, end
  <2>. QED
    BY <2>2, <2>3, EmptySeq DEF OnTheWay
<1>6. PairsOnTheWay'
  BY <1>5 DEF PairsOnTheWay
<1>. QED
  BY <1>3, <1>4, <1>6 DEF SocketIInv

LEMMA CheckClientKeeps == ASSUME SocketIInv, CheckClient PROVE SocketIInv'
<1>1. /\ UNCHANGED <<ending, listening, link, letter, sent, data>> /\ stage["client"] = "check"
      /\ stage' \in [main : MainLabels, server : ServerLabels, client : ClientLabels]
      /\ stage'["main"] = stage["main"] /\ stage'["server"] = stage["server"]
      /\ stage'["client"] \in {"send", "quit"}
  BY DEF CheckClient, Goto, SocketIInv, SocketTypeOK, MainLabels, ServerLabels, ClientLabels
<1>2. SocketTypeOK' /\ LinkFits' /\ DataFits'
  BY <1>1 DEF SocketIInv, SocketTypeOK, LinkFits, DataFits
<1>3. PairsOnTheWay'
  BY <1>1, Undisturbed DEF SocketIInv, Whole
<1>. QED
  BY <1>2, <1>3 DEF SocketIInv

(* Send and SendQuit: pair x is sent, by a client that is done with Quit.   *)
LEMMA Sent ==
  ASSUME SocketIInv, NEW x \in 0 .. Letters, send(pair(x)),
         UNCHANGED <<ending, listening, link, data>>,
         stage["client"] \in {"send", "quit"}, letter' \in 1 .. Letters,
         stage' \in [main : MainLabels, server : ServerLabels, client : ClientLabels],
         stage'["main"] = stage["main"], stage'["server"] = stage["server"],
         stage'["client"] = IF x = Quit THEN "done" ELSE "check",
         x # Quit => x = next(letter) /\ letter' = x
  PROVE  SocketIInv'
<1>1. CASE link = "none"
  <2>1. sent' = sent
    BY <1>1 DEF send
  <2>2. SocketTypeOK' /\ LinkFits' /\ DataFits' /\ PairsOnTheWay'
    BY <1>1, <2>1 DEF SocketIInv, SocketTypeOK, LinkFits, DataFits, PairsOnTheWay
  <2>. QED
    BY <2>2 DEF SocketIInv
<1>2. CASE link # "none"
  <2>1. sent' = sent \o pair(x) /\ Len(sent') <= WireSize
    BY <1>2 DEF send
  <2>2. sent' \in Seq(Signs)
    BY <2>1, PairOf, ConcatProperties DEF SocketIInv, SocketTypeOK
  <2>3. SocketTypeOK' /\ LinkFits' /\ DataFits'
    BY <1>2, <2>1, <2>2 DEF SocketIInv, SocketTypeOK, LinkFits, DataFits
  <2>4. ASSUME Whole' PROVE \E ys \in Seq(0 .. Letters) : OnTheWay(ys)'
    <3>1. Whole
      BY <2>4 DEF Whole
    <3>2. PICK xs \in Seq(0 .. Letters) : OnTheWay(xs)
      BY <1>2, <3>1 DEF SocketIInv, PairsOnTheWay
    <3>3. sent \in Seq(Signs) /\ seen \in 0 .. Letters /\ seen' = seen
      BY <3>1, SeenIs DEF SocketIInv, SocketTypeOK, seen
    <3>4. Carries(sent, xs) /\ Follows(xs, seen) /\ end(xs, seen) = letter /\ letter # Quit
      BY <3>2, Numbers DEF OnTheWay, SocketIInv, SocketTypeOK
    <3>5. x # Quit => x = next(end(xs, seen))
      BY <3>4
    <3>6. /\ Append(xs, x) \in Seq(0 .. Letters)
          /\ Carries(sent \o pair(x), Append(xs, x))
          /\ Follows(Append(xs, x), seen)
          /\ end(Append(xs, x), seen) = x
      BY <3>3, <3>4, <3>5, AnotherPair
    <3>7. ((stage["client"] = "done")' <=> x = Quit) /\ (x # Quit => letter' = x)
      OBVIOUS
    <3>8. OnTheWay(Append(xs, x))'
      BY <2>1, <3>3, <3>6, <3>7 DEF OnTheWay
    <3>. QED
      BY <3>6, <3>8
  <2>5. PairsOnTheWay'
    BY <2>4 DEF PairsOnTheWay
  <2>. QED
    BY <2>3, <2>5 DEF SocketIInv
<1>. QED
  BY <1>1, <1>2

LEMMA SendKeeps == ASSUME SocketIInv, Send \/ SendQuit PROVE SocketIInv'
<1>1. CASE Send
  <2>1. /\ letter \in 0 .. Letters /\ next(letter) \in 1 .. Letters /\ next(letter) \in 0 .. Letters
        /\ next(letter) # Quit
    BY Numbers, NextLetter DEF SocketIInv, SocketTypeOK
  <2>2. /\ UNCHANGED <<ending, listening, link, data>> /\ letter' = next(letter)
        /\ send(pair(next(letter))) /\ stage["client"] = "send"
        /\ stage' \in [main : MainLabels, server : ServerLabels, client : ClientLabels]
        /\ stage'["main"] = stage["main"] /\ stage'["server"] = stage["server"] /\ stage'["client"] = "check"
    BY <1>1 DEF Send, Goto, SocketIInv, SocketTypeOK, MainLabels, ServerLabels, ClientLabels
  <2>. QED
    BY <2>1, <2>2, Sent
<1>2. CASE SendQuit
  <2>1. /\ UNCHANGED <<ending, listening, link, data, letter>>
        /\ send(pair(Quit)) /\ stage["client"] = "quit"
        /\ stage' \in [main : MainLabels, server : ServerLabels, client : ClientLabels]
        /\ stage'["main"] = stage["main"] /\ stage'["server"] = stage["server"] /\ stage'["client"] = "done"
    BY <1>2 DEF SendQuit, Goto, SocketIInv, SocketTypeOK, MainLabels, ServerLabels, ClientLabels
  <2>2. letter' \in 1 .. Letters
    BY <2>1 DEF SocketIInv, SocketTypeOK
  <2>. QED
    BY <2>1, <2>2, Numbers, Sent
<1>. QED
  BY <1>1, <1>2

LEMMA StepFits == SocketIInv /\ [SocketNext]_socketVars => SocketIInv'
<1>. SUFFICES ASSUME SocketIInv, [SocketNext]_socketVars PROVE SocketIInv'
  OBVIOUS
<1>1. CASE SocketNext
  BY <1>1, MainKeeps, LoopKeeps, ServerKeeps, ReceiveKeeps, ConnectKeeps, CheckClientKeeps,
     SendKeeps DEF SocketNext, Server, Client
<1>2. CASE UNCHANGED socketVars
  BY <1>2 DEF socketVars, SocketIInv, SocketTypeOK, LinkFits, DataFits, PairsOnTheWay, OnTheWay, Whole, seen
<1>. QED
  BY <1>1, <1>2

(* The server and the client are in step, or a pair was cut and the server *)
(* reads no more.                                                          *)
THEOREM SocketInvariantsHold == SocketSpec => []SocketIInv
<1>. QED
  BY SocketInitFits, StepFits, PTL DEF SocketSpec

THEOREM SocketTypeCorrect == SocketSpec => []SocketTypeOK
<1>1. SocketIInv => SocketTypeOK
  BY DEF SocketIInv
<1>. QED
  BY <1>1, SocketInvariantsHold, PTL

(* What a step may do to the data, as PairsInOrder has it. *)
InOrder ==
  data' # data /\ Len(data') = 2 =>
    \E k \in 0 .. Letters :
      /\ data' = pair(k)
      /\ k # Quit => \/ data = <<>> /\ k = next(1)
                     \/ data # <<>> /\ k = next(data[1].of)

LEMMA StepInOrder == ASSUME SocketIInv, SocketNext PROVE InOrder
<1>1. CASE ReceivePair /\ Len(data') = 2
  <2>1. 2 <= Len(sent) /\ data' = SubSeq(sent, 1, 2) /\ Whole
    BY <1>1, Amounts, Received
  <2>2. PICK xs \in Seq(0 .. Letters) : OnTheWay(xs)
    BY <1>1, Received DEF SocketIInv, PairsOnTheWay
  <2>3. /\ sent \in Seq(Signs) /\ seen \in 0 .. Letters
        /\ Carries(sent, xs) /\ Follows(xs, seen)
    BY <2>1, <2>2, SeenIs DEF OnTheWay, SocketIInv, SocketTypeOK
  <2>4. /\ xs[1] \in 0 .. Letters /\ SubSeq(sent, 1, 2) = pair(xs[1])
        /\ xs[1] # Quit => xs[1] = next(seen)
    BY <2>1, <2>3, FirstPair
  <2>5. seen = IF data = <<>> THEN 1 ELSE data[1].of
    BY DEF seen
  <2>. QED
    BY <2>1, <2>4, <2>5, Zenon DEF InOrder
<1>2. CASE ~ReceivePair
  <2>1. data' = data \/ data' = <<>>
    BY <1>2 DEF SocketNext, Main, Start, End, Join, Server, Loop, Begin, Accept, Check, Leave,
                Client, Connect, CheckClient, Send, SendQuit
  <2>2. data' = <<>> => Len(data') # 2
    BY NoneLeft
  <2>. QED
    BY <2>1, <2>2 DEF InOrder
<1>. QED
  BY <1>1, <1>2 DEF InOrder

(* However the socket cuts what is sent: while the server reads on in a    *)
(* connection it gets the client's pairs, each once and in order.          *)
THEOREM PairsComeInOrder == SocketSpec => PairsInOrder
<1>1. SocketIInv /\ [SocketNext]_socketVars => [InOrder]_socketVars
  BY StepInOrder
<1>. QED
  BY <1>1, SocketInvariantsHold, PTL DEF SocketSpec, PairsInOrder, InOrder

===========================================================================
