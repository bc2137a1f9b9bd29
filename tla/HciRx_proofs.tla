----------------------------- MODULE HciRx_proofs -----------------------------
(***************************************************************************)
(* PacketsKept, SlotsExact, ReserveKept and Served, for any number of      *)
(* buffers, reserved buffers, slots and packets.                           *)
(***************************************************************************)
EXTENDS HciRxProps, FiniteSetTheorems, FunctionTheorems, SequenceTheorems,
        WellFoundedInduction, TLAPS

-----------------------------------------------------------------------------
(* The way of the packets, as a sequence.                                  *)

(* Packets w, each of c once, data in the order of their numbers.          *)
Kept(w, c) ==
    /\ w \in Seq(Packet) /\ ToSet(w) = c
    /\ \A i, j \in DOMAIN w : w[i] = w[j] => i = j
    /\ \A i, j \in DOMAIN w :
         i < j /\ w[i].kind = "acl" /\ w[j].kind = "acl" => w[i].id < w[j].id

(* A sequence with one element more, in the middle.                        *)
LEMMA Middle ==
    ASSUME NEW S, NEW u \in Seq(S), NEW v \in Seq(S), NEW p \in S
    PROVE  LET w == u \o v
               x == u \o (<<p>> \o v)
               n == Len(u) + 1
           IN  /\ w \in Seq(S) /\ x \in Seq(S) /\ Len(x) = Len(w) + 1
               /\ Len(w) \in Nat /\ n \in 1 .. Len(x) /\ x[n] = p
               /\ \A i \in 1 .. Len(w) : w[i] = x[IF i < n THEN i ELSE i + 1]
<1> DEFINE w == u \o v
           y == <<p>> \o v
           x == u \o y
           n == Len(u) + 1
<1>1. Len(u) \in Nat /\ Len(v) \in Nat
  OBVIOUS
<1>2. <<p>> \in Seq(S) /\ Len(<<p>>) = 1 /\ <<p>>[1] = p
  OBVIOUS
<1>3. /\ y \in Seq(S) /\ Len(y) = Len(v) + 1 /\ y[1] = p
      /\ \A i \in 1 .. Len(v) : y[i + 1] = v[i]
  <2> DEFINE o == <<p>>
  <2>1. o \in Seq(S) /\ Len(o) = 1 /\ o[1] = p
    BY <1>2
  <2> HIDE DEF o
  <2>2. /\ o \o v \in Seq(S) /\ Len(o \o v) = 1 + Len(v)
        /\ \A i \in 1 .. 1 + Len(v) : (o \o v)[i] = IF i <= 1 THEN o[i] ELSE v[i - 1]
    <3>1. /\ o \o v \in Seq(S) /\ Len(o \o v) = Len(o) + Len(v)
          /\ \A i \in 1 .. Len(o) + Len(v) :
                (o \o v)[i] = IF i <= Len(o) THEN o[i] ELSE v[i - Len(o)]
      BY <2>1, ConcatProperties, Zenon
    <3> QED BY <2>1, <3>1
  <2>3. (o \o v)[1] = p
    BY <1>1, <2>1, <2>2
  <2>4. ASSUME NEW i \in 1 .. Len(v) PROVE (o \o v)[i + 1] = v[i]
    <3>1. i + 1 \in 1 .. 1 + Len(v) /\ ~ (i + 1 <= 1) /\ (i + 1) - 1 = i
      BY <1>1
    <3> QED BY <2>2, <3>1
  <2> QED BY <1>1, <2>2, <2>3, <2>4 DEF o
<1> HIDE DEF y
<1>4. /\ w \in Seq(S) /\ Len(w) = Len(u) + Len(v)
      /\ \A i \in 1 .. Len(u) + Len(v) : w[i] = IF i <= Len(u) THEN u[i] ELSE v[i - Len(u)]
  BY ConcatProperties
<1>5. /\ x \in Seq(S) /\ Len(x) = Len(u) + Len(y)
      /\ \A i \in 1 .. Len(u) + Len(y) : x[i] = IF i <= Len(u) THEN u[i] ELSE y[i - Len(u)]
  BY <1>3, ConcatProperties
<1> HIDE DEF w, x
<1>6. n \in 1 .. Len(x) /\ x[n] = p
  <2>1. n \in 1 .. Len(u) + Len(y) /\ ~ (n <= Len(u)) /\ n - Len(u) = 1
    BY <1>1, <1>3
  <2> QED BY <1>3, <1>5, <2>1
<1>7. ASSUME NEW i \in 1 .. Len(w) PROVE w[i] = x[IF i < n THEN i ELSE i + 1]
  <2>1. CASE i < n
    <3>1. i <= Len(u) /\ i \in 1 .. Len(u) + Len(v) /\ i \in 1 .. Len(u) + Len(y)
      BY <1>1, <1>3, <1>4, <2>1
    <3> QED BY <1>4, <1>5, <2>1, <3>1
  <2>2. CASE ~ (i < n)
    <3>1. /\ ~ (i <= Len(u)) /\ i \in 1 .. Len(u) + Len(v) /\ i + 1 \in 1 .. Len(u) + Len(y)
          /\ ~ (i + 1 <= Len(u)) /\ i - Len(u) \in 1 .. Len(v)
          /\ (i + 1) - Len(u) = (i - Len(u)) + 1
      BY <1>1, <1>3, <1>4, <2>2
    <3> QED BY <1>3, <1>4, <1>5, <2>2, <3>1
  <2> QED BY <2>1, <2>2
<1> QED BY <1>1, <1>3, <1>4, <1>5, <1>6, <1>7 DEF w, x, y

(* A packet leaves the way, wherever it is.                                *)
LEMMA KeptWithout ==
    ASSUME NEW u \in Seq(Packet), NEW v \in Seq(Packet), NEW p \in Packet, NEW c,
           Kept(u \o (<<p>> \o v), c)
    PROVE  Kept(u \o v, c \ {p})
<1> DEFINE w == u \o v
           x == u \o (<<p>> \o v)
           n == Len(u) + 1
           skip(i) == IF i < n THEN i ELSE i + 1
<1>1. /\ w \in Seq(Packet) /\ x \in Seq(Packet) /\ Len(x) = Len(w) + 1
      /\ Len(w) \in Nat /\ n \in 1 .. Len(x) /\ x[n] = p
      /\ \A i \in 1 .. Len(w) : w[i] = x[skip(i)]
  BY Middle
<1>2. Kept(x, c)
  OBVIOUS
<1> HIDE DEF w, x, n
<1>3. DOMAIN w = 1 .. Len(w) /\ DOMAIN x = 1 .. Len(x)
  BY <1>1
<1>4. \A i \in DOMAIN w : skip(i) \in DOMAIN x \ {n}
  BY <1>1, <1>3
<1>5. \A k \in DOMAIN x \ {n} : \E i \in DOMAIN w : skip(i) = k
  <2> TAKE k \in DOMAIN x \ {n}
  <2>1. CASE k < n
    <3>1. k \in DOMAIN w /\ skip(k) = k
      BY <1>1, <1>3, <2>1
    <3> QED BY <3>1
  <2>2. CASE ~ (k < n)
    <3>1. k - 1 \in DOMAIN w /\ skip(k - 1) = k
      BY <1>1, <1>3, <2>2
    <3> QED BY <3>1
  <2> QED BY <2>1, <2>2
<1>6. \A i, j \in DOMAIN w : /\ skip(i) = skip(j) => i = j
                             /\ i < j => skip(i) < skip(j)
  BY <1>1, <1>3
<1>7. \A i \in DOMAIN w : w[i] = x[skip(i)]
  BY <1>1, <1>3
<1> HIDE DEF skip
<1>8. ToSet(w) = c \ {p}
  <2>1. \A k \in DOMAIN x : x[k] = p => k = n
    BY <1>1, <1>2, <1>3 DEF Kept
  <2>2. \A i \in DOMAIN w : w[i] \in c /\ w[i] # p
    BY <1>2, <1>4, <1>7, <2>1 DEF Kept, ToSet
  <2>3. \A q \in c \ {p} : \E i \in DOMAIN w : w[i] = q
    <3> TAKE q \in c \ {p}
    <3>1. PICK k \in DOMAIN x : x[k] = q
      BY <1>2 DEF Kept, ToSet
    <3>2. k # n
      BY <1>1, <3>1
    <3> QED BY <1>5, <1>7, <3>1, <3>2
  <2> QED BY <2>2, <2>3 DEF ToSet
<1>9. \A i, j \in DOMAIN w : w[i] = w[j] => i = j
  BY <1>2, <1>4, <1>6, <1>7 DEF Kept
<1>10. \A i, j \in DOMAIN w :
         i < j /\ w[i].kind = "acl" /\ w[j].kind = "acl" => w[i].id < w[j].id
  BY <1>2, <1>4, <1>6, <1>7 DEF Kept
<1>11. Kept(w, c \ {p})
  BY <1>1, <1>8, <1>9, <1>10 DEF Kept
<1> QED BY <1>11 DEF w

(* A packet that is not yet on the way joins it: data at the end, behind    *)
(* smaller numbers.                                                        *)
LEMMA KeptWith ==
    ASSUME NEW u \in Seq(Packet), NEW v \in Seq(Packet), NEW p \in Packet, NEW c,
           Kept(u \o v, c), p \notin c,
           p.kind = "acl" => v = <<>> /\ \A q \in c : q.id < p.id
    PROVE  Kept(u \o (<<p>> \o v), c \cup {p})
<1> DEFINE w == u \o v
           x == u \o (<<p>> \o v)
           n == Len(u) + 1
           skip(i) == IF i < n THEN i ELSE i + 1
<1>1. /\ w \in Seq(Packet) /\ x \in Seq(Packet) /\ Len(x) = Len(w) + 1
      /\ Len(w) \in Nat /\ n \in 1 .. Len(x) /\ x[n] = p
      /\ \A i \in 1 .. Len(w) : w[i] = x[skip(i)]
  BY Middle
<1>2. Kept(w, c)
  OBVIOUS
<1>3. p.kind = "acl" => n = Len(x) /\ \A q \in c : q.id < p.id
  <2>1. v = <<>> => w = u
    BY ConcatEmptySeq
  <2> HIDE DEF w, x
  <2> QED BY <1>1, <2>1
<1> HIDE DEF w, x, n
<1>4. DOMAIN w = 1 .. Len(w) /\ DOMAIN x = 1 .. Len(x)
  BY <1>1
<1> DEFINE back(k) == IF k < n THEN k ELSE k - 1
<1>5. \A k \in DOMAIN x \ {n} : back(k) \in DOMAIN w /\ skip(back(k)) = k
  BY <1>1, <1>4
<1>6. \A k, m \in DOMAIN x \ {n} : /\ back(k) = back(m) => k = m
                                   /\ k < m => back(k) < back(m)
  BY <1>1, <1>4
<1>7. \A k \in DOMAIN x \ {n} : x[k] = w[back(k)]
  BY <1>1, <1>4, <1>5
<1>8. \A i \in DOMAIN w : skip(i) \in DOMAIN x /\ w[i] = x[skip(i)]
  BY <1>1, <1>4
<1>9. \A k \in DOMAIN x : k # n => x[k] \in c /\ x[k] # p
  BY <1>2, <1>5, <1>7 DEF Kept, ToSet
<1>10. \A k \in DOMAIN x : k \in Int
  BY <1>4
<1> HIDE DEF skip, back
<1>11. n \in DOMAIN x
  BY <1>1, <1>4
<1>12. ToSet(x) = c \cup {p}
  <2>1. \A q \in c : \E k \in DOMAIN x : x[k] = q
    BY <1>2, <1>8 DEF Kept, ToSet
  <2> QED BY <1>1, <1>9, <1>11, <2>1 DEF ToSet
<1>13. \A k, m \in DOMAIN x : x[k] = x[m] => k = m
  BY <1>1, <1>2, <1>5, <1>6, <1>7, <1>9 DEF Kept
<1>14. ASSUME NEW k \in DOMAIN x, NEW m \in DOMAIN x,
              k < m, x[k].kind = "acl", x[m].kind = "acl"
       PROVE  x[k].id < x[m].id
  <2>1. CASE k = n
    <3>1. n = Len(x)
      BY <1>1, <1>3, <1>14, <2>1
    <3> QED BY <1>1, <1>4, <1>14, <2>1, <3>1
  <2>2. CASE m = n
    <3>1. k # n
      BY <1>10, <1>14, <2>2
    <3> QED BY <1>1, <1>3, <1>9, <1>14, <2>2, <3>1
  <2>3. CASE k # n /\ m # n
    <3>1. /\ back(k) \in DOMAIN w /\ back(m) \in DOMAIN w /\ back(k) < back(m)
          /\ x[k] = w[back(k)] /\ x[m] = w[back(m)]
      BY <1>5, <1>6, <1>7, <1>14, <2>3
    <3> QED BY <1>2, <1>14, <3>1 DEF Kept
  <2> QED BY <2>1, <2>2, <2>3
<1>15. Kept(x, c \cup {p})
  BY <1>1, <1>12, <1>13, <1>14 DEF Kept
<1> QED BY <1>15 DEF x

LEMMA KeptCounts ==
    ASSUME NEW w, NEW c, Kept(w, c)
    PROVE  IsFiniteSet(c) /\ Cardinality(c) = Len(w)
<1>1. Len(w) \in Nat /\ DOMAIN w = 1 .. Len(w) /\ w \in [1 .. Len(w) -> Packet]
  BY DEF Kept
<1>2. w \in [1 .. Len(w) -> c] /\ \A t \in c : \E i \in 1 .. Len(w) : w[i] = t
  BY <1>1 DEF Kept, ToSet
<1>3. w \in Bijection(1 .. Len(w), c)
  BY <1>1, <1>2, Fun_IsBij DEF Kept
<1>4. IsFiniteSet(1 .. Len(w)) /\ Cardinality(1 .. Len(w)) = Len(w)
  BY <1>1, FS_Interval
<1> QED BY <1>3, <1>4, FS_Bijection, Fun_ExistsBij

-----------------------------------------------------------------------------
(* The messages that the slots in the queue hold.                          *)

LEMMA MessagesType ==
    ASSUME NEW q \in Seq(Slots), NEW data, \A s \in ToSet(q) : data[s] \in Packet
    PROVE  /\ Messages(q, data) \in Seq(Packet) /\ Len(Messages(q, data)) = Len(q)
           /\ DOMAIN Messages(q, data) = 1 .. Len(q)
           /\ \A i \in 1 .. Len(q) : Messages(q, data)[i] = data[q[i]]
<1>1. DOMAIN q = 1 .. Len(q) /\ Len(q) \in Nat
  OBVIOUS
<1>2. \A i \in 1 .. Len(q) : data[q[i]] \in Packet
  BY <1>1 DEF ToSet
<1> QED BY <1>1, <1>2 DEF Messages

LEMMA TailSet ==
    ASSUME NEW q \in Seq(Slots), q # <<>>, \A i, j \in DOMAIN q : q[i] = q[j] => i = j
    PROVE  /\ Head(q) \in Slots /\ Head(q) \in ToSet(q) /\ Tail(q) \in Seq(Slots)
           /\ ToSet(Tail(q)) = ToSet(q) \ {Head(q)}
           /\ \A i, j \in DOMAIN Tail(q) : Tail(q)[i] = Tail(q)[j] => i = j
<1> DEFINE t == Tail(q)
<1>1. /\ Head(q) \in Slots /\ Head(q) = q[1] /\ t \in Seq(Slots) /\ Len(t) = Len(q) - 1
      /\ \A i \in 1 .. Len(t) : t[i] = q[i + 1]
  BY HeadTailProperties
<1>2. DOMAIN q = 1 .. Len(q) /\ Len(q) \in Nat /\ DOMAIN t = 1 .. Len(t) /\ 1 <= Len(q)
  BY <1>1, EmptySeq
<1> HIDE DEF t
<1>3. \A i \in DOMAIN t : i + 1 \in DOMAIN q /\ i + 1 # 1 /\ t[i] = q[i + 1] /\ i \in Int
  BY <1>1, <1>2
<1>4. 1 \in DOMAIN q
  BY <1>2
<1>5. \A k \in DOMAIN q : k # 1 => k - 1 \in DOMAIN t /\ t[k - 1] = q[k]
  <2> TAKE k \in DOMAIN q
  <2> HAVE k # 1
  <2>1. k - 1 \in DOMAIN t /\ (k - 1) + 1 = k
    BY <1>1, <1>2
  <2> QED BY <1>3, <2>1
<1>6. ToSet(t) = ToSet(q) \ {Head(q)}
  <2>1. \A i \in DOMAIN t : t[i] \in ToSet(q) /\ t[i] # Head(q)
    BY <1>1, <1>3, <1>4 DEF ToSet
  <2>2. \A s \in ToSet(q) \ {Head(q)} : \E i \in DOMAIN t : t[i] = s
    BY <1>1, <1>5 DEF ToSet
  <2> QED BY <2>1, <2>2 DEF ToSet
<1>7. \A i, j \in DOMAIN t : t[i] = t[j] => i = j
  <2> TAKE i, j \in DOMAIN t
  <2> HAVE t[i] = t[j]
  <2>1. i + 1 = j + 1
    BY <1>3
  <2> QED BY <1>3, <2>1
<1> QED BY <1>1, <1>4, <1>6, <1>7 DEF t, ToSet

LEMMA MessagesHead ==
    ASSUME NEW q \in Seq(Slots), q # <<>>, NEW data, \A s \in ToSet(q) : data[s] \in Packet
    PROVE  /\ data[Head(q)] \in Packet /\ Messages(Tail(q), data) \in Seq(Packet)
           /\ Messages(q, data) = <<data[Head(q)]>> \o Messages(Tail(q), data)
<1> DEFINE t == Tail(q)
           v == Messages(t, data)
           p == data[Head(q)]
           m == Messages(q, data)
           o == <<p>>
           y == o \o v
<1>1. /\ Head(q) \in Slots /\ Head(q) = q[1] /\ t \in Seq(Slots) /\ Len(t) = Len(q) - 1
      /\ \A i \in 1 .. Len(t) : t[i] = q[i + 1]
  BY HeadTailProperties
<1>2. DOMAIN q = 1 .. Len(q) /\ Len(q) \in Nat /\ 1 <= Len(q) /\ DOMAIN t = 1 .. Len(t)
  BY <1>1, EmptySeq
<1>3. p \in Packet
  BY <1>1, <1>2 DEF ToSet
<1>4. \A s \in ToSet(t) : data[s] \in Packet
  <2>1. \A i \in DOMAIN t : i + 1 \in DOMAIN q
    BY <1>1, <1>2
  <2> QED BY <1>1, <1>2, <2>1 DEF ToSet
<1>5. /\ v \in Seq(Packet) /\ Len(v) = Len(t) /\ \A i \in 1 .. Len(t) : v[i] = data[t[i]]
  BY <1>1, <1>4, MessagesType
<1>6. /\ m \in Seq(Packet) /\ Len(m) = Len(q) /\ \A i \in 1 .. Len(q) : m[i] = data[q[i]]
  BY MessagesType
<1> HIDE DEF v, m, t
<1>7. o \in Seq(Packet) /\ Len(o) = 1 /\ o[1] = p
  BY <1>3
<1> HIDE DEF o
<1>8. /\ y \in Seq(Packet) /\ Len(y) = Len(o) + Len(v)
      /\ \A i \in 1 .. Len(o) + Len(v) :
            y[i] = IF i <= Len(o) THEN o[i] ELSE v[i - Len(o)]
  <2>1. o \in Seq(Packet) /\ v \in Seq(Packet)
    BY <1>5, <1>7
  <2> QED BY <2>1, ConcatProperties
<1>9. /\ o[1] = p /\ Len(y) = Len(q)
      /\ \A i \in 1 .. Len(q) : y[i] = IF i <= 1 THEN o[i] ELSE v[i - 1]
  BY <1>1, <1>2, <1>5, <1>7, <1>8
<1> HIDE DEF y, p
<1>10. ASSUME NEW i \in 1 .. Len(q) PROVE m[i] = y[i]
  <2>1. CASE i = 1
    BY <1>1, <1>6, <1>9, <2>1 DEF p
  <2>2. CASE i # 1
    <3>1. i - 1 \in 1 .. Len(t) /\ (i - 1) + 1 = i /\ ~ (i <= 1)
      BY <1>1, <1>2, <2>2
    <3>2. t[i - 1] = q[i]
      BY <1>1, <3>1
    <3>3. y[i] = v[i - 1] /\ v[i - 1] = data[t[i - 1]] /\ m[i] = data[q[i]]
      BY <1>5, <1>6, <1>9, <3>1
    <3> QED BY <3>2, <3>3
  <2> QED BY <2>1, <2>2
<1>11. y \in Seq(Packet)
  BY <1>8 DEF y
<1>12. m = y
  BY <1>6, <1>9, <1>10, <1>11, SeqEqual
<1> QED BY <1>3, <1>5, <1>12 DEF m, y, o, p, v, t

LEMMA MessagesAppend ==
    ASSUME NEW q \in Seq(Slots), NEW s \in Slots, NEW data,
           \A r \in ToSet(q) : data[r] \in Packet, data[s] \in Packet
    PROVE  Messages(Append(q, s), data) = Messages(q, data) \o <<data[s]>>
<1> DEFINE a == Append(q, s)
           m == Messages(q, data)
           n == Messages(a, data)
           p == data[s]
           b == Append(m, p)
<1>1. /\ a \in Seq(Slots) /\ Len(a) = Len(q) + 1 /\ Len(q) \in Nat
      /\ \A i \in 1 .. Len(q) : a[i] = q[i] /\ a[Len(q) + 1] = s
  BY AppendProperties
<1>2. DOMAIN a = 1 .. Len(q) + 1 /\ DOMAIN q = 1 .. Len(q) /\ a[Len(q) + 1] = s
  BY <1>1, AppendProperties
<1>3. /\ m \in Seq(Packet) /\ Len(m) = Len(q) /\ \A i \in 1 .. Len(q) : m[i] = data[q[i]]
  BY MessagesType
<1>4. \A r \in ToSet(a) : data[r] \in Packet
  <2>1. \A i \in DOMAIN a : i \in DOMAIN q \/ i = Len(q) + 1
    BY <1>1, <1>2
  <2> QED BY <1>1, <1>2, <2>1 DEF ToSet
<1>5. /\ n \in Seq(Packet) /\ Len(n) = Len(a) /\ \A i \in 1 .. Len(a) : n[i] = data[a[i]]
  BY <1>1, <1>4, MessagesType
<1> HIDE DEF m, n, a
<1>6. /\ b \in Seq(Packet) /\ Len(b) = Len(m) + 1 /\ b[Len(m) + 1] = p
      /\ \A i \in 1 .. Len(m) : b[i] = m[i]
  BY <1>3, AppendProperties
<1> HIDE DEF b
<1>7. ASSUME NEW i \in 1 .. Len(a) PROVE n[i] = b[i]
  <2>1. CASE i = Len(q) + 1
    BY <1>2, <1>3, <1>5, <1>6, <2>1
  <2>2. CASE i # Len(q) + 1
    <3>1. i \in 1 .. Len(q)
      BY <1>1, <2>2
    <3> QED BY <1>1, <1>3, <1>5, <1>6, <3>1
  <2> QED BY <2>1, <2>2
<1>8. n = b
  BY <1>1, <1>3, <1>5, <1>6, <1>7, SeqEqual
<1>9. b = m \o <<p>>
  BY <1>3, AppendIsConcat DEF b
<1> QED BY <1>8, <1>9 DEF a, m, n

LEMMA MessagesSame ==
    ASSUME NEW q \in Seq(Slots), NEW d, NEW e, \A s \in ToSet(q) : d[s] = e[s]
    PROVE  Messages(q, d) = Messages(q, e)
  BY DEF Messages, ToSet

(* A slot appended to the queue.                                           *)
LEMMA AppendSet ==
    ASSUME NEW q \in Seq(Slots), NEW s \in Slots, s \notin ToSet(q),
           \A i, j \in DOMAIN q : q[i] = q[j] => i = j
    PROVE  /\ Append(q, s) \in Seq(Slots) /\ ToSet(Append(q, s)) = ToSet(q) \cup {s}
           /\ \A i, j \in DOMAIN Append(q, s) : Append(q, s)[i] = Append(q, s)[j] => i = j
<1> DEFINE a == Append(q, s)
<1>1. /\ a \in Seq(Slots) /\ Len(a) = Len(q) + 1 /\ Len(q) \in Nat
      /\ \A i \in 1 .. Len(q) : a[i] = q[i]
      /\ a[Len(q) + 1] = s
  BY AppendProperties
<1>2. /\ DOMAIN a = 1 .. Len(q) + 1 /\ DOMAIN q = 1 .. Len(q)
  BY <1>1
<1> HIDE DEF a
<1>3. \A i \in DOMAIN a : i = Len(q) + 1 \/ (i \in DOMAIN q /\ a[i] = q[i])
  BY <1>1, <1>2
<1>4. \A i \in DOMAIN q : i \in DOMAIN a /\ a[i] = q[i] /\ i # Len(q) + 1
  BY <1>1, <1>2
<1>5. Len(q) + 1 \in DOMAIN a
  BY <1>1, <1>2
<1>6. ToSet(a) = ToSet(q) \cup {s}
  BY <1>1, <1>3, <1>4, <1>5 DEF ToSet
<1>7. \A i, j \in DOMAIN a : a[i] = a[j] => i = j
  BY <1>1, <1>3, <1>4 DEF ToSet
<1> QED BY <1>1, <1>6, <1>7 DEF a

-----------------------------------------------------------------------------
(* Counting the events in recv_fifo.                                       *)

EventPlaces(f) == {i \in DOMAIN f : IsEvent(f[i])}
EventsIn(f) == Cardinality(EventPlaces(f))
One(p) == IF IsEvent(p) THEN 1 ELSE 0

LEMMA EventsType ==
    ASSUME NEW f \in Seq(Packet) PROVE IsFiniteSet(EventPlaces(f)) /\ EventsIn(f) \in Nat
<1>1. EventPlaces(f) \in SUBSET (1 .. Len(f)) /\ Len(f) \in Nat
  BY DEF EventPlaces
<1>2. IsFiniteSet(1 .. Len(f))
  BY <1>1, FS_Interval
<1>3. IsFiniteSet(EventPlaces(f))
  BY <1>1, <1>2, FS_Subset
<1> QED BY <1>3, FS_CardinalityType DEF EventsIn

LEMMA EventsAppend ==
    ASSUME NEW f \in Seq(Packet), NEW p \in Packet
    PROVE  EventsIn(Append(f, p)) = EventsIn(f) + One(p)
<1> DEFINE a == Append(f, p)
<1>1. /\ a \in Seq(Packet) /\ Len(a) = Len(f) + 1 /\ Len(f) \in Nat
      /\ \A i \in 1 .. Len(f) : a[i] = f[i]
      /\ a[Len(f) + 1] = p
  BY AppendProperties
<1>2. /\ DOMAIN a = 1 .. Len(f) + 1 /\ DOMAIN f = 1 .. Len(f)
  BY <1>1
<1> HIDE DEF a
<1>3. EventPlaces(a) = IF IsEvent(p) THEN EventPlaces(f) \cup {Len(f) + 1} ELSE EventPlaces(f)
  <2>1. \A i \in DOMAIN a : i = Len(f) + 1 \/ (i \in DOMAIN f /\ a[i] = f[i])
    BY <1>1, <1>2
  <2>2. \A i \in DOMAIN f : i \in DOMAIN a /\ a[i] = f[i]
    BY <1>1, <1>2
  <2>3. Len(f) + 1 \in DOMAIN a
    BY <1>1, <1>2
  <2> QED BY <1>1, <2>1, <2>2, <2>3 DEF EventPlaces
<1>4. Len(f) + 1 \notin EventPlaces(f)
  BY <1>1, <1>2 DEF EventPlaces
<1>5. CASE IsEvent(p)
  BY <1>3, <1>4, <1>5, EventsType, FS_AddElement DEF EventsIn, One, a
<1>6. CASE ~ IsEvent(p)
  BY <1>3, <1>6, EventsType DEF EventsIn, One, a
<1> QED BY <1>5, <1>6

LEMMA EventsTail ==
    ASSUME NEW f \in Seq(Packet), f # <<>>
    PROVE  EventsIn(f) = EventsIn(Tail(f)) + One(Head(f))
<1> DEFINE t == Tail(f)
           A == EventPlaces(t)
           B == EventPlaces(f) \ {1}
           g == [i \in A |-> i + 1]
<1>1. /\ Head(f) = f[1] /\ t \in Seq(Packet) /\ Len(t) = Len(f) - 1
      /\ \A i \in 1 .. Len(t) : t[i] = f[i + 1]
  BY HeadTailProperties
<1>2. DOMAIN f = 1 .. Len(f) /\ Len(f) \in Nat /\ DOMAIN t = 1 .. Len(t) /\ 1 <= Len(f)
  BY <1>1, EmptySeq
<1> HIDE DEF t
<1>3. \A i \in DOMAIN t : i + 1 \in DOMAIN f /\ i + 1 # 1 /\ t[i] = f[i + 1] /\ i \in Int
  BY <1>1, <1>2
<1>4. \A k \in DOMAIN f : k # 1 => k - 1 \in DOMAIN t /\ (k - 1) + 1 = k /\ t[k - 1] = f[k]
  <2> TAKE k \in DOMAIN f
  <2> HAVE k # 1
  <2>1. k - 1 \in DOMAIN t /\ (k - 1) + 1 = k
    BY <1>1, <1>2
  <2> QED BY <1>3, <2>1
<1>5. g \in [A -> B]
  BY <1>3 DEF EventPlaces
<1>6. \A a, b \in A : g[a] = g[b] => a = b
  BY <1>3 DEF EventPlaces
<1>7. \A k \in B : \E a \in A : g[a] = k
  <2> TAKE k \in B
  <2>1. k - 1 \in A /\ (k - 1) + 1 = k
    BY <1>4 DEF EventPlaces
  <2> QED BY <2>1
<1> HIDE DEF g
<1>8. g \in Bijection(A, B)
  BY <1>5, <1>6, <1>7, Fun_IsBij
<1>9. IsFiniteSet(A) /\ Cardinality(B) = Cardinality(A) /\ IsFiniteSet(B)
  BY <1>1, <1>8, EventsType, FS_Bijection, Fun_ExistsBij
<1>10. 1 \in EventPlaces(f) <=> IsEvent(Head(f))
  BY <1>1, <1>2 DEF EventPlaces
<1>11. 1 \notin B
  OBVIOUS
<1>12. CASE IsEvent(Head(f))
  <2>1. EventPlaces(f) = B \cup {1}
    BY <1>10, <1>12
  <2> HIDE DEF A, B
  <2>2. Cardinality(EventPlaces(f)) = Cardinality(B) + 1
    BY <1>9, <1>11, <2>1, FS_AddElement
  <2> QED BY <1>9, <1>12, <2>2 DEF EventsIn, One, A, t
<1>13. CASE ~ IsEvent(Head(f))
  <2>1. EventPlaces(f) = B
    BY <1>10, <1>13
  <2>2. EventsIn(Tail(f)) \in Nat
    BY <1>1, EventsType DEF t
  <2> HIDE DEF A, B
  <2> QED BY <1>9, <1>13, <2>1, <2>2 DEF EventsIn, One, A, t
<1> QED BY <1>12, <1>13

-----------------------------------------------------------------------------
(* The inductive invariant.                                                *)

(* Where the buffers are: in the pool, in recv_fifo, in the hands of the    *)
(* receive thread or kept for an incomplete packet.                         *)
InUse == IF pc = "process" THEN 1 ELSE owed
AccountInv ==
    /\ avail + Len(recv_fifo) + Held(rx) + InUse = CONFIG_BT_RX_BUF_COUNT
    /\ pc \in {"get", "process"} => owed = 0

(* What a slot is used for.                                                 *)
SlotInv ==
    /\ \A i, j \in DOMAIN msg_queue : msg_queue[i] = msg_queue[j] => i = j
    /\ \A s \in Slots : data_msg[s] # EmptyMsg <=>
                          s \in ToSet(msg_queue) \/ (pc = "empty" /\ s = msg)
    /\ pc = "empty" => msg \notin ToSet(msg_queue)

WayInv ==
    /\ Kept(OnTheWay, coming) /\ \A p \in coming : p.id <= sent
    /\ pc = "process" => cur \in Packet

IInv == TypeOK /\ AccountInv /\ SlotInv /\ WayInv /\ ReserveKept

LEMMA Counts ==
    /\ CONFIG_BT_RX_BUF_COUNT \in Nat /\ CONFIG_BT_RX_BUF_RSV_COUNT \in Nat
    /\ CONFIG_BT_RX_BUF_RSV_COUNT < CONFIG_BT_RX_BUF_COUNT
    /\ CONFIG_BT_RX_BUF_RSV_COUNT >= 1 /\ 1 \in Slots
  BY CountsAssumption DEF Slots

LEMMA NotEmpty == \A p \in Packet : p # EmptyMsg
  BY DEF Packet, EmptyMsg, Kinds

(* Every slot in the queue holds a packet.                                  *)
LEMMA QueueHolds ==
    ASSUME IInv
    PROVE  /\ \A s \in ToSet(msg_queue) : s \in Slots /\ data_msg[s] \in Packet
           /\ Messages(msg_queue, data_msg) \in Seq(Packet)
<1>1. msg_queue \in Seq(Slots) /\ data_msg \in [Slots -> Packet \cup {EmptyMsg}]
  BY DEF IInv, TypeOK
<1>2. \A s \in ToSet(msg_queue) : s \in Slots
  BY <1>1 DEF ToSet
<1>3. \A s \in ToSet(msg_queue) : data_msg[s] \in Packet
  BY <1>1, <1>2 DEF IInv, SlotInv
<1> QED BY <1>1, <1>2, <1>3, MessagesType

LEMMA InHandType ==
    ASSUME IInv
    PROVE  /\ InHand \in Seq(Packet) /\ recv_fifo \in Seq(Packet)
           /\ InHand \o recv_fifo \in Seq(Packet)
<1>1. recv_fifo \in Seq(Packet) /\ (pc = "process" => cur \in Packet)
  BY DEF IInv, TypeOK, WayInv
<1>2. \A p \in Packet : <<p>> \in Seq(Packet)
  OBVIOUS
<1>3. <<>> \in Seq(Packet)
  OBVIOUS
<1>4. InHand \in Seq(Packet)
  BY <1>1, <1>2, <1>3, Zenon DEF InHand
<1> QED BY <1>1, <1>4, ConcatProperties

LEMMA InitIInv == ASSUME Init PROVE IInv
<1>1. recv_fifo = <<>> /\ msg_queue = <<>> /\ pc = "get" /\ owed = 0 /\ rx = FALSE
      /\ avail = CONFIG_BT_RX_BUF_COUNT /\ coming = {} /\ sent = 0 /\ msg = 1
  BY DEF Init
<1>2. TypeOK
  <2>1. avail \in 0 .. CONFIG_BT_RX_BUF_COUNT /\ owed \in 0 .. 2
    BY <1>1, Counts
  <2>2. sent \in 0 .. MaxPackets
    BY <1>1, CountsAssumption
  <2>3. recv_fifo \in Seq(Packet) /\ msg_queue \in Seq(Slots)
    BY <1>1
  <2>4. data_msg \in [Slots -> Packet \cup {EmptyMsg}]
    BY DEF Init
  <2> QED BY <1>1, <2>1, <2>2, <2>3, <2>4, Counts, Zenon DEF Init, TypeOK
<1>3. AccountInv
  BY <1>1, Counts DEF AccountInv, Held, InUse
<1>4. ToSet(<<>>) = {}
  BY DEF ToSet
<1>5. SlotInv
  BY <1>1, <1>4 DEF Init, SlotInv
<1>6. OnTheWay = <<>>
  <2>1. Messages(<<>>, data_msg) = <<>>
    BY DEF Messages
  <2> QED BY <1>1, <2>1 DEF OnTheWay, InHand
<1>7. WayInv
  BY <1>1, <1>4, <1>6 DEF WayInv, Kept
<1>8. ReserveKept
  <2>1. EventsReceived = 0
    <3>1. {i \in DOMAIN recv_fifo : IsEvent(recv_fifo[i])} = {}
      BY <1>1
    <3> QED BY <3>1, FS_EmptySet DEF EventsReceived
  <2> QED BY <1>1, <2>1, Counts DEF ReserveKept, EventHeld
<1> QED BY <1>2, <1>3, <1>5, <1>7, <1>8 DEF IInv

-----------------------------------------------------------------------------
(* Slots and sequences that the actions move packets between.              *)

(* Every non-empty set of naturals has a least element: the search for an   *)
(* empty slot stops at one.                                                 *)
LEMMA LeastExists ==
    ASSUME NEW T, T \subseteq Nat, T # {}
    PROVE  \E x \in T : \A y \in T : x <= y
<1>1. PICK x \in T : \A y \in T : ~ (<<y, x>> \in OpToRel(<, Nat))
  BY NatLessThanWellFounded, WFMin
<1>2. \A y \in Nat, z \in Nat : y < z => <<y, z>> \in OpToRel(<, Nat)
  BY Zenon DEF OpToRel
<1>3. \A y \in T : ~ (y < x)
  BY <1>1, <1>2
<1> QED BY <1>3

LEMMA FirstEmptyIsEmpty ==
    ASSUME EmptySlots # {}
    PROVE  FirstEmpty \in Slots /\ data_msg[FirstEmpty] = EmptyMsg
<1>1. EmptySlots \subseteq Nat
  BY CountsAssumption DEF EmptySlots, Slots
<1>2. \E i \in EmptySlots : \A j \in EmptySlots : i <= j
  BY <1>1, LeastExists
<1>3. FirstEmpty \in EmptySlots
  BY <1>2, Zenon DEF FirstEmpty
<1> QED BY <1>3 DEF EmptySlots

LEMMA Appended ==
    ASSUME NEW h \in Seq(Packet), NEW f \in Seq(Packet), NEW m \in Seq(Packet),
           NEW p \in Packet
    PROVE  (h \o Append(f, p)) \o m = (h \o f) \o (<<p>> \o m)
<1>1. Append(f, p) = f \o <<p>>
  BY AppendIsConcat
<1> DEFINE o == <<p>>
<1>2. o \in Seq(Packet)
  OBVIOUS
<1> HIDE DEF o
<1>3. f \o o \in Seq(Packet) /\ h \o f \in Seq(Packet)
  BY <1>2, ConcatProperties
<1>4. h \o (f \o o) = (h \o f) \o o
  BY <1>2, ConcatAssociative
<1>5. ((h \o f) \o o) \o m = (h \o f) \o (o \o m)
  BY <1>2, <1>3, ConcatAssociative
<1> QED BY <1>1, <1>4, <1>5 DEF o

LEMMA Taken ==
    ASSUME NEW f \in Seq(Packet), f # <<>>
    PROVE  /\ Head(f) \in Packet /\ Tail(f) \in Seq(Packet) /\ Len(Tail(f)) = Len(f) - 1
           /\ <<>> \o f = <<Head(f)>> \o Tail(f) /\ f = <<Head(f)>> \o Tail(f)
<1> DEFINE o == <<Head(f)>>
           t == Tail(f)
<1>1. /\ Head(f) \in Packet /\ t \in Seq(Packet) /\ Len(t) = Len(f) - 1 /\ Head(f) = f[1]
      /\ \A i \in 1 .. Len(t) : t[i] = f[i + 1]
  BY HeadTailProperties
<1>2. o \in Seq(Packet) /\ Len(o) = 1 /\ o[1] = f[1]
  BY <1>1
<1>3. Len(f) \in Nat /\ 1 <= Len(f) /\ Len(t) \in Nat
  BY <1>1, EmptySeq
<1> HIDE DEF o, t
<1>4. /\ o \o t \in Seq(Packet) /\ Len(o \o t) = Len(o) + Len(t)
      /\ \A i \in 1 .. Len(o) + Len(t) : (o \o t)[i] = IF i <= Len(o) THEN o[i] ELSE t[i - Len(o)]
  <2>1. o \in Seq(Packet) /\ t \in Seq(Packet)
    BY <1>1, <1>2
  <2> QED BY <2>1, ConcatProperties
<1>5. Len(o \o t) = Len(f)
  BY <1>1, <1>2, <1>3, <1>4
<1>6. ASSUME NEW i \in 1 .. Len(f) PROVE f[i] = (o \o t)[i]
  <2>1. i \in 1 .. Len(o) + Len(t)
    BY <1>4, <1>5
  <2>2. CASE i = 1
    BY <1>2, <1>4, <2>1, <2>2
  <2>3. CASE i # 1
    <3>1. ~ (i <= 1) /\ i - 1 \in 1 .. Len(t) /\ (i - 1) + 1 = i
      BY <1>1, <1>3, <2>3
    <3> QED BY <1>1, <1>2, <1>4, <2>1, <3>1
  <2> QED BY <2>2, <2>3
<1>7. f = o \o t
  BY <1>4, <1>5, <1>6, SeqEqual
<1>8. <<>> \o f = f
  BY ConcatEmptySeq
<1> QED BY <1>1, <1>7, <1>8 DEF o, t

(* What the invariant says of the numbers.                                  *)
LEMMA Numbers ==
    ASSUME IInv
    PROVE  /\ avail \in Int /\ 0 <= avail /\ avail <= CONFIG_BT_RX_BUF_COUNT
           /\ Len(recv_fifo) \in Nat /\ EventsIn(recv_fifo) \in Nat
           /\ Held(rx) \in {0, 1} /\ owed \in 0 .. 2 /\ InUse \in 0 .. 2 /\ EventHeld \in {0, 1}
           /\ avail + Len(recv_fifo) + Held(rx) + InUse = CONFIG_BT_RX_BUF_COUNT
           /\ avail + EventsIn(recv_fifo) + EventHeld >= CONFIG_BT_RX_BUF_RSV_COUNT
<1>1. avail \in 0 .. CONFIG_BT_RX_BUF_COUNT /\ recv_fifo \in Seq(Packet) /\ owed \in 0 .. 2
  BY DEF IInv, TypeOK
<1>2. Len(recv_fifo) \in Nat /\ EventsIn(recv_fifo) \in Nat
  BY <1>1, EventsType
<1>3. Held(rx) \in {0, 1} /\ InUse \in 0 .. 2 /\ EventHeld \in {0, 1}
  BY <1>1 DEF Held, InUse, EventHeld
<1>4. avail + Len(recv_fifo) + Held(rx) + InUse = CONFIG_BT_RX_BUF_COUNT
  BY DEF IInv, AccountInv
<1>5. EventsReceived = EventsIn(recv_fifo)
  BY DEF EventsReceived, EventsIn, EventPlaces
<1>6. CONFIG_BT_RX_BUF_COUNT - avail - EventsIn(recv_fifo) - EventHeld
        <= CONFIG_BT_RX_BUF_COUNT - CONFIG_BT_RX_BUF_RSV_COUNT
  BY <1>5 DEF IInv, ReserveKept
<1>7. avail + EventsIn(recv_fifo) + EventHeld >= CONFIG_BT_RX_BUF_RSV_COUNT
  BY <1>1, <1>2, <1>3, <1>6, Counts
<1> QED BY <1>1, <1>2, <1>3, <1>4, <1>7, Counts

-----------------------------------------------------------------------------
(* One lemma for the turn of the loop, one for each action.                *)

LEMMA HandOverKeeps ==
    ASSUME IInv, ~ NothingGoes, HandOver
    PROVE  /\ avail' \in 0 .. CONFIG_BT_RX_BUF_COUNT /\ avail' >= CONFIG_BT_RX_BUF_RSV_COUNT
           /\ recv_fifo' \in Seq(Packet) /\ msg_queue' \in Seq(Slots) /\ coming' \subseteq Packet
           /\ avail' + Len(recv_fifo') = avail + Len(recv_fifo)
           /\ Head(msg_queue) \in Slots /\ Head(msg_queue) \in ToSet(msg_queue)
           /\ ToSet(msg_queue') = ToSet(msg_queue) \ {Head(msg_queue)}
           /\ \A i, j \in DOMAIN msg_queue' : msg_queue'[i] = msg_queue'[j] => i = j
           /\ Kept((InHand \o recv_fifo') \o Messages(msg_queue', data_msg), coming')
           /\ \A q \in coming' : q.id <= sent
<1> DEFINE p == data_msg[Head(msg_queue)]
           rest == Messages(Tail(msg_queue), data_msg)
           near == InHand \o recv_fifo
<1>1. msg_queue # <<>> /\ ~ (avail <= CONFIG_BT_RX_BUF_RSV_COUNT)
  BY DEF NothingGoes, Reserved
<1>2. msg_queue \in Seq(Slots) /\ recv_fifo \in Seq(Packet) /\ coming \subseteq Packet
  BY DEF IInv, TypeOK
<1>3. \A i, j \in DOMAIN msg_queue : msg_queue[i] = msg_queue[j] => i = j
  BY DEF IInv, SlotInv
<1>4. \A s \in ToSet(msg_queue) : data_msg[s] \in Packet
  BY QueueHolds
<1>5. /\ p \in Packet /\ rest \in Seq(Packet)
      /\ Messages(msg_queue, data_msg) = <<p>> \o rest
  BY <1>1, <1>2, <1>4, MessagesHead
<1>6. InHand \in Seq(Packet) /\ near \in Seq(Packet)
  BY InHandType
<1>7. Kept(near \o (<<p>> \o rest), coming) /\ \A q \in coming : q.id <= sent
  BY <1>5 DEF IInv, WayInv, OnTheWay
<1>8. msg_queue' = Tail(msg_queue)
  BY DEF HandOver
<1>9. /\ Head(msg_queue) \in Slots /\ Head(msg_queue) \in ToSet(msg_queue)
      /\ msg_queue' \in Seq(Slots)
      /\ ToSet(msg_queue') = ToSet(msg_queue) \ {Head(msg_queue)}
      /\ \A i, j \in DOMAIN msg_queue' : msg_queue'[i] = msg_queue'[j] => i = j
  BY <1>1, <1>2, <1>3, <1>8, TailSet
<1>10. CASE NotPrio(p)
  <2>1. recv_fifo' = Append(recv_fifo, p) /\ avail' = avail - 1 /\ coming' = coming
    BY <1>10 DEF HandOver
  <2> HIDE DEF p, rest
  <2>2. recv_fifo' \in Seq(Packet) /\ Len(recv_fifo') = Len(recv_fifo) + 1
    BY <1>2, <1>5, <2>1
  <2>3. /\ avail' \in 0 .. CONFIG_BT_RX_BUF_COUNT /\ avail' >= CONFIG_BT_RX_BUF_RSV_COUNT
        /\ avail' + Len(recv_fifo') = avail + Len(recv_fifo)
    <3>1. /\ avail \in Int /\ avail <= CONFIG_BT_RX_BUF_COUNT /\ Len(recv_fifo) \in Nat
      BY Numbers
    <3> HIDE DEF near
    <3> QED BY <1>1, <2>1, <2>2, <3>1, Counts
  <2>4. (InHand \o Append(recv_fifo, p)) \o rest = near \o (<<p>> \o rest)
    BY <1>2, <1>5, <1>6, Appended
  <2>5. Kept((InHand \o recv_fifo') \o Messages(msg_queue', data_msg), coming')
    BY <1>7, <1>8, <2>1, <2>4 DEF rest
  <2> QED BY <1>2, <1>7, <1>9, <2>1, <2>2, <2>3, <2>5
<1>11. CASE ~ NotPrio(p)
  <2>1. recv_fifo' = recv_fifo /\ avail' = avail /\ coming' = coming \ {p}
    BY <1>11 DEF HandOver
  <2> HIDE DEF p, rest, near
  <2>2. Kept(near \o rest, coming \ {p})
    BY <1>5, <1>6, <1>7, KeptWithout
  <2>3. Kept((InHand \o recv_fifo') \o Messages(msg_queue', data_msg), coming')
    BY <1>8, <2>1, <2>2 DEF rest, near
  <2>4. avail \in 0 .. CONFIG_BT_RX_BUF_COUNT /\ avail >= CONFIG_BT_RX_BUF_RSV_COUNT
    BY <1>1, Numbers, Counts
  <2>5. coming' \subseteq Packet /\ \A q \in coming' : q.id <= sent
    BY <1>2, <1>7, <2>1
  <2> QED BY <1>2, <1>9, <2>1, <2>3, <2>4, <2>5
<1> QED BY <1>10, <1>11

LEMMA DrainTurnKeeps == ASSUME IInv, DrainTurn PROVE IInv'
<1> DEFINE s == Head(msg_queue)
<1>1. /\ ~ NothingGoes /\ HandOver /\ data_msg' = [data_msg EXCEPT ![s] = EmptyMsg]
      /\ UNCHANGED <<thread, draining, no_slot, sent>>
  BY DEF DrainTurn, EmptySlot
<1>2. UNCHANGED <<rx, cur, owed, msg, leaked, pc, draining, no_slot, sent>>
  BY <1>1 DEF thread
<1>3. /\ avail' \in 0 .. CONFIG_BT_RX_BUF_COUNT /\ avail' >= CONFIG_BT_RX_BUF_RSV_COUNT
      /\ recv_fifo' \in Seq(Packet) /\ msg_queue' \in Seq(Slots) /\ coming' \subseteq Packet
      /\ avail' + Len(recv_fifo') = avail + Len(recv_fifo)
      /\ s \in Slots /\ s \in ToSet(msg_queue)
      /\ ToSet(msg_queue') = ToSet(msg_queue) \ {s}
      /\ \A i, j \in DOMAIN msg_queue' : msg_queue'[i] = msg_queue'[j] => i = j
      /\ Kept((InHand \o recv_fifo') \o Messages(msg_queue', data_msg), coming')
      /\ \A q \in coming' : q.id <= sent
  BY <1>1, HandOverKeeps
<1> HIDE DEF s
<1>4. data_msg' \in [Slots -> Packet \cup {EmptyMsg}]
  BY <1>1, <1>3 DEF IInv, TypeOK
<1>5. TypeOK'
  BY <1>2, <1>3, <1>4, Zenon DEF IInv, TypeOK
<1>6. AccountInv'
  BY <1>2, <1>3 DEF IInv, AccountInv, InUse, Held
<1>7. SlotInv'
  <2>1. \A r \in Slots : data_msg'[r] = IF r = s THEN EmptyMsg ELSE data_msg[r]
    BY <1>1 DEF IInv, TypeOK
  <2> QED BY <1>2, <1>3, <2>1 DEF IInv, SlotInv
<1>8. WayInv'
  <2>1. \A r \in ToSet(msg_queue') : data_msg[r] = data_msg'[r]
    BY <1>1, <1>3
  <2>2. Messages(msg_queue', data_msg) = Messages(msg_queue', data_msg')
    BY <1>3, <2>1, MessagesSame
  <2>3. InHand' = InHand
    BY <1>2 DEF InHand
  <2> QED BY <1>2, <1>3, <2>2, <2>3 DEF IInv, WayInv, OnTheWay
<1>9. ReserveKept'
  <2>1. EventsIn(recv_fifo') \in Nat
    BY <1>3, EventsType
  <2>2. EventsReceived' = EventsIn(recv_fifo')
    BY DEF EventsReceived, EventsIn, EventPlaces
  <2>3. EventHeld' \in {0, 1}
    BY DEF EventHeld
  <2> QED BY <1>3, <2>1, <2>2, <2>3, Counts DEF ReserveKept
<1> QED BY <1>5, <1>6, <1>7, <1>8, <1>9 DEF IInv

LEMMA DeliverKeeps == ASSUME IInv, Deliver PROVE IInv'
<1> DEFINE s == Head(msg_queue)
<1>1. /\ pc = "trigger" /\ ~ NothingGoes /\ pc' = "empty" /\ HandOver /\ msg' = s
      /\ UNCHANGED <<data_msg, rx, cur, owed, no_slot, sent>>
      /\ draining' = ~ NotPrio(data_msg[msg']) /\ leaked' = (leaked \/ draining')
  BY DEF Deliver
<1>2. /\ avail' \in 0 .. CONFIG_BT_RX_BUF_COUNT /\ avail' >= CONFIG_BT_RX_BUF_RSV_COUNT
      /\ recv_fifo' \in Seq(Packet) /\ msg_queue' \in Seq(Slots) /\ coming' \subseteq Packet
      /\ avail' + Len(recv_fifo') = avail + Len(recv_fifo)
      /\ s \in Slots /\ s \in ToSet(msg_queue)
      /\ ToSet(msg_queue') = ToSet(msg_queue) \ {s}
      /\ \A i, j \in DOMAIN msg_queue' : msg_queue'[i] = msg_queue'[j] => i = j
      /\ Kept((InHand \o recv_fifo') \o Messages(msg_queue', data_msg), coming')
      /\ \A q \in coming' : q.id <= sent
  BY <1>1, HandOverKeeps
<1> HIDE DEF s
<1>3. draining' \in BOOLEAN /\ leaked' \in BOOLEAN
  BY <1>1, Zenon DEF NotPrio
<1>4. TypeOK'
  BY <1>1, <1>2, <1>3, Zenon DEF IInv, TypeOK
<1>5. AccountInv'
  BY <1>1, <1>2 DEF IInv, AccountInv, InUse, Held
<1>6. SlotInv'
  BY <1>1, <1>2 DEF IInv, SlotInv
<1>7. WayInv'
  <2>1. InHand' = InHand
    BY <1>1 DEF InHand
  <2> QED BY <1>1, <1>2, <2>1 DEF WayInv, OnTheWay
<1>8. ReserveKept'
  <2>1. EventsIn(recv_fifo') \in Nat
    BY <1>2, EventsType
  <2>2. EventsReceived' = EventsIn(recv_fifo')
    BY DEF EventsReceived, EventsIn, EventPlaces
  <2>3. EventHeld' \in {0, 1}
    BY DEF EventHeld
  <2> QED BY <1>2, <2>1, <2>2, <2>3, Counts DEF ReserveKept
<1> QED BY <1>4, <1>5, <1>6, <1>7, <1>8 DEF IInv

(* Nothing changes but the count of packets and the flags.                  *)
LEMMA QuietKeeps ==
    ASSUME IInv, UNCHANGED <<pool, thread, coming>>, sent' \in sent .. MaxPackets,
           draining' \in BOOLEAN, no_slot' \in BOOLEAN
    PROVE  IInv'
<1>1. UNCHANGED <<avail, recv_fifo, data_msg, msg_queue, rx, cur, owed, msg, leaked, pc, coming>>
  BY DEF pool, thread
<1>2. sent' \in 0 .. MaxPackets /\ sent <= sent' /\ sent \in Int /\ sent' \in Int
  BY CountsAssumption DEF IInv, TypeOK
<1>3. TypeOK'
  BY <1>1, <1>2, Zenon DEF IInv, TypeOK
<1>4. AccountInv'
  BY <1>1 DEF IInv, AccountInv, InUse, Held
<1>5. SlotInv'
  BY <1>1 DEF IInv, SlotInv
<1>6. WayInv'
  <2>1. OnTheWay' = OnTheWay
    BY <1>1 DEF OnTheWay, InHand, Messages
  <2>2. \A p \in coming : p.id <= sent /\ p.id \in Int
    BY DEF IInv, TypeOK, WayInv, Packet
  <2>3. \A p \in coming' : p.id <= sent'
    BY <1>1, <1>2, <2>2
  <2>4. (pc = "process" => cur \in Packet)' /\ Kept(OnTheWay, coming)
    BY <1>1 DEF IInv, WayInv
  <2> QED BY <1>1, <2>1, <2>3, <2>4 DEF WayInv
<1>7. ReserveKept'
  BY <1>1 DEF IInv, ReserveKept, EventsReceived, EventHeld
<1> QED BY <1>3, <1>4, <1>5, <1>6, <1>7 DEF IInv

LEMMA ArrivesType ==
    ASSUME IInv, NEW p \in Packet, Arrives(p)
    PROVE  /\ UNCHANGED <<rx, cur, owed, msg, leaked, pc>>
           /\ sent' \in sent .. MaxPackets /\ sent' \in 0 .. MaxPackets
           /\ p \notin coming /\ \A q \in coming : q.id < p.id
           /\ \A q \in coming \cup {p} : q.id <= sent'
<1>1. UNCHANGED thread /\ sent < MaxPackets /\ p.id = sent + 1 /\ sent' = sent + 1
  BY DEF Arrives
<1>2. sent \in 0 .. MaxPackets /\ coming \subseteq Packet
  BY DEF IInv, TypeOK
<1>3. sent' \in sent .. MaxPackets /\ sent' \in 0 .. MaxPackets
  BY <1>1, <1>2, CountsAssumption
<1>4. \A q \in coming : q.id <= sent /\ q.id \in Int
  BY <1>2 DEF IInv, WayInv, Packet
<1>5. p.id = sent' /\ \A q \in coming : q.id < p.id
  BY <1>1, <1>2, <1>4
<1>6. \A q \in coming : q.id <= sent'
  BY <1>1, <1>2, <1>4
<1>7. p \notin coming /\ sent' <= sent'
  BY <1>2, <1>3, <1>5 DEF Packet
<1> QED BY <1>1, <1>3, <1>5, <1>6, <1>7 DEF thread

(* An event or a report joins the packets in recv_fifo, before those that   *)
(* are queued.                                                              *)
LEMMA TakeBufferKeeps ==
    ASSUME IInv, NEW p \in Packet, p.kind # "acl", Arrives(p), TakeBuffer(p), avail > 0,
           IsEvent(p) \/ avail > CONFIG_BT_RX_BUF_RSV_COUNT
    PROVE  IInv'
<1> DEFINE near == InHand \o recv_fifo
           far == Messages(msg_queue, data_msg)
<1>1. /\ avail' = avail - 1 /\ recv_fifo' = Append(recv_fifo, p) /\ coming' = coming \cup {p}
      /\ UNCHANGED <<data_msg, msg_queue, draining, no_slot>>
  BY DEF TakeBuffer
<1>2. /\ UNCHANGED <<rx, cur, owed, msg, leaked, pc>> /\ sent' \in 0 .. MaxPackets
      /\ p \notin coming /\ \A q \in coming \cup {p} : q.id <= sent'
  BY ArrivesType
<1>3. /\ InHand \in Seq(Packet) /\ recv_fifo \in Seq(Packet) /\ near \in Seq(Packet)
      /\ far \in Seq(Packet) /\ coming \subseteq Packet
  BY InHandType, QueueHolds DEF IInv, TypeOK
<1>4. Kept(near \o far, coming)
  BY DEF IInv, WayInv, OnTheWay
<1> HIDE DEF near, far
<1>5. /\ recv_fifo' \in Seq(Packet) /\ Len(recv_fifo') = Len(recv_fifo) + 1
      /\ EventsIn(recv_fifo') = EventsIn(recv_fifo) + One(p)
  BY <1>1, <1>3, EventsAppend
<1>6. /\ avail \in Int /\ avail > 0 /\ avail <= CONFIG_BT_RX_BUF_COUNT
      /\ Len(recv_fifo) \in Nat /\ EventsIn(recv_fifo) \in Nat /\ EventHeld \in {0, 1}
      /\ avail + EventsIn(recv_fifo) + EventHeld >= CONFIG_BT_RX_BUF_RSV_COUNT
  BY Numbers
<1>7. avail' \in 0 .. CONFIG_BT_RX_BUF_COUNT
  BY <1>1, <1>6, Counts
<1>8. coming' \subseteq Packet
  BY <1>1, <1>3
<1>9. TypeOK'
  BY <1>1, <1>2, <1>5, <1>7, <1>8, Zenon DEF IInv, TypeOK
<1>10. AccountInv'
  BY <1>1, <1>2, <1>5, <1>6, Numbers DEF IInv, AccountInv, InUse, Held
<1>11. SlotInv'
  BY <1>1, <1>2 DEF IInv, SlotInv
<1>12. WayInv'
  <2>1. Kept(near \o (<<p>> \o far), coming')
    BY <1>1, <1>2, <1>3, <1>4, KeptWith
  <2>2. (InHand \o Append(recv_fifo, p)) \o far = near \o (<<p>> \o far)
    BY <1>3, Appended DEF near
  <2>3. InHand' = InHand /\ Messages(msg_queue', data_msg') = far
    BY <1>1, <1>2 DEF InHand, far
  <2>4. OnTheWay' = near \o (<<p>> \o far)
    BY <1>1, <2>2, <2>3 DEF OnTheWay
  <2>5. (pc = "process" => cur \in Packet)'
    BY <1>2 DEF IInv, WayInv
  <2> QED BY <1>1, <1>2, <2>1, <2>4, <2>5 DEF WayInv
<1>13. ReserveKept'
  <2>1. EventsReceived' = EventsIn(recv_fifo')
    BY DEF EventsReceived, EventsIn, EventPlaces
  <2>2. EventHeld' = EventHeld
    BY <1>2 DEF EventHeld
  <2>3. One(p) \in {0, 1} /\ (IsEvent(p) => One(p) = 1)
    BY DEF One
  <2>4. avail' + EventsIn(recv_fifo') + EventHeld >= CONFIG_BT_RX_BUF_RSV_COUNT
    <3>1. CASE IsEvent(p)
      BY <1>1, <1>5, <1>6, <2>3, <3>1, Counts
    <3>2. CASE ~ IsEvent(p)
      BY <1>1, <1>5, <1>6, <2>3, <3>2, Counts
    <3> QED BY <3>1, <3>2
  <2>5. EventsIn(recv_fifo') \in Nat /\ avail' \in Int
    BY <1>5, <1>7, EventsType
  <2> QED BY <1>6, <2>1, <2>2, <2>4, <2>5, Counts DEF ReserveKept
<1> QED BY <1>9, <1>10, <1>11, <1>12, <1>13 DEF IInv

LEMMA AdvReportKeeps == ASSUME IInv, NEW p \in Packet, AdvReport(p) PROVE IInv'
<1>1. p.kind = "adv" /\ Arrives(p)
  BY DEF AdvReport
<1>2. CASE Reserved(avail)
  <2>1. UNCHANGED <<pool, thread, draining, no_slot, coming>>
    BY <1>1, <1>2 DEF AdvReport, Arrives
  <2>2. sent' \in sent .. MaxPackets
    BY <1>1, ArrivesType
  <2>3. draining' \in BOOLEAN /\ no_slot' \in BOOLEAN
    BY <2>1 DEF IInv, TypeOK
  <2> QED BY <2>1, <2>2, <2>3, QuietKeeps
<1>3. CASE ~ Reserved(avail)
  <2>1. TakeBuffer(p)
    BY <1>3 DEF AdvReport
  <2>2. avail > CONFIG_BT_RX_BUF_RSV_COUNT /\ avail > 0
    BY <1>3, Numbers, Counts DEF Reserved
  <2> QED BY <1>1, <2>1, <2>2, TakeBufferKeeps
<1> QED BY <1>2, <1>3

LEMMA EventKeeps == ASSUME IInv, NEW p \in Packet, Event(p) PROVE IInv'
<1>1. p.kind = "evt" /\ Arrives(p) /\ TakeBuffer(p) /\ avail > 0
  BY DEF Event, Direct
<1> QED BY <1>1, TakeBufferKeeps DEF IsEvent

LEMMA PrioEventKeeps == ASSUME IInv, NEW p \in Packet, PrioEvent(p) PROVE IInv'
<1>1. Arrives(p) /\ UNCHANGED <<pool, thread, no_slot, coming>> /\ draining' = TRUE
  BY DEF PrioEvent, Arrives
<1>2. sent' \in sent .. MaxPackets
  BY <1>1, ArrivesType
<1>3. draining' \in BOOLEAN /\ no_slot' \in BOOLEAN
  BY <1>1 DEF IInv, TypeOK
<1> QED BY <1>1, <1>2, <1>3, QuietKeeps

LEMMA NoSlotKeeps == ASSUME IInv, NEW p \in Packet, NoSlot(p) PROVE IInv'
<1>1. Arrives(p) /\ UNCHANGED <<pool, thread, draining, coming>> /\ no_slot' = TRUE
  BY DEF NoSlot, Arrives
<1>2. sent' \in sent .. MaxPackets
  BY <1>1, ArrivesType
<1>3. draining' \in BOOLEAN /\ no_slot' \in BOOLEAN
  BY <1>1 DEF IInv, TypeOK
<1> QED BY <1>1, <1>2, <1>3, QuietKeeps

LEMMA QueueKeeps == ASSUME IInv, NEW p \in Packet, Queue(p) PROVE IInv'
<1> DEFINE s == FirstEmpty
           far == Messages(msg_queue, data_msg)
<1>1. /\ Arrives(p) /\ EmptySlots # {}
      /\ msg_queue' = Append(msg_queue, s) /\ data_msg' = [data_msg EXCEPT ![s] = p]
      /\ coming' = coming \cup {p} /\ draining' = TRUE
      /\ UNCHANGED <<avail, recv_fifo, no_slot>>
  BY DEF Queue
<1>2. /\ UNCHANGED <<rx, cur, owed, msg, leaked, pc>> /\ sent' \in 0 .. MaxPackets
      /\ p \notin coming /\ \A q \in coming : q.id < p.id
      /\ \A q \in coming \cup {p} : q.id <= sent'
  BY <1>1, ArrivesType
<1>3. s \in Slots /\ data_msg[s] = EmptyMsg
  BY <1>1, FirstEmptyIsEmpty
<1> HIDE DEF s, far
<1>4. /\ msg_queue \in Seq(Slots) /\ data_msg \in [Slots -> Packet \cup {EmptyMsg}]
      /\ coming \subseteq Packet
  BY DEF IInv, TypeOK
<1>5. /\ \A i, j \in DOMAIN msg_queue : msg_queue[i] = msg_queue[j] => i = j
      /\ \A r \in Slots : data_msg[r] # EmptyMsg <=>
                            r \in ToSet(msg_queue) \/ (pc = "empty" /\ r = msg)
      /\ pc = "empty" => msg \notin ToSet(msg_queue)
  BY DEF IInv, SlotInv
<1>6. s \notin ToSet(msg_queue) /\ (pc = "empty" => s # msg)
  BY <1>3, <1>5
<1>7. /\ msg_queue' \in Seq(Slots) /\ ToSet(msg_queue') = ToSet(msg_queue) \cup {s}
      /\ \A i, j \in DOMAIN msg_queue' : msg_queue'[i] = msg_queue'[j] => i = j
  BY <1>1, <1>3, <1>4, <1>5, <1>6, AppendSet
<1>8. \A r \in Slots : data_msg'[r] = IF r = s THEN p ELSE data_msg[r]
  BY <1>1, <1>4
<1>9. data_msg' \in [Slots -> Packet \cup {EmptyMsg}] /\ coming' \subseteq Packet
  BY <1>1, <1>4
<1>10. TypeOK'
  BY <1>1, <1>2, <1>7, <1>9, Zenon DEF IInv, TypeOK
<1>11. AccountInv'
  BY <1>1, <1>2 DEF IInv, AccountInv, InUse, Held
<1>12. SlotInv'
  BY <1>2, <1>5, <1>6, <1>7, <1>8, NotEmpty DEF SlotInv
<1>13. WayInv'
  <2> DEFINE near == InHand \o recv_fifo
  <2>1. near \in Seq(Packet) /\ far \in Seq(Packet)
    BY InHandType, QueueHolds DEF far
  <2>2. Kept(near \o far, coming)
    BY DEF IInv, WayInv, OnTheWay, far
  <2> HIDE DEF near
  <2>3. Kept(near \o (far \o <<p>>), coming')
    <3> DEFINE u == near \o far
               o == <<p>>
    <3>1. o \in Seq(Packet) /\ u \in Seq(Packet) /\ <<>> \in Seq(Packet)
      BY <2>1, ConcatProperties
    <3>2. o \o <<>> = o /\ u \o <<>> = u
      BY <3>1, ConcatEmptySeq
    <3>3. Kept(u \o (o \o <<>>), coming \cup {p})
      <4>1. Kept(u \o <<>>, coming)
        BY <2>2, <3>2
      <4> QED BY <1>2, <3>1, <4>1, KeptWith
    <3> HIDE DEF o
    <3>4. (near \o far) \o o = near \o (far \o o)
      BY <2>1, <3>1, ConcatAssociative
    <3> QED BY <1>1, <3>2, <3>3, <3>4 DEF o
  <2>4. Messages(msg_queue', data_msg') = far \o <<p>>
    <3>1. \A r \in ToSet(msg_queue) : data_msg'[r] = data_msg[r] /\ data_msg'[r] \in Packet
      BY <1>6, <1>8, QueueHolds
    <3>2. data_msg'[s] = p
      BY <1>3, <1>8
    <3>3. Messages(msg_queue', data_msg') = Messages(msg_queue, data_msg') \o <<data_msg'[s]>>
      BY <1>1, <1>3, <1>4, <3>1, <3>2, MessagesAppend
    <3>4. Messages(msg_queue, data_msg') = far
      BY <1>4, <3>1, MessagesSame DEF far
    <3> QED BY <3>2, <3>3, <3>4
  <2>5. InHand' = InHand
    BY <1>2 DEF InHand
  <2>6. OnTheWay' = near \o (far \o <<p>>)
    BY <1>1, <2>4, <2>5 DEF OnTheWay, near
  <2>7. (pc = "process" => cur \in Packet)'
    BY <1>2 DEF IInv, WayInv
  <2> QED BY <1>1, <1>2, <2>3, <2>6, <2>7 DEF WayInv
<1>14. ReserveKept'
  BY <1>1, <1>2 DEF IInv, ReserveKept, EventsReceived, EventHeld
<1> QED BY <1>10, <1>11, <1>12, <1>13, <1>14 DEF IInv

LEMMA GetKeeps == ASSUME IInv, Get PROVE IInv'
<1> DEFINE far == Messages(msg_queue, data_msg)
<1>1. /\ pc = "get" /\ recv_fifo # <<>> /\ pc' = "process"
      /\ cur' = Head(recv_fifo) /\ recv_fifo' = Tail(recv_fifo)
      /\ UNCHANGED <<avail, data_msg, msg_queue, rx, owed, msg, leaked, coming,
                     draining, no_slot, sent>>
  BY DEF Get, ThreadStep
<1>2. recv_fifo \in Seq(Packet)
  BY DEF IInv, TypeOK
<1>3. /\ cur' \in Packet /\ recv_fifo' \in Seq(Packet) /\ Len(recv_fifo') = Len(recv_fifo) - 1
      /\ <<>> \o recv_fifo = <<cur'>> \o recv_fifo'
  BY <1>1, <1>2, Taken
<1>4. EventsIn(recv_fifo) = EventsIn(recv_fifo') + One(cur')
  BY <1>1, <1>2, EventsTail
<1>5. owed = 0
  BY <1>1 DEF IInv, AccountInv
<1>6. TypeOK'
  BY <1>1, <1>3, Zenon DEF IInv, TypeOK
<1>7. AccountInv'
  <2>1. avail + Len(recv_fifo) + Held(rx) + 0 = CONFIG_BT_RX_BUF_COUNT
    BY <1>1, <1>5 DEF IInv, AccountInv, InUse
  <2>2. avail \in Int /\ Len(recv_fifo) \in Nat /\ Held(rx) \in {0, 1} /\ Held(rx') = Held(rx)
    BY <1>1, Numbers
  <2>3. avail' + Len(recv_fifo') + Held(rx') + 1 = CONFIG_BT_RX_BUF_COUNT
    BY <1>1, <1>3, <2>1, <2>2
  <2> QED BY <1>1, <1>5, <2>3 DEF AccountInv, InUse, Held
<1>8. SlotInv'
  BY <1>1 DEF IInv, SlotInv
<1>9. WayInv'
  <2>1. InHand = <<>> /\ InHand' = <<cur'>>
    BY <1>1 DEF InHand
  <2>2. OnTheWay = (<<>> \o recv_fifo) \o far /\ OnTheWay' = (<<cur'>> \o recv_fifo') \o far
    BY <1>1, <2>1 DEF OnTheWay
  <2>3. OnTheWay' = OnTheWay
    BY <1>3, <2>2
  <2> QED BY <1>1, <1>3, <2>3 DEF IInv, WayInv
<1>10. ReserveKept'
  <2>1. EventsReceived' = EventsIn(recv_fifo')
    BY DEF EventsReceived, EventsIn, EventPlaces
  <2>2. EventHeld = 0 /\ EventHeld' = One(cur')
    BY <1>1, <1>5 DEF EventHeld, One
  <2>3. /\ avail + EventsIn(recv_fifo) + 0 >= CONFIG_BT_RX_BUF_RSV_COUNT
        /\ avail \in Int /\ EventsIn(recv_fifo') \in Nat /\ One(cur') \in {0, 1}
    BY <1>3, <2>2, Numbers, EventsType DEF One
  <2> QED BY <1>1, <1>4, <2>1, <2>2, <2>3, Counts DEF ReserveKept
<1> QED BY <1>6, <1>7, <1>8, <1>9, <1>10 DEF IInv

LEMMA ProcessKeeps == ASSUME IInv, Process PROVE IInv'
<1> DEFINE far == Messages(msg_queue, data_msg)
<1>1. /\ pc = "process" /\ pc' = "release" /\ owed' = 1 + Held(rx) - Held(rx')
      /\ rx' \in IF cur.kind = "acl" THEN BOOLEAN ELSE {rx, FALSE}
      /\ coming' = coming \ {cur}
      /\ UNCHANGED <<avail, recv_fifo, data_msg, msg_queue, cur, msg, leaked,
                     draining, no_slot, sent>>
  BY DEF Process, ThreadStep, pool
<1>2. rx \in BOOLEAN /\ recv_fifo \in Seq(Packet) /\ coming \subseteq Packet
  BY DEF IInv, TypeOK
<1>3. rx' \in BOOLEAN
  BY <1>1, <1>2
<1>4. Held(rx) \in {0, 1} /\ Held(rx') \in {0, 1}
  BY DEF Held
<1>5. owed' \in 0 .. 2
  BY <1>1, <1>4
<1>6. coming' \subseteq Packet
  BY <1>1, <1>2
<1>7. TypeOK'
  BY <1>1, <1>3, <1>5, <1>6, Zenon DEF IInv, TypeOK
<1>8. AccountInv'
  <2>1. avail + Len(recv_fifo) + Held(rx) + 1 = CONFIG_BT_RX_BUF_COUNT
    BY <1>1 DEF IInv, AccountInv, InUse
  <2>2. avail \in Int /\ Len(recv_fifo) \in Nat
    BY Numbers
  <2>3. avail' + Len(recv_fifo') + Held(rx') + owed' = CONFIG_BT_RX_BUF_COUNT
    BY <1>1, <1>4, <2>1, <2>2
  <2> QED BY <1>1, <2>3 DEF AccountInv, InUse, Held
<1>9. SlotInv'
  BY <1>1 DEF IInv, SlotInv
<1>10. WayInv'
  <2>1. cur \in Packet /\ Kept(OnTheWay, coming) /\ \A q \in coming : q.id <= sent
    BY <1>1 DEF IInv, WayInv
  <2>2. far \in Seq(Packet)
    BY QueueHolds
  <2>3. OnTheWay = (<<cur>> \o recv_fifo) \o far
    BY <1>1 DEF OnTheWay, InHand
  <2>4. OnTheWay' = (<<>> \o recv_fifo) \o far
    BY <1>1 DEF OnTheWay, InHand
  <2> HIDE DEF far
  <2> DEFINE o == <<cur>>
             rest == recv_fifo \o far
  <2>5. o \in Seq(Packet) /\ rest \in Seq(Packet) /\ <<>> \in Seq(Packet)
    BY <1>2, <2>1, <2>2, ConcatProperties
  <2> HIDE DEF o
  <2>6. (o \o recv_fifo) \o far = o \o rest
    BY <1>2, <2>2, <2>5, ConcatAssociative
  <2>7. (<<>> \o recv_fifo) \o far = <<>> \o rest
    BY <1>2, <2>2, <2>5, ConcatAssociative
  <2> HIDE DEF rest
  <2>8. o \o rest \in Seq(Packet)
    BY <2>5, ConcatProperties
  <2>9. <<>> \o (o \o rest) = o \o rest
    BY <2>8, ConcatEmptySeq
  <2>10. Kept(<<>> \o (<<cur>> \o rest), coming)
    BY <2>1, <2>3, <2>6, <2>9 DEF o
  <2>11. Kept(<<>> \o rest, coming \ {cur})
    BY <2>1, <2>5, <2>10, KeptWithout
  <2>12. Kept(OnTheWay', coming')
    BY <1>1, <2>4, <2>7, <2>11
  <2> QED BY <1>1, <2>1, <2>12 DEF WayInv
<1>11. ReserveKept'
  <2>1. EventsReceived' = EventsReceived
    BY <1>1 DEF EventsReceived
  <2>2. EventHeld' = EventHeld
    <3>1. CASE IsEvent(cur)
      <4>1. rx' \in {rx, FALSE}
        BY <1>1, <3>1 DEF IsEvent
      <4>2. Held(rx') <= Held(rx)
        <5>1. CASE rx' = rx
          BY <1>4, <5>1
        <5>2. CASE rx' = FALSE
          <6>1. Held(rx') = 0
            BY <5>2, Zenon DEF Held
          <6> QED BY <1>4, <6>1
        <5> QED BY <4>1, <5>1, <5>2
      <4>3. owed' > 0
        BY <1>1, <1>4, <4>2
      <4> QED BY <1>1, <3>1, <4>3 DEF EventHeld
    <3>2. CASE ~ IsEvent(cur)
      BY <1>1, <3>2 DEF EventHeld
    <3> QED BY <3>1, <3>2
  <2> QED BY <1>1, <2>1, <2>2 DEF IInv, ReserveKept
<1> QED BY <1>7, <1>8, <1>9, <1>10, <1>11 DEF IInv

(* The steps in which the receive thread only gives back a buffer or moves  *)
(* on.                                                                      *)
Returns ==
    /\ pc \in {"release", "trigger"} /\ pc' \in {"get", "release", "trigger"}
    /\ UNCHANGED <<recv_fifo, data_msg, msg_queue, rx, cur, msg, coming, draining, no_slot, sent>>
    /\ leaked' \in BOOLEAN /\ (pc' = "get" => owed' = 0)
    /\ \/ avail' = avail /\ owed' = owed
       \/ owed > 0 /\ avail' = avail + 1 /\ owed' = owed - 1

LEMMA ReturnKeeps == ASSUME IInv, Returns PROVE IInv'
<1>1. /\ avail \in Int /\ owed \in 0 .. 2 /\ Len(recv_fifo) \in Nat /\ Held(rx) \in {0, 1}
      /\ EventsIn(recv_fifo) \in Nat
      /\ avail + EventsIn(recv_fifo) + EventHeld >= CONFIG_BT_RX_BUF_RSV_COUNT
  BY Numbers
<1>2. \/ avail' = avail /\ owed' = owed
      \/ owed > 0 /\ avail' = avail + 1 /\ owed' = owed - 1
  BY DEF Returns
<1>3. /\ pc \in {"release", "trigger"} /\ pc' \in {"get", "release", "trigger"}
      /\ UNCHANGED <<recv_fifo, data_msg, msg_queue, rx, cur, msg, coming,
                     draining, no_slot, sent>>
      /\ leaked' \in BOOLEAN /\ (pc' = "get" => owed' = 0)
  BY DEF Returns
<1>4. avail + Len(recv_fifo) + Held(rx) + owed = CONFIG_BT_RX_BUF_COUNT
  BY <1>3 DEF IInv, AccountInv, InUse
<1>5. avail' \in 0 .. CONFIG_BT_RX_BUF_COUNT /\ owed' \in 0 .. 2
  <2>1. CASE avail' = avail /\ owed' = owed
    BY <2>1 DEF IInv, TypeOK
  <2>2. CASE owed > 0 /\ avail' = avail + 1 /\ owed' = owed - 1
    <3>1. 0 <= avail
      BY Numbers
    <3> QED BY <1>1, <1>4, <2>2, <3>1, Counts
  <2> QED BY <1>2, <2>1, <2>2
<1>6. TypeOK'
  <2>1. pc' \in {"get", "process", "release", "trigger", "empty"}
    BY <1>3
  <2> QED BY <1>3, <1>5, <2>1, Zenon DEF IInv, TypeOK
<1>7. AccountInv'
  <2>1. avail' + Len(recv_fifo) + Held(rx) + owed' = CONFIG_BT_RX_BUF_COUNT
    BY <1>1, <1>2, <1>4
  <2> QED BY <1>3, <2>1 DEF AccountInv, InUse, Held
<1>8. SlotInv'
  BY <1>3 DEF IInv, SlotInv
<1>9. WayInv'
  <2>1. OnTheWay' = OnTheWay
    BY <1>3 DEF OnTheWay, InHand, Messages
  <2> QED BY <1>3, <2>1 DEF IInv, WayInv
<1>10. ReserveKept'
  <2>1. EventsReceived' = EventsIn(recv_fifo)
    BY <1>3 DEF EventsReceived, EventsIn, EventPlaces
  <2>2. /\ EventHeld = IF IsEvent(cur) /\ owed > 0 THEN 1 ELSE 0
        /\ EventHeld' = IF IsEvent(cur) /\ owed' > 0 THEN 1 ELSE 0
    BY <1>3 DEF EventHeld
  <2>3. avail' + EventHeld' >= avail + EventHeld /\ EventHeld' \in {0, 1} /\ EventHeld \in {0, 1}
    <3>1. CASE IsEvent(cur)
      BY <1>1, <1>2, <2>2, <3>1
    <3>2. CASE ~ IsEvent(cur)
      BY <1>1, <1>2, <2>2, <3>2
    <3> QED BY <3>1, <3>2
  <2>4. avail' + EventsIn(recv_fifo) + EventHeld' >= CONFIG_BT_RX_BUF_RSV_COUNT
    BY <1>1, <1>2, <2>3, Counts
  <2>5. EventsIn(recv_fifo) \in Nat /\ avail' \in Nat
    BY <1>1, <1>5, Counts
  <2> QED BY <2>1, <2>3, <2>4, <2>5, Counts DEF ReserveKept
<1> QED BY <1>6, <1>7, <1>8, <1>9, <1>10 DEF IInv

LEMMA ReleaseKeeps == ASSUME IInv, Release PROVE IInv'
<1>1. /\ pc = "release" /\ owed > 0 /\ pc' = "trigger"
      /\ avail' = avail + 1 /\ owed' = owed - 1
      /\ UNCHANGED <<recv_fifo, data_msg, msg_queue, rx, cur, msg, leaked, coming,
                     draining, no_slot, sent>>
  BY DEF Release, AfterRelease, ThreadStep
<1>2. leaked' \in BOOLEAN
  BY <1>1 DEF IInv, TypeOK
<1>3. Returns
  BY <1>1, <1>2, Zenon DEF Returns
<1> QED BY <1>3, ReturnKeeps

LEMMA ReleasedKeeps == ASSUME IInv, Released PROVE IInv'
<1>1. /\ pc = "release" /\ owed = 0 /\ pc' = "get"
      /\ UNCHANGED <<avail, recv_fifo, data_msg, msg_queue, rx, cur, owed, msg, leaked, coming,
                     draining, no_slot, sent>>
  BY DEF Released, ThreadStep, pool
<1>2. leaked' \in BOOLEAN
  BY <1>1 DEF IInv, TypeOK
<1>3. Returns
  BY <1>1, <1>2, Zenon DEF Returns
<1> QED BY <1>3, ReturnKeeps

LEMMA BreakKeeps == ASSUME IInv, Break PROVE IInv'
<1>1. /\ pc = "trigger" /\ pc' = "release" /\ leaked' = TRUE
      /\ UNCHANGED <<avail, recv_fifo, data_msg, msg_queue, rx, cur, owed, msg, coming,
                     draining, no_slot, sent>>
  BY DEF Break, ThreadStep, pool
<1>2. leaked' \in BOOLEAN
  BY <1>1
<1>3. Returns
  BY <1>1, <1>2, Zenon DEF Returns
<1> QED BY <1>3, ReturnKeeps

LEMMA EmptyKeeps == ASSUME IInv, Empty PROVE IInv'
<1>1. /\ pc = "empty" /\ pc' = "trigger" /\ data_msg' = [data_msg EXCEPT ![msg] = EmptyMsg]
      /\ UNCHANGED <<avail, recv_fifo, msg_queue, rx, cur, owed, msg, leaked, coming,
                     draining, no_slot, sent>>
  BY DEF Empty, EmptySlot, ThreadStep
<1>2. /\ msg \in Slots /\ data_msg \in [Slots -> Packet \cup {EmptyMsg}]
      /\ msg_queue \in Seq(Slots)
  BY DEF IInv, TypeOK
<1>3. msg \notin ToSet(msg_queue) /\ \A r \in ToSet(msg_queue) : r \in Slots
  BY <1>1, QueueHolds DEF IInv, SlotInv
<1>4. \A r \in Slots : data_msg'[r] = IF r = msg THEN EmptyMsg ELSE data_msg[r]
  BY <1>1, <1>2
<1>5. data_msg' \in [Slots -> Packet \cup {EmptyMsg}]
  BY <1>1, <1>2
<1>6. TypeOK'
  BY <1>1, <1>5, Zenon DEF IInv, TypeOK
<1>7. AccountInv'
  BY <1>1 DEF IInv, AccountInv, InUse, Held
<1>8. SlotInv'
  BY <1>1, <1>3, <1>4 DEF IInv, SlotInv
<1>9. WayInv'
  <2>1. \A r \in ToSet(msg_queue) : data_msg'[r] = data_msg[r]
    BY <1>3, <1>4
  <2>2. Messages(msg_queue, data_msg') = Messages(msg_queue, data_msg)
    BY <1>2, <2>1, MessagesSame
  <2>3. OnTheWay' = OnTheWay
    BY <1>1, <2>2 DEF OnTheWay, InHand
  <2> QED BY <1>1, <2>3 DEF IInv, WayInv
<1>10. ReserveKept'
  BY <1>1 DEF IInv, ReserveKept, EventsReceived, EventHeld
<1> QED BY <1>6, <1>7, <1>8, <1>9, <1>10 DEF IInv

LEMMA DrainEndsKeeps == ASSUME IInv, DrainEnds PROVE IInv'
<1>1. UNCHANGED <<pool, thread, coming>> /\ draining' = FALSE /\ no_slot' = no_slot /\ sent' = sent
  BY DEF DrainEnds
<1>2. draining' \in BOOLEAN /\ no_slot' \in BOOLEAN
  BY <1>1 DEF IInv, TypeOK
<1>3. sent' \in sent .. MaxPackets
  <2>1. sent \in 0 .. MaxPackets /\ sent' = sent
    BY <1>1 DEF IInv, TypeOK
  <2> QED BY <2>1, CountsAssumption
<1> QED BY <1>1, <1>2, <1>3, QuietKeeps

LEMMA NextIInv == ASSUME IInv, [Next]_vars PROVE IInv'
<1>1. CASE Controller
  <2>1. PICK p \in Packet :
          AdvReport(p) \/ Event(p) \/ PrioEvent(p) \/ Queue(p) \/ NoSlot(p)
    BY <1>1 DEF Controller
  <2> QED BY <2>1, AdvReportKeeps, EventKeeps, PrioEventKeeps, QueueKeeps, NoSlotKeeps
<1>2. CASE RecvThread
  BY <1>2, GetKeeps, ProcessKeeps, ReleaseKeeps, ReleasedKeeps, BreakKeeps, DeliverKeeps,
     EmptyKeeps DEF RecvThread
<1>3. CASE Drain
  BY <1>3, DrainTurnKeeps, DrainEndsKeeps DEF Drain
<1>4. CASE UNCHANGED vars
  <2>1. UNCHANGED <<pool, thread, coming>> /\ draining' = draining /\ no_slot' = no_slot
        /\ sent' = sent
    BY <1>4 DEF vars
  <2>2. sent' \in sent .. MaxPackets /\ draining' \in BOOLEAN /\ no_slot' \in BOOLEAN
    BY <2>1, CountsAssumption DEF IInv, TypeOK
  <2> QED BY <2>1, <2>2, QuietKeeps
<1> QED BY <1>1, <1>2, <1>3, <1>4 DEF Next

(* The invariant holds in every state that the program reaches.             *)
THEOREM IInvCorrect == Spec => []IInv
<1>1. Init => IInv
  BY InitIInv
<1>2. IInv /\ [Next]_vars => IInv'
  BY NextIInv
<1> QED BY <1>1, <1>2, PTL DEF Spec

-----------------------------------------------------------------------------
(* The properties follow from it.                                          *)

(* No packet is lost, none is delivered twice, and data stays in the order  *)
(* in which the controller received it, through queue, recv_fifo and the    *)
(* nested calls of bl_trigger_queued_msg.                                   *)
THEOREM PacketsKeptCorrect == Spec => []PacketsKept
<1>1. IInv => PacketsKept
  <2> SUFFICES ASSUME IInv PROVE PacketsKept
    OBVIOUS
  <2>1. Kept(OnTheWay, coming)
    BY DEF IInv, WayInv
  <2>2. Len(OnTheWay) = Cardinality(coming)
    BY <2>1, KeptCounts
  <2> QED BY <2>1, <2>2 DEF PacketsKept, Kept
<1> QED BY <1>1, IInvCorrect, PTL

(* A slot is in use for one message, from the queue until it is emptied.    *)
THEOREM SlotsExactCorrect == Spec => []SlotsExact
<1>1. IInv => SlotsExact
  <2> SUFFICES ASSUME IInv PROVE SlotsExact
    OBVIOUS
  <2> DEFINE q == msg_queue
  <2>1. /\ q \in Seq(Slots) /\ TypeOK /\ SlotInv
    BY DEF IInv, TypeOK
  <2>2. Cardinality(ToSet(q)) = Len(q)
    <3>1. Len(q) \in Nat /\ DOMAIN q = 1 .. Len(q) /\ q \in [1 .. Len(q) -> Slots]
      BY <2>1
    <3>2. q \in [1 .. Len(q) -> ToSet(q)] /\ \A t \in ToSet(q) : \E i \in 1 .. Len(q) : q[i] = t
      BY <3>1 DEF ToSet
    <3>3. q \in Bijection(1 .. Len(q), ToSet(q))
      BY <2>1, <3>1, <3>2, Fun_IsBij DEF SlotInv
    <3>4. IsFiniteSet(1 .. Len(q)) /\ Cardinality(1 .. Len(q)) = Len(q)
      BY <3>1, FS_Interval
    <3> QED BY <3>3, <3>4, FS_Bijection, Fun_ExistsBij
  <2>3. Slots \ EmptySlots = ToSet(q) \cup (IF pc = "empty" THEN {msg} ELSE {})
    <3>1. \A s \in Slots : s \in Slots \ EmptySlots <=> data_msg[s] # EmptyMsg
      BY DEF EmptySlots
    <3>2. msg \in Slots /\ \A s \in ToSet(q) : s \in Slots
      BY <2>1, QueueHolds DEF TypeOK
    <3> QED BY <2>1, <3>1, <3>2 DEF SlotInv, EmptySlots
  <2> QED BY <2>1, <2>2, <2>3 DEF SlotsExact, SlotInv
<1> QED BY <1>1, IInvCorrect, PTL

(* Data and reports never use the buffers reserved for events.              *)
THEOREM ReserveKeptCorrect == Spec => []ReserveKept
<1>1. IInv => ReserveKept
  BY DEF IInv
<1> QED BY <1>1, IInvCorrect, PTL

-----------------------------------------------------------------------------
(* No wakeup is lost.                                                      *)

Watched == NothingGoes \/ draining \/ pc \in {"trigger", "empty"}

(* A step of the controller's task that leaves the queue alone takes        *)
(* buffers and gives none back.                                             *)
LEMMA StillNothingGoes ==
    ASSUME IInv, NothingGoes, msg_queue' = msg_queue, avail' \in {avail, avail - 1}
    PROVE  NothingGoes'
<1>1. avail \in Int
  BY Numbers
<1> QED BY <1>1, Counts DEF NothingGoes, Reserved

LEMMA ControllerWatched ==
    ASSUME IInv, Watched, NEW p \in Packet,
           AdvReport(p) \/ Event(p) \/ PrioEvent(p) \/ Queue(p) \/ NoSlot(p)
    PROVE  Watched'
<1>1. ~ draining /\ pc' = pc
  BY Zenon DEF AdvReport, Event, PrioEvent, Queue, NoSlot, Arrives, thread
<1>2. CASE draining' = TRUE
  BY <1>2 DEF Watched
<1>3. CASE msg_queue' = msg_queue /\ avail' \in {avail, avail - 1}
  <2>1. CASE NothingGoes
    BY <1>3, <2>1, StillNothingGoes DEF Watched
  <2>2. CASE pc \in {"trigger", "empty"}
    BY <1>1, <2>2 DEF Watched
  <2> QED BY <1>1, <2>1, <2>2 DEF Watched
<1>4. draining' = TRUE \/ (msg_queue' = msg_queue /\ avail' \in {avail, avail - 1})
  <2>1. CASE AdvReport(p)
    BY <2>1 DEF AdvReport, TakeBuffer, pool
  <2>2. CASE Event(p)
    BY <2>2 DEF Event, TakeBuffer
  <2>3. CASE PrioEvent(p) \/ Queue(p)
    BY <2>3 DEF PrioEvent, Queue
  <2>4. CASE NoSlot(p)
    BY <2>4 DEF NoSlot, pool
  <2> QED BY <2>1, <2>2, <2>3, <2>4
<1> QED BY <1>2, <1>3, <1>4

LEMMA ThreadWatched == ASSUME IInv, Watched, RecvThread PROVE Watched'
<1>1. CASE Get \/ Process \/ Released
  <2>1. pc \notin {"trigger", "empty"} /\ ~ draining /\ UNCHANGED <<avail, msg_queue>>
    BY <1>1 DEF Get, Process, Released, ThreadStep, MayRun, pool
  <2> QED BY <2>1, StillNothingGoes DEF Watched
<1>2. CASE Release \/ Deliver \/ Empty
  <2>1. pc' \in {"trigger", "empty"}
    BY <1>2 DEF Release, AfterRelease, Deliver, Empty
  <2> QED BY <2>1 DEF Watched
<1>3. CASE Break
  <2>1. NothingGoes /\ UNCHANGED <<avail, msg_queue>>
    BY <1>3 DEF Break, pool
  <2> QED BY <2>1, StillNothingGoes DEF Watched
<1> QED BY <1>1, <1>2, <1>3 DEF RecvThread

LEMMA DrainWatched == ASSUME IInv, Watched, Drain PROVE Watched'
<1>1. CASE DrainTurn
  BY <1>1 DEF DrainTurn, Watched
<1>2. CASE DrainEnds
  <2>1. NothingGoes /\ UNCHANGED <<avail, msg_queue>>
    BY <1>2 DEF DrainEnds, pool
  <2> QED BY <2>1, StillNothingGoes DEF Watched
<1> QED BY <1>1, <1>2 DEF Drain

(* Whoever frees a buffer or fills the queue also looks at the queue        *)
(* afterwards, and nobody leaves it while something can go: the loops of    *)
(* bl_trigger_queued_msg, nested and interrupted as they are, never end too *)
(* early.  While a message must wait, the receive thread has a packet to    *)
(* take, for one buffer that is not reserved may be that of an incomplete   *)
(* L2CAP packet, and two are there (config.h:114 and 122: five, and one     *)
(* reserved).                                                               *)
THEOREM ServedCorrect ==
    ASSUME CONFIG_BT_RX_BUF_COUNT - CONFIG_BT_RX_BUF_RSV_COUNT >= 2
    PROVE  Spec => []Served
<1>1. Init => Watched
  BY DEF Init, Watched, NothingGoes
<1>2. IInv /\ Watched /\ [Next]_vars => Watched'
  <2> SUFFICES ASSUME IInv, Watched, [Next]_vars PROVE Watched'
    OBVIOUS
  <2>1. CASE Controller
    BY <2>1, ControllerWatched DEF Controller
  <2>2. CASE RecvThread \/ Drain
    BY <2>2, ThreadWatched, DrainWatched
  <2>3. CASE UNCHANGED vars
    BY <2>3 DEF vars, pool, thread, Watched, NothingGoes
  <2> QED BY <2>1, <2>2, <2>3 DEF Next
<1>3. IInv /\ Watched => Served
  <2> SUFFICES ASSUME IInv, Watched, Asleep PROVE coming = {}
    BY DEF Served, Watched
  <2>1. pc = "get" /\ recv_fifo = <<>> /\ ~ draining
    BY DEF Asleep
  <2>2. InUse = 0 /\ Len(recv_fifo) = 0
    BY <2>1 DEF IInv, AccountInv, InUse
  <2>3. ~ (avail <= CONFIG_BT_RX_BUF_RSV_COUNT)
    BY <2>2, Numbers, Counts
  <2>4. msg_queue = <<>>
    BY <2>1, <2>3 DEF Watched, NothingGoes, Reserved
  <2>5. DOMAIN OnTheWay = {}
    BY <2>1, <2>4 DEF OnTheWay, InHand, Messages
  <2> QED BY <2>5 DEF IInv, WayInv, Kept, ToSet
<1> QED BY <1>1, <1>2, <1>3, IInvCorrect, PTL DEF Spec

-----------------------------------------------------------------------------
(* The receive thread and the loops over the queue come to rest.            *)

Rank(p) ==
    CASE p = "get" -> 0 [] p = "release" -> 1 [] p = "empty" -> 3 [] OTHER -> 2

(* Work to be done: what a message, a packet in a buffer, and a buffer to   *)
(* be released cost at most, and what is left of the current turn.          *)
Turn == 2 * (InUse + Held(rx)) + Rank(pc) + Held(draining)
Work == 8 * Len(msg_queue) + 5 * Len(recv_fifo) + Turn

LEMMA WorkNumbers ==
    ASSUME IInv
    PROVE  /\ Len(msg_queue) \in Nat /\ Len(recv_fifo) \in Nat /\ InUse \in Nat
           /\ Held(rx) \in {0, 1} /\ Rank(pc) \in 0 .. 3 /\ Held(draining) \in {0, 1}
           /\ Turn \in Nat
<1>1. msg_queue \in Seq(Slots)
  BY DEF IInv, TypeOK
<1>2. Rank(pc) \in 0 .. 3
  BY DEF Rank, IInv, TypeOK
<1>3. Held(draining) \in {0, 1}
  BY DEF Held
<1>4. Turn \in Nat
  BY <1>2, <1>3, Numbers DEF Turn
<1> QED BY <1>1, <1>2, <1>3, <1>4, Numbers

LEMMA HandOverLess ==
    ASSUME IInv, ~ NothingGoes, HandOver
    PROVE  /\ Len(msg_queue) >= 1 /\ Len(msg_queue') = Len(msg_queue) - 1
           /\ Len(recv_fifo') \in {Len(recv_fifo), Len(recv_fifo) + 1}
<1>1. msg_queue # <<>> /\ msg_queue \in Seq(Slots) /\ recv_fifo \in Seq(Packet)
  BY DEF NothingGoes, IInv, TypeOK
<1>2. msg_queue' = Tail(msg_queue) /\ Len(msg_queue) >= 1
  BY <1>1 DEF HandOver
<1>3. Len(msg_queue') = Len(msg_queue) - 1
  BY <1>1, <1>2
<1>4. data_msg[Head(msg_queue)] \in Packet
  <2>1. Head(msg_queue) \in ToSet(msg_queue)
    BY HandOverKeeps
  <2> QED BY <2>1, QueueHolds
<1>5. recv_fifo' = recv_fifo \/ recv_fifo' = Append(recv_fifo, data_msg[Head(msg_queue)])
  BY DEF HandOver
<1>6. Len(recv_fifo') \in {Len(recv_fifo), Len(recv_fifo) + 1}
  BY <1>1, <1>4, <1>5
<1> QED BY <1>2, <1>3, <1>6

(* What a step of the thread, or of a loop, changes in the sum.             *)
LEMMA TurnLess ==
    ASSUME IInv, UNCHANGED <<msg_queue, recv_fifo>>, Turn' = Turn - 1, Turn' \in Nat
    PROVE  Work' \in 0 .. Work - 1
<1>1. Work = 8 * Len(msg_queue) + 5 * Len(recv_fifo) + Turn
  BY DEF Work
<1>2. Work' = 8 * Len(msg_queue) + 5 * Len(recv_fifo) + Turn'
  BY DEF Work
<1> HIDE DEF Work
<1> QED BY <1>1, <1>2, WorkNumbers

LEMMA DrainLess == ASSUME IInv, Drain PROVE Work' \in 0 .. Work - 1
<1> USE DEF Work
<1>1. CASE DrainTurn
  <2>1. /\ ~ NothingGoes /\ HandOver
        /\ UNCHANGED <<rx, owed, pc, draining>>
    BY <1>1, Zenon DEF DrainTurn, thread
  <2>2. InUse' = InUse /\ Held(rx)' = Held(rx) /\ Rank(pc)' = Rank(pc)
        /\ Held(draining)' = Held(draining)
    BY <2>1 DEF InUse
  <2>3. /\ Len(msg_queue) >= 1 /\ Len(msg_queue') = Len(msg_queue) - 1
        /\ Len(recv_fifo') \in {Len(recv_fifo), Len(recv_fifo) + 1}
    BY <2>1, HandOverLess
  <2>4. Turn' = Turn
    BY <2>2 DEF Turn
  <2> QED BY <2>3, <2>4, WorkNumbers
<1>2. CASE DrainEnds
  <2>1. draining /\ draining' = FALSE /\ UNCHANGED <<msg_queue, recv_fifo, rx, owed, pc>>
    BY <1>2 DEF DrainEnds, pool, thread
  <2>2. InUse' = InUse /\ Held(rx)' = Held(rx) /\ Rank(pc)' = Rank(pc)
    BY <2>1 DEF InUse
  <2>3. Held(draining) = 1 /\ Held(draining)' = 0
    BY <2>1 DEF Held
  <2>4. Turn' = Turn - 1 /\ Turn' \in Nat
    BY <2>2, <2>3, WorkNumbers DEF Turn
  <2> QED BY <2>1, <2>4, TurnLess
<1> QED BY <1>1, <1>2 DEF Drain

LEMMA ThreadLess == ASSUME IInv, RecvThread PROVE Work' \in 0 .. Work - 1
<1> USE DEF Work
<1>1. CASE Get
  <2>1. /\ pc = "get" /\ pc' = "process" /\ recv_fifo # <<>> /\ recv_fifo' = Tail(recv_fifo)
        /\ UNCHANGED <<msg_queue, rx, owed, draining>>
    BY <1>1 DEF Get, ThreadStep
  <2>2. recv_fifo \in Seq(Packet) /\ owed = 0
    BY <2>1 DEF IInv, TypeOK, AccountInv
  <2>3. Len(recv_fifo') = Len(recv_fifo) - 1 /\ Len(recv_fifo) >= 1
    BY <2>1, <2>2
  <2>4. InUse = 0 /\ InUse' = 1 /\ Rank(pc) = 0 /\ Rank(pc)' = 2
    BY <2>1, <2>2 DEF InUse, Rank
  <2>5. /\ Len(msg_queue)' = Len(msg_queue) /\ Held(rx)' = Held(rx)
        /\ Held(draining)' = Held(draining)
    BY <2>1
  <2>6. Turn' = Turn + 4
    BY <2>4, <2>5, WorkNumbers DEF Turn
  <2> QED BY <2>3, <2>5, <2>6, WorkNumbers
<1>2. CASE Process
  <2>1. /\ pc = "process" /\ pc' = "release" /\ owed' = 1 + Held(rx) - Held(rx')
        /\ UNCHANGED <<msg_queue, recv_fifo, draining>>
    BY <1>2 DEF Process, ThreadStep, pool
  <2>2. InUse = 1 /\ InUse' = owed' /\ Rank(pc) = 2 /\ Rank(pc)' = 1
    BY <2>1 DEF InUse, Rank
  <2>3. Held(rx') \in {0, 1} /\ Held(rx)' = Held(rx')
    BY DEF Held
  <2>4. Held(draining)' = Held(draining)
    BY <2>1
  <2>5. InUse' + Held(rx') = InUse + Held(rx)
    BY <2>1, <2>2, <2>3, WorkNumbers
  <2>6. Turn' = Turn - 1 /\ Turn' \in Nat
    BY <2>2, <2>4, <2>5, WorkNumbers DEF Turn
  <2> QED BY <2>1, <2>6, TurnLess
<1>3. CASE Release
  <2>1. /\ pc = "release" /\ pc' = "trigger" /\ owed > 0 /\ owed' = owed - 1
        /\ UNCHANGED <<msg_queue, recv_fifo, rx, draining>>
    BY <1>3 DEF Release, AfterRelease, ThreadStep
  <2>2. InUse = owed /\ InUse' = owed' /\ Rank(pc) = 1 /\ Rank(pc)' = 2
    BY <2>1 DEF InUse, Rank
  <2>3. Held(rx)' = Held(rx) /\ Held(draining)' = Held(draining)
    BY <2>1
  <2>4. InUse \in Nat /\ InUse >= 1 /\ InUse' = InUse - 1
    BY <2>1, <2>2, WorkNumbers
  <2>5. Rank(pc) = 1 /\ Rank(pc)' = 2
    BY <2>2
  <2>6. Turn' = Turn - 1 /\ Turn' \in Nat
    BY <2>3, <2>4, <2>5, WorkNumbers DEF Turn
  <2> QED BY <2>1, <2>6, TurnLess
<1>4. CASE Released \/ Break \/ Empty
  <2>1. UNCHANGED <<msg_queue, recv_fifo, rx, owed, draining>>
    BY <1>4 DEF Released, Break, Empty, ThreadStep, pool
  <2>2. \/ pc = "release" /\ pc' = "get"
        \/ pc = "trigger" /\ pc' = "release"
        \/ pc = "empty" /\ pc' = "trigger"
    BY <1>4 DEF Released, Break, Empty
  <2>3. InUse' = InUse /\ Rank(pc)' = Rank(pc) - 1 /\ Rank(pc) >= 1
    BY <2>1, <2>2 DEF InUse, Rank
  <2>4. Held(rx)' = Held(rx) /\ Held(draining)' = Held(draining)
    BY <2>1
  <2>5. Turn' = Turn - 1 /\ Turn' \in Nat
    BY <2>3, <2>4, WorkNumbers DEF Turn
  <2> QED BY <2>1, <2>5, TurnLess
<1>5. CASE Deliver
  <2>1. /\ pc = "trigger" /\ pc' = "empty" /\ ~ NothingGoes /\ HandOver /\ ~ draining
        /\ UNCHANGED <<rx, owed>>
    BY <1>5 DEF Deliver, MayRun
  <2>2. InUse' = InUse /\ Rank(pc) = 2 /\ Rank(pc)' = 3 /\ Held(rx)' = Held(rx)
    BY <2>1 DEF InUse, Rank
  <2>3. Held(draining) = 0 /\ Held(draining)' \in {0, 1}
    BY <2>1 DEF Held
  <2>4. /\ Len(msg_queue) >= 1 /\ Len(msg_queue') = Len(msg_queue) - 1
        /\ Len(recv_fifo') \in {Len(recv_fifo), Len(recv_fifo) + 1}
    BY <2>1, HandOverLess
  <2>5. Turn' \in Turn + 1 .. Turn + 2
    BY <2>2, <2>3, WorkNumbers DEF Turn
  <2> QED BY <2>4, <2>5, WorkNumbers
<1> QED BY <1>1, <1>2, <1>3, <1>4, <1>5 DEF RecvThread

(* Between two calls of the controller the receive thread and the loops     *)
(* take at most Work steps: nested calls of bl_trigger_queued_msg end, and  *)
(* a packet is given back and forth no longer than buffers are released.    *)
(* With Served this is what AllDelivered rests on: where no step is left,   *)
(* nothing waits.                                                           *)
THEOREM WorkEnds == Spec => [][RecvThread \/ Drain => Work' \in 0 .. Work - 1]_vars
<1>1. IInv /\ [Next]_vars => [RecvThread \/ Drain => Work' \in 0 .. Work - 1]_vars
  BY ThreadLess, DrainLess
<1> QED BY <1>1, IInvCorrect, PTL DEF Spec
=============================================================================
