--------------------------- MODULE ConnectionsProofs ---------------------------
(***************************************************************************)
(* Theorems about Connections, for any clients, scripts and sizes.         *)
(*                                                                         *)
(* The parts of a request stand together in the stream of its client, so   *)
(* that what is buffered begins either with a request or behind one that   *)
(* was refused (Whole).  An event is a run of calls of process_request,    *)
(* each on the connection that the one before left; it calls itself once   *)
(* for each request at most, and behind the last one nothing is answered   *)
(* before more is received (Rests).  Sound is what every one of these      *)
(* calls keeps, Good what holds between two steps of the server.  Control  *)
(* says which connections may be flagged or released at which place of     *)
(* ns_server_poll, and why.                                                *)
(***************************************************************************)
EXTENDS Connections, SubseqProofs

-----------------------------------------------------------------------------
(* The stream of a script *)

Part == [of : Nat, first : BOOLEAN, last : BOOLEAN, garbled : BOOLEAN]
Size(r) == r.head + r.body

\* The parts of the k-th request stand in q, those of earlier ones before them
\* and those of later ones behind.
StandsAt(q, k, r, b) ==
    /\ b + Size(r) <= Len(q)
    /\ \A i \in 1 .. Size(r) : q[b + i] = Parts(k, r)[i]
    /\ \A j \in 1 .. Len(q) : /\ j <= b <=> q[j].of < k
                              /\ j > b + Size(r) <=> q[j].of > k

Shaped(q, n, s) ==
    /\ q \in Seq(Part)
    /\ \A j \in 1 .. Len(q) : q[j].of \in 1 .. n
    /\ \A k \in 1 .. n : \E b \in Nat : StandsAt(q, k, s[k], b)

LEMMA PartsShape ==
    ASSUME NEW k \in Nat, NEW r \in Request
    PROVE  /\ Size(r) \in Nat \ {0} /\ r.head \in Nat \ {0} /\ r.body \in Nat
           /\ Parts(k, r) \in Seq(Part) /\ Len(Parts(k, r)) = Size(r)
           /\ \A i \in 1 .. Size(r) :
                /\ Parts(k, r)[i].of = k
                /\ Parts(k, r)[i].first <=> i = 1
                /\ Parts(k, r)[i].last <=> i = r.head
                /\ Parts(k, r)[i].garbled <=> i = 1 /\ r.wrong = "garbled"
<1> DEFINE p == Parts(k, r)
           n == r.head + r.body
<1>1. r.head \in Nat \ {0} /\ r.body \in Nat /\ n \in Nat \ {0}
    BY DEF Request
<1>2. p = [i \in 1 .. n |-> [of |-> k, first |-> i = 1, last |-> i = r.head,
                            garbled |-> r.wrong = "garbled" /\ i = 1]]
    BY DEF Parts
<1> HIDE DEF p, n
<1>3. \A i \in 1 .. n : p[i] \in Part
    BY <1>2, Zenon DEF Part
<1>4. p \in Seq(Part) /\ Len(p) = n
  <2>1. p \in [1 .. n -> Part]
      BY <1>2, <1>3
  <2> QED
      BY <1>1, <2>1
<1>5. \A i \in 1 .. n : /\ p[i].of = k
                        /\ p[i].first <=> i = 1
                        /\ p[i].last <=> i = r.head
                        /\ p[i].garbled <=> i = 1 /\ r.wrong = "garbled"
    BY <1>2
<1> QED
    BY <1>1, <1>4, <1>5 DEF p, n, Size

LEMMA ShapedFarther ==
    ASSUME NEW s, NEW n \in Nat, NEW q, Shaped(q, n, s),
           \A k \in 1 .. n + 1 : s[k] \in Request
    PROVE  Shaped(q \o Parts(n + 1, s[n + 1]), n + 1, s)
<1> DEFINE r == s[n + 1]
           p == Parts(n + 1, r)
           t == q \o p
<1>r. r \in Request
    OBVIOUS
<1>1. /\ q \in Seq(Part) /\ p \in Seq(Part) /\ Len(p) = Size(r) /\ Size(r) \in Nat
      /\ \A i \in 1 .. Size(r) : p[i].of = n + 1
    BY <1>r, PartsShape DEF Shaped
<1> HIDE DEF p, r
<1>2. /\ t \in Seq(Part)
      /\ Len(t) = Len(q) + Len(p)
      /\ \A j \in 1 .. Len(q) : t[j] = q[j]
      /\ \A i \in 1 .. Len(p) : t[Len(q) + i] = p[i]
  <2>1. q \in Seq(Part) /\ p \in Seq(Part)
      BY <1>1
  <2> QED
      BY <2>1, ConcatShape
<1> DEFINE m == Len(q)
<1>3. m \in Nat
    BY <1>1
<1> HIDE DEF t, m
<1>4. ASSUME NEW j \in 1 .. m + Size(r)
      PROVE  \/ j \in 1 .. m /\ t[j] = q[j] /\ t[j].of \in 1 .. n
             \/ j > m /\ t[j].of = n + 1
  <2>1. CASE j <= m
      BY <1>2, <1>3, <2>1 DEF m, Shaped
  <2>2. CASE j > m
    <3>1. j - m \in 1 .. Size(r) /\ j = m + (j - m)
        BY <1>1, <1>3, <2>2
    <3>2. t[j] = p[j - m]
        BY <1>1, <1>2, <3>1 DEF m
    <3> QED
        BY <1>1, <2>2, <3>1, <3>2
  <2> QED
      BY <1>1, <1>3, <2>1, <2>2
<1>5. ASSUME NEW k \in 1 .. n PROVE \E b \in Nat : StandsAt(t, k, s[k], b)
  <2>1. PICK b \in Nat : StandsAt(q, k, s[k], b)
      BY DEF Shaped
  <2> DEFINE z == Size(s[k])
  <2>2. Len(t) = m + Size(r) /\ b + z <= m
      BY <1>1, <1>2, <2>1 DEF StandsAt, m
  <2>3. CASE z \in Nat
    <3>1. \A i \in 1 .. z : t[b + i] = Parts(k, s[k])[i]
      <4>1. \A i \in 1 .. z : b + i \in 1 .. m
          BY <1>3, <2>2, <2>3
      <4> QED
          BY <1>2, <2>1, <4>1 DEF StandsAt, m
    <3>2. \A j \in 1 .. Len(t) : /\ j <= b <=> t[j].of < k
                                 /\ j > b + z <=> t[j].of > k
      <4> SUFFICES ASSUME NEW j \in 1 .. m + Size(r)
                   PROVE  /\ j <= b <=> t[j].of < k
                          /\ j > b + z <=> t[j].of > k
          BY <2>2
      <4>1. CASE j \in 1 .. m /\ t[j] = q[j]
          BY <2>1, <4>1 DEF StandsAt, m
      <4>2. CASE j > m /\ t[j].of = n + 1
          BY <1>1, <1>3, <2>2, <2>3, <4>2
      <4> QED
          BY <1>4, <4>1, <4>2
    <3>3. b + z <= Len(t)
        BY <1>1, <1>3, <2>2, <2>3
    <3> QED
        BY <3>1, <3>2, <3>3 DEF StandsAt
  <2>4. s[k] \in Request
      OBVIOUS
  <2> QED
      BY <2>3, <2>4, PartsShape
<1>6. StandsAt(t, n + 1, r, m)
  <2>1. \A i \in 1 .. Size(r) : t[m + i] = Parts(n + 1, r)[i]
      BY <1>1, <1>2 DEF p, m
  <2>2. \A j \in 1 .. m + Size(r) : /\ j <= m <=> t[j].of < n + 1
                                    /\ j > m + Size(r) <=> t[j].of > n + 1
      BY <1>1, <1>3, <1>4
  <2> QED
      BY <1>1, <1>2, <1>3, <2>1, <2>2 DEF StandsAt, m
<1>7. \A j \in 1 .. Len(t) : t[j].of \in 1 .. n + 1
  <2>1. Len(t) = m + Size(r)
      BY <1>1, <1>2 DEF m
  <2> QED
      BY <1>4, <2>1
<1>8. \A k \in 1 .. n + 1 : \E b \in Nat : StandsAt(t, k, s[k], b)
  <2>1. ASSUME NEW k \in 1 .. n + 1 PROVE k \in 1 .. n \/ k = n + 1
      OBVIOUS
  <2> QED
      BY <1>3, <1>5, <1>6, <2>1 DEF r
<1>9. Shaped(t, n + 1, s)
    BY <1>2, <1>7, <1>8 DEF Shaped
<1> QED
    BY <1>9 DEF t, p, r

\* What FlattenSeq leaves of the parts of all requests, one after the other.
LEMMA FlattenShape ==
    ASSUME NEW s \in Seq(Request)
    PROVE  Shaped(FlattenSeq([k \in DOMAIN s |-> Parts(k, s[k])]), Len(s), s)
<1> DEFINE seqs == [k \in DOMAIN s |-> Parts(k, s[k])]
           n == Len(s)
           Is(f) == f = [i \in 1 .. Len(seqs) |-> IF i = 1 THEN seqs[i] ELSE f[i - 1] \o seqs[i]]
           flatten == CHOOSE f : Is(f)
<1>1. n \in Nat /\ Len(seqs) = n /\ DOMAIN seqs = 1 .. n
    OBVIOUS
<1>2. \A k \in 1 .. n : /\ s[k] \in Request /\ seqs[k] = Parts(k, s[k])
                        /\ seqs[k] \in Seq(Part)
    BY PartsShape
<1>3. FlattenSeq(seqs) = IF n = 0 THEN seqs ELSE flatten[n]
  <2>1. FlattenSeq(seqs) = IF Len(seqs) = 0 THEN seqs ELSE flatten[Len(seqs)]
      BY DEF FlattenSeq
  <2> HIDE DEF flatten, seqs
  <2> QED
      BY <1>1, <2>1
<1> HIDE DEF seqs
<1>4. CASE n = 0
  <2>1. seqs = <<>>
      BY <1>1, <1>4
  <2>2. Shaped(<<>>, 0, s)
      BY DEF Shaped
  <2> QED
      BY <1>3, <1>4, <2>1, <2>2 DEF seqs
<1>5. CASE n # 0
  <2> DEFINE step == [y \in Nat \X Seq(Part) |->
                        IF y[1] + 1 < n THEN y[2] \o seqs[y[1] + 2] ELSE y[2]]
  <2>1. step \in [Nat \X Seq(Part) -> Seq(Part)]
    <3>1. ASSUME NEW y \in Nat \X Seq(Part), y[1] + 1 < n
          PROVE  y[2] \o seqs[y[1] + 2] \in Seq(Part)
      <4>1. y[2] \in Seq(Part) /\ seqs[y[1] + 2] \in Seq(Part)
        <5>1. y[1] + 2 \in 1 .. n
            BY <1>1, <3>1
        <5> QED
            BY <1>2, <5>1
      <4> QED
          BY <4>1, ConcatShape
    <3> QED
        BY <3>1
  <2>2. \A m \in Nat, q \in Seq(Part) :
            step[<<m, q>>] = IF m + 1 < n THEN q \o seqs[m + 2] ELSE q
      OBVIOUS
  <2> HIDE DEF step
  <2>3. seqs[1] \in Seq(Part)
      BY <1>1, <1>2, <1>5
  <2> DEFINE X == Seq(Part)
             first == seqs[1]
  <2>x. first \in X /\ step \in [Nat \X X -> X]
      BY <2>1, <2>3
  <2> HIDE DEF X, first
  <2>y. PICK g \in [Nat -> X] : Recurs(g, first, step)
      BY <2>x, RecursionExists
  <2>4. g[0] = first /\ \A m \in Nat : g[m + 1] = step[<<m, g[m]>>]
      BY <2>y DEF Recurs
  <2> USE DEF X, first
  <2>5. Is([i \in 1 .. n |-> g[i - 1]])
    <3> DEFINE f == [i \in 1 .. n |-> g[i - 1]]
    <3>1. ASSUME NEW i \in 1 .. n
          PROVE  f[i] = IF i = 1 THEN seqs[i] ELSE f[i - 1] \o seqs[i]
      <4>1. CASE i = 1
        <5>1. f[i] = g[0]
            BY <4>1
        <5> QED
            BY <2>4, <4>1, <5>1
      <4>2. CASE i # 1
        <5>1. i - 2 \in Nat /\ (i - 2) + 1 = i - 1 /\ (i - 2) + 1 < n /\ (i - 2) + 2 = i
              /\ i - 1 \in 1 .. n /\ (i - 1) - 1 = i - 2
          <6>1. n \in Nat /\ i \in Nat /\ 1 <= i /\ i <= n
              BY <1>1
          <6> HIDE DEF n
          <6> QED
              BY <4>2, <6>1
        <5>2. g[i - 1] = step[<<i - 2, g[i - 2]>>] /\ g[i - 2] \in Seq(Part)
            BY <2>4, <5>1
        <5>3. g[i - 1] = g[i - 2] \o seqs[i]
            BY <2>2, <5>1, <5>2
        <5> QED
            BY <4>2, <5>1, <5>3
      <4> QED
          BY <4>1, <4>2
    <3>2. f = [i \in 1 .. n |-> f[i]]
        OBVIOUS
    <3> HIDE DEF f
    <3>3. Is(f)
        BY <1>1, <3>1, <3>2
    <3> QED
        BY <3>3 DEF f
  <2>6. Is(flatten)
      BY <2>5
  <2>7. /\ flatten[1] = seqs[1]
        /\ \A i \in 2 .. n : flatten[i] = flatten[i - 1] \o seqs[i]
    <3> HIDE DEF flatten
    <3>1. \A i \in 1 .. n : flatten[i] = IF i = 1 THEN seqs[i] ELSE flatten[i - 1] \o seqs[i]
        BY <1>1, <2>6
    <3>2. 1 \in 1 .. n /\ \A i \in 2 .. n : i \in 1 .. n /\ i # 1
        BY <1>1, <1>5
    <3> QED
        BY <3>1, <3>2
  <2> HIDE DEF flatten
  <2> DEFINE S == {m \in Nat : m < n => Shaped(flatten[m + 1], m + 1, s)}
  <2>8. 0 \in S
    <3>1. Shaped(<<>>, 0, s)
        BY DEF Shaped
    <3>2. s[1] \in Request /\ \A k \in 1 .. 0 + 1 : s[k] \in Request
        BY <1>1, <1>2, <1>5
    <3>3. Shaped(<<>> \o Parts(0 + 1, s[0 + 1]), 0 + 1, s)
        BY <3>1, <3>2, ShapedFarther
    <3>4. Parts(1, s[1]) \in Seq(Part)
        BY <3>2, PartsShape
    <3>5. <<>> \o Parts(1, s[1]) = Parts(1, s[1])
        BY <3>4
    <3>6. flatten[1] = Parts(1, s[1])
        BY <1>1, <1>2, <1>5, <2>7
    <3> QED
        BY <3>3, <3>5, <3>6
  <2>9. ASSUME NEW m \in Nat, m \in S PROVE m + 1 \in S
    <3> SUFFICES ASSUME m + 1 < n PROVE Shaped(flatten[(m + 1) + 1], (m + 1) + 1, s)
        OBVIOUS
    <3>1. Shaped(flatten[m + 1], m + 1, s)
        BY <1>1, <2>9
    <3>2. \A k \in 1 .. (m + 1) + 1 : s[k] \in Request
        BY <1>1, <1>2
    <3>3. Shaped(flatten[m + 1] \o Parts((m + 1) + 1, s[(m + 1) + 1]), (m + 1) + 1, s)
        BY <3>1, <3>2, ShapedFarther
    <3>4. (m + 1) + 1 \in 2 .. n /\ ((m + 1) + 1) - 1 = m + 1
        BY <1>1
    <3>5. flatten[(m + 1) + 1] = flatten[m + 1] \o seqs[(m + 1) + 1]
        BY <2>7, <3>4
    <3>6. seqs[(m + 1) + 1] = Parts((m + 1) + 1, s[(m + 1) + 1])
        BY <1>2, <3>4
    <3> QED
        BY <3>3, <3>5, <3>6
  <2> HIDE DEF S
  <2>10. n - 1 \in S
    <3>1. Nat \subseteq S
        BY <2>8, <2>9, AllNaturals
    <3> QED
        BY <1>1, <1>5, <3>1
  <2>11. n - 1 < n /\ (n - 1) + 1 = n
      BY <1>1
  <2>12. Shaped(flatten[n], n, s)
      BY <2>10, <2>11 DEF S
  <2> QED
      BY <1>1, <1>3, <1>5, <2>12 DEF seqs
<1> QED
    BY <1>4, <1>5

LEMMA StreamShape ==
    ASSUME NEW s \in AllScripts
    PROVE  s \in Seq(Request) /\ Shaped(Stream[s], Len(s), s)
<1>1. s \in Seq(Request)
    BY ConnectionAssumption DEF AllScripts
<1>2. Stream[s] = FlattenSeq([k \in DOMAIN s |-> Parts(k, s[k])])
    BY DEF Stream
<1> QED
    BY <1>1, <1>2, FlattenShape

\* Where the parts of a request begin.
Begin(s, k) == CHOOSE b \in Nat : StandsAt(Stream[s], k, s[k], b)

LEMMA BeginStands ==
    ASSUME NEW s \in AllScripts, NEW k \in DOMAIN s
    PROVE  Begin(s, k) \in Nat /\ StandsAt(Stream[s], k, s[k], Begin(s, k))
<1>1. s \in Seq(Request) /\ Shaped(Stream[s], Len(s), s)
    BY StreamShape
<1>2. k \in 1 .. Len(s)
    BY <1>1
<1>3. \E b \in Nat : StandsAt(Stream[s], k, s[k], b)
    BY <1>1, <1>2 DEF Shaped
<1> QED
    BY <1>3 DEF Begin

\* The part at j is one of its request, the only one that begins or ends its
\* head there; the parts of a request are those between its bounds.
LEMMA PartAt ==
    ASSUME NEW s \in AllScripts, NEW j \in 1 .. Len(Stream[s])
    PROVE  LET p == Stream[s][j] IN
           /\ p.of \in DOMAIN s
           /\ Begin(s, p.of) < j /\ j <= Begin(s, p.of) + Size(s[p.of])
           /\ p.first <=> j = Begin(s, p.of) + 1
           /\ p.last <=> j = Begin(s, p.of) + s[p.of].head
           /\ p.garbled <=> j = Begin(s, p.of) + 1 /\ s[p.of].wrong = "garbled"
<1> DEFINE k == Stream[s][j].of
           r == s[k]
           b == Begin(s, k)
           i == j - b
<1>1. s \in Seq(Request) /\ k \in 1 .. Len(s) /\ Len(Stream[s]) \in Nat
    BY StreamShape DEF Shaped
<1>2. k \in DOMAIN s /\ k \in Nat /\ r \in Request
    BY <1>1
<1>3. b \in Nat /\ StandsAt(Stream[s], k, r, b)
    BY <1>2, BeginStands
<1>4. /\ Size(r) \in Nat \ {0}
      /\ \A m \in 1 .. Size(r) :
            /\ Parts(k, r)[m].first <=> m = 1
            /\ Parts(k, r)[m].last <=> m = r.head
            /\ Parts(k, r)[m].garbled <=> m = 1 /\ r.wrong = "garbled"
      /\ r.head \in Nat
    BY <1>2, PartsShape
<1>5. b < j /\ j <= b + Size(r)
    BY <1>1, <1>2, <1>3, <1>4 DEF StandsAt
<1> HIDE DEF b, r
<1>6. i \in 1 .. Size(r) /\ j = b + i
  <2>1. b \in Nat /\ j \in Nat /\ Size(r) \in Nat
      BY <1>1, <1>3, <1>4
  <2> QED
      BY <1>5, <2>1
<1>7. Stream[s][j] = Parts(k, r)[i]
    BY <1>3, <1>6 DEF StandsAt
<1>8. /\ Stream[s][j].first <=> j = b + 1
      /\ Stream[s][j].last <=> j = b + r.head
      /\ Stream[s][j].garbled <=> j = b + 1 /\ r.wrong = "garbled"
  <2>1. (i = 1 <=> j = b + 1) /\ (i = r.head <=> j = b + r.head)
    <3>1. b \in Nat /\ j \in Nat /\ r.head \in Nat
        BY <1>1, <1>3, <1>4
    <3> QED
        BY <3>1
  <2>2. /\ Parts(k, r)[i].first <=> i = 1
        /\ Parts(k, r)[i].last <=> i = r.head
        /\ Parts(k, r)[i].garbled <=> i = 1 /\ r.wrong = "garbled"
      BY <1>4, <1>6
  <2> HIDE DEF i, k
  <2> QED
      BY <1>7, <2>1, <2>2, Zenon
<1> QED
    BY <1>2, <1>5, <1>8 DEF b, r

\* The parts of a request stand before those of the next.
LEMMA RequestsInOrder ==
    ASSUME NEW s \in AllScripts, NEW k \in DOMAIN s
    PROVE  /\ k \in 1 .. Len(s) /\ Len(s) \in Nat /\ s[k] \in Request
           /\ Begin(s, k) \in Nat /\ s[k].head \in Nat \ {0} /\ s[k].body \in Nat
           /\ Begin(s, k) + Size(s[k]) <= Len(Stream[s])
           /\ \A j \in 1 .. Len(Stream[s]) :
                /\ Stream[s][j].of < k <=> j <= Begin(s, k)
                /\ Stream[s][j].of > k <=> j > Begin(s, k) + Size(s[k])
           /\ Stream[s][Begin(s, k) + s[k].head].last
           /\ Stream[s][Begin(s, k) + s[k].head].of = k
           /\ \A m \in DOMAIN s : m < k => Begin(s, m) + Size(s[m]) <= Begin(s, k)
<1>1. s \in Seq(Request) /\ Shaped(Stream[s], Len(s), s)
    BY StreamShape
<1>2. k \in 1 .. Len(s) /\ Len(s) \in Nat /\ s[k] \in Request /\ k \in Nat
    BY <1>1
<1>3. Begin(s, k) \in Nat /\ StandsAt(Stream[s], k, s[k], Begin(s, k))
    BY BeginStands
<1>4. /\ s[k].head \in Nat \ {0} /\ s[k].body \in Nat
      /\ Size(s[k]) = s[k].head + s[k].body
      /\ \A i \in 1 .. Size(s[k]) : /\ Parts(k, s[k])[i].of = k
                                    /\ Parts(k, s[k])[i].last <=> i = s[k].head
    BY <1>2, PartsShape DEF Size
<1>5. /\ Stream[s][Begin(s, k) + s[k].head].last
      /\ Stream[s][Begin(s, k) + s[k].head].of = k
  <2>1. s[k].head \in 1 .. Size(s[k])
      BY <1>4
  <2>2. Stream[s][Begin(s, k) + s[k].head] = Parts(k, s[k])[s[k].head]
      BY <1>3, <2>1 DEF StandsAt
  <2>3. Parts(k, s[k])[s[k].head].last /\ Parts(k, s[k])[s[k].head].of = k
      BY <1>4, <2>1
  <2> QED
      BY <2>2, <2>3, Zenon
<1>6. ASSUME NEW m \in DOMAIN s, m < k
      PROVE  Begin(s, m) + Size(s[m]) <= Begin(s, k)
  <2> DEFINE j == Begin(s, m) + Size(s[m])
  <2>1. m \in Nat /\ s[m] \in Request
      BY <1>1
  <2>2. Begin(s, m) \in Nat /\ StandsAt(Stream[s], m, s[m], Begin(s, m))
      BY BeginStands
  <2>3. Size(s[m]) \in Nat \ {0} /\ Parts(m, s[m])[Size(s[m])].of = m
      BY <2>1, PartsShape
  <2>4. Stream[s][j] = Parts(m, s[m])[Size(s[m])] /\ j <= Len(Stream[s])
      BY <2>2, <2>3 DEF StandsAt
  <2>5. j \in 1 .. Len(Stream[s]) /\ Stream[s][j].of < k
      BY <1>1, <1>6, <2>2, <2>3, <2>4 DEF Shaped
  <2> HIDE DEF j
  <2> QED
      BY <1>3, <2>5 DEF StandsAt, j
<1> QED
    BY <1>2, <1>3, <1>4, <1>5, <1>6 DEF StandsAt

-----------------------------------------------------------------------------
(* The calls of process_request *)

\* What each call takes on from the one before it, the last one leaves behind.
LEMMA PipelinedSteps ==
    ASSUME NEW c, NEW k, NEW S, Len(peer[c].script) \in Nat, k \in S[0],
           \A n \in Nat : \A x \in S[n] : Again(c, x) \in S[n + 1]
    PROVE  Pipelined(c, k) \in S[Len(peer[c].script) + 1]
<1> DEFINE X == UNION {S[n] : n \in Nat}
           step == [x \in X |-> Again(c, x)]
           Is(f) == f = [n \in Nat |-> IF n = 0 THEN k ELSE Again(c, f[n - 1])]
           calls == CHOOSE f : Is(f)
<1>1. k \in X /\ step \in [X -> X] /\ \A x \in X : step[x] = Again(c, x)
    OBVIOUS
<1> HIDE DEF X, step
<1>2. PICK g \in [Nat -> X] : Iterates(g, k, step)
    BY <1>1, IterationExists
<1>3. ASSUME NEW n \in Nat PROVE g[n] = IF n = 0 THEN k ELSE Again(c, g[n - 1])
  <2>1. CASE n # 0
    <3>1. n - 1 \in Nat /\ (n - 1) + 1 = n
        BY <2>1
    <3>2. g[(n - 1) + 1] = step[g[n - 1]] /\ g[n - 1] \in X
        BY <1>2, <3>1 DEF Iterates
    <3> QED
        BY <1>1, <2>1, <3>1, <3>2
  <2> QED
      BY <2>1, <1>2 DEF Iterates
<1>4. Is(g)
    BY <1>3
<1>5. Is(calls)
    BY <1>4
<1>6. Pipelined(c, k) = calls[Len(peer[c].script) + 1]
    BY DEF Pipelined
<1> HIDE DEF calls
<1>7. /\ calls[0] = k
      /\ \A n \in Nat : calls[n + 1] = Again(c, calls[n])
  <2>1. \A n \in Nat : calls[n] = IF n = 0 THEN k ELSE Again(c, calls[n - 1])
      BY <1>5
  <2>2. \A n \in Nat : n + 1 \in Nat /\ n + 1 # 0 /\ (n + 1) - 1 = n
      OBVIOUS
  <2> QED
      BY <2>1, <2>2
<1> DEFINE T == {n \in Nat : calls[n] \in S[n]}
<1>8. 0 \in T /\ \A n \in Nat : n \in T => n + 1 \in T
  <2>1. 0 \in T
      BY <1>7
  <2>2. ASSUME NEW n \in Nat, calls[n] \in S[n] PROVE calls[n + 1] \in S[n + 1]
      BY <1>7, <2>2
  <2> QED
      BY <2>1, <2>2
<1> HIDE DEF T
<1>9. Len(peer[c].script) + 1 \in T
    BY <1>8, AllNaturals
<1> QED
    BY <1>6, <1>9 DEF T

-----------------------------------------------------------------------------
(* A connection, and what the operations leave of it *)

Flags == {"CLOSE_IMMEDIATELY", "FINISHED_SENDING_DATA"}
PieceNames == {"error", "whole", "head", "chunk", "end", "continue"}
Piece == [of : Nat, part : PieceNames, feed : Nat]
ConnType ==
    [open : {"no", "yes", "gone"}, data : BOOLEAN, flags : SUBSET Flags,
     endpoint_type : {"NONE", "USER"}, got : Nat, eaten : Nat,
     out : Seq(Piece), flushed : Nat, request : Nat, request_len : {-1, 0, 1},
     age : Nat, again : BOOLEAN]

\* The buffers hold what is taken from them, and the head of the request at
\* hand was the last to be taken.
ConnOK(c, k) ==
    /\ k \in ConnType
    /\ k.eaten <= k.got /\ k.got <= Len(stream(c)) /\ k.flushed <= Len(k.out)
    /\ k.request = 0 => k.request_len # 1
    /\ k.request # 0 =>
        /\ k.request \in DOMAIN peer[c].script /\ k.request_len = 1
        /\ k.eaten = Begin(peer[c].script, k.request) + ReqOf(c, k.request).head
    /\ k.endpoint_type = "USER" =>
        k.request # 0 /\ ReqOf(c, k.request).wrong \notin {"uri", "version"}

\* What processing requests leaves alone.
SameSocket(k, r) ==
    /\ r.open = k.open /\ r.data = k.data /\ r.age = k.age
    /\ r.got = k.got /\ r.flushed = k.flushed

LEMMA RequestOfConn ==
    ASSUME NEW c, peer[c].script \in AllScripts, NEW k, ConnOK(c, k)
    PROVE  /\ k.request # 0 => ReqOf(c, k.request) \in Request
           /\ ContentLen(c, k) \in Nat
           /\ Len(stream(c)) \in Nat
<1>1. Shaped(stream(c), Len(peer[c].script), peer[c].script)
    BY StreamShape DEF stream
<1>2. Len(stream(c)) \in Nat
    BY <1>1 DEF Shaped
<1>3. CASE k.request # 0
  <2>1. k.request \in DOMAIN peer[c].script
      BY <1>3 DEF ConnOK
  <2>2. ReqOf(c, k.request) \in Request
      BY <2>1, RequestsInOrder DEF ReqOf
  <2> QED
      BY <1>2, <1>3, <2>2 DEF ContentLen, Request
<1>4. CASE k.request = 0
    BY <1>2, <1>4 DEF ContentLen
<1> QED
    BY <1>3, <1>4

EatenAfter(k, n) == IF n <= k.got - k.eaten THEN k.eaten + n ELSE k.eaten

LEMMA RemoveOK ==
    ASSUME NEW k \in ConnType, k.eaten <= k.got, NEW n \in Nat
    PROVE  LET e == EatenAfter(k, n) IN
           /\ iobuf_remove(k, n) = [k EXCEPT !.eaten = e]
           /\ e \in Nat /\ k.eaten <= e /\ e <= k.got
<1>1. k.eaten \in Nat /\ k.got \in Nat
    BY DEF ConnType
<1>2. k = [k EXCEPT !.eaten = k.eaten]
    BY DEF ConnType
<1>3. CASE n <= k.got - k.eaten
  <2>1. iobuf_remove(k, n) = [k EXCEPT !.eaten = k.eaten + n]
      BY <1>3 DEF iobuf_remove, Buffered
  <2>2. EatenAfter(k, n) = k.eaten + n
      BY <1>3 DEF EatenAfter
  <2> QED
      BY <1>1, <1>3, <2>1, <2>2
<1>4. CASE ~(n <= k.got - k.eaten)
  <2>1. iobuf_remove(k, n) = k
      BY <1>4 DEF iobuf_remove, Buffered
  <2>2. EatenAfter(k, n) = k.eaten
      BY <1>4 DEF EatenAfter
  <2> QED
      BY <1>1, <1>2, <2>1, <2>2
<1> QED
    BY <1>3, <1>4

AnswersWith(k, r, what, version) ==
    \E out \in Seq(Piece) :
       /\ r = [k EXCEPT !.out = out]
       /\ Len(out) = Len(k.out) + Len(what)
       /\ \A i \in 1 .. Len(k.out) : out[i] = k.out[i]
       /\ \A i \in 1 .. Len(what) :
            out[Len(k.out) + i] = [of |-> k.request, part |-> what[i], feed |-> version]

LEMMA AnswerOK ==
    ASSUME NEW k \in ConnType, NEW what \in Seq(PieceNames), NEW version \in Nat
    PROVE  AnswersWith(k, Answer(k, what, version), what, version)
<1> DEFINE new == [i \in DOMAIN what |->
                      [of |-> k.request, part |-> what[i], feed |-> version]]
           out == k.out \o new
<1>1. k.out \in Seq(Piece) /\ k.request \in Nat
    BY DEF ConnType
<1>2. \A i \in DOMAIN what : new[i] \in Piece
    BY <1>1 DEF Piece
<1>3. new \in Seq(Piece) /\ Len(new) = Len(what)
    BY <1>2
<1>4. Answer(k, what, version) = [k EXCEPT !.out = out]
    BY DEF Answer
<1>5. \A i \in 1 .. Len(what) :
        new[i] = [of |-> k.request, part |-> what[i], feed |-> version]
    OBVIOUS
<1> HIDE DEF new
<1>6. /\ out \in Seq(Piece)
      /\ Len(out) = Len(k.out) + Len(new)
      /\ \A i \in 1 .. Len(k.out) : out[i] = k.out[i]
      /\ \A i \in 1 .. Len(new) : out[Len(k.out) + i] = new[i]
  <2>1. k.out \in Seq(Piece) /\ new \in Seq(Piece)
      BY <1>1, <1>3
  <2> QED
      BY <2>1, ConcatShape
<1> HIDE DEF out
<1> QED
    BY <1>3, <1>4, <1>5, <1>6 DEF AnswersWith

LEMMA CloseOK ==
    ASSUME NEW c, NEW k \in ConnType, k.eaten <= k.got, ContentLen(c, k) \in Nat
    PROVE  LET r == close_local_endpoint(c, k) IN
           /\ r \in ConnType /\ SameSocket(k, r)
           /\ r.out = k.out /\ r.request = 0 /\ r.request_len = 0 /\ r.endpoint_type = "NONE"
           /\ r.again = KeepAlive(c, k)
           /\ r.flags = IF KeepAlive(c, k) THEN {} ELSE {CloseFlag(k)}
           /\ r.eaten = EatenAfter(k, ContentLen(c, k))
           /\ k.eaten <= r.eaten /\ r.eaten <= k.got
<1> DEFINE e == EatenAfter(k, ContentLen(c, k))
           keep == KeepAlive(c, k)
           r == close_local_endpoint(c, k)
<1>1. /\ iobuf_remove(k, ContentLen(c, k)) = [k EXCEPT !.eaten = e]
      /\ e \in Nat /\ k.eaten <= e /\ e <= k.got
    BY RemoveOK
<1> DEFINE flags == IF keep THEN {} ELSE {CloseFlag(k)}
<1>2. r = [k EXCEPT !.eaten = e, !.endpoint_type = "NONE", !.request_len = 0, !.request = 0,
              !.flags = flags, !.again = keep]
    BY <1>1 DEF close_local_endpoint, Reset, ProcessesNext
<1>3. keep \in BOOLEAN /\ flags \in SUBSET Flags
    BY DEF KeepAlive, CloseFlag, Flags
<1> HIDE DEF e, keep, r, flags
<1>4. r \in ConnType
    BY <1>1, <1>2, <1>3 DEF ConnType
<1>5. SameSocket(k, r) /\ r.out = k.out /\ r.eaten = e
      /\ r.request = 0 /\ r.request_len = 0 /\ r.endpoint_type = "NONE"
      /\ r.again = keep /\ r.flags = flags
    BY <1>2 DEF ConnType, SameSocket
<1> QED
    BY <1>1, <1>4, <1>5 DEF r, e, keep, flags

\* The head that ends the buffer's first, if the scan comes that far.
FirstHead(c, k, j) ==
    /\ j \in HeadEnds(c, k) /\ \A i \in HeadEnds(c, k) : j <= i
    /\ \A i \in Garbled(c, k) : ~(i <= j)

SpoiltFirst(c, k) == \E i \in Garbled(c, k) : \A j \in HeadEnds(c, k) : i <= j

LEMMA RequestLen ==
    ASSUME NEW c, NEW k, k.eaten \in Nat, k.got \in Nat
    PROVE  \/ get_request_len(c, k) = -1 /\ SpoiltFirst(c, k)
           \/ get_request_len(c, k) = 0 /\ ~SpoiltFirst(c, k) /\ HeadEnds(c, k) = {}
           \/ \E j \in HeadEnds(c, k) :
                /\ ~SpoiltFirst(c, k) /\ FirstHead(c, k, j)
                /\ get_request_len(c, k) = j - k.eaten
                /\ j - k.eaten \in Nat \ {0} /\ j <= k.got
<1>1. CASE SpoiltFirst(c, k)
    BY <1>1 DEF get_request_len, SpoiltFirst
<1>2. CASE ~SpoiltFirst(c, k) /\ HeadEnds(c, k) = {}
    BY <1>2 DEF get_request_len, SpoiltFirst
<1>3. CASE ~SpoiltFirst(c, k) /\ HeadEnds(c, k) # {}
  <2> DEFINE First(i) == i \in HeadEnds(c, k) /\ \A j \in HeadEnds(c, k) : i <= j
             i0 == CHOOSE i \in HeadEnds(c, k) : \A j \in HeadEnds(c, k) : i <= j
  <2>1. HeadEnds(c, k) \subseteq Nat
      BY DEF HeadEnds
  <2>2. PICK m \in HeadEnds(c, k) : \A j \in HeadEnds(c, k) : m <= j
      BY <1>3, <2>1, LeastExists
  <2>3. i0 \in HeadEnds(c, k) /\ \A j \in HeadEnds(c, k) : i0 <= j
      BY <2>2
  <2>4. get_request_len(c, k) = i0 - k.eaten
      BY <1>3 DEF get_request_len, SpoiltFirst
  <2> HIDE DEF i0
  <2>5. i0 - k.eaten \in Nat \ {0} /\ i0 <= k.got
      BY <2>3 DEF HeadEnds
  <2>6. \A i \in Garbled(c, k) : ~(i <= i0)
    <3> SUFFICES ASSUME NEW i \in Garbled(c, k), i <= i0 PROVE FALSE
        OBVIOUS
    <3>1. \A j \in HeadEnds(c, k) : i <= j
        BY <2>1, <2>3 DEF Garbled
    <3> QED
        BY <1>3, <3>1 DEF SpoiltFirst
  <2> QED
      BY <1>3, <2>3, <2>4, <2>5, <2>6 DEF FirstHead
<1> QED
    BY <1>1, <1>2, <1>3

\* What a parse leaves: the same connection, the next head taken from its buffer
\* or the buffer found spoilt.
TookHead(c, k, r, j) ==
    /\ FirstHead(c, k, j)
    /\ r.eaten = j /\ k.eaten < j
    /\ r.request = RequestIn(c, stream(c)[k.eaten + 1], stream(c)[j])
    /\ r.request_len = IF r.request = 0 THEN -1 ELSE 1

ParsedAs(c, k, r) ==
    \/ r = k /\ (k.request_len = 0 => HeadEnds(c, k) = {} /\ ~SpoiltFirst(c, k))
    \/ /\ k.request_len = 0
       /\ \/ SpoiltFirst(c, k) /\ r.eaten = k.eaten /\ r.request = 0 /\ r.request_len = -1
          \/ \E j \in HeadEnds(c, k) : TookHead(c, k, r, j)

LEMMA RequestInOK ==
    ASSUME NEW c, peer[c].script \in AllScripts, NEW a \in 1 .. Len(stream(c)),
           NEW j \in 1 .. Len(stream(c)), stream(c)[j].last,
           RequestIn(c, stream(c)[a], stream(c)[j]) # 0
    PROVE  LET n == RequestIn(c, stream(c)[a], stream(c)[j]) IN
           /\ n = stream(c)[j].of /\ n \in DOMAIN peer[c].script /\ n \in Nat
           /\ j = Begin(peer[c].script, n) + ReqOf(c, n).head
           /\ a = Begin(peer[c].script, n) + 1
           /\ ReqOf(c, n).wrong # "malformed"
<1> DEFINE s == peer[c].script
           n == stream(c)[j].of
<1>1. /\ n \in DOMAIN s /\ n \in Nat
      /\ j = Begin(s, n) + s[n].head
  <2>1. n \in DOMAIN s /\ (stream(c)[j].last <=> j = Begin(s, n) + s[n].head)
      BY PartAt DEF stream
  <2> QED
      BY <2>1, RequestsInOrder
<1>2. /\ RequestIn(c, stream(c)[a], stream(c)[j]) = n
      /\ stream(c)[a].first /\ stream(c)[a].of = n /\ ReqOf(c, n).wrong # "malformed"
    BY DEF RequestIn
<1>3. a = Begin(s, n) + 1
  <2>1. stream(c)[a].first <=> a = Begin(s, stream(c)[a].of) + 1
      BY PartAt DEF stream
  <2> QED
      BY <1>2, <2>1
<1> QED
    BY <1>1, <1>2, <1>3 DEF ReqOf

LEMMA ParseOK ==
    ASSUME NEW c, peer[c].script \in AllScripts, NEW k, ConnOK(c, k)
    PROVE  LET r == try_parse(c, k) IN
           /\ ConnOK(c, r) /\ SameSocket(k, r) /\ ParsedAs(c, k, r)
           /\ r.out = k.out /\ r.flags = k.flags /\ r.endpoint_type = k.endpoint_type
           /\ r.again = k.again
<1> DEFINE r == try_parse(c, k)
           len == get_request_len(c, k)
           s == peer[c].script
<1>1. k \in ConnType /\ k.eaten \in Nat /\ k.got \in Nat /\ k.eaten <= k.got
      /\ k.got <= Len(stream(c)) /\ Len(stream(c)) \in Nat /\ k.request_len \in {-1, 0, 1}
      /\ (k.request_len = 0 => k.request = 0 /\ k.endpoint_type # "USER")
    BY RequestOfConn DEF ConnOK, ConnType
<1>2. CASE k.request_len # 0
  <2>1. r = k
      BY <1>2 DEF try_parse, ParseUpTo
  <2> QED
      BY <1>2, <2>1 DEF SameSocket, ParsedAs
<1>3. CASE k.request_len = 0 /\ len = 0
  <2>1. r = k
      BY <1>3 DEF try_parse, ParseUpTo
  <2>2. HeadEnds(c, k) = {} /\ ~SpoiltFirst(c, k)
      BY <1>1, <1>3, RequestLen
  <2> QED
      BY <2>1, <2>2 DEF SameSocket, ParsedAs
<1>4. CASE k.request_len = 0 /\ len = -1
  <2>1. r = [k EXCEPT !.request_len = -1]
      BY <1>4 DEF try_parse, ParseUpTo
  <2>2. SpoiltFirst(c, k)
      BY <1>1, <1>4, RequestLen
  <2>3. r \in ConnType /\ r.request_len = -1
      BY <1>1, <2>1 DEF ConnType
  <2>4. /\ SameSocket(k, r) /\ r.out = k.out /\ r.flags = k.flags /\ r.again = k.again
        /\ r.endpoint_type = k.endpoint_type /\ r.request = k.request /\ r.eaten = k.eaten
      BY <2>1 DEF SameSocket
  <2> HIDE DEF r
  <2>5. ConnOK(c, r)
      BY <1>1, <1>4, <2>3, <2>4 DEF ConnOK, SameSocket
  <2>6. ParsedAs(c, k, r)
      BY <1>1, <1>4, <2>2, <2>3, <2>4 DEF ParsedAs
  <2> QED
      BY <2>4, <2>5, <2>6 DEF r
<1>5. CASE k.request_len = 0 /\ len # 0 /\ len # -1
  <2>1. PICK j \in HeadEnds(c, k) :
            /\ FirstHead(c, k, j) /\ len = j - k.eaten
            /\ len \in Nat \ {0} /\ j <= k.got
      BY <1>1, <1>5, RequestLen
  <2>2. j \in Nat /\ k.eaten < j /\ k.eaten + len = j /\ len <= k.got - k.eaten
        /\ stream(c)[j].last
      BY <1>1, <2>1 DEF HeadEnds
  <2> DEFINE n == RequestIn(c, stream(c)[k.eaten + 1], stream(c)[j])
  <2>3. iobuf_remove(k, len) = [k EXCEPT !.eaten = j]
      BY <1>1, <2>1, <2>2, RemoveOK DEF EatenAfter
  <2>4. parse_http_message(c, k, len) = n
      BY <2>2 DEF parse_http_message
  <2>5. r = [k EXCEPT !.eaten = j, !.request = n, !.request_len = IF n = 0 THEN -1 ELSE 1]
    <3>1. r = Parsed(iobuf_remove(k, len), parse_http_message(c, k, len))
      <4>1. k.request_len = 0 /\ len # 0 /\ ~(len < 0)
          BY <1>5, <2>1
      <4> HIDE DEF len
      <4>2. ParseUpTo(c, k, len) = Parsed(iobuf_remove(k, len), parse_http_message(c, k, len))
          BY <4>1 DEF ParseUpTo
      <4> QED
          BY <4>2 DEF try_parse, len
    <3> QED
        BY <2>3, <2>4, <3>1 DEF Parsed
  <2>6. /\ k.eaten + 1 \in 1 .. Len(stream(c)) /\ j \in 1 .. Len(stream(c))
        /\ stream(c)[j].last
      BY <1>1, <2>1, <2>2
  <2>7. n # 0 => /\ n \in DOMAIN s /\ n \in Nat
                 /\ j = Begin(s, n) + ReqOf(c, n).head
      BY <2>6, RequestInOK
  <2> HIDE DEF n, r, len
  <2>8. r \in ConnType
    <3>1. n \in Nat /\ (IF n = 0 THEN -1 ELSE 1) \in {-1, 0, 1}
        BY <2>7
    <3> QED
        BY <1>1, <2>2, <2>5, <3>1 DEF ConnType
  <2>9. /\ SameSocket(k, r) /\ r.out = k.out /\ r.flags = k.flags /\ r.again = k.again
        /\ r.endpoint_type = k.endpoint_type /\ r.request = n /\ r.eaten = j
        /\ r.request_len = IF n = 0 THEN -1 ELSE 1
      BY <1>1, <2>5 DEF SameSocket, ConnType
  <2>10. ConnOK(c, r)
      BY <1>1, <1>5, <2>1, <2>7, <2>8, <2>9 DEF ConnOK, SameSocket
  <2>11. ParsedAs(c, k, r)
      BY <1>5, <2>1, <2>2, <2>9 DEF ParsedAs, TookHead, n
  <2> QED
      BY <2>9, <2>10, <2>11 DEF r
<1> QED
    BY <1>2, <1>3, <1>4, <1>5

\* The answers of r are those of k and some more.
Extends(k, r) ==
    /\ Len(k.out) <= Len(r.out)
    /\ \A i \in 1 .. Len(k.out) : r.out[i] = k.out[i]
More(k, r) == Len(k.out) + 1 .. Len(r.out)

LEMMA ExtendsFarther ==
    ASSUME NEW k \in ConnType, NEW x \in ConnType, NEW r \in ConnType,
           Extends(k, x), Extends(x, r)
    PROVE  /\ Extends(k, r)
           /\ \A i \in More(k, r) : (i \in More(k, x) /\ r.out[i] = x.out[i]) \/ i \in More(x, r)
<1>1. Len(k.out) \in Nat /\ Len(x.out) \in Nat /\ Len(r.out) \in Nat
  <2>1. k.out \in Seq(Piece) /\ x.out \in Seq(Piece) /\ r.out \in Seq(Piece)
      BY DEF ConnType
  <2> QED
      BY <2>1
<1> QED
    BY <1>1 DEF Extends, More

\* The request at hand waits for its body; a 100 may have been sent.
WaitsAs(c, k, r) ==
    /\ ~Refused(c, k) /\ k.request # 0 /\ ~BodyBuffered(c, k)
    /\ r.request = k.request /\ r.request_len = k.request_len /\ r.eaten = k.eaten
    /\ r.flags = k.flags /\ r.again = k.again /\ r.endpoint_type = "USER"
    /\ Extends(k, r)
    /\ \A i \in More(k, r) : r.out[i].of = k.request /\ r.out[i].part = "continue"

LEMMA AttachedOK ==
    ASSUME NEW c, peer[c].script \in AllScripts, NEW k, ConnOK(c, k),
           k.request # 0, ~Refused(c, k)
    PROVE  LET r == Attached(c, k) IN
           /\ ConnOK(c, r) /\ SameSocket(k, r)
           /\ r.request = k.request /\ r.request_len = k.request_len /\ r.eaten = k.eaten
           /\ r.flags = k.flags /\ r.again = k.again /\ r.endpoint_type = "USER"
           /\ Extends(k, r)
           /\ \A i \in More(k, r) : r.out[i].of = k.request /\ r.out[i].part = "continue"
<1>1. k \in ConnType /\ k.out \in Seq(Piece) /\ Len(k.out) \in Nat
    BY DEF ConnOK, ConnType
<1>2. CASE k.endpoint_type = "USER"
    BY <1>1, <1>2 DEF Attached, SameSocket, Extends, More
<1>3. CASE k.endpoint_type # "USER"
  <2> DEFINE x == send_continue_if_expected(c, k)
             r == Attached(c, k)
  <2>1. PICK out \in Seq(Piece) :
            /\ x = [k EXCEPT !.out = out]
            /\ Len(k.out) <= Len(out) /\ \A i \in 1 .. Len(k.out) : out[i] = k.out[i]
            /\ \A i \in Len(k.out) + 1 .. Len(out) :
                out[i].of = k.request /\ out[i].part = "continue"
    <3>1. CASE ReqOf(c, k.request).expects
      <4> DEFINE what == <<"continue">>
      <4>1. what \in Seq(PieceNames) /\ Len(what) = 1 /\ what[1] = "continue"
          BY DEF PieceNames
      <4> HIDE DEF what
      <4>2. x = Answer(k, what, 0)
          BY <3>1 DEF send_continue_if_expected, what
      <4>a. AnswersWith(k, x, what, 0)
          BY <1>1, <4>1, <4>2, AnswerOK
      <4> HIDE DEF x
      <4>3. PICK out \in Seq(Piece) :
                /\ x = [k EXCEPT !.out = out]
                /\ Len(out) = Len(k.out) + Len(what)
                /\ \A i \in 1 .. Len(k.out) : out[i] = k.out[i]
                /\ \A i \in 1 .. Len(what) :
                     out[Len(k.out) + i] = [of |-> k.request, part |-> what[i], feed |-> 0]
          BY <4>a, Zenon DEF AnswersWith
      <4>4. out[Len(k.out) + 1] = [of |-> k.request, part |-> "continue", feed |-> 0]
          BY <4>1, <4>3
      <4>5. \A i \in Len(k.out) + 1 .. Len(out) : i = Len(k.out) + 1
          BY <1>1, <4>1, <4>3
      <4>6. Len(k.out) <= Len(out)
          BY <1>1, <4>1, <4>3
      <4>7. \A i \in Len(k.out) + 1 .. Len(out) :
                out[i].of = k.request /\ out[i].part = "continue"
          BY <4>4, <4>5
      <4> QED
          BY <4>3, <4>6, <4>7, Zenon
    <3>2. CASE ~ReqOf(c, k.request).expects
      <4>1. x = k
          BY <3>2 DEF send_continue_if_expected
      <4>2. k = [k EXCEPT !.out = k.out]
          BY <1>1 DEF ConnType
      <4>3. \A i \in Len(k.out) + 1 .. Len(k.out) : FALSE
          BY <1>1
      <4> QED
          BY <1>1, <4>1, <4>2, <4>3
    <3> QED
        BY <3>1, <3>2
  <2>2. r = [x EXCEPT !.endpoint_type = "USER"]
      BY <1>3 DEF Attached
  <2> HIDE DEF x, r
  <2>3. /\ SameSocket(k, x) /\ x.request = k.request /\ x.request_len = k.request_len
        /\ x.eaten = k.eaten /\ x.flags = k.flags /\ x.again = k.again
        /\ x.out = out /\ x \in ConnType /\ Len(out) \in Nat
    <3>1. x = [k EXCEPT !.out = out] /\ out \in Seq(Piece)
        BY <2>1
    <3>2. x \in ConnType /\ x.out = out
        BY <1>1, <3>1 DEF ConnType
    <3>3. Len(out) \in Nat
        BY <3>1
    <3> QED
        BY <3>1, <3>2, <3>3 DEF SameSocket
  <2>4. /\ SameSocket(x, r) /\ r.request = x.request /\ r.request_len = x.request_len
        /\ r.eaten = x.eaten /\ r.flags = x.flags /\ r.again = x.again /\ r.out = x.out
        /\ r.endpoint_type = "USER" /\ r \in ConnType
      BY <2>2, <2>3 DEF SameSocket, ConnType
  <2>5. ReqOf(c, k.request).wrong \notin {"uri", "version"}
      BY DEF Refused
  <2>6. ConnOK(c, r)
    <3>1. k.flushed <= Len(r.out) /\ k.eaten <= k.got /\ k.got <= Len(stream(c))
      <4>1. k.flushed \in Nat /\ k.flushed <= Len(k.out)
          BY <1>1 DEF ConnOK, ConnType
      <4> QED
          BY <1>1, <2>1, <2>3, <2>4, <4>1 DEF ConnOK
    <3> QED
        BY <2>3, <2>4, <2>5, <3>1 DEF ConnOK, SameSocket
  <2> QED
      BY <2>1, <2>3, <2>4, <2>6 DEF SameSocket, Extends, More, r
<1> QED
    BY <1>2, <1>3

\* The request at hand is answered and forgotten, its body gobbled.
EndsWith(c, k, x, r, what, version) ==
    /\ Len(r.out) = Len(x.out) + Len(what) /\ Extends(x, r)
    /\ \A i \in 1 .. Len(what) :
        r.out[Len(x.out) + i] = [of |-> k.request, part |-> what[i], feed |-> version]
    /\ r.request = 0 /\ r.request_len = 0 /\ r.endpoint_type = "NONE"
    /\ r.eaten = EatenAfter(k, ContentLen(c, k))
    /\ r.again = KeepAlive(c, x)
    /\ r.flags = IF KeepAlive(c, x) THEN {} ELSE {"FINISHED_SENDING_DATA"}

LEMMA EndOK ==
    ASSUME NEW c, peer[c].script \in AllScripts, NEW k, ConnOK(c, k),
           NEW x \in ConnType, SameSocket(k, x), x.request = k.request, x.eaten = k.eaten,
           Extends(k, x),
           NEW what \in Seq(PieceNames), Len(what) # 0, NEW version \in Nat
    PROVE  LET r == close_local_endpoint(c, Answer(x, what, version)) IN
           /\ ConnOK(c, r) /\ SameSocket(k, r) /\ EndsWith(c, k, x, r, what, version)
<1> DEFINE y == Answer(x, what, version)
           r == close_local_endpoint(c, y)
<1>1. AnswersWith(x, y, what, version)
    BY AnswerOK
<1> HIDE DEF y
<1>2. PICK out \in Seq(Piece) :
          /\ y = [x EXCEPT !.out = out]
          /\ Len(out) = Len(x.out) + Len(what)
          /\ \A i \in 1 .. Len(x.out) : out[i] = x.out[i]
          /\ \A i \in 1 .. Len(what) :
               out[Len(x.out) + i] = [of |-> x.request, part |-> what[i], feed |-> version]
    BY <1>1, Zenon DEF AnswersWith
<1>3. y \in ConnType /\ y.out = out
    BY <1>2 DEF ConnType
<1>4. SameSocket(x, y) /\ y.request = x.request /\ y.eaten = x.eaten
      /\ y.endpoint_type = x.endpoint_type
    BY <1>2 DEF SameSocket
<1>5. /\ k.eaten <= k.got /\ k.got <= Len(stream(c)) /\ k.flushed <= Len(k.out)
      /\ k.flushed \in Nat /\ Len(k.out) \in Nat /\ Len(x.out) \in Nat
      /\ Len(what) \in Nat \ {0} /\ k.eaten \in Nat /\ k.got \in Nat
  <2>1. k.out \in Seq(Piece) /\ x.out \in Seq(Piece)
      BY DEF ConnOK, ConnType
  <2>2. Len(k.out) \in Nat /\ Len(x.out) \in Nat /\ Len(what) \in Nat \ {0}
      BY <2>1
  <2>3. /\ k.eaten <= k.got /\ k.got <= Len(stream(c)) /\ k.flushed <= Len(k.out)
        /\ k.flushed \in Nat /\ k.eaten \in Nat /\ k.got \in Nat
      BY DEF ConnOK, ConnType
  <2> QED
      BY <2>2, <2>3
<1>6. ContentLen(c, y) = ContentLen(c, k) /\ ContentLen(c, k) \in Nat
    BY <1>4, RequestOfConn DEF ContentLen
<1>7. KeepAlive(c, y) = KeepAlive(c, x)
    BY <1>4 DEF KeepAlive
<1>8. y.eaten <= y.got /\ y.eaten = k.eaten /\ y.got = k.got /\ y.flushed = k.flushed
    BY <1>4, <1>5 DEF SameSocket
<1>9. /\ r \in ConnType /\ SameSocket(y, r)
      /\ r.out = y.out /\ r.request = 0 /\ r.request_len = 0 /\ r.endpoint_type = "NONE"
      /\ r.again = KeepAlive(c, y)
      /\ r.flags = IF KeepAlive(c, y) THEN {} ELSE {CloseFlag(y)}
      /\ r.eaten = EatenAfter(y, ContentLen(c, y))
      /\ y.eaten <= r.eaten /\ r.eaten <= y.got
    BY <1>3, <1>6, <1>8, CloseOK
<1> HIDE DEF r
<1>10. SameSocket(k, r) /\ r.eaten = EatenAfter(k, ContentLen(c, k))
    BY <1>4, <1>6, <1>8, <1>9 DEF SameSocket, EatenAfter
<1>11. /\ Len(r.out) = Len(x.out) + Len(what)
       /\ \A i \in 1 .. Len(x.out) : r.out[i] = x.out[i]
       /\ \A i \in 1 .. Len(what) :
            r.out[Len(x.out) + i] = [of |-> k.request, part |-> what[i], feed |-> version]
    BY <1>2, <1>3, <1>9
<1>12. Len(k.out) <= Len(x.out)
    BY DEF Extends
<1>13. CloseFlag(y) = "FINISHED_SENDING_DATA"
    BY <1>2, <1>3, <1>5, <1>8, <1>12 DEF CloseFlag, Unsent
<1>14. k.flushed <= Len(r.out) /\ Extends(x, r)
    BY <1>5, <1>11, <1>12 DEF Extends
<1>15. ConnOK(c, r)
    BY <1>5, <1>8, <1>9, <1>10, <1>14 DEF ConnOK, SameSocket
<1>16. EndsWith(c, k, x, r, what, version)
    BY <1>7, <1>9, <1>10, <1>11, <1>13, <1>14 DEF EndsWith
<1> QED
    BY <1>10, <1>15, <1>16 DEF r, y

\* A document is answered as it is now, and refused when there is none.
NowFresh(c, k, a) ==
    /\ a.part = "chunk" /\ ReqOf(c, k.request).uri = "/flights.json" => a.feed = feed
    /\ a.part = "error" =>
        Refused(c, k) \/ ReqOf(c, k.request).uri # "/flights.json" \/ feed = 0

\* A call that answered the request at hand, with one last piece and no other
\* final one; another call follows only if it was to keep the connection.
EndedAs(c, k, r) ==
    /\ Refused(c, k) \/ (k.request # 0 /\ BodyBuffered(c, k))
    /\ Extends(k, r) /\ Len(k.out) < Len(r.out)
    /\ \A i \in More(k, r) :
        /\ r.out[i].of = k.request /\ NowFresh(c, k, r.out[i])
        /\ r.out[i].part \in Final <=> i = Len(r.out)
    /\ r.request = 0 /\ r.request_len = 0 /\ r.endpoint_type = "NONE"
    /\ r.eaten = EatenAfter(k, ContentLen(c, k))
    /\ r.flags = IF r.again THEN {} ELSE {"FINISHED_SENDING_DATA"}
    /\ r.again =>
        /\ k.request # 0 /\ ReqOf(c, k.request).keep /\ ~Refused(c, k) /\ BodyBuffered(c, k)
        /\ r.out[Len(r.out)].part = "end"

ProcessedAs(c, k, r) ==
    \/ ~Refused(c, k) /\ k.request_len = 0 /\ r = k
    \/ WaitsAs(c, k, r)
    \/ EndedAs(c, k, r)

LEMMA EndsAs ==
    ASSUME NEW c, NEW k, ConnOK(c, k), NEW x \in ConnType, NEW r \in ConnType,
           Extends(k, x),
           \A i \in More(k, x) : x.out[i].of = k.request /\ x.out[i].part = "continue",
           NEW what \in Seq(PieceNames), NEW version,
           Len(what) # 0, EndsWith(c, k, x, r, what, version),
           \A i \in 1 .. Len(what) : what[i] \in Final <=> i = Len(what),
           \A i \in 1 .. Len(what) :
               NowFresh(c, k, [of |-> k.request, part |-> what[i], feed |-> version]),
           Refused(c, k) \/ (k.request # 0 /\ BodyBuffered(c, k)),
           KeepAlive(c, x) =>
               /\ k.request # 0 /\ ReqOf(c, k.request).keep
               /\ ~Refused(c, k) /\ BodyBuffered(c, k)
               /\ what[Len(what)] = "end"
    PROVE  EndedAs(c, k, r)
<1>1. /\ Len(k.out) \in Nat /\ Len(x.out) \in Nat /\ Len(r.out) \in Nat
      /\ Len(what) \in Nat \ {0} /\ k \in ConnType
  <2>1. k \in ConnType /\ k.out \in Seq(Piece) /\ x.out \in Seq(Piece) /\ r.out \in Seq(Piece)
      BY DEF ConnOK, ConnType
  <2> QED
      BY <2>1
<1>2. /\ Len(r.out) = Len(x.out) + Len(what) /\ Extends(x, r)
      /\ \A i \in 1 .. Len(what) :
            r.out[Len(x.out) + i] = [of |-> k.request, part |-> what[i], feed |-> version]
    BY DEF EndsWith
<1>3. Extends(k, r) /\ Len(k.out) < Len(r.out)
  <2>1. Extends(k, r)
      BY <1>1, <1>2, ExtendsFarther
  <2>2. Len(k.out) <= Len(x.out)
      BY DEF Extends
  <2> QED
      BY <1>1, <1>2, <2>1, <2>2
<1>4. ASSUME NEW i \in More(k, r)
      PROVE  /\ r.out[i].of = k.request /\ NowFresh(c, k, r.out[i])
             /\ r.out[i].part \in Final <=> i = Len(r.out)
  <2>1. CASE i \in More(k, x) /\ r.out[i] = x.out[i]
    <3>1. r.out[i].of = k.request /\ r.out[i].part = "continue"
        BY <2>1
    <3>2. "continue" \notin Final /\ "continue" # "chunk" /\ "continue" # "error"
        BY DEF Final
    <3>3. i # Len(r.out)
        BY <1>1, <1>2, <2>1 DEF More
    <3> QED
        BY <3>1, <3>2, <3>3 DEF NowFresh
  <2>2. CASE i \in More(x, r)
    <3> DEFINE m == i - Len(x.out)
    <3>1. m \in 1 .. Len(what) /\ i = Len(x.out) + m /\ (i = Len(r.out) <=> m = Len(what))
        BY <1>1, <1>2, <2>2 DEF More
    <3> HIDE DEF m
    <3>2. r.out[i] = [of |-> k.request, part |-> what[m], feed |-> version]
        BY <1>2, <3>1
    <3>3. r.out[i].of = k.request /\ r.out[i].part = what[m]
        BY <3>2
    <3>4. NowFresh(c, k, r.out[i]) /\ (what[m] \in Final <=> m = Len(what))
        BY <3>1, <3>2
    <3> QED
        BY <3>1, <3>3, <3>4
  <2> QED
      BY <1>1, <1>2, <2>1, <2>2, ExtendsFarther
<1>5. r.again = KeepAlive(c, x)
      /\ r.flags = IF r.again THEN {} ELSE {"FINISHED_SENDING_DATA"}
    BY DEF EndsWith
<1>6. KeepAlive(c, x) => r.out[Len(r.out)].part = "end"
  <2>1. Len(what) \in 1 .. Len(what)
      BY <1>1
  <2> DEFINE m == Len(what)
  <2>2. r.out[Len(x.out) + m] = [of |-> k.request, part |-> what[m], feed |-> version]
      BY <1>2, <2>1
  <2>3. r.out[Len(r.out)].part = what[m]
      BY <1>2, <2>2
  <2> QED
      BY <2>3
<1> QED
    BY <1>3, <1>4, <1>5, <1>6 DEF EndedAs, EndsWith

LEMMA ProcessOK ==
    ASSUME NEW c, peer[c].script \in AllScripts, NEW k, ConnOK(c, k), feed \in Nat
    PROVE  LET r == Process(c, k) IN
           ConnOK(c, r) /\ SameSocket(k, r) /\ ProcessedAs(c, k, r)
<1> DEFINE r == Process(c, k)
           error == <<"error">>
           whole == <<"whole">>
           page == <<"head", "chunk", "end">>
<1>1. /\ error \in Seq(PieceNames) /\ Len(error) = 1 /\ error[1] = "error"
      /\ whole \in Seq(PieceNames) /\ Len(whole) = 1 /\ whole[1] = "whole"
    BY DEF PieceNames
<1>2. /\ page \in Seq(PieceNames) /\ Len(page) = 3
      /\ page[1] = "head" /\ page[2] = "chunk" /\ page[3] = "end"
    BY DEF PieceNames
<1> HIDE DEF error, whole, page
<1>3. k \in ConnType /\ Extends(k, k) /\ SameSocket(k, k) /\ Len(k.out) \in Nat
      /\ \A i \in More(k, k) : FALSE
  <2>1. k \in ConnType /\ k.out \in Seq(Piece)
      BY DEF ConnOK, ConnType
  <2>2. Len(k.out) \in Nat
      BY <2>1
  <2> QED
      BY <2>1, <2>2 DEF Extends, SameSocket, More
<1>4. CASE Refused(c, k)
  <2>1. r = close_local_endpoint(c, Answer(k, error, 0))
      BY <1>4 DEF Process, send_http_error, error
  <2>2. k.endpoint_type # "USER"
      BY <1>4 DEF Refused, ConnOK
  <2>3. ~KeepAlive(c, k)
      BY <2>2 DEF KeepAlive
  <2> HIDE DEF r
  <2>4. ConnOK(c, r) /\ SameSocket(k, r) /\ EndsWith(c, k, k, r, error, 0)
      BY <1>1, <1>3, <2>1, EndOK
  <2>5. EndedAs(c, k, r)
    <3>1. \A i \in 1 .. Len(error) :
            /\ i = 1 /\ error[i] = "error"
            /\ NowFresh(c, k, [of |-> k.request, part |-> error[i], feed |-> 0])
        BY <1>1, <1>4 DEF NowFresh
    <3>2. \A i \in 1 .. Len(error) : error[i] \in Final <=> i = Len(error)
        BY <1>1, <3>1 DEF Final
    <3>3. r \in ConnType
        BY <2>4 DEF ConnOK
    <3>4. error \in Seq(PieceNames) /\ Len(error) # 0
        BY <1>1
    <3> QED
        BY <1>3, <1>4, <2>3, <2>4, <3>1, <3>2, <3>3, <3>4, EndsAs
  <2> QED
      BY <2>4, <2>5 DEF ProcessedAs, r
<1>5. CASE ~Refused(c, k) /\ k.request_len = 0
  <2>1. r = k
      BY <1>5 DEF Process
  <2> QED
      BY <1>3, <1>5, <2>1 DEF ProcessedAs
<1>6. CASE ~Refused(c, k) /\ k.request_len # 0
  <2>1. k.request # 0
      BY <1>3, <1>6 DEF Refused, ConnOK, ConnType
  <2> DEFINE a == Attached(c, k)
             z == [a EXCEPT !.endpoint_type = "NONE"]
             uri == ReqOf(c, k.request).uri
  <2>2. r = Serve(c, a)
      BY <1>6 DEF Process
  <2>3. /\ ConnOK(c, a) /\ SameSocket(k, a)
        /\ a.request = k.request /\ a.request_len = k.request_len /\ a.eaten = k.eaten
        /\ a.flags = k.flags /\ a.again = k.again /\ a.endpoint_type = "USER"
        /\ Extends(k, a)
        /\ \A i \in More(k, a) : a.out[i].of = k.request /\ a.out[i].part = "continue"
      BY <1>6, <2>1, AttachedOK
  <2> HIDE DEF a
  <2>4. BodyBuffered(c, a) <=> BodyBuffered(c, k)
      BY <2>3 DEF BodyBuffered, Buffered, ContentLen, SameSocket
  <2>5. CASE ~BodyBuffered(c, k)
    <3>1. r = a
        BY <2>2, <2>4, <2>5 DEF Serve
    <3> QED
        BY <1>6, <2>1, <2>3, <2>5, <3>1 DEF ProcessedAs, WaitsAs
  <2>6. CASE BodyBuffered(c, k)
    <3>1. r = call_request_handler(c, a)
        BY <2>2, <2>4, <2>6 DEF Serve
    <3>2. /\ a \in ConnType /\ z \in ConnType
          /\ SameSocket(k, z) /\ z.request = k.request /\ z.eaten = k.eaten
          /\ z.out = a.out /\ z.endpoint_type = "NONE"
        BY <2>3 DEF ConnOK, ConnType, SameSocket
    <3>3. /\ Extends(k, z)
          /\ \A i \in More(k, z) : z.out[i].of = k.request /\ z.out[i].part = "continue"
        BY <2>3, <3>2 DEF Extends, More
    <3>4. ReqOf(c, a.request).uri = uri /\ ReqOf(c, z.request).uri = uri
        BY <2>3, <3>2
    <3>5. CASE uri = "/info" \/ (uri = "/flights.json" /\ feed # 0)
      <4> DEFINE version == IF uri = "/info" THEN 0 ELSE feed
      <4>1. r = close_local_endpoint(c, Answer(a, page, version)) /\ version \in Nat
          BY <3>1, <3>4, <3>5 DEF call_request_handler, Document, page
      <4> HIDE DEF r
      <4>2. ConnOK(c, r) /\ SameSocket(k, r) /\ EndsWith(c, k, a, r, page, version)
        <5>1. page \in Seq(PieceNames) /\ Len(page) # 0
            BY <1>2
        <5> HIDE DEF version
        <5> QED
            BY <2>3, <3>2, <4>1, <5>1, EndOK
      <4>3. EndedAs(c, k, r)
        <5>1. \A i \in 1 .. Len(page) :
                /\ page[i] # "error" /\ (page[i] = "end" <=> i = 3)
                /\ page[i] \in {"head", "chunk", "end"}
            BY <1>2
        <5>2. \A i \in 1 .. Len(page) : page[i] \in Final <=> i = Len(page)
            BY <1>2, <5>1 DEF Final
        <5>3. \A i \in 1 .. Len(page) :
                NowFresh(c, k, [of |-> k.request, part |-> page[i], feed |-> version])
            BY <5>1 DEF NowFresh
        <5>4. KeepAlive(c, a) => ReqOf(c, k.request).keep
            BY <2>3 DEF KeepAlive
        <5>5. r \in ConnType /\ page \in Seq(PieceNames) /\ Len(page) # 0
              /\ page[Len(page)] = "end"
            BY <1>2, <4>2 DEF ConnOK
        <5> HIDE DEF version
        <5> QED
            BY <1>6, <2>1, <2>3, <2>6, <3>2, <4>2, <5>2, <5>3, <5>4, <5>5, EndsAs
      <4> QED
          BY <4>2, <4>3 DEF ProcessedAs, r
    <3>6. CASE ~(uri = "/info" \/ (uri = "/flights.json" /\ feed # 0))
      <4> DEFINE what == IF uri = "*" THEN whole ELSE error
      <4>1. r = close_local_endpoint(c, Answer(z, what, 0))
        <5>1. r = open_local_endpoint(c, a)
            BY <3>1, <3>4, <3>6 DEF call_request_handler
        <5>2. CASE uri = "*"
            BY <3>4, <5>1, <5>2 DEF open_local_endpoint, whole
        <5>3. CASE uri # "*"
            BY <3>4, <5>1, <5>3 DEF open_local_endpoint, send_http_error, error
        <5> QED
            BY <5>2, <5>3
      <4>2. /\ what \in Seq(PieceNames) /\ Len(what) = 1 /\ what[1] \in {"whole", "error"}
            /\ what[1] = "error" => uri # "/flights.json" \/ feed = 0
          BY <1>1, <3>6
      <4> HIDE DEF r, what, z
      <4>3. ConnOK(c, r) /\ SameSocket(k, r) /\ EndsWith(c, k, z, r, what, 0)
        <5>1. Len(what) # 0 /\ 0 \in Nat
            BY <4>2
        <5> QED
            BY <3>2, <3>3, <4>1, <4>2, <5>1, EndOK
      <4>4. EndedAs(c, k, r)
        <5>1. \A i \in 1 .. Len(what) :
                /\ i = 1
                /\ NowFresh(c, k, [of |-> k.request, part |-> what[i], feed |-> 0])
            BY <4>2 DEF NowFresh
        <5>2. \A i \in 1 .. Len(what) : what[i] \in Final <=> i = Len(what)
            BY <4>2, <5>1 DEF Final
        <5>3. ~KeepAlive(c, z)
            BY <3>2 DEF KeepAlive
        <5>4. r \in ConnType /\ Len(what) # 0
            BY <4>2, <4>3 DEF ConnOK
        <5> QED
            BY <2>1, <2>6, <3>2, <3>3, <4>2, <4>3, <5>1, <5>2, <5>3, <5>4, EndsAs
      <4> QED
          BY <4>3, <4>4 DEF ProcessedAs, r
    <3> QED
        BY <3>5, <3>6
  <2> QED
      BY <2>5, <2>6
<1> QED
    BY <1>4, <1>5, <1>6

-----------------------------------------------------------------------------
(* The answers of a connection *)

\* Where the head of a request ends.
HeadEnd(s, n) == Begin(s, n) + s[n].head

LEMMA HeadsInOrder ==
    ASSUME NEW s \in AllScripts, NEW n \in DOMAIN s
    PROVE  /\ HeadEnd(s, n) \in Nat /\ Begin(s, n) < HeadEnd(s, n)
           /\ HeadEnd(s, n) \in 1 .. Len(Stream[s])
           /\ Stream[s][HeadEnd(s, n)].last /\ Stream[s][HeadEnd(s, n)].of = n
           /\ HeadEnd(s, n) <= Begin(s, n) + Size(s[n])
           /\ \A m \in DOMAIN s : m < n => HeadEnd(s, m) < HeadEnd(s, n)
           /\ \A m \in DOMAIN s : HeadEnd(s, m) <= HeadEnd(s, n) => m <= n
<1>1. \A m \in DOMAIN s :
        /\ m \in Nat /\ Begin(s, m) \in Nat /\ s[m].head \in Nat \ {0} /\ s[m].body \in Nat
        /\ Size(s[m]) = s[m].head + s[m].body
        /\ Begin(s, m) + Size(s[m]) <= Len(Stream[s]) /\ Len(Stream[s]) \in Nat
    BY RequestsInOrder, StreamShape DEF Size, Shaped
<1>2. \A m, p \in DOMAIN s : m < p => Begin(s, m) + Size(s[m]) <= Begin(s, p)
    BY RequestsInOrder
<1>3. ASSUME NEW m \in DOMAIN s, NEW p \in DOMAIN s, m < p
      PROVE  HeadEnd(s, m) < HeadEnd(s, p)
  <2>1. Begin(s, m) + Size(s[m]) <= Begin(s, p)
      BY <1>2, <1>3
  <2>2. /\ s[m].head \in Nat \ {0} /\ s[m].body \in Nat /\ s[p].head \in Nat \ {0}
        /\ Begin(s, m) \in Nat /\ Begin(s, p) \in Nat /\ Size(s[m]) = s[m].head + s[m].body
      BY <1>1
  <2> QED
      BY <2>1, <2>2 DEF HeadEnd
<1>4. ASSUME NEW m \in DOMAIN s, HeadEnd(s, m) <= HeadEnd(s, n) PROVE m <= n
  <2>1. HeadEnd(s, m) \in Nat /\ HeadEnd(s, n) \in Nat /\ m \in Nat /\ n \in Nat
      BY <1>1 DEF HeadEnd
  <2>2. n < m => HeadEnd(s, n) < HeadEnd(s, m)
      BY <1>3
  <2> QED
      BY <1>4, <2>1, <2>2
<1>5. Stream[s][HeadEnd(s, n)].last /\ Stream[s][HeadEnd(s, n)].of = n
    BY RequestsInOrder DEF HeadEnd
<1>6. /\ HeadEnd(s, n) \in Nat /\ Begin(s, n) < HeadEnd(s, n)
      /\ HeadEnd(s, n) \in 1 .. Len(Stream[s])
      /\ HeadEnd(s, n) <= Begin(s, n) + Size(s[n])
  <2>1. /\ Begin(s, n) \in Nat /\ s[n].head \in Nat \ {0} /\ s[n].body \in Nat
        /\ Size(s[n]) = s[n].head + s[n].body
        /\ Begin(s, n) + Size(s[n]) <= Len(Stream[s]) /\ Len(Stream[s]) \in Nat
      BY <1>1
  <2> QED
      BY <2>1 DEF HeadEnd
<1> QED
    BY <1>3, <1>4, <1>5, <1>6

\* The pieces of a request stand behind its head, and the last of them is not
\* among them as long as the request is at hand.
Behind(c, k) ==
    \A i \in DOMAIN k.out : LET n == k.out[i].of IN n # 0 =>
        /\ n \in DOMAIN peer[c].script /\ HeadEnd(peer[c].script, n) <= k.eaten
        /\ n = k.request => k.out[i].part \notin Final

\* What FreshAnswers says of one piece.
PieceFresh(c, a) ==
    a.of # 0 =>
        /\ a.of \in DOMAIN asked[c]
        /\ ReqOf(c, a.of).uri = "/flights.json" /\ ReqOf(c, a.of).wrong = "none" =>
             /\ a.part = "chunk" => a.feed >= asked[c][a.of]
             /\ a.part = "error" => asked[c][a.of] = 0
FreshOut(c, k) == \A i \in DOMAIN k.out : PieceFresh(c, k.out[i])

AnsweredIn(out, n) == \E i \in DOMAIN out : out[i].of = n /\ out[i].part \in Final
NoneLeftOut(c, k) ==
    \A n \in DOMAIN peer[c].script : AnsweredIn(k.out, n) =>
        \A m \in 1 .. n - 1 : Valid(c, m) => AnsweredIn(k.out, m)

\* What is to stay has answered last a request that lets it stay.
LastKept(c, k) ==
    k.flags = {} /\ k.request = 0 /\ Len(k.out) # 0 =>
        k.out[Len(k.out)].part = "end" /\ ReqOf(c, k.out[Len(k.out)].of).keep

Sound(c, k) ==
    /\ ConnOK(c, k) /\ Behind(c, k) /\ OneForEach(k.out) /\ FreshOut(c, k)
    /\ NoneLeftOut(c, k)

\* The buffer begins where a request does, or behind a refused one that has a
\* body; and every request whose head is behind that is answered.
Boundary(s, e) == e < Len(Stream[s]) => Stream[s][e + 1].first
Spoilt(s, e) == \E n \in DOMAIN s : HeadEnd(s, n) <= e /\ s[n].wrong # "none" /\ s[n].body # 0
Whole(c, k) ==
    LET s == peer[c].script IN
    /\ k.request = 0 => Boundary(s, k.eaten) \/ Spoilt(s, k.eaten)
    /\ \A n \in DOMAIN s :
          Valid(c, n) /\ HeadEnd(s, n) <= k.eaten /\ n # k.request => AnsweredIn(k.out, n)

\* A request that was given up while its body arrived: there is none behind it.
GivenUp(c, k) == k.request = 0 /\ HeadEnds(c, k) = {} /\ Garbled(c, k) = {}
Placed(c, k) == Whole(c, k) \/ GivenUp(c, k)

\* The feed when the heads arrived.
Known(c) ==
    LET s == peer[c].script IN
    /\ asked[c] \in Seq(Nat)
    /\ \A n \in DOMAIN asked[c] : asked[c][n] <= feed
    /\ \A n \in DOMAIN s : HeadEnd(s, n) <= peer[c].sent <=> n \in DOMAIN asked[c]

\* The heads of the buffer end behind the heads of those taken from it.
LEMMA NextHead ==
    ASSUME NEW c, peer[c].script \in AllScripts, NEW k, ConnOK(c, k),
           NEW j \in HeadEnds(c, k)
    PROVE  LET s == peer[c].script
               n == stream(c)[j].of
           IN  /\ n \in DOMAIN s /\ n \in Nat \ {0} /\ HeadEnd(s, n) = j
               /\ k.eaten < j /\ j <= k.got /\ j \in 1 .. Len(stream(c))
               /\ \A m \in DOMAIN s : HeadEnd(s, m) <= k.eaten => m < n
<1> DEFINE s == peer[c].script
           n == stream(c)[j].of
<1>1. /\ k.eaten \in Nat /\ k.got \in Nat /\ k.got <= Len(stream(c)) /\ Len(stream(c)) \in Nat
      /\ j \in k.eaten + 1 .. k.got /\ stream(c)[j].last
    BY RequestOfConn DEF ConnOK, ConnType, HeadEnds
<1>2. j \in 1 .. Len(Stream[s]) /\ stream(c) = Stream[s]
    BY <1>1 DEF stream
<1>3. n \in DOMAIN s /\ j = HeadEnd(s, n)
    BY <1>1, <1>2, PartAt DEF HeadEnd
<1>4. n \in Nat \ {0}
    BY <1>3, RequestsInOrder
<1>5. ASSUME NEW m \in DOMAIN s, HeadEnd(s, m) <= k.eaten PROVE m < n
  <2>1. m \in Nat
      BY RequestsInOrder
  <2>2. HeadEnd(s, m) \in Nat /\ (n < m => HeadEnd(s, n) < HeadEnd(s, m))
    <3>1. s \in AllScripts
        OBVIOUS
    <3> HIDE DEF s, n
    <3> QED
        BY <1>3, <3>1, HeadsInOrder
  <2>3. n # m
      BY <1>1, <1>3, <1>5
  <2>4. ~(n < m)
      BY <1>1, <1>3, <1>5, <2>2
  <2> QED
      BY <1>4, <2>1, <2>3, <2>4
<1> QED
    BY <1>1, <1>2, <1>3, <1>4, <1>5

LEMMA BoundaryBehind ==
    ASSUME NEW s \in AllScripts, NEW n \in DOMAIN s
    PROVE  Boundary(s, Begin(s, n) + Size(s[n]))
<1> DEFINE e == Begin(s, n) + Size(s[n])
<1>1. e \in Nat /\ Len(Stream[s]) \in Nat /\ s[n] \in Request /\ Begin(s, n) \in Nat
      /\ Size(s[n]) \in Nat
  <2>1. Begin(s, n) \in Nat /\ s[n] \in Request
      BY RequestsInOrder
  <2>2. Size(s[n]) \in Nat
      BY <2>1 DEF Size, Request
  <2> QED
      BY <2>1, <2>2, StreamShape DEF Shaped
<1> SUFFICES ASSUME e < Len(Stream[s]) PROVE Stream[s][e + 1].first
    BY DEF Boundary
<1> DEFINE m == Stream[s][e + 1].of
<1>2. e + 1 \in 1 .. Len(Stream[s])
    BY <1>1
<1>3. /\ m \in DOMAIN s /\ Begin(s, m) < e + 1
      /\ Stream[s][e + 1].first <=> e + 1 = Begin(s, m) + 1
    BY <1>2, PartAt
<1>4. m > n
    BY <1>1, <1>2, RequestsInOrder
<1>5. e <= Begin(s, m) /\ Begin(s, m) \in Nat
  <2>1. n \in Nat /\ m \in Nat
      BY <1>3, RequestsInOrder
  <2> QED
      BY <1>3, <1>4, <2>1, RequestsInOrder
<1> QED
    BY <1>1, <1>3, <1>5

LEMMA ParsedBehind ==
    ASSUME NEW c, peer[c].script \in AllScripts, NEW k, ConnOK(c, k),
           NEW y, ConnOK(c, y), SameSocket(k, y), ParsedAs(c, k, y), y.out = k.out
    PROVE  /\ k.eaten <= y.eaten
           /\ k.request # 0 => y = k
           /\ y.request_len = 0 => HeadEnds(c, y) = {} /\ ~SpoiltFirst(c, y)
           /\ Behind(c, k) => Behind(c, y)
<1>1. /\ k.eaten \in Nat
      /\ k.request_len = 0 => k.request = 0
      /\ y.request # 0 => y.request_len = 1
    BY DEF ConnOK, ConnType
<1>2. CASE y = k
    BY <1>1, <1>2 DEF ParsedAs, TookHead
<1>3. CASE k.request_len = 0 /\ SpoiltFirst(c, k) /\ y.eaten = k.eaten /\ y.request = 0
           /\ y.request_len = -1
    BY <1>1, <1>3, RequestsInOrder DEF Behind
<1>4. CASE k.request_len = 0 /\ \E j \in HeadEnds(c, k) : TookHead(c, k, y, j)
  <2>1. PICK j \in HeadEnds(c, k) : TookHead(c, k, y, j)
      BY <1>4
  <2>2. y.eaten = j /\ k.eaten < j /\ y.request_len # 0 /\ j \in Nat
      BY <2>1, NextHead DEF TookHead
  <2>3. ASSUME Behind(c, k) PROVE Behind(c, y)
    <3> SUFFICES ASSUME NEW i \in DOMAIN k.out, k.out[i].of # 0
                 PROVE  /\ k.out[i].of \in DOMAIN peer[c].script
                        /\ HeadEnd(peer[c].script, k.out[i].of) <= y.eaten
                        /\ k.out[i].of # y.request
        BY DEF Behind
    <3> DEFINE m == k.out[i].of
    <3>1. m \in DOMAIN peer[c].script /\ HeadEnd(peer[c].script, m) <= k.eaten
        BY <2>3 DEF Behind
    <3>2. HeadEnd(peer[c].script, m) \in Nat
        BY <3>1, HeadsInOrder
    <3>3. y.request # m
      <4> SUFFICES ASSUME y.request = m PROVE FALSE
          OBVIOUS
      <4>1. y.eaten = HeadEnd(peer[c].script, m)
          BY DEF ConnOK, HeadEnd, ReqOf
      <4> QED
          BY <1>1, <2>2, <3>1, <3>2, <4>1
    <3> QED
        BY <1>1, <2>2, <3>1, <3>2, <3>3
  <2> QED
      BY <1>1, <1>4, <2>2, <2>3
<1> QED
    BY <1>2, <1>3, <1>4 DEF ParsedAs

\* A head taken where a request begins is the head of that request.
LEMMA TakenWhole ==
    ASSUME NEW c, peer[c].script \in AllScripts, NEW k, ConnOK(c, k), NEW y,
           NEW j \in HeadEnds(c, k), TookHead(c, k, y, j),
           Boundary(peer[c].script, k.eaten)
    PROVE  y.request = stream(c)[j].of \/ ReqOf(c, stream(c)[j].of).wrong = "malformed"
<1> DEFINE s == peer[c].script
           n == stream(c)[j].of
           p == stream(c)[k.eaten + 1].of
<1>1. /\ n \in DOMAIN s /\ n \in Nat \ {0} /\ HeadEnd(s, n) = j
      /\ k.eaten < j /\ j <= k.got /\ j \in 1 .. Len(stream(c))
    BY NextHead
<1>2. k.eaten \in Nat /\ k.got \in Nat /\ k.got <= Len(stream(c)) /\ Len(stream(c)) \in Nat
    BY RequestOfConn DEF ConnOK, ConnType
<1>3. k.eaten + 1 \in 1 .. Len(Stream[s]) /\ stream(c) = Stream[s]
    BY <1>1, <1>2 DEF stream
<1>4. Stream[s][k.eaten + 1].first
    BY <1>2, <1>3 DEF Boundary
<1>5. p \in DOMAIN s /\ k.eaten + 1 = Begin(s, p) + 1
    BY <1>3, <1>4, PartAt
<1>6. p \in Nat /\ Begin(s, p) \in Nat /\ k.eaten = Begin(s, p)
    BY <1>2, <1>5, RequestsInOrder
<1>7. ~(n < p)
  <2>1. n < p <=> j <= Begin(s, p)
      BY <1>1, <1>3, <1>5, RequestsInOrder
  <2> QED
      BY <1>1, <1>6, <2>1
<1>8. ~(p < n)
  <2> SUFFICES ASSUME p < n PROVE FALSE
      OBVIOUS
  <2>1. /\ HeadEnd(s, p) < j /\ Begin(s, p) < HeadEnd(s, p) /\ HeadEnd(s, p) \in Nat
        /\ Stream[s][HeadEnd(s, p)].last
      BY <1>1, <1>5, HeadsInOrder
  <2>2. HeadEnd(s, p) \in k.eaten + 1 .. k.got
      BY <1>1, <1>2, <1>6, <2>1
  <2>3. HeadEnd(s, p) \in HeadEnds(c, k)
      BY <1>3, <2>1, <2>2 DEF HeadEnds
  <2> QED
      BY <1>1, <2>1, <2>3 DEF TookHead, FirstHead
<1>9. p = n
    BY <1>1, <1>6, <1>7, <1>8
<1> QED
    BY <1>3, <1>4, <1>9 DEF TookHead, RequestIn

LEMMA ParsedPlaced ==
    ASSUME NEW c, peer[c].script \in AllScripts, NEW k, ConnOK(c, k), Placed(c, k),
           NEW y, ConnOK(c, y), SameSocket(k, y), ParsedAs(c, k, y), y.out = k.out
    PROVE  Placed(c, y) /\ (Whole(c, k) => Whole(c, y))
<1> DEFINE s == peer[c].script
<1>1. /\ k.eaten \in Nat
      /\ k.request_len = 0 => k.request = 0
    BY DEF ConnOK, ConnType
<1>2. CASE y = k
    BY <1>2
<1>3. CASE k.request_len = 0 /\ SpoiltFirst(c, k) /\ y.eaten = k.eaten /\ y.request = 0
  <2>1. Garbled(c, k) # {} /\ k.request = 0
      BY <1>1, <1>3 DEF SpoiltFirst
  <2>2. Whole(c, k)
      BY <2>1 DEF Placed, GivenUp
  <2> QED
      BY <1>3, <2>1, <2>2 DEF Placed, Whole
<1>4. CASE k.request_len = 0 /\ \E j \in HeadEnds(c, k) : TookHead(c, k, y, j)
  <2>1. PICK j \in HeadEnds(c, k) : TookHead(c, k, y, j)
      BY <1>4
  <2> DEFINE n == stream(c)[j].of
  <2>2. Whole(c, k) /\ k.request = 0
      BY <1>1, <1>4, <2>1 DEF Placed, GivenUp
  <2>3. /\ n \in DOMAIN s /\ n \in Nat \ {0} /\ HeadEnd(s, n) = j
        /\ k.eaten < j /\ j <= k.got /\ j \in 1 .. Len(stream(c)) /\ y.eaten = j
        /\ \A m \in DOMAIN s : HeadEnd(s, m) <= k.eaten => m < n
      BY <2>1, NextHead DEF TookHead
  <2> HIDE DEF n
  <2>4. ASSUME NEW m \in DOMAIN s, HeadEnd(s, m) <= j, m # n
        PROVE  HeadEnd(s, m) <= k.eaten
    <3> SUFFICES ASSUME ~(HeadEnd(s, m) <= k.eaten) PROVE FALSE
        OBVIOUS
    <3>1. HeadEnd(s, m) \in Nat /\ Stream[s][HeadEnd(s, m)].last /\ m \in Nat
          /\ (m < n => HeadEnd(s, m) < j) /\ m <= n
        BY <2>3, <2>4, HeadsInOrder, RequestsInOrder
    <3>2. k.got \in Nat /\ stream(c) = Stream[s] /\ j \in Nat
        BY <2>3 DEF ConnOK, ConnType, stream
    <3>3. HeadEnd(s, m) \in HeadEnds(c, k)
        BY <1>1, <2>3, <2>4, <3>1, <3>2 DEF HeadEnds
    <3>4. j <= HeadEnd(s, m)
        BY <2>1, <3>3 DEF TookHead, FirstHead
    <3> QED
        BY <2>3, <2>4, <3>1, <3>2, <3>4
  <2>5. \A m \in DOMAIN s :
          Valid(c, m) /\ HeadEnd(s, m) <= j /\ m # n => AnsweredIn(k.out, m)
    <3>1. \A m \in DOMAIN s : m # 0
        BY RequestsInOrder
    <3> QED
        BY <2>2, <2>4, <3>1 DEF Whole
  <2>6. CASE y.request # 0
    <3>1. y.request = n
        BY <2>1, <2>3, <2>6 DEF TookHead, RequestIn, n
    <3> QED
        BY <2>3, <2>5, <2>6, <3>1 DEF Placed, Whole
  <2>7. CASE y.request = 0 /\ Spoilt(s, k.eaten)
    <3>1. PICK m \in DOMAIN s : HeadEnd(s, m) <= k.eaten /\ s[m].wrong # "none" /\ s[m].body # 0
        BY <2>7 DEF Spoilt
    <3>2. HeadEnd(s, m) \in Nat /\ m \in Nat \ {0}
        BY HeadsInOrder, RequestsInOrder
    <3>3. Spoilt(s, j)
        BY <1>1, <2>3, <3>1, <3>2 DEF Spoilt
    <3>4. m \in 1 .. n - 1
        BY <2>3, <3>1, <3>2
    <3>5. ~Valid(c, n)
        BY <3>1, <3>4 DEF Valid, ReqOf
    <3> QED
        BY <2>3, <2>5, <2>7, <3>3, <3>5 DEF Placed, Whole
  <2>8. CASE y.request = 0 /\ Boundary(s, k.eaten)
    <3>1. s[n].wrong = "malformed"
        BY <2>1, <2>3, <2>8, TakenWhole DEF n, ReqOf
    <3>2. ~Valid(c, n)
        BY <3>1 DEF Valid, ReqOf
    <3>3. Boundary(s, j) \/ Spoilt(s, j)
      <4>1. CASE s[n].body # 0
        <5>1. HeadEnd(s, n) <= j
            BY <2>3
        <5> QED
            BY <2>3, <3>1, <4>1, <5>1 DEF Spoilt
      <4>2. CASE s[n].body = 0
        <5>1. Begin(s, n) + Size(s[n]) = HeadEnd(s, n)
            BY <2>3, <4>2, RequestsInOrder DEF HeadEnd, Size
        <5> QED
            BY <2>3, <5>1, BoundaryBehind
      <4> QED
          BY <4>1, <4>2
    <3> QED
        BY <2>3, <2>5, <2>8, <3>2, <3>3 DEF Placed, Whole
  <2> QED
      BY <2>2, <2>6, <2>7, <2>8 DEF Whole
<1> QED
    BY <1>2, <1>3, <1>4 DEF ParsedAs

\* Nothing but the next recv, or the poll, comes back to the connection.
Rests(c, k) ==
    /\ k.request # 0 => k.endpoint_type = "USER" /\ ~BodyBuffered(c, k)
    /\ k.flags = {} =>
        /\ k.request_len # -1
        /\ k.request_len = 0 =>
            HeadEnds(c, k) = {} /\ ~SpoiltFirst(c, k) /\ Buffered(k) <= MAX_REQUEST_SIZE

\* The new pieces are those of the request at hand.
LEMMA ProcessedPieces ==
    ASSUME NEW c, peer[c].script \in AllScripts, NEW k, ConnOK(c, k), NEW r, ConnOK(c, r), ProcessedAs(c, k, r)
    PROVE  /\ Len(k.out) \in Nat /\ Len(r.out) \in Nat /\ Len(k.out) <= Len(r.out)
           /\ DOMAIN k.out = 1 .. Len(k.out) /\ DOMAIN r.out = 1 .. Len(r.out)
           /\ k.eaten \in Nat /\ r.eaten \in Nat /\ k.eaten <= r.eaten
           /\ \A i \in DOMAIN k.out : i \in DOMAIN r.out /\ r.out[i] = k.out[i]
           /\ \A i \in DOMAIN r.out :
                \/ i \in DOMAIN k.out /\ r.out[i] = k.out[i]
                \/ /\ i \in More(k, r) /\ r.out[i].of = k.request
                   /\ r.out[i].part \in Final => i = Len(r.out) /\ r.request = 0
                   /\ r.out[i].part = "continue" \/ NowFresh(c, k, r.out[i])
<1>1. /\ k.out \in Seq(Piece) /\ r.out \in Seq(Piece)
      /\ k.eaten \in Nat /\ r.eaten \in Nat /\ k.got \in Nat
    BY DEF ConnOK, ConnType
<1>2. /\ Len(k.out) \in Nat /\ Len(r.out) \in Nat
      /\ DOMAIN k.out = 1 .. Len(k.out) /\ DOMAIN r.out = 1 .. Len(r.out)
    BY <1>1
<1>3. Extends(k, r) /\ k.eaten <= r.eaten
  <2>1. CASE r = k
      BY <1>1, <1>2, <2>1 DEF Extends
  <2>2. CASE WaitsAs(c, k, r)
      BY <1>1, <2>2 DEF WaitsAs
  <2>3. CASE EndedAs(c, k, r)
    <3>1. ContentLen(c, k) \in Nat
        BY RequestOfConn
    <3>2. r.eaten = k.eaten \/ r.eaten = k.eaten + ContentLen(c, k)
        BY <2>3 DEF EndedAs, EatenAfter
    <3> QED
        BY <1>1, <2>3, <3>1, <3>2 DEF EndedAs
  <2> QED
      BY <2>1, <2>2, <2>3 DEF ProcessedAs
<1>4. \A i \in More(k, r) :
        /\ r.out[i].of = k.request
        /\ r.out[i].part \in Final => i = Len(r.out) /\ r.request = 0
        /\ r.out[i].part = "continue" \/ NowFresh(c, k, r.out[i])
  <2>1. CASE r = k
      BY <1>2, <2>1 DEF More
  <2>2. CASE WaitsAs(c, k, r)
      BY <2>2 DEF WaitsAs, Final
  <2>3. CASE EndedAs(c, k, r)
      BY <2>3 DEF EndedAs
  <2> QED
      BY <2>1, <2>2, <2>3 DEF ProcessedAs
<1>5. \A i \in DOMAIN r.out : i \in DOMAIN k.out \/ i \in More(k, r)
    BY <1>2 DEF More
<1>6. \A i \in DOMAIN k.out : i \in DOMAIN r.out /\ r.out[i] = k.out[i]
    BY <1>2, <1>3 DEF Extends
<1>7. Len(k.out) <= Len(r.out)
    BY <1>3 DEF Extends
<1> QED
    BY <1>1, <1>2, <1>3, <1>4, <1>5, <1>6, <1>7

LEMMA ProcessedBehind ==
    ASSUME NEW c, peer[c].script \in AllScripts, NEW k, ConnOK(c, k), Behind(c, k),
           OneForEach(k.out), NEW r, ConnOK(c, r), ProcessedAs(c, k, r)
    PROVE  Behind(c, r) /\ OneForEach(r.out)
<1> DEFINE s == peer[c].script
<1>1. k.request # 0 => k.request \in DOMAIN s /\ HeadEnd(s, k.request) = k.eaten
    BY DEF ConnOK, HeadEnd, ReqOf
<1>2. r.request # 0 => r.request = k.request
    BY DEF ProcessedAs, WaitsAs, EndedAs
<1>3. \A n \in DOMAIN s : HeadEnd(s, n) \in Nat /\ n \in Nat
    BY HeadsInOrder, RequestsInOrder
<1>4. ASSUME NEW i \in DOMAIN r.out, r.out[i].of # 0
      PROVE  LET n == r.out[i].of IN
             /\ n \in DOMAIN s /\ HeadEnd(s, n) <= r.eaten
             /\ n = r.request => r.out[i].part \notin Final
  <2>1. CASE i \in DOMAIN k.out /\ r.out[i] = k.out[i]
      BY <1>2, <1>3, <1>4, <2>1, ProcessedPieces DEF Behind
  <2>2. CASE i \in More(k, r) /\ r.out[i].of = k.request
             /\ (r.out[i].part \in Final => i = Len(r.out) /\ r.request = 0)
      BY <1>1, <1>3, <1>4, <2>2, ProcessedPieces
  <2> QED
      BY <2>1, <2>2, ProcessedPieces
<1>5. Behind(c, r)
    BY <1>4 DEF Behind
<1>6. ASSUME NEW i \in DOMAIN r.out, NEW j \in DOMAIN r.out, i < j,
             r.out[i].of # 0, r.out[j].of # 0
      PROVE  \/ r.out[i].of < r.out[j].of
             \/ r.out[i].of = r.out[j].of /\ r.out[i].part \notin Final
  <2>1. i \in DOMAIN k.out \/ i \in More(k, r)
      BY ProcessedPieces
  <2>2. j \in DOMAIN k.out \/ j \in More(k, r)
      BY ProcessedPieces
  <2>3. CASE i \in DOMAIN k.out /\ j \in DOMAIN k.out
      BY <1>6, <2>3, ProcessedPieces DEF OneForEach
  <2>4. CASE i \in DOMAIN k.out /\ j \in More(k, r) /\ j \notin DOMAIN k.out
    <3>1. r.out[i] = k.out[i] /\ r.out[j].of = k.request
        BY <2>4, ProcessedPieces
    <3> DEFINE m == k.out[i].of
    <3>2. /\ m \in DOMAIN s /\ HeadEnd(s, m) <= k.eaten
          /\ m = k.request => k.out[i].part \notin Final
        BY <1>6, <2>4, <3>1 DEF Behind
    <3>3. m <= k.request
        BY <1>1, <1>6, <3>1, <3>2, HeadsInOrder
    <3>4. k.request \in Nat /\ m \in Nat
        BY <1>1, <1>3, <1>6, <3>1, <3>2
    <3> QED
        BY <3>1, <3>2, <3>3, <3>4
  <2>5. CASE i \notin DOMAIN k.out
    <3>1. j \notin DOMAIN k.out /\ i # Len(r.out)
        BY <1>6, <2>5, ProcessedPieces
    <3> QED
        BY <2>5, <3>1, ProcessedPieces
  <2> QED
      BY <2>1, <2>2, <2>3, <2>4, <2>5
<1>7. OneForEach(r.out)
    BY <1>6 DEF OneForEach
<1> QED
    BY <1>5, <1>7

LEMMA ProcessedPlaced ==
    ASSUME NEW c, peer[c].script \in AllScripts, NEW k, ConnOK(c, k), Placed(c, k),
           NEW r, ConnOK(c, r), SameSocket(k, r), ProcessedAs(c, k, r)
    PROVE  Placed(c, r) /\ (Whole(c, k) => Whole(c, r))
<1> DEFINE s == peer[c].script
<1>1. /\ k.eaten \in Nat /\ k.got \in Nat /\ k.eaten <= k.got
      /\ k.request # 0 => k.request \in DOMAIN s /\ HeadEnd(s, k.request) = k.eaten
                          /\ k.request_len # 0 /\ ~(k.request_len < 0)
    BY DEF ConnOK, ConnType, HeadEnd, ReqOf
<1>2. \A n : AnsweredIn(k.out, n) => AnsweredIn(r.out, n)
    BY ProcessedPieces DEF AnsweredIn
<1>3. CASE r = k
    BY <1>3
<1>4. CASE WaitsAs(c, k, r)
  <2>1. k.request # 0 /\ r.request = k.request /\ r.eaten = k.eaten
      BY <1>4 DEF WaitsAs
  <2>2. Whole(c, k)
      BY <2>1 DEF Placed, GivenUp
  <2> QED
      BY <1>2, <2>1, <2>2 DEF Whole, Placed
<1>5. CASE EndedAs(c, k, r) /\ k.request = 0
  <2>1. ContentLen(c, k) = 0
      BY <1>5 DEF ContentLen
  <2>2. r.eaten = k.eaten /\ r.request = 0 /\ r.got = k.got
      BY <1>1, <1>5, <2>1 DEF EndedAs, EatenAfter, SameSocket
  <2>3. Whole(c, k) => Whole(c, r)
      BY <1>2, <1>5, <2>2 DEF Whole
  <2>4. GivenUp(c, k) => GivenUp(c, r)
      BY <2>2 DEF GivenUp, HeadEnds, Garbled
  <2> QED
      BY <2>3, <2>4 DEF Placed
<1>6. CASE EndedAs(c, k, r) /\ k.request # 0
  <2> DEFINE n == k.request
             b == Begin(s, n)
  <2>1. n \in DOMAIN s /\ HeadEnd(s, n) = k.eaten /\ Whole(c, k) /\ r.request = 0
      BY <1>1, <1>6 DEF Placed, GivenUp, EndedAs
  <2>2. /\ b \in Nat /\ s[n].head \in Nat \ {0} /\ s[n].body \in Nat
        /\ Size(s[n]) = s[n].head + s[n].body /\ n \in Nat \ {0}
        /\ k.eaten = b + s[n].head
      BY <2>1, RequestsInOrder DEF HeadEnd, Size
  <2>3. ContentLen(c, k) = s[n].body
      BY <1>6 DEF ContentLen, ReqOf
  <2>4. r.eaten = EatenAfter(k, s[n].body)
      BY <1>6, <2>3 DEF EndedAs
  <2>5. r.eaten <= b + Size(s[n])
      BY <1>1, <2>2, <2>4 DEF EatenAfter
  <2> HIDE DEF n, b
  <2>6. Boundary(s, r.eaten) \/ Spoilt(s, r.eaten)
    <3>1. CASE s[n].body <= k.got - k.eaten
      <4>1. r.eaten = b + Size(s[n])
          BY <1>1, <2>2, <2>4, <3>1 DEF EatenAfter
      <4> QED
          BY <2>1, <4>1, BoundaryBehind DEF b
    <3>2. CASE ~(s[n].body <= k.got - k.eaten)
      <4>1. r.eaten = k.eaten /\ s[n].body # 0
          BY <1>1, <2>2, <2>4, <3>2 DEF EatenAfter
      <4>2. ~BodyBuffered(c, k)
          BY <1>1, <2>2, <2>3, <3>2 DEF BodyBuffered, Buffered
      <4>3. Refused(c, k)
          BY <1>6, <4>2 DEF EndedAs
      <4>4. s[n].wrong \in {"uri", "version"}
          BY <1>1, <1>6, <4>3 DEF Refused, ReqOf, n
      <4>5. HeadEnd(s, n) <= r.eaten
          BY <1>1, <2>1, <4>1
      <4> QED
          BY <2>1, <4>1, <4>4, <4>5 DEF Spoilt
    <3> QED
        BY <3>1, <3>2
  <2>7. ASSUME NEW m \in DOMAIN s, Valid(c, m), HeadEnd(s, m) <= r.eaten
        PROVE  AnsweredIn(r.out, m)
    <3>1. m \in Nat /\ HeadEnd(s, m) \in Nat /\ Begin(s, m) < HeadEnd(s, m)
          /\ Begin(s, m) \in Nat
        BY HeadsInOrder, RequestsInOrder
    <3>2. ~(n < m)
      <4> SUFFICES ASSUME n < m PROVE FALSE
          OBVIOUS
      <4>1. b + Size(s[n]) <= Begin(s, m)
          BY <2>1, RequestsInOrder DEF b
      <4>2. r.eaten \in Nat
          BY ProcessedPieces
      <4>3. Size(s[n]) \in Nat
          BY <2>2
      <4> QED
          BY <2>2, <2>5, <2>7, <3>1, <4>1, <4>2, <4>3
    <3>3. CASE m = n
      <4>1. /\ Len(r.out) \in Nat /\ Len(k.out) \in Nat /\ Len(k.out) < Len(r.out)
            /\ DOMAIN r.out = 1 .. Len(r.out)
          BY <1>6, ProcessedPieces DEF EndedAs
      <4>2. Len(r.out) \in More(k, r) /\ Len(r.out) \in DOMAIN r.out
          BY <4>1 DEF More
      <4>3. r.out[Len(r.out)].of = n /\ r.out[Len(r.out)].part \in Final
          BY <1>6, <4>2 DEF EndedAs, n
      <4> QED
          BY <3>3, <4>2, <4>3 DEF AnsweredIn
    <3>4. CASE m < n
      <4>1. HeadEnd(s, m) < HeadEnd(s, n)
          BY <2>1, <3>4, HeadsInOrder
      <4>2. HeadEnd(s, m) <= k.eaten /\ m # n
          BY <1>1, <2>1, <2>2, <3>1, <3>4, <4>1
      <4>3. AnsweredIn(k.out, m)
          BY <2>1, <2>7, <4>2 DEF Whole, n
      <4> QED
          BY <1>2, <4>3
    <3> QED
        BY <2>2, <3>1, <3>2, <3>3, <3>4
  <2>8. Whole(c, r)
      BY <2>6, <2>7 DEF Whole
  <2> QED
      BY <2>8 DEF Placed
<1> QED
    BY <1>3, <1>4, <1>5, <1>6 DEF ProcessedAs

LEMMA ProcessedFresh ==
    ASSUME NEW c, peer[c].script \in AllScripts, NEW k, ConnOK(c, k), FreshOut(c, k),
           Known(c), k.got <= peer[c].sent, peer[c].sent \in Nat, feed \in Nat,
           NEW r, ConnOK(c, r), ProcessedAs(c, k, r)
    PROVE  FreshOut(c, r)
<1> DEFINE s == peer[c].script
           n == k.request
<1> SUFFICES ASSUME NEW i \in DOMAIN r.out PROVE PieceFresh(c, r.out[i])
    BY DEF FreshOut
<1>1. CASE i \in DOMAIN k.out /\ r.out[i] = k.out[i]
    BY <1>1 DEF FreshOut
<1>2. CASE i \in More(k, r) /\ r.out[i].of = n
           /\ (r.out[i].part = "continue" \/ NowFresh(c, k, r.out[i]))
  <2>1. CASE n = 0
      BY <1>2, <2>1 DEF PieceFresh
  <2>2. CASE n # 0
    <3>1. n \in DOMAIN s /\ HeadEnd(s, n) = k.eaten /\ k.request_len = 1
        BY <2>2 DEF ConnOK, HeadEnd, ReqOf
    <3>2. k.eaten <= peer[c].sent
      <4>1. k.eaten \in Nat /\ k.got \in Nat /\ k.eaten <= k.got
          BY DEF ConnOK, ConnType
      <4> QED
          BY <4>1
    <3>3. n \in DOMAIN asked[c]
        BY <3>1, <3>2 DEF Known
    <3>4. asked[c][n] \in Nat /\ asked[c][n] <= feed
        BY <3>3 DEF Known
    <3> DEFINE a == r.out[i]
    <3> HIDE DEF n, a
    <3>5. ASSUME ReqOf(c, n).uri = "/flights.json", ReqOf(c, n).wrong = "none"
          PROVE  /\ a.part = "chunk" => a.feed >= asked[c][n]
                 /\ a.part = "error" => asked[c][n] = 0
      <4>1. CASE a.part = "continue"
          BY <4>1
      <4>2. CASE NowFresh(c, k, a)
        <5>1. ~Refused(c, k)
            BY <2>2, <3>1, <3>5 DEF Refused, n
        <5>2. /\ a.part = "chunk" => a.feed = feed
              /\ a.part = "error" => feed = 0
            BY <3>5, <4>2, <5>1 DEF NowFresh, n
        <5> QED
            BY <3>4, <5>2
      <4> QED
          BY <1>2, <4>1, <4>2 DEF a
    <3> QED
        BY <1>2, <3>3, <3>5 DEF PieceFresh, a
  <2> QED
      BY <2>1, <2>2
<1> QED
    BY <1>1, <1>2, ProcessedPieces

LEMMA ProcessedKept ==
    ASSUME NEW c, peer[c].script \in AllScripts, NEW k, ConnOK(c, k), LastKept(c, k),
           NEW r, ConnOK(c, r), ProcessedAs(c, k, r)
    PROVE  LastKept(c, r)
<1>1. CASE r = k
    BY <1>1
<1>2. CASE WaitsAs(c, k, r)
    BY <1>2 DEF WaitsAs, LastKept
<1>3. CASE EndedAs(c, k, r)
  <2>1. Len(r.out) \in More(k, r)
    <3>1. Len(k.out) \in Nat /\ Len(r.out) \in Nat /\ Len(k.out) < Len(r.out)
        BY <1>3, ProcessedPieces DEF EndedAs
    <3> QED
        BY <3>1 DEF More
  <2>2. r.out[Len(r.out)].of = k.request
      BY <1>3, <2>1 DEF EndedAs
  <2> QED
      BY <1>3, <2>2 DEF EndedAs, LastKept
<1> QED
    BY <1>1, <1>2, <1>3 DEF ProcessedAs

LEMMA ProcessedRests ==
    ASSUME NEW c, peer[c].script \in AllScripts, NEW k, ConnOK(c, k),
           NEW r, ConnOK(c, r), SameSocket(k, r), ProcessedAs(c, k, r),
           k.request_len = 0 => HeadEnds(c, k) = {} /\ ~SpoiltFirst(c, k),
           ~r.again
    PROVE  Rests(c, r)
<1>1. CASE ~Refused(c, k) /\ k.request_len = 0 /\ r = k
  <2>1. k.request = 0
      BY <1>1 DEF ConnOK
  <2>2. Buffered(k) <= MAX_REQUEST_SIZE
    <3>1. Buffered(k) \in Int /\ MAX_REQUEST_SIZE \in Nat
        BY ConnectionAssumption DEF Buffered, ConnOK, ConnType
    <3>2. ~(Buffered(k) > MAX_REQUEST_SIZE)
        BY <1>1 DEF Refused
    <3> QED
        BY <3>1, <3>2
  <2> QED
      BY <1>1, <2>1, <2>2 DEF Rests
<1>2. CASE WaitsAs(c, k, r)
  <2>1. r.request # 0 /\ r.request_len = 1
      BY <1>2 DEF WaitsAs, ConnOK
  <2>2. ~BodyBuffered(c, r)
      BY <1>2 DEF WaitsAs, BodyBuffered, Buffered, ContentLen, SameSocket
  <2>3. r.endpoint_type = "USER"
      BY <1>2 DEF WaitsAs
  <2> QED
      BY <2>1, <2>2, <2>3 DEF Rests
<1>3. CASE EndedAs(c, k, r)
  <2>1. r.request = 0 /\ r.flags # {}
      BY <1>3 DEF EndedAs
  <2> QED
      BY <2>1 DEF Rests
<1> QED
    BY <1>1, <1>2, <1>3 DEF ProcessedAs

\* When none was passed over, none is left out.
LEMMA PlacedLeavesNone ==
    ASSUME NEW c, peer[c].script \in AllScripts, NEW r, ConnOK(c, r), Behind(c, r),
           Whole(c, r)
    PROVE  NoneLeftOut(c, r)
<1> DEFINE s == peer[c].script
<1> SUFFICES ASSUME NEW n \in DOMAIN s, AnsweredIn(r.out, n),
                    NEW m \in 1 .. n - 1, Valid(c, m)
             PROVE  AnsweredIn(r.out, m)
    BY DEF NoneLeftOut
<1>1. s \in Seq(Request) /\ n \in 1 .. Len(s) /\ n \in Nat \ {0} /\ Len(s) \in Nat
    BY StreamShape
<1>2. m \in DOMAIN s /\ m < n /\ m \in Nat \ {0}
    BY <1>1
<1>3. HeadEnd(s, m) < HeadEnd(s, n) /\ HeadEnd(s, m) \in Nat /\ HeadEnd(s, n) \in Nat
    BY <1>2, HeadsInOrder
<1>4. HeadEnd(s, n) <= r.eaten
    BY <1>1 DEF AnsweredIn, Behind
<1>5. r.eaten \in Nat /\ (r.request # 0 => HeadEnd(s, r.request) = r.eaten)
    BY DEF ConnOK, ConnType, HeadEnd, ReqOf
<1>6. m # r.request
    BY <1>2, <1>3, <1>4, <1>5
<1>7. HeadEnd(s, m) <= r.eaten
    BY <1>3, <1>4, <1>5
<1> QED
    BY <1>2, <1>6, <1>7 DEF Whole

LEMMA ProcessedLeavesNone ==
    ASSUME NEW c, peer[c].script \in AllScripts, NEW k, ConnOK(c, k), Placed(c, k),
           NoneLeftOut(c, k),
           NEW r, ConnOK(c, r), Behind(c, r), SameSocket(k, r), ProcessedAs(c, k, r)
    PROVE  NoneLeftOut(c, r)
<1>1. CASE Whole(c, k)
  <2>1. Whole(c, r)
      BY <1>1, ProcessedPlaced
  <2> QED
      BY <2>1, PlacedLeavesNone
<1>2. CASE ~Whole(c, k)
  <2>1. k.request = 0
      BY <1>2 DEF Placed, GivenUp
  <2>2. ASSUME NEW n, n # 0, AnsweredIn(r.out, n) PROVE AnsweredIn(k.out, n)
    <3>1. PICK i \in DOMAIN r.out : r.out[i].of = n /\ r.out[i].part \in Final
        BY <2>2 DEF AnsweredIn
    <3>2. i \in DOMAIN k.out /\ r.out[i] = k.out[i]
        BY <2>1, <2>2, <3>1, ProcessedPieces
    <3> QED
        BY <3>1, <3>2 DEF AnsweredIn
  <2>3. \A n : AnsweredIn(k.out, n) => AnsweredIn(r.out, n)
      BY ProcessedPieces DEF AnsweredIn
  <2>4. \A n \in DOMAIN peer[c].script : n # 0
      BY RequestsInOrder
  <2> QED
      BY <2>2, <2>3, <2>4 DEF NoneLeftOut
<1> QED
    BY <1>1, <1>2

\* What may be said of a connection of a client that asked as it did.
Served(c) ==
    /\ peer[c].script \in AllScripts /\ peer[c].sent \in Nat /\ feed \in Nat
    /\ Known(c)

\* A run of calls leads from one state to another.
RunOK(c, k, r) ==
    /\ Sound(c, r) /\ Placed(c, r) /\ SameSocket(k, r) /\ Len(k.out) <= Len(r.out)
    /\ r.flags = k.flags \/ r.flags \subseteq {"FINISHED_SENDING_DATA"}
    /\ Whole(c, k) => Whole(c, r)
    /\ LastKept(c, k) => LastKept(c, r)

\* After n calls there is one more to come only if n heads were taken.
Far(c, n, k) ==
    k.again /\ n # 0 =>
        /\ k.request_len = 0
        /\ \E m \in DOMAIN peer[c].script : n <= m /\ HeadEnd(peer[c].script, m) <= k.eaten

LEMMA AgainOK ==
    ASSUME NEW c, Served(c), NEW k, Sound(c, k), Placed(c, k), k.got <= peer[c].sent, k.again,
           NEW n \in Nat, Far(c, n, k)
    PROVE  LET r == Again(c, k) IN
           /\ RunOK(c, k, r)
           /\ ~r.again => Rests(c, r)
           /\ Far(c, n + 1, r)
<1> DEFINE s == peer[c].script
           x == [k EXCEPT !.again = FALSE]
           y == try_parse(c, x)
           r == Process(c, y)
<1>1. s \in AllScripts /\ feed \in Nat /\ peer[c].sent \in Nat /\ Known(c) /\ k \in ConnType
    BY DEF Served, Sound, ConnOK
<1>2. /\ x \in ConnType
      /\ x.open = k.open /\ x.data = k.data /\ x.flags = k.flags /\ x.got = k.got
      /\ x.endpoint_type = k.endpoint_type /\ x.eaten = k.eaten /\ x.out = k.out
      /\ x.flushed = k.flushed /\ x.request = k.request /\ x.request_len = k.request_len
      /\ x.age = k.age /\ ~x.again
    BY <1>1 DEF ConnType
<1>3. Again(c, k) = r
    BY DEF Again
<1> HIDE DEF x
<1>4. Sound(c, x) /\ SameSocket(k, x) /\ (LastKept(c, k) => LastKept(c, x))
  <2>1. ConnOK(c, x)
      BY <1>2 DEF Sound, ConnOK
  <2>2. Behind(c, x) /\ OneForEach(x.out) /\ FreshOut(c, x) /\ NoneLeftOut(c, x)
      BY <1>2 DEF Sound, Behind, FreshOut, NoneLeftOut
  <2>3. (LastKept(c, k) => LastKept(c, x)) /\ SameSocket(k, x)
      BY <1>2 DEF LastKept, SameSocket
  <2> QED
      BY <2>1, <2>2, <2>3 DEF Sound
<1>5. Placed(c, x) /\ (Whole(c, k) => Whole(c, x))
  <2>1. Whole(c, k) => Whole(c, x)
      BY <1>2 DEF Whole
  <2>2. GivenUp(c, k) => GivenUp(c, x)
      BY <1>2 DEF GivenUp, HeadEnds, Garbled
  <2> QED
      BY <2>1, <2>2 DEF Placed
<1>6. /\ ConnOK(c, y) /\ SameSocket(x, y) /\ ParsedAs(c, x, y)
      /\ y.out = x.out /\ y.flags = x.flags /\ y.again = x.again
    BY <1>1, <1>4, ParseOK DEF Sound
<1> HIDE DEF y
<1>7. ConnOK(c, r) /\ SameSocket(y, r) /\ ProcessedAs(c, y, r)
    BY <1>1, <1>6, ProcessOK
<1> HIDE DEF r
<1>8. /\ x.request # 0 => y = x
      /\ y.request_len = 0 => HeadEnds(c, y) = {} /\ ~SpoiltFirst(c, y)
      /\ Behind(c, y)
    BY <1>1, <1>4, <1>6, ParsedBehind DEF Sound
<1>9. Placed(c, y) /\ (Whole(c, x) => Whole(c, y))
    BY <1>1, <1>4, <1>5, <1>6, ParsedPlaced DEF Sound
<1>10. /\ OneForEach(y.out) /\ FreshOut(c, y) /\ NoneLeftOut(c, y)
       /\ LastKept(c, x) => LastKept(c, y)
       /\ y.got <= peer[c].sent
  <2>1. OneForEach(y.out) /\ FreshOut(c, y) /\ NoneLeftOut(c, y) /\ y.got = k.got
      BY <1>2, <1>4, <1>6 DEF Sound, FreshOut, NoneLeftOut, SameSocket
  <2>2. CASE x.request = 0
      BY <1>6, <2>1, <2>2 DEF LastKept
  <2> QED
      BY <1>8, <2>1, <2>2
<1>11. Behind(c, r) /\ OneForEach(r.out)
    BY <1>1, <1>6, <1>7, <1>8, <1>10, ProcessedBehind
<1>12. Placed(c, r) /\ (Whole(c, y) => Whole(c, r))
    BY <1>1, <1>6, <1>7, <1>9, ProcessedPlaced
<1>13. FreshOut(c, r)
    BY <1>1, <1>6, <1>7, <1>10, ProcessedFresh
<1>14. LastKept(c, y) => LastKept(c, r)
    BY <1>1, <1>6, <1>7, <1>10, ProcessedKept
<1>15. NoneLeftOut(c, r)
    BY <1>1, <1>6, <1>7, <1>9, <1>10, <1>11, ProcessedLeavesNone
<1>16. Sound(c, r)
    BY <1>7, <1>11, <1>13, <1>15 DEF Sound
<1>17. r.flags = k.flags \/ r.flags \subseteq {"FINISHED_SENDING_DATA"}
    BY <1>2, <1>6, <1>7 DEF ProcessedAs, WaitsAs, EndedAs
<1>18. SameSocket(k, r) /\ Len(k.out) <= Len(r.out)
  <2>1. Len(y.out) <= Len(r.out)
      BY <1>1, <1>6, <1>7, ProcessedPieces
  <2> QED
      BY <1>2, <1>4, <1>6, <1>7, <2>1 DEF SameSocket
<1>19. RunOK(c, k, r)
    BY <1>4, <1>5, <1>9, <1>10, <1>12, <1>14, <1>16, <1>17, <1>18 DEF RunOK
<1>20. ~r.again => Rests(c, r)
    BY <1>1, <1>6, <1>7, <1>8, ProcessedRests
<1>21. Far(c, n + 1, r)
  <2> SUFFICES ASSUME r.again
               PROVE  /\ r.request_len = 0
                      /\ \E m \in DOMAIN s : n + 1 <= m /\ HeadEnd(s, m) <= r.eaten
      BY DEF Far
  <2>1. CASE EndedAs(c, y, r)
    <3> DEFINE p == y.request
    <3>1. p # 0 /\ r.request_len = 0
        BY <2>1 DEF EndedAs
    <3>2. p \in DOMAIN s /\ p \in Nat \ {0} /\ HeadEnd(s, p) = y.eaten /\ y.request_len = 1
        BY <1>1, <1>6, <3>1, RequestsInOrder DEF ConnOK, HeadEnd, ReqOf
    <3>3. y.eaten <= r.eaten
        BY <1>1, <1>6, <1>7, ProcessedPieces
    <3>4. n + 1 <= p
      <4>1. CASE n = 0
          BY <3>2, <4>1
      <4>2. CASE n # 0
        <5>1. x.request_len = 0
            BY <1>2, <4>2 DEF Far
        <5>2. PICK m \in DOMAIN s : n <= m /\ HeadEnd(s, m) <= x.eaten
            BY <1>2, <4>2 DEF Far
        <5>3. PICK j \in HeadEnds(c, x) : TookHead(c, x, y, j)
            BY <1>6, <3>1, <3>2, <5>1 DEF ParsedAs
        <5>4. p = stream(c)[j].of
            BY <3>1, <5>3 DEF TookHead, RequestIn
        <5>5. m < p /\ m \in Nat
            BY <1>1, <1>4, <5>2, <5>4, NextHead, RequestsInOrder DEF Sound
        <5> QED
            BY <3>2, <5>2, <5>5
      <4> QED
          BY <4>1, <4>2
    <3> QED
        BY <3>1, <3>2, <3>3, <3>4
  <2>2. CASE r = y
    <3>1. ~y.again
        BY <1>2, <1>6
    <3> QED
        BY <2>2, <3>1
  <2>3. CASE WaitsAs(c, y, r)
    <3>1. ~y.again
        BY <1>2, <1>6
    <3> QED
        BY <2>3, <3>1 DEF WaitsAs
  <2> QED
      BY <1>7, <2>1, <2>2, <2>3 DEF ProcessedAs
<1> QED
    BY <1>3, <1>19, <1>20, <1>21

LEMMA RunFarther ==
    ASSUME NEW c, NEW k, NEW x, NEW r, RunOK(c, k, x), RunOK(c, x, r), k \in ConnType
    PROVE  RunOK(c, k, r)
<1>1. x \in ConnType /\ r \in ConnType
    BY DEF RunOK, Sound, ConnOK
<1>2. Len(k.out) \in Nat /\ Len(x.out) \in Nat /\ Len(r.out) \in Nat
  <2>1. k.out \in Seq(Piece) /\ x.out \in Seq(Piece) /\ r.out \in Seq(Piece)
      BY <1>1 DEF ConnType
  <2> QED
      BY <2>1
<1> QED
    BY <1>2 DEF RunOK, SameSocket

\* All the calls that one event leads to.  There are no more of them behind the
\* first one than there are requests, so that the last one has none to follow.
LEMMA PipelinedOK ==
    ASSUME NEW c, Served(c), NEW k, Sound(c, k), Placed(c, k), k.got <= peer[c].sent
    PROVE  LET r == Pipelined(c, k) IN
           /\ RunOK(c, k, r) /\ ~r.again
           /\ k.again => Rests(c, r)
           /\ ~k.again => r = k
<1> DEFINE s == peer[c].script
           In(n, x) == /\ RunOK(c, k, x) /\ Far(c, n, x)
                       /\ k.again /\ ~x.again => Rests(c, x)
                       /\ ~k.again => x = k
           S == [n \in Nat |-> {x \in ConnType : In(n, x)}]
           r == Pipelined(c, k)
<1>1. s \in AllScripts /\ Len(s) \in Nat /\ k \in ConnType
  <2>1. s \in AllScripts
      BY DEF Served
  <2>2. s \in Seq(Request)
      BY <2>1, StreamShape
  <2> QED
      BY <2>1, <2>2 DEF Sound, ConnOK
<1>2. RunOK(c, k, k)
  <2>1. Len(k.out) \in Nat
      BY <1>1 DEF ConnType
  <2> QED
      BY <2>1 DEF RunOK, SameSocket
<1>3. k \in S[0]
    BY <1>1, <1>2 DEF Far
<1>4. ASSUME NEW n \in Nat, NEW x \in S[n] PROVE Again(c, x) \in S[n + 1]
  <2>1. x \in ConnType /\ In(n, x)
      BY <1>4
  <2>2. CASE ~x.again
    <3>1. Again(c, x) = x
        BY <2>2 DEF Again
    <3>2. Far(c, n + 1, x)
        BY <2>2 DEF Far
    <3> QED
        BY <2>1, <3>1, <3>2
  <2>3. CASE x.again
    <3> DEFINE y == Again(c, x)
    <3>1. Sound(c, x) /\ Placed(c, x) /\ x.got <= peer[c].sent
        BY <2>1 DEF RunOK, SameSocket
    <3>2. k.again
        BY <2>1, <2>3
    <3>3. RunOK(c, x, y) /\ (~y.again => Rests(c, y)) /\ Far(c, n + 1, y)
        BY <2>1, <2>3, <3>1, AgainOK
    <3> HIDE DEF y
    <3>4. RunOK(c, k, y) /\ y \in ConnType
        BY <1>1, <2>1, <3>3, RunFarther DEF RunOK, Sound, ConnOK
    <3> QED
        BY <3>2, <3>3, <3>4 DEF y
  <2> QED
      BY <2>2, <2>3
<1> HIDE DEF S
<1>5. r \in S[Len(s) + 1]
    BY <1>1, <1>3, <1>4, PipelinedSteps
<1> HIDE DEF r
<1>6. In(Len(s) + 1, r)
    BY <1>1, <1>5 DEF S
<1>7. ~r.again
  <2> SUFFICES ASSUME r.again PROVE FALSE
      OBVIOUS
  <2>1. Len(s) + 1 # 0
      BY <1>1
  <2>2. PICK m \in DOMAIN s : Len(s) + 1 <= m
      BY <1>6, <2>1 DEF Far
  <2>3. m \in 1 .. Len(s)
      BY <1>1, RequestsInOrder
  <2> QED
      BY <1>1, <2>2, <2>3
<1> QED
    BY <1>6, <1>7 DEF r

-----------------------------------------------------------------------------
(* The events of a connection *)

\* Its flags, its age and what is sent tell nothing of the requests and answers.
LEMMA SoundElsewhere ==
    ASSUME NEW c, NEW k, Sound(c, k), NEW r \in ConnType,
           r.eaten = k.eaten, r.out = k.out, r.request = k.request,
           r.request_len = k.request_len, r.endpoint_type = k.endpoint_type,
           r.eaten <= r.got, r.got <= Len(stream(c)), r.flushed <= Len(r.out)
    PROVE  /\ Sound(c, r)
           /\ Whole(c, k) => Whole(c, r)
           /\ LastKept(c, k) /\ (r.flags = {} => k.flags = {}) => LastKept(c, r)
           /\ Rests(c, k) /\ (r.flags = {} => k.flags = {}) /\ r.got = k.got => Rests(c, r)
<1>1. ConnOK(c, r)
    BY DEF Sound, ConnOK
<1>2. Behind(c, r) /\ OneForEach(r.out) /\ FreshOut(c, r) /\ NoneLeftOut(c, r)
    BY DEF Sound, Behind, FreshOut, NoneLeftOut
<1>3. Whole(c, k) => Whole(c, r)
    BY DEF Whole
<1>4. LastKept(c, k) /\ (r.flags = {} => k.flags = {}) => LastKept(c, r)
    BY DEF LastKept
<1>5. r.got = k.got =>
        /\ HeadEnds(c, r) = HeadEnds(c, k) /\ Garbled(c, r) = Garbled(c, k)
        /\ Buffered(r) = Buffered(k) /\ BodyBuffered(c, r) = BodyBuffered(c, k)
    BY DEF HeadEnds, Garbled, Buffered, BodyBuffered, ContentLen
<1>6. Rests(c, k) /\ (r.flags = {} => k.flags = {}) /\ r.got = k.got => Rests(c, r)
    BY <1>5 DEF Rests, SpoiltFirst
<1> QED
    BY <1>1, <1>2, <1>3, <1>4, <1>6 DEF Sound

\* Nothing but the rest of its body is behind a request that waits for it.
LEMMA BodyToCome ==
    ASSUME NEW c, peer[c].script \in AllScripts, NEW k, ConnOK(c, k),
           k.request # 0, ~BodyBuffered(c, k)
    PROVE  HeadEnds(c, k) = {} /\ Garbled(c, k) = {}
<1> DEFINE s == peer[c].script
           n == k.request
<1>1. /\ n \in DOMAIN s /\ k.eaten = HeadEnd(s, n)
      /\ k.eaten \in Nat /\ k.got \in Nat /\ k.eaten <= k.got
      /\ k.got <= Len(stream(c)) /\ Len(stream(c)) \in Nat
    BY RequestOfConn DEF ConnOK, ConnType, HeadEnd, ReqOf
<1>2. /\ n \in Nat /\ Begin(s, n) \in Nat /\ s[n].head \in Nat \ {0} /\ s[n].body \in Nat
      /\ HeadEnd(s, n) = Begin(s, n) + s[n].head
      /\ Size(s[n]) = s[n].head + s[n].body
    BY <1>1, RequestsInOrder DEF HeadEnd, Size
<1>3. k.got < Begin(s, n) + Size(s[n])
  <2>1. ContentLen(c, k) = s[n].body
      BY DEF ContentLen, ReqOf
  <2>2. ~(k.got - k.eaten >= s[n].body)
      BY <2>1 DEF BodyBuffered, Buffered
  <2>3. k.got - k.eaten < s[n].body
      BY <1>1, <1>2, <2>2
  <2>4. k.eaten = Begin(s, n) + s[n].head
      BY <1>1, <1>2
  <2> HIDE DEF s, n
  <2> QED
      BY <1>1, <1>2, <2>3, <2>4
<1> SUFFICES ASSUME NEW j \in k.eaten + 1 .. k.got,
                    stream(c)[j].last \/ stream(c)[j].garbled
             PROVE  FALSE
    BY DEF HeadEnds, Garbled
<1> DEFINE m == stream(c)[j].of
<1>4. j \in 1 .. Len(Stream[s]) /\ stream(c) = Stream[s]
    BY <1>1 DEF stream
<1>5. /\ m \in DOMAIN s
      /\ stream(c)[j].last <=> j = Begin(s, m) + s[m].head
      /\ stream(c)[j].garbled => j = Begin(s, m) + 1
    BY <1>4, PartAt
<1>6. ~(m < n) /\ ~(m > n)
  <2> DEFINE b == Begin(s, n)
             z == Size(s[n])
             h == s[n].head
             body == s[n].body
             last == HeadEnd(s, n)
  <2>1. /\ m < n <=> j <= b
        /\ m > n <=> j > b + z
      BY <1>1, <1>4, RequestsInOrder
  <2>2. /\ b \in Nat /\ h \in Nat \ {0} /\ body \in Nat
        /\ last = b + h /\ z = h + body /\ k.eaten = last /\ k.got < b + z
      BY <1>1, <1>2, <1>3, Zenon
  <2> HIDE DEF n, m, b, z, h, body, last
  <2>3. k.eaten \in Nat /\ k.got \in Nat
      BY <1>1
  <2>4. b < j /\ j < b + z
      BY <2>2, <2>3
  <2> QED
      BY <2>1, <2>2, <2>4
<1>7. m = n
    BY <1>2, <1>5, <1>6, RequestsInOrder
<1> HIDE DEF m, n
<1> QED
    BY <1>1, <1>2, <1>5, <1>7

LEMMA OnCloseOK ==
    ASSUME NEW c, Served(c), NEW k, Sound(c, k), k.got <= peer[c].sent, ~k.again,
           k.data => Whole(c, k) /\ Rests(c, k)
    PROVE  LET r == OnClose(c, k) IN
           /\ Sound(c, r) /\ ~r.data /\ ~r.again
           /\ r.open = k.open /\ r.age = k.age /\ r.got = k.got /\ r.flushed = k.flushed
           /\ Len(k.out) <= Len(r.out)
<1> DEFINE s == peer[c].script
           x == close_local_endpoint(c, k)
           y == Pipelined(c, x)
           r == OnClose(c, k)
<1>1. /\ s \in AllScripts /\ ConnOK(c, k) /\ k \in ConnType
      /\ k.eaten \in Nat /\ k.got \in Nat /\ k.eaten <= k.got /\ k.got <= Len(stream(c))
      /\ ContentLen(c, k) \in Nat
    BY RequestOfConn DEF Served, Sound, ConnOK, ConnType
<1>2. k.flushed <= Len(k.out) /\ Len(k.out) \in Nat
  <2>1. k.out \in Seq(Piece)
      BY <1>1 DEF ConnType
  <2> QED
      BY <1>1, <2>1 DEF ConnOK
<1>3. CASE ~k.data
  <2>1. r = k
      BY <1>3 DEF OnClose
  <2> QED
      BY <1>2, <1>3, <2>1
<1>4. CASE k.data
  <2>1. r = [y EXCEPT !.data = FALSE]
      BY <1>4 DEF OnClose
  <2>2. /\ x \in ConnType /\ SameSocket(k, x)
        /\ x.out = k.out /\ x.request = 0 /\ x.request_len = 0 /\ x.endpoint_type = "NONE"
        /\ x.again = KeepAlive(c, k)
        /\ x.eaten = EatenAfter(k, ContentLen(c, k))
        /\ k.eaten <= x.eaten /\ x.eaten <= k.got
      BY <1>1, CloseOK
  <2> HIDE DEF x
  <2>3. x.eaten = k.eaten
    <3>1. CASE k.request = 0
        BY <1>1, <2>2, <3>1 DEF EatenAfter, ContentLen
    <3>2. CASE k.request # 0
      <4>1. ~(Buffered(k) >= ContentLen(c, k))
          BY <1>4, <3>2 DEF Rests, BodyBuffered
      <4> QED
          BY <1>1, <2>2, <4>1 DEF EatenAfter, Buffered
    <3> QED
        BY <3>1, <3>2
  <2>4. Sound(c, x)
    <3>1. ConnOK(c, x)
        BY <1>1, <1>2, <2>2 DEF ConnOK, SameSocket
    <3>2. Behind(c, x) /\ FreshOut(c, x) /\ NoneLeftOut(c, x) /\ OneForEach(x.out)
        BY <2>2, <2>3 DEF Sound, Behind, FreshOut, NoneLeftOut
    <3> QED
        BY <3>1, <3>2 DEF Sound
  <2>5. Placed(c, x)
    <3>1. CASE k.request = 0
        BY <1>4, <2>2, <2>3, <3>1 DEF Whole, Placed
    <3>2. CASE k.request # 0
      <4>1. HeadEnds(c, k) = {} /\ Garbled(c, k) = {}
          BY <1>1, <1>4, <3>2, BodyToCome DEF Rests
      <4> QED
          BY <2>2, <2>3, <4>1 DEF GivenUp, Placed, HeadEnds, Garbled, SameSocket
    <3> QED
        BY <3>1, <3>2
  <2>6. RunOK(c, x, y) /\ ~y.again
    <3>1. x.got <= peer[c].sent
        BY <2>2 DEF SameSocket
    <3> QED
        BY <2>4, <2>5, <3>1, PipelinedOK
  <2>7. /\ Sound(c, y) /\ y \in ConnType /\ SameSocket(k, y) /\ Len(k.out) <= Len(y.out)
      BY <2>2, <2>6 DEF RunOK, SameSocket, Sound, ConnOK
  <2> HIDE DEF y, r
  <2>8. /\ r \in ConnType /\ r.eaten = y.eaten /\ r.out = y.out /\ r.request = y.request
        /\ r.request_len = y.request_len /\ r.endpoint_type = y.endpoint_type
        /\ r.got = y.got /\ r.flushed = y.flushed /\ r.open = y.open /\ r.age = y.age
        /\ r.again = y.again /\ ~r.data
      BY <2>1, <2>7 DEF ConnType
  <2>9. Sound(c, r)
    <3>1. y.eaten <= y.got /\ y.got <= Len(stream(c)) /\ y.flushed <= Len(y.out)
        BY <2>7 DEF Sound, ConnOK
    <3> QED
        BY <2>7, <2>8, <3>1, SoundElsewhere
  <2> QED
      BY <2>6, <2>7, <2>8, <2>9 DEF SameSocket, r
<1> QED
    BY <1>3, <1>4

\* Where connections are between two steps of the server.
Good(c, k) ==
    /\ Sound(c, k) /\ ~k.again
    /\ k.data => Whole(c, k) /\ Rests(c, k) /\ LastKept(c, k)
    /\ k.got <= peer[c].sent /\ peer[c].read <= k.flushed

LEMMA GoodConn ==
    ASSUME NEW c, NEW k, Sound(c, k)
    PROVE  /\ k \in ConnType /\ Len(k.out) \in Nat
           /\ k.eaten \in Nat /\ k.got \in Nat /\ k.flushed \in Nat /\ k.age \in Nat
           /\ k.eaten <= k.got /\ k.got <= Len(stream(c)) /\ k.flushed <= Len(k.out)
<1>1. k \in ConnType
    BY DEF Sound, ConnOK
<1>2. k.out \in Seq(Piece)
    BY <1>1 DEF ConnType
<1> QED
    BY <1>1, <1>2 DEF Sound, ConnOK, ConnType

CLOSE == "CLOSE_IMMEDIATELY"

LEMMA PolledOK ==
    ASSUME NEW c, Served(c), NEW k, Good(c, k)
    PROVE  LET r == Polled(c, k) IN
           /\ Good(c, r) /\ r.open = k.open
           /\ \/ r = k
              \/ /\ ~r.data /\ CLOSE \in r.flags /\ r.age > IDLE_TIMEOUT_SECONDS
                 /\ r.flushed = k.flushed /\ Len(k.out) <= Len(r.out)
<1> DEFINE x == OnClose(c, k)
           r == Polled(c, k)
<1>1. CASE k.age > IDLE_TIMEOUT_SECONDS
  <2>1. /\ Sound(c, x) /\ ~x.data /\ ~x.again
        /\ x.open = k.open /\ x.age = k.age /\ x.got = k.got /\ x.flushed = k.flushed
        /\ Len(k.out) <= Len(x.out)
      BY OnCloseOK DEF Good
  <2>2. r = [x EXCEPT !.flags = x.flags \cup {CLOSE}]
      BY <1>1 DEF Polled, Expired, CLOSE
  <2> HIDE DEF x, r
  <2>3. /\ r \in ConnType /\ r.eaten = x.eaten /\ r.out = x.out /\ r.request = x.request
        /\ r.request_len = x.request_len /\ r.endpoint_type = x.endpoint_type
        /\ r.got = x.got /\ r.flushed = x.flushed /\ r.open = x.open /\ r.age = x.age
        /\ r.again = x.again /\ r.data = x.data /\ CLOSE \in r.flags
    <3>1. x \in ConnType /\ x.flags \cup {CLOSE} \in SUBSET Flags
        BY <2>1 DEF Sound, ConnOK, ConnType, CLOSE, Flags
    <3> QED
        BY <2>2, <3>1 DEF ConnType
  <2>4. Sound(c, r)
      BY <2>1, <2>3, GoodConn, SoundElsewhere
  <2> QED
      BY <1>1, <2>1, <2>3, <2>4 DEF Good, r
<1>2. CASE ~(k.age > IDLE_TIMEOUT_SECONDS)
    BY <1>2 DEF Polled
<1> QED
    BY <1>1, <1>2

LEMMA ClosedOK ==
    ASSUME NEW c, Served(c), NEW k, Good(c, k)
    PROVE  LET r == Closed(c, k) IN
           Good(c, r) /\ r.open = "gone" /\ r.flags = {} /\ ~r.data
<1> DEFINE x == OnClose(c, k)
           r == Closed(c, k)
<1>1. /\ Sound(c, x) /\ ~x.data /\ ~x.again /\ x.got = k.got /\ x.flushed = k.flushed
    BY OnCloseOK DEF Good
<1>2. r = [x EXCEPT !.open = "gone", !.flags = {}, !.age = 0]
    BY DEF Closed
<1> HIDE DEF x, r
<1>3. /\ r \in ConnType /\ r.eaten = x.eaten /\ r.out = x.out /\ r.request = x.request
      /\ r.request_len = x.request_len /\ r.endpoint_type = x.endpoint_type
      /\ r.got = x.got /\ r.flushed = x.flushed
      /\ r.again = x.again /\ r.data = x.data /\ r.open = "gone" /\ r.flags = {}
  <2>1. x \in ConnType
      BY <1>1 DEF Sound, ConnOK
  <2> QED
      BY <1>2, <2>1 DEF ConnType
<1>4. Sound(c, r)
    BY <1>1, <1>3, GoodConn, SoundElsewhere
<1> QED
    BY <1>1, <1>3, <1>4 DEF Good, r

\* A connection that is yet to come, or was just accepted, with or without memory for
\* its data.
IsNew(k) ==
    /\ k \in ConnType /\ k.eaten = 0 /\ k.out = <<>> /\ k.request = 0 /\ k.flushed = 0
    /\ k.request_len = 0 /\ k.endpoint_type = "NONE" /\ k.got = 0 /\ ~k.again

LEMMA NewGood ==
    ASSUME NEW c, Served(c), peer[c].read <= 0, NEW r, IsNew(r)
    PROVE  Good(c, r)
<1> DEFINE s == peer[c].script
<1>1. /\ r \in ConnType /\ r.eaten = 0 /\ r.out = <<>> /\ r.request = 0 /\ r.flushed = 0
      /\ r.request_len = 0 /\ r.endpoint_type = "NONE" /\ r.got = 0 /\ ~r.again
    BY DEF IsNew
<1>2. Len(stream(c)) \in Nat /\ stream(c) = Stream[s] /\ s \in AllScripts /\ peer[c].sent \in Nat
    BY StreamShape DEF Shaped, Served, stream
<1>3. ConnOK(c, r)
    BY <1>1, <1>2 DEF ConnOK
<1>4. Behind(c, r) /\ OneForEach(r.out) /\ FreshOut(c, r) /\ NoneLeftOut(c, r)
    BY <1>1 DEF Behind, OneForEach, FreshOut, NoneLeftOut, AnsweredIn
<1>5. Whole(c, r)
  <2>1. \A n \in DOMAIN s : ~(HeadEnd(s, n) <= 0)
      BY <1>2, HeadsInOrder
  <2>2. Boundary(s, 0)
    <3> SUFFICES ASSUME 0 < Len(Stream[s]) PROVE Stream[s][0 + 1].first
        BY DEF Boundary
    <3>1. 1 \in 1 .. Len(Stream[s])
        BY <1>2
    <3> DEFINE n == Stream[s][1].of
    <3>2. n \in DOMAIN s /\ Begin(s, n) < 1 /\ (Stream[s][1].first <=> 1 = Begin(s, n) + 1)
        BY <1>2, <3>1, PartAt
    <3>3. Begin(s, n) \in Nat
        BY <1>2, <3>2, RequestsInOrder
    <3> QED
        BY <3>2, <3>3
  <2> QED
      BY <1>1, <2>1, <2>2 DEF Whole
<1>6. Rests(c, r) /\ LastKept(c, r)
  <2>1. HeadEnds(c, r) = {} /\ Garbled(c, r) = {}
      BY <1>1 DEF HeadEnds, Garbled
  <2>2. Buffered(r) = 0 /\ 0 <= MAX_REQUEST_SIZE
      BY <1>1, ConnectionAssumption DEF Buffered
  <2>3. ~SpoiltFirst(c, r)
      BY <2>1 DEF SpoiltFirst
  <2> QED
      BY <1>1, <2>1, <2>2, <2>3 DEF Rests, LastKept
<1>7. r.got <= peer[c].sent /\ peer[c].read <= r.flushed
    BY <1>1, <1>2
<1> QED
    BY <1>1, <1>3, <1>4, <1>5, <1>6, <1>7 DEF Good, Sound

LEMMA NoneIsNew == IsNew(NoConnection) /\ NoConnection.open = "no" /\ NoConnection.flags = {}
<1>1. <<>> \in Seq(Piece)
    OBVIOUS
<1>2. NoConnection \in ConnType
    BY <1>1 DEF NoConnection, ConnType
<1> QED
    BY <1>2 DEF NoConnection, IsNew

\* What a turn of the second loop may do to a connection: it is flagged only if its
\* client has shut its side, or all was sent.
Turned(c, k, r) ==
    /\ Good(c, r) /\ r.open = k.open /\ r.data = k.data
    /\ CLOSE \in k.flags /\ ~k.data => CLOSE \in r.flags
    /\ (CLOSE \in k.flags => Unsent(k) = 0 \/ peer[c].shut)
       => (CLOSE \in r.flags /\ r.data => Unsent(r) = 0 \/ peer[c].shut)

LEMMA ReadOK ==
    ASSUME NEW c, Served(c), NEW k, Good(c, k),
           k.data \/ peer[c].sent <= k.got, peer[c].sent > k.got \/ peer[c].shut,
           peer[c].sent <= Len(stream(c)),
           k.data => CLOSE \notin k.flags
    PROVE  LET r == ns_read_from_socket(c, k) IN
           /\ Turned(c, k, r) /\ r.flushed = k.flushed
           /\ CLOSE \in r.flags /\ r.data => peer[c].shut
<1> DEFINE n == Lesser(MaxRecv, peer[c].sent - k.got)
           more == [k EXCEPT !.got = k.got + n, !.age = 0]
           last == [more EXCEPT !.flags = more.flags \cup {CLOSE}]
           x == [more EXCEPT !.again = TRUE]
           y == Pipelined(c, x)
           r == ns_read_from_socket(c, k)
<1>1. /\ k \in ConnType /\ Len(k.out) \in Nat /\ Sound(c, k)
      /\ k.eaten \in Nat /\ k.got \in Nat /\ k.flushed \in Nat /\ k.eaten <= k.got
      /\ k.got <= Len(stream(c)) /\ k.flushed <= Len(k.out)
      /\ peer[c].sent \in Nat /\ k.got <= peer[c].sent
    BY GoodConn DEF Good, Served
<1>2. /\ n \in Nat /\ k.got + n <= peer[c].sent /\ k.got + n \in Nat
      /\ n = 0 => peer[c].sent = k.got
      /\ peer[c].sent <= k.got => n = 0
  <2>1. MaxRecv \in Nat \ {0}
      BY ConnectionAssumption
  <2> QED
      BY <1>1, <2>1 DEF Lesser
<1>3. r = IF n = 0 THEN last ELSE y
    BY DEF ns_read_from_socket, process_request, CLOSE
<1> HIDE DEF n, r
<1>4. /\ more \in ConnType /\ more.eaten = k.eaten /\ more.out = k.out
      /\ more.request = k.request /\ more.request_len = k.request_len
      /\ more.endpoint_type = k.endpoint_type /\ more.got = k.got + n
      /\ more.flushed = k.flushed /\ more.open = k.open /\ more.data = k.data
      /\ more.flags = k.flags /\ more.again = k.again
    BY <1>1, <1>2 DEF ConnType
<1> HIDE DEF more
<1>5. CASE n = 0
  <2>1. /\ last \in ConnType /\ last.eaten = k.eaten /\ last.out = k.out
        /\ last.request = k.request /\ last.request_len = k.request_len
        /\ last.endpoint_type = k.endpoint_type /\ last.got = k.got
        /\ last.flushed = k.flushed /\ last.open = k.open /\ last.data = k.data
        /\ last.again = k.again /\ CLOSE \in last.flags
    <3>1. more.flags \cup {CLOSE} \in SUBSET Flags /\ k.got + n = k.got
        BY <1>1, <1>4, <1>5 DEF ConnType, CLOSE, Flags
    <3> QED
        BY <1>4, <3>1 DEF ConnType
  <2> HIDE DEF last
  <2>2. /\ Sound(c, last)
        /\ Whole(c, k) => Whole(c, last)
        /\ LastKept(c, k) => LastKept(c, last)
        /\ Rests(c, k) => Rests(c, last)
      BY <1>1, <2>1, SoundElsewhere
  <2>3. Good(c, last)
      BY <2>1, <2>2 DEF Good
  <2>4. peer[c].shut
      BY <1>1, <1>2, <1>5
  <2> QED
      BY <1>3, <1>5, <2>1, <2>3, <2>4 DEF Turned, r
<1>6. CASE n # 0
  <2>1. k.data /\ CLOSE \notin k.flags
      BY <1>1, <1>2, <1>6
  <2>2. /\ x \in ConnType /\ x.eaten = k.eaten /\ x.out = k.out
        /\ x.request = k.request /\ x.request_len = k.request_len
        /\ x.endpoint_type = k.endpoint_type /\ x.got = k.got + n
        /\ x.flushed = k.flushed /\ x.open = k.open /\ x.data = k.data
        /\ x.flags = k.flags /\ x.again
      BY <1>4 DEF ConnType
  <2> HIDE DEF x
  <2>3. /\ x.eaten <= x.got /\ x.got <= Len(stream(c)) /\ x.flushed <= Len(x.out)
        /\ x.got <= peer[c].sent
    <3>1. Len(stream(c)) \in Nat
        BY RequestOfConn, <1>1 DEF Served, Sound
    <3> QED
        BY <1>1, <1>2, <2>2, <3>1
  <2>4. Sound(c, x) /\ Whole(c, x) /\ LastKept(c, x)
      BY <1>1, <2>1, <2>2, <2>3, SoundElsewhere DEF Good
  <2>5. RunOK(c, x, y) /\ ~y.again /\ Rests(c, y)
      BY <2>2, <2>3, <2>4, PipelinedOK DEF Placed
  <2> HIDE DEF y
  <2>6. /\ Sound(c, y) /\ Whole(c, y) /\ LastKept(c, y) /\ SameSocket(x, y)
        /\ y.flags = x.flags \/ y.flags \subseteq {"FINISHED_SENDING_DATA"}
      BY <2>4, <2>5 DEF RunOK
  <2>7. CLOSE \notin y.flags
      BY <2>1, <2>2, <2>6 DEF CLOSE
  <2>8. /\ y.open = k.open /\ y.data = k.data /\ y.flushed = k.flushed
        /\ y.got <= peer[c].sent /\ peer[c].read <= y.flushed
      BY <2>2, <2>3, <2>6 DEF SameSocket, Good
  <2>9. Good(c, y)
      BY <2>5, <2>6, <2>8 DEF Good
  <2> QED
      BY <1>3, <1>6, <2>1, <2>7, <2>8, <2>9 DEF Turned, r
<1> QED
    BY <1>5, <1>6

LEMMA WriteOK ==
    ASSUME NEW c, Served(c), NEW k, Good(c, k), peer[c].read \in Nat,
           k.flushed - peer[c].read < WireSize, NEW fails \in {FALSE, peer[c].shut}
    PROVE  Turned(c, k, ns_write_to_socket(c, k, fails))
<1> DEFINE n == Lesser(Unsent(k), WireSize - (k.flushed - peer[c].read))
           sent == IF fails THEN k.flushed ELSE k.flushed + n
           rest == [k EXCEPT !.flushed = sent, !.age = 0]
           last == [rest EXCEPT !.flags = rest.flags \cup {CLOSE}]
           done == fails \/ (Unsent(rest) = 0 /\ "FINISHED_SENDING_DATA" \in rest.flags)
           r == ns_write_to_socket(c, k, fails)
<1>1. /\ k \in ConnType /\ Len(k.out) \in Nat /\ Sound(c, k)
      /\ k.eaten \in Nat /\ k.got \in Nat /\ k.flushed \in Nat /\ k.eaten <= k.got
      /\ k.got <= Len(stream(c)) /\ k.flushed <= Len(k.out) /\ k.got <= peer[c].sent
      /\ peer[c].read <= k.flushed /\ ~k.again
    BY GoodConn DEF Good
<1>2. n \in Nat /\ k.flushed + n <= Len(k.out)
      /\ (Unsent(k) = 0 => n = 0)
  <2> DEFINE room == WireSize - (k.flushed - peer[c].read)
             left == Len(k.out) - k.flushed
  <2>1. WireSize \in Nat
      BY ConnectionAssumption
  <2>2. room \in Nat /\ left \in Nat /\ k.flushed + left = Len(k.out)
      BY <1>1, <2>1
  <2> HIDE DEF room
  <2>3. n = Lesser(left, room)
      BY DEF room, Unsent
  <2> HIDE DEF n, left
  <2>4. n \in Nat /\ n <= left /\ (left = 0 => n = 0)
      BY <2>2, <2>3 DEF Lesser
  <2>5. Unsent(k) = left
      BY DEF Unsent, left
  <2> QED
      BY <1>1, <2>2, <2>4, <2>5
<1>3. r = IF done THEN last ELSE rest
  <2>1. [k EXCEPT !.flushed = IF fails THEN k.flushed ELSE k.flushed + n, !.age = 0] = rest
      OBVIOUS
  <2> QED
      BY <2>1 DEF ns_write_to_socket, CLOSE
<1> HIDE DEF n
<1>4. sent \in Nat /\ k.flushed <= sent /\ sent <= Len(k.out)
      /\ (Unsent(k) = 0 => sent = k.flushed)
    BY <1>1, <1>2
<1> HIDE DEF sent, r
<1>5. /\ rest \in ConnType /\ rest.eaten = k.eaten /\ rest.out = k.out
      /\ rest.request = k.request /\ rest.request_len = k.request_len
      /\ rest.endpoint_type = k.endpoint_type /\ rest.got = k.got
      /\ rest.flushed = sent /\ rest.open = k.open /\ rest.data = k.data
      /\ rest.flags = k.flags /\ rest.again = k.again
    BY <1>1, <1>4 DEF ConnType
<1> HIDE DEF rest
<1>6. Unsent(k) = 0 => Unsent(rest) = 0
    BY <1>1, <1>4, <1>5 DEF Unsent
<1>7. Good(c, rest)
  <2>1. /\ Sound(c, rest)
        /\ Whole(c, k) => Whole(c, rest)
        /\ LastKept(c, k) => LastKept(c, rest)
        /\ Rests(c, k) => Rests(c, rest)
      BY <1>1, <1>4, <1>5, SoundElsewhere
  <2>2. rest.got <= peer[c].sent /\ peer[c].read <= rest.flushed
      BY <1>1, <1>4, <1>5
  <2> QED
      BY <1>1, <1>5, <2>1, <2>2 DEF Good
<1>8. CASE ~done
    BY <1>3, <1>5, <1>6, <1>7, <1>8 DEF Turned, r
<1>9. CASE done
  <2>1. /\ last \in ConnType /\ last.eaten = rest.eaten /\ last.out = rest.out
        /\ last.request = rest.request /\ last.request_len = rest.request_len
        /\ last.endpoint_type = rest.endpoint_type /\ last.got = rest.got
        /\ last.flushed = rest.flushed /\ last.open = rest.open /\ last.data = rest.data
        /\ last.again = rest.again /\ CLOSE \in last.flags
    <3>1. rest.flags \cup {CLOSE} \in SUBSET Flags
        BY <1>5 DEF ConnType, CLOSE, Flags
    <3> QED
        BY <1>5, <3>1 DEF ConnType
  <2> HIDE DEF last
  <2>2. /\ Sound(c, last)
        /\ Whole(c, rest) => Whole(c, last)
        /\ LastKept(c, rest) => LastKept(c, last)
        /\ Rests(c, rest) => Rests(c, last)
      BY <1>7, <2>1, GoodConn, SoundElsewhere DEF Good
  <2>3. Good(c, last)
      BY <1>7, <2>1, <2>2 DEF Good
  <2>4. peer[c].shut \/ Unsent(last) = 0
    <3>1. fails => peer[c].shut
        OBVIOUS
    <3>2. Unsent(last) = Unsent(rest)
        BY <2>1 DEF Unsent
    <3> QED
        BY <1>9, <3>1, <3>2
  <2> QED
      BY <1>3, <1>5, <1>9, <2>1, <2>3, <2>4 DEF Turned, r
<1> QED
    BY <1>8, <1>9

-----------------------------------------------------------------------------
(* The invariant *)

PeerType == [script : AllScripts, connected : BOOLEAN, sent : Nat, read : Nat, shut : BOOLEAN]

Types ==
    /\ peer \in [Clients -> PeerType] /\ conn \in [Clients -> ConnType]
    /\ active_connections \in Seq(Clients) /\ todo \in Seq(Clients)
    /\ ready \in [reads : SUBSET Clients, writes : SUBSET Clients]
    /\ pc \in {"idle", "late", "select", "handle", "sweep", "free", "down", "crashed"}
    /\ stopping \in BOOLEAN /\ feed \in Nat /\ asked \in [Clients -> Seq(Nat)]

Held(c) ==
    /\ Known(c) /\ peer[c].sent <= Len(stream(c)) /\ Good(c, conn[c])
    /\ conn[c].open = "no" => conn[c] = NoConnection
    /\ conn[c].open = "gone" => conn[c].flags = {} /\ ~conn[c].data

InSeq(s, c) == \E i \in DOMAIN s : s[i] = c
Distinct(s) == \A i, j \in DOMAIN s : s[i] = s[j] => i = j

\* The list has the open connections, each once; so has what is left of it.
Lists ==
    /\ \A c \in Clients : conn[c].open = "yes" <=> InSeq(active_connections, c)
    /\ Distinct(active_connections) /\ Distinct(todo)
    /\ \A c \in Clients : InSeq(todo, c) => InSeq(active_connections, c)
    /\ pc \notin {"handle", "crashed"} => todo = <<>>

Flagged(c) == CLOSE \in conn[c].flags
Stalled(c) ==
    Flagged(c) /\ Unsent(conn[c]) > 0 /\ conn[c].age > IDLE_TIMEOUT_SECONDS

\* A connection is flagged when it is released, and closed in the same poll unless
\* it has something to send.  Those that the second loop has not come to are as
\* select saw them.
Steered(c) ==
    /\ ~conn[c].data => Flagged(c)
    /\ conn[c].data /\ Flagged(c) => Unsent(conn[c]) = 0 \/ peer[c].shut
    /\ pc \in {"idle", "late"} => conn[c].data /\ ~Flagged(c)
    /\ pc = "select" =>
        /\ conn[c].data => ~Flagged(c)
        /\ ~conn[c].data => Stalled(c)
    /\ pc = "handle" /\ InSeq(todo, c) =>
        /\ conn[c].data => ~Flagged(c)
        /\ c \in ready.reads =>
            /\ ~conn[c].data => Stalled(c)
            /\ peer[c].sent > conn[c].got \/ peer[c].shut
        /\ c \in ready.writes => conn[c].flushed - peer[c].read < WireSize

Control ==
    /\ \A c \in Clients : conn[c].open = "yes" => Steered(c)
    /\ pc = "free" => stopping
    /\ pc = "crashed" => \E c \in Clients : conn[c].open = "yes" /\ Stalled(c)

Inv == Types /\ (\A c \in Clients : Held(c)) /\ Lists /\ Control

LEMMA HeldServed ==
    ASSUME Types, NEW c \in Clients, Held(c)
    PROVE  /\ Served(c) /\ peer[c] \in PeerType /\ peer[c].read \in Nat /\ conn[c] \in ConnType
           /\ peer[c].read <= conn[c].flushed /\ peer[c].shut \in BOOLEAN
           /\ Good(c, conn[c]) /\ peer[c].sent <= Len(stream(c))
BY DEF Types, Held, Served, PeerType, Good

\* What is said of a connection does not depend on the clients' other doings.
LEMMA SoundStays ==
    ASSUME NEW c, peer'[c].script = peer[c].script,
           asked[c] \in Seq(Nat), asked'[c] \in Seq(Nat), Len(asked[c]) <= Len(asked'[c]),
           \A n \in DOMAIN asked[c] : asked'[c][n] = asked[c][n],
           Sound(c, conn'[c])
    PROVE  Sound(c, conn[c])'
<1>1. ConnOK(c, conn[c])'
    BY DEF Sound, ConnOK, stream, ReqOf
<1>2. Behind(c, conn[c])'
    BY DEF Sound, Behind
<1>3. OneForEach(conn[c].out)'
    BY DEF Sound, OneForEach
<1>4. FreshOut(c, conn[c])'
  <2>1. \A n \in DOMAIN asked[c] : n \in DOMAIN asked'[c]
      OBVIOUS
  <2> QED
      BY <2>1 DEF Sound, FreshOut, PieceFresh, ReqOf
<1>5. NoneLeftOut(c, conn[c])'
    BY DEF Sound, NoneLeftOut, AnsweredIn, Valid, ReqOf
<1> QED
    BY <1>1, <1>2, <1>3, <1>4, <1>5 DEF Sound

LEMMA GoodStays ==
    ASSUME NEW c, peer'[c].script = peer[c].script,
           asked[c] \in Seq(Nat), asked'[c] \in Seq(Nat), Len(asked[c]) <= Len(asked'[c]),
           \A n \in DOMAIN asked[c] : asked'[c][n] = asked[c][n],
           Good(c, conn'[c]),
           conn'[c].got <= peer'[c].sent, peer'[c].read <= conn'[c].flushed
    PROVE  Good(c, conn[c])'
<1>1. Sound(c, conn[c])'
    BY SoundStays DEF Good
<1>2. conn'[c].data => Whole(c, conn[c])'
    BY DEF Good, Whole, AnsweredIn, Valid, ReqOf
<1>3. conn'[c].data => Rests(c, conn[c])'
    BY DEF Good, Rests, BodyBuffered, Buffered, ContentLen, HeadEnds, SpoiltFirst, Garbled, ReqOf, stream
<1>4. conn'[c].data => LastKept(c, conn[c])'
    BY DEF Good, LastKept, ReqOf
<1> QED
    BY <1>1, <1>2, <1>3, <1>4 DEF Good

LEMMA HeldStays ==
    ASSUME NEW c \in Clients, Types, Held(c),
           peer'[c].script = peer[c].script, peer'[c].sent = peer[c].sent,
           asked'[c] = asked[c], feed' \in Nat, feed <= feed',
           Good(c, conn'[c]), peer'[c].read <= conn'[c].flushed,
           conn'[c].open = "no" => conn'[c] = NoConnection,
           conn'[c].open = "gone" => conn'[c].flags = {} /\ ~conn'[c].data
    PROVE  Held(c)'
<1>1. asked[c] \in Seq(Nat) /\ feed \in Nat
    BY DEF Types
<1>2. Known(c)'
  <2>1. \A n \in DOMAIN asked[c] : asked[c][n] <= feed'
    <3>1. \A n \in DOMAIN asked[c] : asked[c][n] \in Nat /\ asked[c][n] <= feed
        BY <1>1 DEF Held, Known
    <3> QED
        BY <1>1, <3>1
  <2> QED
      BY <1>1, <2>1 DEF Held, Known
<1>3. (peer[c].sent <= Len(stream(c)))'
    BY DEF Held, stream
<1>4. Good(c, conn[c])'
  <2>1. conn'[c].got <= peer'[c].sent
      BY DEF Good
  <2>2. Len(asked[c]) <= Len(asked[c])
      BY <1>1
  <2> QED
      BY <1>1, <2>1, <2>2, GoodStays
<1> QED
    BY <1>2, <1>3, <1>4 DEF Held

LEMMA InitInv ==
    ASSUME Init
    PROVE  Inv
<1>1. PICK s \in Scripts :
          peer = [c \in Clients |->
              [script |-> s[c], connected |-> FALSE, sent |-> 0, read |-> 0, shut |-> FALSE]]
    BY DEF Init
<1>2. /\ conn = [c \in Clients |-> NoConnection]
      /\ active_connections = <<>> /\ todo = <<>>
      /\ ready = [reads |-> {}, writes |-> {}]
      /\ pc = "idle" /\ stopping = FALSE /\ feed = 0
      /\ asked = [c \in Clients |-> <<>>]
    BY DEF Init
<1>3. NoConnection \in ConnType
    BY NoneIsNew DEF IsNew
<1>4. Types
  <2>1. peer \in [Clients -> PeerType]
      BY <1>1 DEF AllScripts, PeerType
  <2>2. conn \in [Clients -> ConnType] /\ asked \in [Clients -> Seq(Nat)]
      BY <1>2, <1>3
  <2>3. /\ active_connections \in Seq(Clients) /\ todo \in Seq(Clients)
        /\ ready \in [reads : SUBSET Clients, writes : SUBSET Clients]
      BY <1>2
  <2> QED
      BY <1>2, <2>1, <2>2, <2>3 DEF Types
<1>5. ASSUME NEW c \in Clients PROVE Held(c)
  <2>1. /\ peer[c].script \in AllScripts /\ peer[c].sent = 0 /\ peer[c].read = 0
        /\ asked[c] = <<>> /\ conn[c] = NoConnection
      BY <1>1, <1>2 DEF AllScripts
  <2>2. Known(c)
    <3>1. \A n \in DOMAIN peer[c].script : ~(HeadEnd(peer[c].script, n) <= 0)
        BY <2>1, HeadsInOrder
    <3> QED
        BY <2>1, <3>1 DEF Known
  <2>3. Served(c) /\ Len(stream(c)) \in Nat
      BY <1>2, <2>1, <2>2, StreamShape DEF Served, stream, Shaped
  <2>5. Good(c, NoConnection)
      BY <2>1, <2>3, NoneIsNew, NewGood
  <2>6. NoConnection.open = "no"
      BY NoneIsNew
  <2> QED
      BY <2>1, <2>2, <2>3, <2>5, <2>6 DEF Held
<1>6. \A c \in Clients : conn[c].open = "no"
    BY <1>2 DEF NoConnection
<1>7. Lists /\ Control
    BY <1>2, <1>6 DEF Lists, Control, InSeq, Distinct
<1> QED
    BY <1>4, <1>5, <1>7 DEF Inv

\* What ns_remove_conn leaves of the list.
Outside(s, S) == {i \in DOMAIN s : s[i] \notin S}

LEMMA ListWithout ==
    ASSUME NEW E, NEW s \in Seq(E), Distinct(s), NEW S
    PROVE  LET t == SubseqAt(s, Outside(s, S)) IN
           /\ t \in Seq(E) /\ Distinct(t)
           /\ \A c : InSeq(t, c) <=> InSeq(s, c) /\ c \notin S
<1> DEFINE P == Outside(s, S)
           t == SubseqAt(s, P)
<1> USE DEF Outside
<1>1. /\ t \in Seq(E)
      /\ \A m \in P : \E k \in DOMAIN t : t[k] = s[m]
      /\ \A k \in DOMAIN t : Ordered(P)[k] \in P /\ t[k] = s[Ordered(P)[k]]
      /\ \A j, k \in DOMAIN t : j < k => Ordered(P)[j] < Ordered(P)[k]
  <2>1. P \subseteq DOMAIN s
      OBVIOUS
  <2> HIDE DEF P
  <2> QED
      BY <2>1, SubseqKeeps
<1>2. P \subseteq DOMAIN s /\ P \subseteq Nat /\ \A i \in P : s[i] \notin S
    OBVIOUS
<1>3. \A i \in DOMAIN s : s[i] \notin S => i \in P
    OBVIOUS
<1> HIDE DEF t, P
<1>4. Distinct(t)
  <2> SUFFICES ASSUME NEW i \in DOMAIN t, NEW j \in DOMAIN t, t[i] = t[j], i # j PROVE FALSE
      BY DEF Distinct
  <2>1. Ordered(P)[i] = Ordered(P)[j]
      BY <1>1, <1>2 DEF Distinct
  <2>2. i \in Nat /\ j \in Nat
      BY <1>1
  <2>3. i < j \/ j < i
      BY <2>2
  <2> QED
      BY <1>1, <1>2, <2>1, <2>3
<1>5. ASSUME NEW c PROVE InSeq(t, c) <=> InSeq(s, c) /\ c \notin S
    BY <1>1, <1>2, <1>3 DEF InSeq
<1> QED
    BY <1>1, <1>4, <1>5 DEF t, P

LEMMA CloseOfOK ==
    ASSUME Inv, NEW states \in [Clients -> ConnType], NEW S \in SUBSET Clients,
           CloseOf(states, S), UNCHANGED <<peer, feed, asked>>,
           \A c \in Clients : /\ Good(c, states[c]) /\ states[c].open = conn[c].open
                              /\ conn[c].open # "yes" => states[c] = conn[c]
                              /\ c \in S => conn[c].open = "yes"
    PROVE  /\ conn' \in [Clients -> ConnType] /\ active_connections' \in Seq(Clients)
           /\ \A c \in Clients : Held(c)'
           /\ \A c \in Clients : IF c \in S THEN conn'[c].open = "gone" ELSE conn'[c] = states[c]
           /\ \A c \in Clients : conn'[c].open = "yes" <=> InSeq(active_connections', c)
           /\ Distinct(active_connections')
<1>1. Types /\ Lists /\ \A c \in Clients : Held(c)
    BY DEF Inv
<1>2. conn' = [c \in Clients |-> IF c \in S THEN Closed(c, states[c]) ELSE states[c]]
    BY DEF CloseOf
<1>3. ASSUME NEW c \in Clients
      PROVE  /\ Good(c, conn'[c]) /\ conn'[c] \in ConnType
             /\ IF c \in S THEN conn'[c].open = "gone" ELSE conn'[c] = states[c]
             /\ conn'[c].open = "no" => conn'[c] = NoConnection
             /\ conn'[c].open = "gone" => conn'[c].flags = {} /\ ~conn'[c].data
  <2>1. Served(c)
      BY <1>1, HeldServed
  <2>2. CASE c \in S
    <3>1. conn'[c] = Closed(c, states[c])
        BY <1>2, <2>2
    <3>2. /\ Good(c, conn'[c]) /\ conn'[c].open = "gone"
          /\ conn'[c].flags = {} /\ ~conn'[c].data
        BY <2>1, <3>1, ClosedOK
    <3>3. conn'[c] \in ConnType
        BY <3>2, GoodConn DEF Good
    <3> QED
        BY <2>2, <3>2, <3>3
  <2>3. CASE c \notin S
    <3>1. conn'[c] = states[c]
        BY <1>2, <2>3
    <3> QED
        BY <1>1, <2>3, <3>1 DEF Held
  <2> QED
      BY <2>2, <2>3
<1>4. conn' \in [Clients -> ConnType]
    BY <1>2, <1>3
<1>5. ASSUME NEW c \in Clients PROVE Held(c)'
  <2>1. feed \in Nat /\ feed <= feed /\ peer[c].read <= conn'[c].flushed
      BY <1>1, <1>3 DEF Types, Good
  <2> QED
      BY <1>1, <1>3, <2>1, HeldStays
<1>6. /\ active_connections' \in Seq(Clients) /\ Distinct(active_connections')
      /\ \A c : InSeq(active_connections', c) <=> InSeq(active_connections, c) /\ c \notin S
  <2>1. active_connections \in Seq(Clients) /\ Distinct(active_connections)
      BY <1>1 DEF Types, Lists
  <2>2. active_connections' = SubseqAt(active_connections, Outside(active_connections, S))
      BY DEF CloseOf, Outside
  <2> QED
      BY <2>1, <2>2, ListWithout
<1>7. \A c \in Clients : conn'[c].open = "yes" <=> InSeq(active_connections', c)
    BY <1>1, <1>3, <1>6 DEF Lists
<1> QED
    BY <1>3, <1>4, <1>5, <1>6, <1>7

LEMMA PollInv ==
    ASSUME Inv, Poll
    PROVE  Inv'
<1> DEFINE states == [c \in Clients |-> IF conn[c].open = "yes" THEN Polled(c, conn[c]) ELSE conn[c]]
           closing == Closing(states)
<1>1. Types /\ Lists /\ Control /\ \A c \in Clients : Held(c)
    BY DEF Inv
<1>2. /\ pc \in {"idle", "late"} /\ CloseOf(states, closing)
      /\ ready' = [reads |-> {}, writes |-> {c \in Clients :
             states[c].open = "yes" /\ Unsent(states[c]) > 0}]
      /\ pc' = IF closing = {} THEN "select" ELSE "sweep"
      /\ UNCHANGED <<peer, todo, stopping, feed, asked>>
    BY DEF Poll, PollAll, FirstLoop
<1>3. ASSUME NEW c \in Clients
      PROVE  /\ Good(c, states[c]) /\ states[c].open = conn[c].open /\ states[c] \in ConnType
             /\ conn[c].open # "yes" => states[c] = conn[c]
             /\ conn[c].open = "yes" =>
                  \/ states[c].data /\ CLOSE \notin states[c].flags
                  \/ /\ ~states[c].data /\ CLOSE \in states[c].flags
                     /\ states[c].age > IDLE_TIMEOUT_SECONDS
  <2>1. Served(c) /\ Good(c, conn[c])
      BY <1>1, HeldServed
  <2>2. CASE conn[c].open = "yes"
    <3>1. states[c] = Polled(c, conn[c])
        BY <2>2
    <3>2. conn[c].data /\ CLOSE \notin conn[c].flags
        BY <1>1, <1>2, <2>2 DEF Control, Steered, Flagged
    <3> HIDE DEF states
    <3>3. Good(c, states[c]) /\ states[c].open = conn[c].open
        BY <2>1, <3>1, PolledOK
    <3>4. \/ states[c].data /\ CLOSE \notin states[c].flags
          \/ /\ ~states[c].data /\ CLOSE \in states[c].flags
             /\ states[c].age > IDLE_TIMEOUT_SECONDS
        BY <2>1, <3>1, <3>2, PolledOK
    <3>5. states[c] \in ConnType
        BY <3>3, GoodConn DEF Good
    <3> QED
        BY <2>2, <3>3, <3>4, <3>5
  <2>3. CASE conn[c].open # "yes"
      BY <1>1, <2>1, <2>3 DEF Types
  <2> QED
      BY <2>2, <2>3
<1>4. states \in [Clients -> ConnType]
    BY <1>3
<1>5. /\ closing \in SUBSET Clients
      /\ \A c \in Clients : c \in closing <=>
            /\ states[c].open = "yes" /\ Unsent(states[c]) = 0
            /\ CLOSE \in states[c].flags
    BY DEF Closing, CLOSE
<1> HIDE DEF states, closing
<1>6. /\ conn' \in [Clients -> ConnType] /\ active_connections' \in Seq(Clients)
      /\ \A c \in Clients : Held(c)'
      /\ \A c \in Clients :
            IF c \in closing THEN conn'[c].open = "gone" ELSE conn'[c] = states[c]
      /\ \A c \in Clients : conn'[c].open = "yes" <=> InSeq(active_connections', c)
      /\ Distinct(active_connections')
  <2>1. \A c \in Clients : /\ Good(c, states[c]) /\ states[c].open = conn[c].open
                           /\ conn[c].open # "yes" => states[c] = conn[c]
                           /\ c \in closing => conn[c].open = "yes"
      BY <1>3, <1>5
  <2>2. UNCHANGED <<peer, feed, asked>>
      BY <1>2
  <2> QED
      BY <1>2, <1>4, <1>5, <2>1, <2>2, CloseOfOK
<1>7. Types'
    BY <1>1, <1>2, <1>6 DEF Types
<1>8. todo = <<>>
    BY <1>1, <1>2 DEF Lists
<1>9. Lists'
    BY <1>2, <1>6, <1>8 DEF Lists, InSeq, Distinct
<1>10. ASSUME NEW c \in Clients, conn'[c].open = "yes" PROVE Steered(c)'
  <2>1. c \notin closing /\ conn'[c] = states[c] /\ states[c].open = "yes"
      BY <1>6, <1>10
  <2>2. \/ states[c].data /\ CLOSE \notin states[c].flags
        \/ /\ ~states[c].data /\ CLOSE \in states[c].flags
           /\ states[c].age > IDLE_TIMEOUT_SECONDS
      BY <1>3, <2>1
  <2>3. CLOSE \in states[c].flags => Unsent(states[c]) > 0
    <3>1. Sound(c, states[c])
        BY <1>3 DEF Good
    <3>2. /\ Len(states[c].out) \in Nat /\ states[c].flushed \in Nat
          /\ states[c].flushed <= Len(states[c].out)
        BY <3>1, GoodConn
    <3> QED
        BY <1>5, <2>1, <3>2 DEF Unsent
  <2>4. pc' \in {"select", "sweep"}
      BY <1>2
  <2> QED
      BY <2>1, <2>2, <2>3, <2>4 DEF Steered, Flagged, Stalled, Unsent
<1>11. Control'
    BY <1>2, <1>10 DEF Control
<1> QED
    BY <1>6, <1>7, <1>9, <1>11 DEF Inv

LEMMA SweepInv ==
    ASSUME Inv, Sweep
    PROVE  Inv'
<1> DEFINE S == {c \in Clients : "CLOSE_IMMEDIATELY" \in conn[c].flags}
<1>1. Types /\ Lists /\ Control /\ \A c \in Clients : Held(c)
    BY DEF Inv
<1>2. /\ pc = "sweep" /\ CloseOf(conn, S) /\ ready' = [reads |-> {}, writes |-> {}]
      /\ pc' = IF stopping THEN "free" ELSE "idle"
      /\ UNCHANGED <<peer, todo, stopping, feed, asked>>
    BY DEF Sweep, Close
<1>3. S \in SUBSET Clients /\ \A c \in Clients : c \in S <=> Flagged(c)
    BY DEF Flagged, CLOSE
<1> HIDE DEF S
<1>4. /\ conn' \in [Clients -> ConnType] /\ active_connections' \in Seq(Clients)
      /\ \A c \in Clients : Held(c)'
      /\ \A c \in Clients :
            IF c \in S THEN conn'[c].open = "gone" ELSE conn'[c] = conn[c]
      /\ \A c \in Clients : conn'[c].open = "yes" <=> InSeq(active_connections', c)
      /\ Distinct(active_connections')
  <2>1. ASSUME NEW c \in Clients
        PROVE  Good(c, conn[c]) /\ (c \in S => conn[c].open = "yes")
    <3>1. Good(c, conn[c]) /\ conn[c] \in ConnType
        BY <1>1, HeldServed
    <3>2. conn[c].open \in {"no", "yes", "gone"}
        BY <3>1 DEF ConnType
    <3> QED
        BY <1>1, <1>3, <3>1, <3>2, NoneIsNew DEF Held, Flagged
  <2>2. conn \in [Clients -> ConnType] /\ UNCHANGED <<peer, feed, asked>>
      BY <1>1, <1>2 DEF Types
  <2> QED
      BY <1>2, <1>3, <2>1, <2>2, CloseOfOK
<1>5. Types'
  <2>1. pc' \in {"free", "idle"} /\ ready' \in [reads : SUBSET Clients, writes : SUBSET Clients]
      BY <1>2
  <2> QED
      BY <1>1, <1>2, <1>4, <2>1 DEF Types
<1>6. Lists'
    BY <1>1, <1>2, <1>4 DEF Lists, InSeq, Distinct
<1>7. ASSUME NEW c \in Clients, conn'[c].open = "yes" PROVE Steered(c)'
  <2>1. c \notin S /\ conn'[c] = conn[c]
      BY <1>4, <1>7
  <2>2. ~Flagged(c) /\ conn[c].data
      BY <1>1, <1>3, <1>7, <2>1 DEF Control, Steered
  <2> QED
      BY <1>2, <2>1, <2>2 DEF Steered, Flagged
<1>8. Control'
    BY <1>2, <1>7 DEF Control
<1> QED
    BY <1>4, <1>5, <1>6, <1>8 DEF Inv

LEMMA FreeInv ==
    ASSUME Inv, Free
    PROVE  Inv'
<1> DEFINE S == ToSet(active_connections)
<1>1. Types /\ Lists /\ Control /\ \A c \in Clients : Held(c)
    BY DEF Inv
<1>2. /\ pc = "free" /\ CloseOf(conn, S) /\ pc' = "down"
      /\ UNCHANGED <<peer, todo, ready, stopping, feed, asked>>
    BY DEF Free, Close
<1>3. S \in SUBSET Clients /\ \A c \in Clients : c \in S <=> conn[c].open = "yes"
    BY <1>1 DEF Types, Lists, InSeq, ToSet
<1> HIDE DEF S
<1>4. /\ conn' \in [Clients -> ConnType] /\ active_connections' \in Seq(Clients)
      /\ \A c \in Clients : Held(c)'
      /\ \A c \in Clients :
            IF c \in S THEN conn'[c].open = "gone" ELSE conn'[c] = conn[c]
      /\ \A c \in Clients : conn'[c].open = "yes" <=> InSeq(active_connections', c)
      /\ Distinct(active_connections')
  <2>1. \A c \in Clients : Good(c, conn[c])
      BY <1>1, HeldServed
  <2>2. conn \in [Clients -> ConnType] /\ UNCHANGED <<peer, feed, asked>>
      BY <1>1, <1>2 DEF Types
  <2> QED
      BY <1>2, <1>3, <2>1, <2>2, CloseOfOK
<1>5. Types'
    BY <1>1, <1>2, <1>4 DEF Types
<1>6. Lists'
    BY <1>1, <1>2, <1>4 DEF Lists, InSeq, Distinct
<1>7. Control'
    BY <1>2, <1>3, <1>4 DEF Control
<1> QED
    BY <1>4, <1>5, <1>6, <1>7 DEF Inv

LEMMA SelectInv ==
    ASSUME Inv, Select
    PROVE  Inv'
<1>1. Types /\ Lists /\ Control /\ \A c \in Clients : Held(c)
    BY DEF Inv
<1>2. /\ pc = "select" /\ ready' = [reads |-> Readable, writes |-> Writable]
      /\ \/ \E c \in Backlog : Accept(c)
         \/ UNCHANGED <<conn, active_connections>>
      /\ \/ pc' = "sweep" /\ UNCHANGED todo
         \/ pc' = "handle" /\ todo' = active_connections'
      /\ UNCHANGED <<peer, stopping, feed, asked>>
    BY DEF Select
<1>3. todo = <<>>
    BY <1>1, <1>2 DEF Lists
\* The connections are as they were, but for one that is accepted.
<1>4. /\ conn' \in [Clients -> ConnType] /\ active_connections' \in Seq(Clients)
      /\ \A c \in Clients :
           \/ conn'[c] = conn[c]
           \/ /\ conn[c] = NoConnection /\ IsNew(conn'[c]) /\ conn'[c].open = "yes"
              /\ conn'[c].flags = IF conn'[c].data THEN {} ELSE {CLOSE}
      /\ \A c \in Clients : conn'[c].open = "yes" <=> InSeq(active_connections', c)
      /\ Distinct(active_connections')
  <2>1. CASE UNCHANGED <<conn, active_connections>>
      BY <1>1, <2>1 DEF Types, Lists
  <2>2. CASE \E c \in Backlog : Accept(c)
    <3>1. PICK d \in Clients : conn[d].open = "no" /\ Accept(d)
        BY <2>2 DEF Backlog
    <3>2. PICK ok \in BOOLEAN :
              conn' = [conn EXCEPT ![d] = [conn[d] EXCEPT !.open = "yes", !.data = ok,
                           !.flags = IF ok THEN {} ELSE {CLOSE}]]
        BY <3>1 DEF Accept, CLOSE
    <3> DEFINE flags == IF ok THEN {} ELSE {CLOSE}
               new == [NoConnection EXCEPT !.open = "yes", !.data = ok, !.flags = flags]
    <3>3. conn[d] = NoConnection
        BY <1>1, <3>1 DEF Held
    <3>4. conn' = [conn EXCEPT ![d] = new]
        BY <3>2, <3>3
    <3>5. flags \in SUBSET Flags
        BY DEF Flags, CLOSE
    <3> HIDE DEF flags
    <3>6. IsNew(new) /\ new.open = "yes" /\ new.data = ok /\ new.flags = flags
      <4>1. NoConnection \in ConnType
          BY NoneIsNew DEF IsNew
      <4> QED
          BY <3>5, <4>1, NoneIsNew DEF IsNew, ConnType
    <3> HIDE DEF new
    <3>7. conn \in [Clients -> ConnType] /\ new \in ConnType
        BY <1>1, <3>6 DEF Types, IsNew
    <3>8. conn' \in [Clients -> ConnType] /\ conn'[d] = new
          /\ \A c \in Clients : c # d => conn'[c] = conn[c]
        BY <3>4, <3>7
    <3>9. active_connections' = <<d>> \o active_connections
        BY <3>1 DEF Accept
    <3> DEFINE one == <<d>>
    <3>10. one \in Seq(Clients) /\ active_connections \in Seq(Clients) /\ Len(one) = 1
           /\ one[1] = d
        BY <1>1 DEF Types
    <3> HIDE DEF one
    <3>11. /\ one \o active_connections \in Seq(Clients)
           /\ DOMAIN (one \o active_connections) = 1 .. 1 + Len(active_connections)
           /\ (one \o active_connections)[1] = d
           /\ \A i \in 1 .. Len(active_connections) :
                (one \o active_connections)[1 + i] = active_connections[i]
        BY <3>10, ConcatShape
    <3>12. /\ active_connections' \in Seq(Clients)
           /\ DOMAIN active_connections' = 1 .. 1 + Len(active_connections)
           /\ active_connections'[1] = d
           /\ \A i \in 1 .. Len(active_connections) :
                active_connections'[1 + i] = active_connections[i]
        BY <3>9, <3>11 DEF one
    <3>13. Len(active_connections) \in Nat /\ DOMAIN active_connections = 1 .. Len(active_connections)
        BY <3>10
    <3>14. \A i \in DOMAIN active_connections' :
              \/ i = 1 /\ active_connections'[i] = d
              \/ /\ i - 1 \in DOMAIN active_connections
                 /\ active_connections'[i] = active_connections[i - 1]
      <4> SUFFICES ASSUME NEW i \in 1 .. 1 + Len(active_connections), i # 1
                   PROVE  /\ i - 1 \in DOMAIN active_connections
                          /\ active_connections'[i] = active_connections[i - 1]
          BY <3>12
      <4>1. i - 1 \in 1 .. Len(active_connections) /\ i = 1 + (i - 1)
          BY <3>13
      <4> QED
          BY <3>12, <3>13, <4>1
    <3>15. \A c : InSeq(active_connections', c) <=> c = d \/ InSeq(active_connections, c)
      <4>1. \A i \in DOMAIN active_connections :
              1 + i \in DOMAIN active_connections' /\ active_connections'[1 + i] = active_connections[i]
          BY <3>12, <3>13
      <4>2. 1 \in DOMAIN active_connections'
          BY <3>12, <3>13
      <4>3. ASSUME NEW c, InSeq(active_connections', c)
            PROVE  c = d \/ InSeq(active_connections, c)
          BY <3>14, <4>3 DEF InSeq
      <4>4. ASSUME NEW c, InSeq(active_connections, c)
            PROVE  InSeq(active_connections', c)
          BY <4>1, <4>4 DEF InSeq
      <4>5. InSeq(active_connections', d)
          BY <3>12, <4>2 DEF InSeq
      <4> QED
          BY <4>3, <4>4, <4>5
    <3>16. ~InSeq(active_connections, d)
        BY <1>1, <3>1 DEF Lists
    <3>17. Distinct(active_connections')
      <4> SUFFICES ASSUME NEW i \in DOMAIN active_connections',
                          NEW j \in DOMAIN active_connections',
                          active_connections'[i] = active_connections'[j]
                   PROVE  i = j
          BY DEF Distinct
      <4>1. CASE i = 1 \/ j = 1
          BY <3>12, <3>14, <3>16, <4>1 DEF InSeq
      <4>2. CASE i # 1 /\ j # 1
        <5>1. i - 1 = j - 1
            BY <1>1, <3>14, <4>2 DEF Lists, Distinct
        <5> QED
            BY <3>12, <3>13, <5>1
      <4> QED
          BY <4>1, <4>2
    <3>18. \A c \in Clients : conn'[c].open = "yes" <=> InSeq(active_connections', c)
        BY <1>1, <3>6, <3>8, <3>15 DEF Lists
    <3>19. \A c \in Clients :
           \/ conn'[c] = conn[c]
           \/ /\ conn[c] = NoConnection /\ IsNew(conn'[c]) /\ conn'[c].open = "yes"
              /\ conn'[c].flags = IF conn'[c].data THEN {} ELSE {CLOSE}
        BY <3>3, <3>6, <3>8 DEF flags
    <3> QED
        BY <3>8, <3>12, <3>17, <3>18, <3>19
  <2> QED
      BY <1>2, <2>1, <2>2
<1>5. ASSUME NEW c \in Clients PROVE Held(c)'
  <2>1. /\ Served(c) /\ Good(c, conn[c]) /\ peer[c].read <= conn[c].flushed
      BY <1>1, HeldServed
  <2>2. feed \in Nat /\ feed <= feed
      BY <1>1 DEF Types
  <2>3. CASE conn'[c] = conn[c]
      BY <1>1, <1>2, <2>1, <2>2, <2>3, HeldStays DEF Held
  <2>4. CASE conn[c] = NoConnection /\ IsNew(conn'[c]) /\ conn'[c].open = "yes"
    <3>1. peer[c].read <= 0 /\ conn'[c].flushed = 0
        BY <2>1, <2>4, NoneIsNew DEF IsNew
    <3>2. Good(c, conn'[c])
        BY <2>1, <2>4, <3>1, NewGood
    <3> QED
        BY <1>1, <1>2, <2>2, <2>4, <3>1, <3>2, HeldStays
  <2> QED
      BY <1>4, <2>3, <2>4
<1>6. Types'
  <2>1. ready' \in [reads : SUBSET Clients, writes : SUBSET Clients]
    <3>1. Readable \in SUBSET Clients /\ Writable \in SUBSET Clients
        BY <1>1 DEF Types, Readable, Writable, ToSet
    <3> QED
        BY <1>2, <3>1
  <2>2. todo' \in Seq(Clients) /\ pc' \in {"sweep", "handle"}
      BY <1>1, <1>2, <1>4 DEF Types
  <2> QED
      BY <1>1, <1>2, <1>4, <2>1, <2>2 DEF Types
<1>7. Lists'
    BY <1>1, <1>2, <1>3, <1>4 DEF Lists, InSeq, Distinct
<1>8. ASSUME NEW c \in Clients, conn'[c].open = "yes" PROVE Steered(c)'
  <2>1. pc' \in {"sweep", "handle"} /\ peer' = peer
      BY <1>2
  <2>2. CASE conn'[c] = conn[c]
    <3>1. /\ Steered(c) /\ (conn[c].data => ~Flagged(c)) /\ (~conn[c].data => Stalled(c))
        BY <1>1, <1>2, <1>8, <2>2 DEF Control, Steered
    <3>2. Flagged(c)' = Flagged(c) /\ Stalled(c)' = Stalled(c)
        BY <2>2 DEF Flagged, Stalled, Unsent
    <3>3. c \in ready'.reads => peer[c].sent > conn[c].got \/ peer[c].shut
        BY <1>2 DEF Readable
    <3>4. c \in ready'.writes => conn[c].flushed - peer[c].read < WireSize
        BY <1>2 DEF Writable
    <3> QED
        BY <2>1, <2>2, <3>1, <3>2, <3>3, <3>4 DEF Steered
  <2>3. CASE /\ conn[c] = NoConnection /\ IsNew(conn'[c]) /\ conn'[c].open = "yes"
             /\ conn'[c].flags = IF conn'[c].data THEN {} ELSE {CLOSE}
    <3>1. conn'[c].data <=> ~Flagged(c)'
        BY <2>3 DEF Flagged
    <3>2. c \notin ready'.reads
      <4>1. ~InSeq(active_connections, c)
          BY <1>1, <2>3, NoneIsNew DEF Lists
      <4> QED
          BY <1>2, <4>1 DEF Readable, ToSet, InSeq
    <3>3. conn'[c].flushed = conn[c].flushed
        BY <2>3, NoneIsNew DEF IsNew
    <3>4. c \in ready'.writes => conn'[c].flushed - peer[c].read < WireSize
        BY <1>2, <3>3 DEF Writable
    <3> QED
        BY <2>1, <3>1, <3>2, <3>4 DEF Steered
  <2> QED
      BY <1>4, <2>2, <2>3
<1>9. Control'
    BY <1>2, <1>8 DEF Control
<1> QED
    BY <1>5, <1>6, <1>7, <1>9 DEF Inv

\* A step that leaves the connections to themselves.
LEMMA OthersInv ==
    ASSUME Inv, UNCHANGED <<conn, active_connections, todo, ready>>,
           peer' \in [Clients -> PeerType], feed' \in Nat, asked' \in [Clients -> Seq(Nat)],
           stopping' \in BOOLEAN, stopping => stopping',
           pc' = pc, \A c \in Clients : Held(c)',
           \A c \in Clients : /\ peer[c].sent <= peer'[c].sent /\ peer[c].read <= peer'[c].read
                              /\ peer[c].shut => peer'[c].shut
    PROVE  Inv'
<1>1. Types /\ Lists /\ Control /\ \A c \in Clients : Held(c)
    BY DEF Inv
<1>2. Types'
    BY <1>1 DEF Types
<1>3. Lists'
    BY <1>1 DEF Lists, InSeq, Distinct
<1>4. ASSUME NEW c \in Clients, conn[c].open = "yes" PROVE Steered(c)'
  <2>1. Steered(c)
      BY <1>1, <1>4 DEF Control
  <2>2. /\ peer[c] \in PeerType /\ peer'[c] \in PeerType /\ conn[c] \in ConnType
        /\ WireSize \in Nat
      BY <1>1, ConnectionAssumption DEF Types
  <2>3. /\ conn[c].got \in Nat /\ conn[c].flushed \in Nat
        /\ peer[c].sent \in Nat /\ peer'[c].sent \in Nat
        /\ peer[c].read \in Nat /\ peer'[c].read \in Nat
      BY <2>2 DEF PeerType, ConnType
  <2>4. Flagged(c)' = Flagged(c) /\ Stalled(c)' = Stalled(c) /\ Unsent(conn[c])' = Unsent(conn[c])
        /\ InSeq(todo, c)' = InSeq(todo, c)
      BY DEF Flagged, Stalled, Unsent, InSeq
  <2>5. /\ peer[c].sent > conn[c].got \/ peer[c].shut
              => peer'[c].sent > conn[c].got \/ peer'[c].shut
        /\ conn[c].flushed - peer[c].read < WireSize
              => conn[c].flushed - peer'[c].read < WireSize
        /\ peer[c].shut => peer'[c].shut
      BY <2>2, <2>3
  <2> QED
      BY <2>1, <2>4, <2>5 DEF Steered
<1>5. Control'
    BY <1>1, <1>4 DEF Control, Stalled, Flagged, Unsent
<1> QED
    BY <1>2, <1>3, <1>5 DEF Inv

LEMMA ClientInv ==
    ASSUME Inv, NEW d \in Clients, Connect(d) \/ Read(d) \/ Shut(d)
    PROVE  Inv'
<1>1. Types /\ \A c \in Clients : Held(c)
    BY DEF Inv
<1>2. UNCHANGED <<conn, active_connections, todo, ready, pc, stopping, feed, asked>>
    BY DEF Connect, Read, Shut, Unserved
<1>3. /\ peer' \in [Clients -> PeerType]
      /\ \A c \in Clients : /\ peer'[c].script = peer[c].script /\ peer'[c].sent = peer[c].sent
                            /\ peer[c].read <= peer'[c].read
                            /\ peer'[c].read <= conn[c].flushed
                            /\ peer[c].shut => peer'[c].shut
  <2>1. \A c \in Clients : /\ peer[c] \in PeerType /\ peer[c].read \in Nat
                           /\ peer[c].read <= conn[c].flushed /\ conn[c].flushed \in Nat
    <3>1. ASSUME NEW c \in Clients
          PROVE  /\ peer[c] \in PeerType /\ peer[c].read \in Nat
                 /\ peer[c].read <= conn[c].flushed /\ conn[c].flushed \in Nat
        BY <1>1, HeldServed DEF ConnType
    <3> QED
        BY <3>1
  <2>2. ASSUME NEW new \in PeerType, peer' = [peer EXCEPT ![d] = new],
               new.script = peer[d].script, new.sent = peer[d].sent,
               peer[d].read <= new.read, new.read <= conn[d].flushed,
               peer[d].shut => new.shut
        PROVE  /\ peer' \in [Clients -> PeerType]
               /\ \A c \in Clients : /\ peer'[c].script = peer[c].script /\ peer'[c].sent = peer[c].sent
                                     /\ peer[c].read <= peer'[c].read
                                     /\ peer'[c].read <= conn[c].flushed
                                     /\ peer[c].shut => peer'[c].shut
    <3>1. peer' \in [Clients -> PeerType]
        BY <1>1, <2>2 DEF Types
    <3>2. peer'[d] = new /\ \A c \in Clients : c # d => peer'[c] = peer[c]
        BY <1>1, <2>2 DEF Types
    <3>3. ASSUME NEW c \in Clients
          PROVE  /\ peer'[c].script = peer[c].script /\ peer'[c].sent = peer[c].sent
                 /\ peer[c].read <= peer'[c].read
                 /\ peer'[c].read <= conn[c].flushed
                 /\ peer[c].shut => peer'[c].shut
      <4>1. CASE c = d
          BY <2>2, <3>2, <4>1
      <4>2. CASE c # d
          BY <2>1, <3>2, <4>2
      <4> QED
          BY <4>1, <4>2
    <3> QED
        BY <3>1, <3>3
  <2>3. peer[d] \in PeerType /\ peer[d].read \in Nat /\ conn[d].flushed \in Nat
        /\ peer[d].read <= conn[d].flushed
      BY <2>1
  <2>4. CASE Connect(d)
    <3> DEFINE new == [peer[d] EXCEPT !.connected = TRUE]
    <3>1. peer' = [peer EXCEPT ![d] = new]
        BY <2>4 DEF Connect
    <3>2. new \in PeerType
        BY <2>3 DEF PeerType
    <3>3. /\ new.script = peer[d].script /\ new.sent = peer[d].sent
          /\ new.read = peer[d].read /\ new.shut = peer[d].shut
        BY <2>3 DEF PeerType
    <3> HIDE DEF new
    <3>4. peer[d].read <= new.read /\ new.read <= conn[d].flushed
        BY <2>3, <3>3
    <3>5. peer[d].shut => new.shut
        BY <3>3
    <3> QED
        BY <2>2, <3>1, <3>2, <3>3, <3>4, <3>5, Zenon
  <2>5. CASE Shut(d)
    <3> DEFINE new == [peer[d] EXCEPT !.shut = TRUE]
    <3>1. peer' = [peer EXCEPT ![d] = new]
        BY <2>5 DEF Shut
    <3>2. new \in PeerType
        BY <2>3 DEF PeerType
    <3>3. /\ new.script = peer[d].script /\ new.sent = peer[d].sent
          /\ new.read = peer[d].read /\ new.shut
        BY <2>3 DEF PeerType
    <3> HIDE DEF new
    <3>4. peer[d].read <= new.read /\ new.read <= conn[d].flushed
        BY <2>3, <3>3
    <3>5. peer[d].shut => new.shut
        BY <3>3
    <3> QED
        BY <2>2, <3>1, <3>2, <3>3, <3>4, <3>5, Zenon
  <2>6. CASE Read(d)
    <3> DEFINE new == [peer[d] EXCEPT !.read = conn[d].flushed]
    <3>1. peer' = [peer EXCEPT ![d] = new]
        BY <2>6 DEF Read
    <3>2. new \in PeerType
        BY <2>3 DEF PeerType
    <3>3. /\ new.script = peer[d].script /\ new.sent = peer[d].sent
          /\ new.read = conn[d].flushed /\ new.shut = peer[d].shut
        BY <2>3 DEF PeerType
    <3> HIDE DEF new
    <3>4. peer[d].read <= new.read /\ new.read <= conn[d].flushed
        BY <2>3, <3>3
    <3>5. peer[d].shut => new.shut
        BY <3>3
    <3> QED
        BY <2>2, <3>1, <3>2, <3>3, <3>4, <3>5, Zenon
  <2> QED
      BY <2>4, <2>5, <2>6
<1>4. feed \in Nat /\ feed <= feed /\ stopping \in BOOLEAN /\ asked \in [Clients -> Seq(Nat)]
    BY <1>1 DEF Types
<1>5. ASSUME NEW c \in Clients PROVE Held(c)'
    BY <1>1, <1>2, <1>3, <1>4, HeldStays DEF Held
<1>6. \A c \in Clients : peer[c].sent <= peer'[c].sent
  <2>1. \A c \in Clients : peer[c].sent \in Nat
      BY <1>1 DEF Types, PeerType
  <2> QED
      BY <1>3, <2>1
<1> QED
    BY <1>2, <1>3, <1>4, <1>5, <1>6, OthersInv

LEMMA SendInv ==
    ASSUME Inv, NEW d \in Clients, Send(d)
    PROVE  Inv'
<1> DEFINE s == peer[d].script
           j == peer[d].sent + 1
<1>1. Types /\ \A c \in Clients : Held(c)
    BY DEF Inv
<1>2. UNCHANGED <<conn, active_connections, todo, ready, pc, stopping, feed>>
    BY DEF Send, Unserved
<1>3. /\ peer' = [peer EXCEPT ![d] = [peer[d] EXCEPT !.sent = j]]
      /\ asked' = IF stream(d)[j].last
                  THEN [asked EXCEPT ![d] = Append(asked[d], feed)] ELSE asked
      /\ peer[d].sent < Len(stream(d))
    BY DEF Send
<1>4. /\ \A c \in Clients : peer[c] \in PeerType /\ asked[c] \in Seq(Nat)
      /\ feed \in Nat /\ stopping \in BOOLEAN /\ asked \in [Clients -> Seq(Nat)]
      /\ peer \in [Clients -> PeerType]
    BY <1>1 DEF Types
<1>5. /\ s \in AllScripts /\ peer[d].sent \in Nat /\ Len(stream(d)) \in Nat
      /\ stream(d) = Stream[s] /\ j \in 1 .. Len(Stream[s]) /\ j <= Len(Stream[s])
  <2>1. s \in AllScripts /\ peer[d].sent \in Nat
      BY <1>4 DEF PeerType
  <2>2. Len(Stream[s]) \in Nat /\ stream(d) = Stream[s]
      BY <2>1, StreamShape DEF Shaped, stream
  <2> QED
      BY <1>3, <2>1, <2>2
<1>6. /\ peer' \in [Clients -> PeerType]
      /\ peer'[d].script = s /\ peer'[d].sent = j /\ peer'[d].read = peer[d].read
      /\ peer'[d].shut = peer[d].shut
      /\ \A c \in Clients : c # d => peer'[c] = peer[c]
  <2> DEFINE new == [peer[d] EXCEPT !.sent = j]
  <2>1. j \in Nat
      BY <1>5
  <2> HIDE DEF j
  <2>2. new \in PeerType
      BY <1>4, <2>1 DEF PeerType
  <2>3. /\ new.script = peer[d].script /\ new.sent = j /\ new.read = peer[d].read
        /\ new.shut = peer[d].shut
      BY <1>4 DEF PeerType
  <2>4. peer' = [peer EXCEPT ![d] = new]
      BY <1>3
  <2> HIDE DEF new
  <2>5. peer' \in [Clients -> PeerType] /\ peer'[d] = new
        /\ \A c \in Clients : c # d => peer'[c] = peer[c]
      BY <1>4, <2>2, <2>4
  <2> QED
      BY <2>3, <2>5
<1>7. ASSUME NEW n \in DOMAIN s
      PROVE  HeadEnd(s, n) <= peer[d].sent <=> n \in DOMAIN asked[d]
    BY <1>1, <1>7 DEF Held, Known
\* Where the head of a request ends, the feed is noted for it and for no other.
<1>8. /\ asked'[d] \in Seq(Nat) /\ Len(asked[d]) <= Len(asked'[d])
      /\ \A n \in DOMAIN asked[d] : asked'[d][n] = asked[d][n]
      /\ \A n \in DOMAIN asked'[d] : asked'[d][n] <= feed
      /\ \A n \in DOMAIN s : HeadEnd(s, n) <= j <=> n \in DOMAIN asked'[d]
      /\ \A c \in Clients : c # d => asked'[c] = asked[c]
  <2>1. asked[d] \in Seq(Nat) /\ Len(asked[d]) \in Nat /\ DOMAIN asked[d] = 1 .. Len(asked[d])
        /\ \A n \in DOMAIN asked[d] : asked[d][n] <= feed
    <3>1. asked[d] \in Seq(Nat)
        BY <1>4
    <3> QED
        BY <1>1, <3>1 DEF Held, Known
  <2>2. CASE ~stream(d)[j].last
    <3>1. asked' = asked
        BY <1>3, <2>2
    <3>2. ASSUME NEW n \in DOMAIN s PROVE HeadEnd(s, n) <= j <=> HeadEnd(s, n) <= peer[d].sent
      <4>1. HeadEnd(s, n) \in Nat /\ Stream[s][HeadEnd(s, n)].last
          BY <1>5, HeadsInOrder
      <4>2. HeadEnd(s, n) # j
          BY <1>5, <2>2, <4>1
      <4> QED
          BY <1>5, <4>1, <4>2
    <3> QED
        BY <1>7, <2>1, <3>1, <3>2
  <2>3. CASE stream(d)[j].last
    <3> DEFINE m == stream(d)[j].of
               before == asked[d]
               after == asked'[d]
    <3>1. after = Append(before, feed) /\ \A c \in Clients : c # d => asked'[c] = asked[c]
        BY <1>3, <1>4, <2>3
    <3>2. m \in DOMAIN s /\ HeadEnd(s, m) = j
      <4>1. Stream[s][j].last /\ m = Stream[s][j].of
          BY <1>5, <2>3
      <4>2. m \in DOMAIN s /\ j = Begin(s, m) + s[m].head
        <5> HIDE DEF s, j, m
        <5> QED
            BY <1>5, <4>1, PartAt
      <4> QED
          BY <4>2 DEF HeadEnd
    <3>3. s \in Seq(Request) /\ DOMAIN s = 1 .. Len(s) /\ Len(s) \in Nat
        BY <1>5, StreamShape
    <3> HIDE DEF m
    <3>4. \A n \in DOMAIN s : HeadEnd(s, n) \in Nat /\ n \in Nat \ {0}
        BY <1>5, <3>3, HeadsInOrder
    <3>5. \A n \in DOMAIN s : n < m => n \in DOMAIN before
      <4>1. ASSUME NEW n \in DOMAIN s, n < m PROVE n \in DOMAIN before
        <5>1. HeadEnd(s, n) < j
            BY <1>5, <3>2, <4>1, HeadsInOrder
        <5>2. HeadEnd(s, n) <= peer[d].sent
            BY <1>5, <3>4, <5>1
        <5> QED
            BY <1>7, <5>2
      <4> QED
          BY <4>1
    <3>6. m \notin DOMAIN before
        BY <1>5, <1>7, <3>2
    <3>7. m = Len(before) + 1
      <4>1. m <= Len(before) + 1
        <5> SUFFICES ASSUME ~(m <= Len(before) + 1) PROVE FALSE
            OBVIOUS
        <5>1. Len(before) + 1 \in DOMAIN s /\ Len(before) + 1 < m
            BY <2>1, <3>2, <3>3, <3>4
        <5>2. Len(before) + 1 \in DOMAIN before
            BY <3>5, <5>1
        <5> QED
            BY <2>1, <5>2
      <4>2. m > Len(before)
          BY <2>1, <3>2, <3>4, <3>6
      <4> QED
          BY <2>1, <3>2, <3>4, <4>1, <4>2
    <3>8. /\ after \in Seq(Nat) /\ Len(after) = Len(before) + 1
          /\ DOMAIN after = 1 .. Len(before) + 1
          /\ \A n \in DOMAIN before : after[n] = before[n]
          /\ after[Len(before) + 1] = feed
        BY <1>4, <2>1, <3>1
    <3> HIDE DEF before, after
    <3>9. \A n \in DOMAIN after : after[n] <= feed
      <4>1. \A n \in DOMAIN after : n \in DOMAIN before \/ n = Len(before) + 1
          BY <2>1, <3>8 DEF before
      <4> QED
          BY <1>4, <2>1, <3>8, <4>1 DEF before
    <3>10. ASSUME NEW n \in DOMAIN s PROVE HeadEnd(s, n) <= j <=> n \in DOMAIN after
      <4>1. HeadEnd(s, n) <= j <=> n <= m
        <5>1. HeadEnd(s, n) <= HeadEnd(s, m) => n <= m
            BY <1>5, <3>2, HeadsInOrder
        <5>2. n < m => HeadEnd(s, n) < HeadEnd(s, m)
            BY <1>5, <3>2, HeadsInOrder
        <5> QED
            BY <3>2, <3>4, <5>1, <5>2
      <4> QED
          BY <2>1, <3>4, <3>7, <3>8, <4>1 DEF before
    <3> QED
        BY <2>1, <3>1, <3>8, <3>9, <3>10 DEF before, after
  <2> QED
      BY <2>2, <2>3
<1>9. ASSUME NEW c \in Clients PROVE Held(c)'
  <2>1. Good(c, conn[c]) /\ peer[c].read <= conn[c].flushed /\ Held(c)
      BY <1>1, HeldServed
  <2>2. CASE c # d
    <3>1. peer'[c] = peer[c] /\ asked'[c] = asked[c] /\ conn'[c] = conn[c]
        BY <1>2, <1>6, <1>8, <2>2
    <3>2. feed' \in Nat /\ feed <= feed'
        BY <1>2, <1>4
    <3>3. Good(c, conn'[c]) /\ peer'[c].read <= conn'[c].flushed
        BY <2>1, <3>1
    <3> QED
        BY <1>1, <2>1, <3>1, <3>2, <3>3, HeldStays DEF Held
  <2>3. CASE c = d
    <3>1. Known(d)'
        BY <1>2, <1>6, <1>8 DEF Known
    <3>2. (peer[d].sent <= Len(stream(d)))'
        BY <1>5, <1>6 DEF stream
    <3>3. Good(d, conn[d])'
      <4>1. Good(d, conn'[d]) /\ asked[d] \in Seq(Nat)
          BY <1>2, <1>4, <2>1, <2>3
      <4>2. conn'[d].got <= peer'[d].sent /\ peer'[d].read <= conn'[d].flushed
        <5>1. conn[d].got \in Nat /\ conn[d].got <= peer[d].sent
            BY <1>1, <2>1, <2>3, HeldServed DEF Good, ConnType
        <5> QED
            BY <1>2, <1>5, <1>6, <2>1, <2>3, <5>1
      <4> QED
          BY <1>6, <1>8, <4>1, <4>2, GoodStays
    <3> QED
        BY <1>2, <2>1, <2>3, <3>1, <3>2, <3>3 DEF Held
  <2> QED
      BY <2>2, <2>3
<1>10. asked' \in [Clients -> Seq(Nat)]
    BY <1>3, <1>4
<1>11. \A c \in Clients : /\ peer[c].sent <= peer'[c].sent /\ peer[c].read <= peer'[c].read
                          /\ peer[c].shut => peer'[c].shut
  <2>1. \A c \in Clients : peer[c].sent \in Nat /\ peer[c].read \in Nat
      BY <1>4 DEF PeerType
  <2> QED
      BY <1>5, <1>6, <2>1
<1> QED
    BY <1>2, <1>4, <1>6, <1>9, <1>10, <1>11, OthersInv

\* One connection after its turn of the second loop.
LEMMA TurnOK ==
    ASSUME Types, NEW c \in Clients, Held(c), Steered(c), pc = "handle", InSeq(todo, c),
           ~Dereferenced(c), NEW fails \in {FALSE, peer[c].shut}
    PROVE  LET r == Outgoing(c, Incoming(c, conn[c]), fails) IN
           /\ Good(c, r) /\ r \in ConnType /\ r.open = conn[c].open
           /\ ~r.data => CLOSE \in r.flags
           /\ r.data /\ CLOSE \in r.flags => Unsent(r) = 0 \/ peer[c].shut
<1> DEFINE k == conn[c]
           x == Incoming(c, k)
           r == Outgoing(c, x, fails)
<1>1. /\ Served(c) /\ Good(c, k) /\ k \in ConnType /\ peer[c].read \in Nat
      /\ peer[c].sent <= Len(stream(c)) /\ peer[c].sent \in Nat /\ k.got \in Nat
      /\ peer[c].read <= k.flushed
  <2>1. /\ Served(c) /\ Good(c, k) /\ k \in ConnType /\ peer[c].read \in Nat
        /\ peer[c].sent <= Len(stream(c)) /\ peer[c].read <= k.flushed
      BY HeldServed
  <2> QED
      BY <2>1 DEF Served, ConnType
<1>2. /\ ~k.data => CLOSE \in k.flags
      /\ k.data => CLOSE \notin k.flags
      /\ c \in ready.reads => peer[c].sent > k.got \/ peer[c].shut
      /\ c \in ready.writes => k.flushed - peer[c].read < WireSize
    BY DEF Steered, Flagged
<1>3. c \in ready.reads => k.data \/ peer[c].sent <= k.got
    BY <1>1 DEF Dereferenced
<1> HIDE DEF k
<1>4. /\ Good(c, x) /\ x.open = k.open /\ x.data = k.data /\ x.flushed = k.flushed
      /\ ~x.data => CLOSE \in x.flags
      /\ x.data /\ CLOSE \in x.flags => Unsent(x) = 0 \/ peer[c].shut
  <2>1. CASE c \in ready.reads
    <3> DEFINE y == ns_read_from_socket(c, k)
    <3>1. x = y
        BY <2>1 DEF Incoming
    <3>2. /\ Turned(c, k, y) /\ y.flushed = k.flushed
          /\ CLOSE \in y.flags /\ y.data => peer[c].shut
        BY <1>1, <1>2, <1>3, <2>1, ReadOK
    <3> HIDE DEF y, x
    <3> QED
        BY <1>2, <3>1, <3>2 DEF Turned
  <2>2. CASE c \notin ready.reads
    <3>1. x = k
        BY <2>2 DEF Incoming
    <3> HIDE DEF x
    <3> QED
        BY <1>1, <1>2, <3>1
  <2> QED
      BY <2>1, <2>2
<1> HIDE DEF x
<1>5. CASE c \in ready.writes
  <2> DEFINE y == ns_write_to_socket(c, x, fails)
  <2>1. r = y
      BY <1>5 DEF Outgoing
  <2>2. Turned(c, x, y)
      BY <1>1, <1>2, <1>4, <1>5, WriteOK
  <2> HIDE DEF y, r
  <2>3. Good(c, r) /\ r.open = k.open /\ r.data = x.data
      BY <1>4, <2>1, <2>2 DEF Turned
  <2>4. ~r.data => CLOSE \in r.flags
      BY <1>4, <2>1, <2>2 DEF Turned
  <2>5. r.data /\ CLOSE \in r.flags => Unsent(r) = 0 \/ peer[c].shut
      BY <1>4, <2>1, <2>2 DEF Turned
  <2>6. r \in ConnType
      BY <2>3, GoodConn DEF Good
  <2> QED
      BY <2>3, <2>4, <2>5, <2>6 DEF r, x, k
<1>6. CASE c \notin ready.writes
  <2>1. r = x
      BY <1>6 DEF Outgoing
  <2>2. x \in ConnType
      BY <1>4, GoodConn DEF Good
  <2> HIDE DEF r
  <2>3. Good(c, r) /\ r \in ConnType /\ r.open = k.open
      BY <1>4, <2>1, <2>2
  <2>4. ~r.data => CLOSE \in r.flags
      BY <1>4, <2>1
  <2>5. r.data /\ CLOSE \in r.flags => Unsent(r) = 0 \/ peer[c].shut
      BY <1>4, <2>1
  <2> QED
      BY <2>3, <2>4, <2>5 DEF r, x, k
<1> QED
    BY <1>5, <1>6

LEMMA HandleInv ==
    ASSUME Inv, Handle
    PROVE  Inv'
<1>1. Types /\ Lists /\ Control /\ \A c \in Clients : Held(c)
    BY DEF Inv
<1>2. /\ pc = "handle"
      /\ IF todo = <<>> THEN pc' = "sweep" /\ UNCHANGED <<conn, todo>> ELSE HandleOne(Head(todo))
      /\ UNCHANGED <<peer, active_connections, ready, stopping, feed, asked>>
    BY DEF Handle
<1>3. feed \in Nat /\ feed <= feed /\ todo \in Seq(Clients)
    BY <1>1 DEF Types
<1>4. ASSUME UNCHANGED <<conn, todo>>, pc' \in {"sweep", "crashed"},
             pc' = "sweep" => todo = <<>>,
             pc' = "crashed" => \E c \in Clients : conn[c].open = "yes" /\ Stalled(c)
      PROVE  Inv'
  <2>1. Types'
      BY <1>1, <1>2, <1>4 DEF Types
  <2>2. ASSUME NEW c \in Clients PROVE Held(c)'
    <3>1. Good(c, conn[c]) /\ peer[c].read <= conn[c].flushed /\ Held(c)
        BY <1>1, HeldServed
    <3> QED
        BY <1>1, <1>2, <1>3, <1>4, <3>1, HeldStays DEF Held
  <2>3. Lists'
      BY <1>1, <1>2, <1>4 DEF Lists, InSeq, Distinct
  <2>4. ASSUME NEW c \in Clients, conn'[c].open = "yes" PROVE Steered(c)'
    <3>1. Steered(c)
        BY <1>1, <1>4, <2>4 DEF Control
    <3> QED
        BY <1>2, <1>4, <3>1 DEF Steered, Flagged, Unsent
  <2>5. Control'
      BY <1>4, <2>4 DEF Control, Stalled, Flagged, Unsent
  <2> QED
      BY <2>1, <2>2, <2>3, <2>5 DEF Inv
<1>5. CASE todo = <<>>
    BY <1>2, <1>4, <1>5
<1>6. CASE todo # <<>>
  <2> DEFINE d == Head(todo)
  <2>1. /\ d \in Clients /\ InSeq(todo, d) /\ Tail(todo) \in Seq(Clients)
        /\ Len(todo) \in Nat \ {0} /\ d = todo[1]
    <3>1. Len(todo) \in Nat \ {0} /\ 1 \in DOMAIN todo /\ d = todo[1]
        BY <1>3, <1>6
    <3>2. InSeq(todo, d)
        BY <3>1 DEF InSeq
    <3> QED
        BY <1>3, <1>6, <3>1, <3>2
  <2> HIDE DEF d
  <2>2. HandleOne(d)
      BY <1>2, <1>6 DEF d
  <2>3. conn[d].open = "yes" /\ Steered(d) /\ Held(d)
      BY <1>1, <2>1 DEF Lists, Control
  <2>4. CASE Dereferenced(d)
    <3>1. Stalled(d)
        BY <1>2, <2>1, <2>3, <2>4 DEF Steered, Dereferenced
    <3>2. pc' = "crashed" /\ UNCHANGED <<conn, todo>>
        BY <2>2, <2>4 DEF HandleOne
    <3> QED
        BY <1>4, <2>1, <2>3, <3>1, <3>2
  <2>5. CASE ~Dereferenced(d)
    <3>1. PICK fails \in {FALSE, peer[d].shut} :
              conn' = [conn EXCEPT ![d] = Outgoing(d, Incoming(d, conn[d]), fails)]
        BY <2>2, <2>5 DEF HandleOne
    <3>2. todo' = Tail(todo) /\ pc' = "handle"
        BY <1>2, <2>2, <2>5 DEF HandleOne
    <3> DEFINE r == Outgoing(d, Incoming(d, conn[d]), fails)
    <3>3. /\ Good(d, r) /\ r \in ConnType /\ r.open = "yes"
          /\ ~r.data => CLOSE \in r.flags
          /\ r.data /\ CLOSE \in r.flags => Unsent(r) = 0 \/ peer[d].shut
        BY <1>1, <1>2, <2>1, <2>3, <2>5, TurnOK
    <3> HIDE DEF r
    <3>4. /\ conn' \in [Clients -> ConnType] /\ conn'[d] = r
          /\ \A c \in Clients : c # d => conn'[c] = conn[c]
        BY <1>1, <2>1, <3>1, <3>3 DEF Types, r
    <3>5. /\ \A i \in DOMAIN todo' : i + 1 \in DOMAIN todo /\ i + 1 # 1 /\ todo'[i] = todo[i + 1]
          /\ todo' \in Seq(Clients)
        BY <1>3, <2>1, <3>2
    <3>6. ASSUME NEW c, InSeq(todo', c) PROVE InSeq(todo, c) /\ c # d
      <4>1. PICK i \in DOMAIN todo' : todo'[i] = c
          BY <3>6 DEF InSeq
      <4>2. InSeq(todo, c)
          BY <3>5, <4>1 DEF InSeq
      <4>3. c # d
          BY <1>1, <2>1, <3>5, <4>1 DEF Lists, Distinct
      <4> QED
          BY <4>2, <4>3
    <3>7. Distinct(todo')
      <4> SUFFICES ASSUME NEW i \in DOMAIN todo', NEW j \in DOMAIN todo', todo'[i] = todo'[j]
                   PROVE  i = j
          BY DEF Distinct
      <4>1. i + 1 = j + 1
          BY <1>1, <3>5 DEF Lists, Distinct
      <4>2. i \in Nat /\ j \in Nat
          BY <3>5
      <4> QED
          BY <4>1, <4>2
    <3>8. Types'
        BY <1>1, <1>2, <3>2, <3>4, <3>5 DEF Types
    <3>9. ASSUME NEW c \in Clients PROVE Held(c)'
      <4>1. Good(c, conn[c]) /\ peer[c].read <= conn[c].flushed /\ Held(c)
          BY <1>1, HeldServed
      <4>2. CASE c = d
        <5>1. Good(c, conn'[c]) /\ conn'[c].open = "yes"
            BY <3>3, <3>4, <4>2
        <5>2. peer[c].read <= conn'[c].flushed
            BY <5>1 DEF Good
        <5> QED
            BY <1>1, <1>2, <1>3, <4>1, <5>1, <5>2, HeldStays
      <4>3. CASE c # d
        <5>1. conn'[c] = conn[c]
            BY <3>4, <4>3
        <5> QED
            BY <1>1, <1>2, <1>3, <4>1, <5>1, HeldStays DEF Held
      <4> QED
          BY <4>2, <4>3
    <3>10. Lists'
      <4>1. \A c \in Clients : conn'[c].open = conn[c].open
          BY <2>3, <3>3, <3>4
      <4>2. \A c : InSeq(active_connections, c)' <=> InSeq(active_connections, c)
          BY <1>2 DEF InSeq
      <4>3. Distinct(active_connections')
          BY <1>1, <1>2 DEF Lists
      <4> QED
          BY <1>1, <1>2, <3>2, <3>6, <3>7, <4>1, <4>3 DEF Lists
    <3>11. ASSUME NEW c \in Clients, conn'[c].open = "yes" PROVE Steered(c)'
      <4>1. CASE c = d
        <5>1. ~InSeq(todo', c)
            BY <3>6, <4>1
        <5>2. /\ ~conn'[c].data => Flagged(c)'
              /\ conn'[c].data /\ Flagged(c)' => Unsent(conn'[c]) = 0 \/ peer[c].shut
            BY <3>3, <3>4, <4>1 DEF Flagged
        <5>3. Flagged(c)' \in BOOLEAN /\ Unsent(conn[c])' = Unsent(conn'[c])
            BY DEF Flagged, Unsent
        <5> QED
            BY <1>2, <3>2, <5>1, <5>2, <5>3 DEF Steered
      <4>2. CASE c # d
        <5>1. conn'[c] = conn[c] /\ Steered(c)
            BY <1>1, <3>4, <3>11, <4>2 DEF Control
        <5>2. /\ Flagged(c)' = Flagged(c) /\ Stalled(c)' = Stalled(c)
              /\ Unsent(conn[c])' = Unsent(conn[c])
            BY <5>1 DEF Flagged, Stalled, Unsent
        <5>3. InSeq(todo', c) => InSeq(todo, c)
            BY <3>6
        <5> QED
            BY <1>2, <3>2, <5>1, <5>2, <5>3 DEF Steered
      <4> QED
          BY <4>1, <4>2
    <3>12. Control'
        BY <3>2, <3>11 DEF Control
    <3> QED
        BY <3>8, <3>9, <3>10, <3>12 DEF Inv
  <2> QED
      BY <2>4, <2>5
<1> QED
    BY <1>5, <1>6

LEMMA TickInv ==
    ASSUME Inv, Tick
    PROVE  Inv'
<1>1. Types /\ Lists /\ Control /\ \A c \in Clients : Held(c)
    BY DEF Inv
<1>2. /\ pc = "idle" /\ pc' = "late"
      /\ UNCHANGED <<peer, active_connections, todo, ready, stopping, feed, asked>>
    BY DEF Tick
<1>3. ASSUME NEW c \in Clients
      PROVE  /\ conn'[c] \in ConnType /\ Good(c, conn'[c])
             /\ conn'[c].open = conn[c].open /\ conn'[c].data = conn[c].data
             /\ conn'[c].flags = conn[c].flags /\ conn'[c].flushed = conn[c].flushed
             /\ conn[c] = NoConnection => conn'[c] = NoConnection
  <2> DEFINE k == conn[c]
             age == IF k.open = "yes" THEN Lesser(k.age + 1, IDLE_TIMEOUT_SECONDS + 1) ELSE 0
             r == [k EXCEPT !.age = age]
  <2>1. conn'[c] = r
      BY <1>2 DEF Tick
  <2>2. k \in ConnType /\ Good(c, k)
      BY <1>1, HeldServed
  <2>3. age \in Nat
    <3>1. k.age \in Nat /\ IDLE_TIMEOUT_SECONDS \in Nat
        BY <2>2, ConnectionAssumption DEF ConnType
    <3> QED
        BY <3>1 DEF Lesser
  <2>4. k = NoConnection => age = 0
      BY DEF NoConnection
  <2> HIDE DEF age
  <2>5. k = NoConnection => r = NoConnection
    <3>1. k = NoConnection => r = [NoConnection EXCEPT !.age = 0]
        BY <2>4
    <3>2. [NoConnection EXCEPT !.age = 0] = NoConnection
        BY DEF NoConnection
    <3> QED
        BY <3>1, <3>2
  <2> HIDE DEF k
  <2>6. /\ r \in ConnType /\ r.eaten = k.eaten /\ r.out = k.out
        /\ r.request = k.request /\ r.request_len = k.request_len
        /\ r.endpoint_type = k.endpoint_type /\ r.got = k.got
        /\ r.flushed = k.flushed /\ r.open = k.open /\ r.data = k.data
        /\ r.flags = k.flags /\ r.again = k.again
      BY <2>2, <2>3 DEF ConnType
  <2> HIDE DEF r
  <2>7. Good(c, r)
    <3>1. /\ Sound(c, r)
          /\ Whole(c, k) => Whole(c, r)
          /\ LastKept(c, k) => LastKept(c, r)
          /\ Rests(c, k) => Rests(c, r)
        BY <2>2, <2>6, GoodConn, SoundElsewhere DEF Good
    <3> QED
        BY <2>2, <2>6, <3>1 DEF Good
  <2> QED
      BY <2>1, <2>5, <2>6, <2>7 DEF k
<1>4. feed \in Nat /\ feed <= feed
    BY <1>1 DEF Types
<1>5. ASSUME NEW c \in Clients PROVE Held(c)'
  <2>1. Held(c) /\ peer[c].read <= conn[c].flushed
      BY <1>1, HeldServed
  <2>2. /\ Good(c, conn'[c]) /\ peer[c].read <= conn'[c].flushed
        /\ conn'[c].open = "no" => conn'[c] = NoConnection
        /\ conn'[c].open = "gone" => conn'[c].flags = {} /\ ~conn'[c].data
      BY <1>3, <2>1 DEF Held
  <2> QED
      BY <1>1, <1>2, <1>4, <2>1, <2>2, HeldStays
<1>6. Types'
  <2>1. conn' \in [Clients -> ConnType]
    <3>1. conn' = [c \in Clients |-> conn'[c]]
        BY DEF Tick
    <3> QED
        BY <1>3, <3>1
  <2> QED
      BY <1>1, <1>2, <2>1 DEF Types
<1>7. Lists'
    BY <1>1, <1>2, <1>3 DEF Lists, InSeq, Distinct
<1>8. ASSUME NEW c \in Clients, conn'[c].open = "yes" PROVE Steered(c)'
  <2>1. Steered(c)
      BY <1>1, <1>3, <1>8 DEF Control
  <2>2. conn[c].data /\ ~Flagged(c)
      BY <1>2, <2>1 DEF Steered
  <2>3. conn'[c].data /\ ~Flagged(c)'
      BY <1>3, <2>2 DEF Flagged
  <2> QED
      BY <1>2, <2>3 DEF Steered
<1>9. Control'
    BY <1>2, <1>8 DEF Control
<1> QED
    BY <1>5, <1>6, <1>7, <1>9 DEF Inv

LEMMA BetweenInv ==
    ASSUME Inv, Rewrite \/ Stop
    PROVE  Inv'
<1>1. Types /\ \A c \in Clients : Held(c)
    BY DEF Inv
<1>2. /\ UNCHANGED <<peer, conn, active_connections, todo, ready, pc, asked>>
      /\ feed' \in Nat /\ feed <= feed' /\ stopping' \in BOOLEAN /\ (stopping => stopping')
  <2>1. feed \in Nat /\ stopping \in BOOLEAN
      BY <1>1 DEF Types
  <2>2. CASE Rewrite
      BY <2>1, <2>2 DEF Rewrite
  <2>3. CASE Stop
    <3>1. stopping' /\ stopping' \in BOOLEAN
        BY <2>3 DEF Stop
    <3> QED
        BY <2>1, <2>3, <3>1 DEF Stop
  <2> QED
      BY <2>2, <2>3
<1>3. ASSUME NEW c \in Clients PROVE Held(c)'
  <2>1. Good(c, conn[c]) /\ peer[c].read <= conn[c].flushed /\ Held(c)
      BY <1>1, HeldServed
  <2> QED
      BY <1>1, <1>2, <2>1, HeldStays DEF Held
<1>4. peer \in [Clients -> PeerType] /\ asked \in [Clients -> Seq(Nat)]
    BY <1>1 DEF Types
<1>5. \A c \in Clients : peer[c].sent <= peer[c].sent /\ peer[c].read <= peer[c].read
  <2>1. \A c \in Clients : peer[c].sent \in Nat /\ peer[c].read \in Nat
      BY <1>4 DEF PeerType
  <2> QED
      BY <2>1
<1> QED
    BY <1>2, <1>3, <1>4, <1>5, OthersInv

LEMMA NextInv ==
    ASSUME Inv, [Next]_vars
    PROVE  Inv'
<1>1. CASE UNCHANGED vars
  <2>1. Types' /\ Lists' /\ Control'
      BY <1>1 DEF vars, Inv, Types, Lists, Control, InSeq, Distinct, Steered, Stalled, Flagged, Unsent
  <2>2. ASSUME NEW c \in Clients PROVE Held(c)'
    <3>1. Held(c) /\ Types /\ feed \in Nat /\ feed <= feed
        BY DEF Inv, Types
    <3>2. Good(c, conn[c]) /\ peer[c].read <= conn[c].flushed
        BY <3>1, HeldServed
    <3> QED
        BY <1>1, <3>1, <3>2, HeldStays DEF vars, Held
  <2> QED
      BY <2>1, <2>2 DEF Inv
<1>2. CASE Server
    BY <1>2, PollInv, SelectInv, HandleInv, SweepInv, FreeInv DEF Server
<1>3. CASE Client
    BY <1>3, ClientInv, SendInv DEF Client
<1>4. CASE Rewrite \/ Tick \/ Stop
    BY <1>4, BetweenInv, TickInv
<1> QED
    BY <1>1, <1>2, <1>3, <1>4 DEF Next

LEMMA SpecInv == Spec => []Inv
<1>1. Init => Inv
    BY InitInv
<1>2. Inv /\ [Next]_vars => Inv'
    BY NextInv
<1> QED
    BY <1>1, <1>2, PTL DEF Spec

-----------------------------------------------------------------------------
(* What it says *)

LEMMA InvTypes ==
    ASSUME Inv
    PROVE  TypeOK
<1>1. Types /\ Lists /\ Control /\ \A c \in Clients : Held(c)
    BY DEF Inv
<1>2. ASSUME NEW c \in Clients
      PROVE  /\ conn[c].open \in {"no", "yes", "gone"}
             /\ conn[c].flags \subseteq {"CLOSE_IMMEDIATELY", "FINISHED_SENDING_DATA"}
             /\ conn[c].endpoint_type \in {"NONE", "USER"}
             /\ conn[c].eaten \in 0 .. conn[c].got /\ conn[c].got \in 0 .. peer[c].sent
             /\ conn[c].flushed \in 0 .. Len(conn[c].out)
             /\ conn[c].request_len \in {-1, 0, 1} /\ ~conn[c].again
             /\ conn[c].open = "yes" <=> Contains(active_connections, c)
             /\ peer[c].read \in 0 .. conn[c].flushed
  <2> DEFINE k == conn[c]
  <2>1. Good(c, k) /\ Served(c) /\ peer[c].read \in Nat /\ peer[c].sent \in Nat
    <3>1. Good(c, k) /\ Served(c) /\ peer[c].read \in Nat
        BY <1>1, HeldServed
    <3> QED
        BY <3>1 DEF Served
  <2>2. conn[c].open = "yes" <=> Contains(active_connections, c)
    <3>1. Len(active_connections) \in Nat /\ DOMAIN active_connections = 1 .. Len(active_connections)
        BY <1>1 DEF Types
    <3> QED
        BY <1>1, <3>1 DEF Lists, InSeq, Contains
  <2> HIDE DEF k
  <2>3. /\ k \in ConnType /\ Len(k.out) \in Nat
        /\ k.eaten \in Nat /\ k.got \in Nat /\ k.flushed \in Nat
        /\ k.eaten <= k.got /\ k.flushed <= Len(k.out)
      BY <2>1, GoodConn DEF Good
  <2>4. k.got <= peer[c].sent /\ peer[c].read <= k.flushed
      BY <2>1 DEF Good
  <2>5. /\ k.open \in {"no", "yes", "gone"} /\ k.flags \subseteq Flags
        /\ k.endpoint_type \in {"NONE", "USER"} /\ k.request_len \in {-1, 0, 1}
      BY <2>3 DEF ConnType
  <2>6. ~k.again
      BY <2>1 DEF Good
  <2>7. /\ k.eaten \in 0 .. k.got /\ k.got \in 0 .. peer[c].sent
        /\ k.flushed \in 0 .. Len(k.out) /\ peer[c].read \in 0 .. k.flushed
      BY <2>1, <2>3, <2>4
  <2> QED
      BY <2>2, <2>5, <2>6, <2>7 DEF k, Flags
<1>3. ToSet(todo) \subseteq ToSet(active_connections)
  <2>1. \A i \in DOMAIN todo : todo[i] \in Clients
      BY <1>1 DEF Types
  <2>2. \A i \in DOMAIN todo : InSeq(active_connections, todo[i])
      BY <1>1, <2>1 DEF Lists, InSeq
  <2> QED
      BY <2>2 DEF InSeq, ToSet
<1>4. pc \in {"idle", "late", "select", "handle", "sweep", "free", "down", "crashed"}
    BY <1>1 DEF Types
<1> QED
    BY <1>2, <1>3, <1>4 DEF TypeOK

\* The buffers of every connection hold what is taken from them and no more, the list
\* has the open connections, and the clients read nothing that was not sent: whatever
\* the requests are, and however ns_server_poll meets them.
THEOREM BuffersHold == Spec => []TypeOK
<1>1. Inv => TypeOK
    BY InvTypes
<1> QED
    BY <1>1, SpecInv, PTL

LEMMA InvInOrder ==
    ASSUME Inv
    PROVE  AnswersInOrder
<1>1. ASSUME NEW c \in Clients
      PROVE  /\ OneForEach(conn[c].out)
             /\ \A k \in DOMAIN peer[c].script : Answered(c, k) =>
                   \A j \in 1 .. k - 1 : Valid(c, j) => Answered(c, j)
  <2>1. OneForEach(conn[c].out) /\ NoneLeftOut(c, conn[c])
      BY HeldServed DEF Inv, Good, Sound
  <2> QED
      BY <2>1 DEF NoneLeftOut, AnsweredIn, Answered
<1> QED
    BY <1>1, InvTypes DEF AnswersInOrder

\* Pipelined requests and their answers (process_request calling itself,
\* call_request_handler, close_local_endpoint): answers keep the order of the requests,
\* none is given twice, and none is left out but behind a refused request with a body.
THEOREM AnswersKeepOrder == Spec => []AnswersInOrder
<1>1. Inv => AnswersInOrder
    BY InvInOrder
<1> QED
    BY <1>1, SpecInv, PTL

LEMMA InvNoneForgotten ==
    ASSUME Inv
    PROVE  NoneForgotten
<1> SUFFICES ASSUME NEW c \in Clients, conn[c].data, conn[c].flags = {}
             PROVE  LET k == conn[c] IN
                    /\ Waits(c, k)
                    /\ k.out # <<>> /\ k.request = 0 =>
                          Last(k.out).part = "end" /\ ReqOf(c, Last(k.out).of).keep
    BY DEF NoneForgotten
<1> DEFINE k == conn[c]
<1>1. /\ Good(c, k) /\ peer[c].script \in AllScripts /\ k.data /\ k.flags = {}
      /\ Held(c)
    BY HeldServed DEF Inv, Served
<1> HIDE DEF k
<1>2. Rests(c, k) /\ LastKept(c, k) /\ Sound(c, k) /\ ConnOK(c, k)
    BY <1>1 DEF Good, Sound
<1>3. /\ k \in ConnType /\ k.eaten \in Nat /\ k.got \in Nat /\ Len(k.out) \in Nat
      /\ k.out \in Seq(Piece)
  <2>1. k \in ConnType /\ k.eaten \in Nat /\ k.got \in Nat /\ Len(k.out) \in Nat
      BY <1>2, GoodConn
  <2> QED
      BY <2>1 DEF ConnType
<1>4. ASSUME k.request_len = 0 PROVE Waits(c, k)
  <2>1. HeadEnds(c, k) = {} /\ ~SpoiltFirst(c, k) /\ Buffered(k) <= MAX_REQUEST_SIZE
      BY <1>1, <1>2, <1>4 DEF Rests
  <2>2. get_request_len(c, k) = 0
      BY <1>3, <2>1, RequestLen
  <2> QED
      BY <1>4, <2>1, <2>2 DEF Waits
<1>5. ASSUME k.request_len # 0 PROVE Waits(c, k)
  <2>1. k.request_len = 1
      BY <1>1, <1>2, <1>3, <1>5 DEF Rests, ConnType
  <2>2. k.request # 0
      BY <1>2, <2>1 DEF ConnOK
  <2>3. k.endpoint_type = "USER" /\ ~BodyBuffered(c, k)
      BY <1>2, <2>2 DEF Rests
  <2>4. ContentLen(c, k) \in Nat
      BY <1>1, <1>2, RequestOfConn
  <2>5. Buffered(k) < ContentLen(c, k)
      BY <1>3, <2>3, <2>4 DEF BodyBuffered, Buffered
  <2> QED
      BY <1>5, <2>3, <2>5 DEF Waits
<1>6. ASSUME k.out # <<>>, k.request = 0
      PROVE  Last(k.out).part = "end" /\ ReqOf(c, Last(k.out).of).keep
  <2>1. Len(k.out) # 0
      BY <1>3, <1>6
  <2> QED
      BY <1>1, <1>2, <1>6, <2>1 DEF LastKept, Last
<1>7. Waits(c, k)
    BY <1>4, <1>5
<1> QED
    BY <1>6, <1>7 DEF k

\* Whenever the server is between two polls, no connection that is to stay holds a
\* request that could be answered, and the last answer of each lets it stay: the flags
\* that close_local_endpoint resets and the recursion of process_request lose nothing.
THEOREM NoRequestForgotten == Spec => []NoneForgotten
<1>1. Inv => NoneForgotten
    BY InvNoneForgotten
<1> QED
    BY <1>1, SpecInv, PTL

LEMMA InvFresh ==
    ASSUME Inv
    PROVE  FreshAnswers
<1> SUFFICES ASSUME NEW c \in Clients, NEW i \in DOMAIN conn[c].out
             PROVE  LET a == conn[c].out[i] IN
                    a.of # 0 /\ ReqOf(c, a.of).uri = "/flights.json" /\ ReqOf(c, a.of).wrong = "none" =>
                        /\ a.part = "chunk" => a.feed >= asked[c][a.of]
                        /\ a.part = "error" => asked[c][a.of] = 0
    BY DEF FreshAnswers
<1>1. FreshOut(c, conn[c])
    BY HeldServed DEF Inv, Good, Sound
<1> QED
    BY <1>1 DEF FreshOut, PieceFresh

\* The answer to a request for the flights is the document as it was when the head of
\* the request had been sent, or a later one; "404" is told only to who asked before
\* there was any.
THEOREM AnswersAreFresh == Spec => []FreshAnswers
<1>1. Inv => FreshAnswers
    BY InvFresh
<1> QED
    BY <1>1, SpecInv, PTL

LEMMA InvCrash ==
    ASSUME Inv
    PROVE  CrashOnlyWhenStalled
BY DEF Inv, Control, Stalled, Flagged, CLOSE, CrashOnlyWhenStalled

\* An event finds the data of its connection released (mg_ev_handler) in one case only:
\* the connection was idle for too long with an answer that its client did not take.
THEOREM CrashesOnlyWhenStalled == Spec => []CrashOnlyWhenStalled
<1>1. Inv => CrashOnlyWhenStalled
    BY InvCrash
<1> QED
    BY <1>1, SpecInv, PTL

\* Which step closes a connection, and in what state it was then.
LEMMA Closes ==
    ASSUME Inv, Next, NEW c \in Clients, conn[c].open = "yes", conn'[c].open = "gone"
    PROVE  Unsent(conn[c]) = 0 \/ peer[c].shut \/ stopping \/ ~conn[c].data
<1>1. /\ Types /\ Control /\ Steered(c) /\ Held(c)
      /\ \A d \in Clients : Held(d)
      /\ Lists
    BY DEF Inv, Control
<1>2. CASE Poll
  <2> DEFINE states == [d \in Clients |-> IF conn[d].open = "yes" THEN Polled(d, conn[d]) ELSE conn[d]]
             r == Polled(c, conn[c])
  <2>1. CloseOf(states, Closing(states))
      BY <1>2 DEF Poll, PollAll, FirstLoop
  <2>2. states[c] = r
      OBVIOUS
  <2>3. Served(c) /\ Good(c, conn[c])
      BY <1>1, HeldServed
  <2>4. /\ Good(c, r) /\ r.open = "yes"
        /\ \/ r = conn[c]
           \/ r.flushed = conn[c].flushed /\ Len(conn[c].out) <= Len(r.out)
      BY <2>3, PolledOK
  <2>5. c \in Closing(states) => Unsent(r) = 0
      BY <2>2 DEF Closing
  <2> HIDE DEF states
  <2>6. conn'[c] = IF c \in Closing(states) THEN Closed(c, states[c]) ELSE states[c]
      BY <2>1 DEF CloseOf
  <2> HIDE DEF r
  <2>7. c \in Closing(states)
      BY <2>2, <2>4, <2>6
  <2>8. /\ Len(conn[c].out) \in Nat /\ conn[c].flushed \in Nat
        /\ conn[c].flushed <= Len(conn[c].out) /\ Len(r.out) \in Nat
    <3>1. Sound(c, conn[c]) /\ Sound(c, r)
        BY <2>3, <2>4 DEF Good
    <3> QED
        BY <3>1, GoodConn
  <2> QED
      BY <2>4, <2>5, <2>7, <2>8 DEF Unsent
<1>3. CASE Sweep
  <2> DEFINE S == {d \in Clients : "CLOSE_IMMEDIATELY" \in conn[d].flags}
  <2>1. CloseOf(conn, S)
      BY <1>3 DEF Sweep, Close
  <2>2. conn'[c] = IF c \in S THEN Closed(c, conn[c]) ELSE conn[c]
      BY <2>1 DEF CloseOf
  <2>3. Flagged(c)
      BY <2>2 DEF Flagged, CLOSE
  <2> QED
      BY <1>1, <2>3 DEF Steered
<1>4. CASE Free
    BY <1>1, <1>4 DEF Control, Free
<1>5. CASE Select
  <2>1. \/ \E d \in Backlog : Accept(d)
        \/ UNCHANGED conn
      BY <1>5 DEF Select
  <2>2. ASSUME NEW d \in Backlog, Accept(d) PROVE FALSE
    <3>1. c # d
        BY DEF Backlog
    <3>2. conn'[c] = conn[c]
        BY <1>1, <2>2, <3>1 DEF Accept, Types
    <3> QED
        BY <3>2
  <2> QED
      BY <2>1, <2>2
<1>6. CASE Handle
  <2>1. todo \in Seq(Clients)
      BY <1>1 DEF Types
  <2>2. CASE conn' = conn
      BY <2>2
  <2>3. CASE conn' # conn
    <3> DEFINE d == Head(todo)
    <3>1. todo # <<>> /\ HandleOne(d) /\ pc = "handle"
        BY <1>6, <2>3 DEF Handle
    <3>2. d \in Clients /\ InSeq(todo, d)
      <4>1. Len(todo) \in Nat \ {0} /\ 1 \in DOMAIN todo /\ d = todo[1]
          BY <2>1, <3>1
      <4> QED
          BY <2>1, <4>1 DEF InSeq
    <3> HIDE DEF d
    <3>3. conn[d].open = "yes" /\ Steered(d) /\ Held(d)
        BY <1>1, <3>2 DEF Lists, Control
    <3>4. ~Dereferenced(d)
        BY <2>3, <3>1 DEF HandleOne
    <3>5. PICK fails \in {FALSE, peer[d].shut} :
              conn' = [conn EXCEPT ![d] = Outgoing(d, Incoming(d, conn[d]), fails)]
        BY <3>1, <3>4 DEF HandleOne
    <3> DEFINE r == Outgoing(d, Incoming(d, conn[d]), fails)
    <3>6. r.open = "yes"
        BY <1>1, <3>1, <3>2, <3>3, <3>4, TurnOK
    <3>7. conn'[d] = r /\ (c # d => conn'[c] = conn[c])
        BY <1>1, <3>2, <3>5 DEF Types
    <3> QED
        BY <3>6, <3>7
  <2> QED
      BY <2>2, <2>3
<1>7. CASE Tick
  <2>1. conn'[c] = [conn[c] EXCEPT !.age = IF conn[c].open = "yes"
                      THEN Lesser(conn[c].age + 1, IDLE_TIMEOUT_SECONDS + 1) ELSE 0]
      BY <1>7 DEF Tick
  <2>2. conn[c] \in ConnType
      BY <1>1 DEF Types
  <2>3. conn'[c].open = conn[c].open
      BY <2>1, <2>2 DEF ConnType
  <2> QED
      BY <2>3
<1>8. CASE Client \/ Rewrite \/ Stop
    BY <1>8 DEF Client, Connect, Send, Read, Shut, Unserved, Rewrite, Stop
<1> QED
    BY <1>2, <1>3, <1>4, <1>5, <1>6, <1>7, <1>8 DEF Next, Server

\* Whatever a connection was answered reaches the network before ns_close_conn, unless
\* its client has shut its side, it was idle for too long, or the server stops: the
\* flags NSF_FINISHED_SENDING_DATA and NSF_CLOSE_IMMEDIATELY are set in that order.
THEOREM AnswersAreDelivered == Spec => DeliversWhole
<1>1. Inv /\ [Next]_vars =>
          [\A c \in Clients :
              conn[c].open = "yes" /\ conn'[c].open = "gone" =>
                  \/ Unsent(conn[c]) = 0
                  \/ peer[c].shut \/ stopping \/ ~conn[c].data]_vars
    BY Closes
<1> QED
    BY <1>1, SpecInv, PTL DEF Spec, DeliversWhole
=============================================================================
