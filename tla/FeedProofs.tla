------------------------------ MODULE FeedProofs ------------------------------
(***************************************************************************)
(* Theorems about Feed, for any tables and any sizes: the comma that is    *)
(* blanked is the one behind the last flight, the two documents name the   *)
(* same flights, and each text ends inside a buffer that stays bounded.    *)
(***************************************************************************)
EXTENDS Feed, SubseqProofs

-----------------------------------------------------------------------------
(* The flights listed *)

LiveAt == {i \in DOMAIN vPilots : Live(vPilots[i])}

\* The table is a sequence.
IsTable(v) == Len(v) \in Nat /\ DOMAIN v = 1 .. Len(v)

LEMMA ListedType ==
    ASSUME IsTable(vPilots)
    PROVE  /\ Len(Listed) \in Nat /\ Len(Listed) <= Len(vPilots)
           /\ DOMAIN Listed = 1 .. Len(Listed)
           /\ vPilots = <<>> => Len(Listed) = 0
<1> DEFINE n == Cardinality(LiveAt)
<1>1. IsFiniteSet(1 .. Len(vPilots)) /\ Cardinality(1 .. Len(vPilots)) = Len(vPilots)
  <2> DEFINE m == Len(vPilots)
  <2>1. m \in Nat
      BY DEF IsTable
  <2> HIDE DEF m
  <2>2. IsFiniteSet(1 .. m) /\ Cardinality(1 .. m) = m
      BY <2>1, FS_Interval
  <2> QED
      BY <2>2 DEF m
<1>2. LiveAt \subseteq 1 .. Len(vPilots)
    BY DEF LiveAt, IsTable
<1>3. n \in Nat /\ n <= Len(vPilots)
    BY <1>1, <1>2, FS_Subset, FS_CardinalityType
<1>4. Listed = [k \in 1 .. n |-> vPilots[Ordered(LiveAt)[k]]]
    BY DEF Listed, SubseqAt, LiveAt
<1> HIDE DEF n
<1>5. Len(Listed) = n /\ DOMAIN Listed = 1 .. n
    BY <1>3, <1>4
<1>6. vPilots = <<>> => Len(vPilots) = 0
    OBVIOUS
<1> QED
    BY <1>3, <1>5, <1>6 DEF IsTable

-----------------------------------------------------------------------------
(* The texts *)

LEMMA ItemsShape ==
    ASSUME NEW fs, Len(fs) \in Nat
    PROVE  /\ Len(JsonItems(fs)) = 2 * Len(fs)
           /\ DOMAIN JsonItems(fs) = 1 .. 2 * Len(fs)
           /\ \A k \in 1 .. Len(fs) : JsonItems(fs)[2 * k - 1] = JsonFlight(fs[k])
           /\ \A k \in 1 .. Len(fs) : JsonItems(fs)[2 * k] = Txt("comma")
<1> DEFINE n == Len(fs)
           F(k) == JsonFlight(fs[k])
           items == [k \in 1 .. 2 * n |-> IF k % 2 = 1 THEN F((k + 1) \div 2) ELSE Txt("comma")]
<1>1. items = JsonItems(fs)
    BY DEF JsonItems
<1>2. n \in Nat /\ 2 * n \in Nat
    OBVIOUS
<1> HIDE DEF n, F
<1>3. Len(items) = 2 * n /\ DOMAIN items = 1 .. 2 * n
    BY <1>2
<1>4. ASSUME NEW k \in 1 .. n
      PROVE  items[2 * k - 1] = F(k) /\ items[2 * k] = Txt("comma")
  <2>1. 2 * k - 1 \in 1 .. 2 * n /\ 2 * k \in 1 .. 2 * n
      BY <1>2
  <2>2. (2 * k - 1) % 2 = 1 /\ (2 * k) % 2 = 0 /\ ((2 * k - 1) + 1) \div 2 = k
      BY <1>2
  <2>3. items[2 * k - 1] = F(((2 * k - 1) + 1) \div 2)
      BY <2>1, <2>2
  <2>4. items[2 * k] = Txt("comma")
      BY <2>1, <2>2
  <2> QED
      BY <2>2, <2>3, <2>4
<1> HIDE DEF items
<1> QED
    BY <1>1, <1>3, <1>4 DEF n, F

\* The document with n flights: what Write_JSON makes of it.
LEMMA JsonShape ==
    ASSUME IsTable(vPilots)
    PROVE  LET n == Len(Listed) IN
           /\ Len(JsonText) = 2 * n + 4
           /\ JsonText[2 * n + 3] = Txt("close") /\ JsonText[2 * n + 4] = [count |-> n]
           /\ \A k \in 1 .. n : JsonText[2 * k + 1] = JsonFlight(Listed[k])
           /\ n > 0 => /\ JsonText[1] = Txt("head") /\ JsonText[2] = Txt("open")
                       /\ JsonText[2 * n + 2] = Txt("blank")
                       /\ \A k \in 1 .. n - 1 : JsonText[2 * k + 2] = Txt("comma")
<1> DEFINE n == Len(Listed)
           items == JsonItems(Listed)
           E == {items[k] : k \in 1 .. 2 * n}
                \cup {Txt("head"), Txt("open"), Txt("blank"), Txt("close"), [count |-> n]}
           a == <<Txt("head"), Txt("open")>>
           z == <<Txt("close"), [count |-> n]>>
           body == a \o items
           text == IF vPilots = <<>> THEN body ELSE BlankLast(body)
<1>1. n \in Nat /\ (n > 0 => vPilots # <<>>)
    BY ListedType
<1>2. /\ Len(items) = 2 * n /\ DOMAIN items = 1 .. 2 * n
      /\ \A k \in 1 .. n : items[2 * k - 1] = JsonFlight(Listed[k])
      /\ \A k \in 1 .. n : items[2 * k] = Txt("comma")
    BY <1>1, ItemsShape
<1>3. JsonText = text \o z
    BY DEF JsonText
<1>4. items \in Seq(E)
  <2>1. items = [k \in 1 .. 2 * n |-> items[k]]
      BY <1>2 DEF JsonItems
  <2>2. 2 * n \in Nat
      BY <1>1
  <2> HIDE DEF items, n
  <2>3. items \in [1 .. 2 * n -> E]
      BY <2>1
  <2> QED
      BY <2>2, <2>3
<1>5. /\ a \in Seq(E) /\ Len(a) = 2 /\ a[1] = Txt("head") /\ a[2] = Txt("open")
      /\ z \in Seq(E) /\ Len(z) = 2 /\ z[1] = Txt("close") /\ z[2] = [count |-> n]
      /\ Txt("blank") \in E
  <2> DEFINE h == Txt("head")
             o == Txt("open")
             c == Txt("close")
             l == [count |-> n]
  <2>1. h \in E /\ o \in E /\ c \in E /\ l \in E /\ Txt("blank") \in E
      OBVIOUS
  <2> HIDE DEF E, h, o, c, l
  <2>2. <<h, o>> \in Seq(E) /\ <<c, l>> \in Seq(E)
      BY <2>1
  <2>3. a = <<h, o>> /\ z = <<c, l>>
      BY DEF h, o, c, l
  <2> HIDE DEF a, z
  <2>4. Len(a) = 2 /\ a[1] = h /\ a[2] = o /\ Len(z) = 2 /\ z[1] = c /\ z[2] = l
      BY <2>3
  <2> QED
      BY <2>1, <2>2, <2>3, <2>4 DEF h, o, c, l
<1> HIDE DEF n, items, E, a, z
<1>6. /\ body \in Seq(E) /\ Len(body) = 2 * n + 2
      /\ body[1] = a[1] /\ body[2] = a[2]
      /\ \A k \in 1 .. 2 * n : body[k + 2] = items[k]
  <2>0. a \in Seq(E) /\ items \in Seq(E)
      BY <1>4, <1>5
  <2>1. /\ body \in Seq(E) /\ Len(body) = Len(a) + Len(items)
        /\ \A k \in 1 .. Len(a) : body[k] = a[k]
        /\ \A k \in 1 .. Len(items) : body[Len(a) + k] = items[k]
      BY <2>0, ConcatShape
  <2> HIDE DEF body
  <2> QED
    <3>1. \A k \in 1 .. 2 * n : body[2 + k] = items[k]
        BY <1>2, <1>5, <2>1
    <3>2. body[1] = a[1] /\ body[2] = a[2]
        BY <1>5, <2>1
    <3> QED
        BY <1>1, <1>2, <1>5, <2>1, <3>1, <3>2
<1> HIDE DEF body
<1>7. /\ BlankLast(body) \in Seq(E) /\ Len(BlankLast(body)) = 2 * n + 2
      /\ BlankLast(body)[2 * n + 2] = Txt("blank")
      /\ \A k \in 1 .. 2 * n + 1 : BlankLast(body)[k] = body[k]
  <2> DEFINE blank == Txt("blank")
             m == 2 * n + 2
             t == [body EXCEPT ![m] = blank]
  <2>1. BlankLast(body) = t
      BY <1>6 DEF BlankLast
  <2>2. m \in Nat /\ m - 1 = 2 * n + 1 /\ m > 0
      BY <1>1
  <2>3. blank \in E /\ Len(body) = m
      BY <1>5, <1>6
  <2> HIDE DEF blank, m
  <2>4. /\ t \in Seq(E) /\ Len(t) = m /\ t[m] = blank
        /\ \A k \in 1 .. m - 1 : t[k] = body[k]
      BY <1>6, <2>2, <2>3
  <2> QED
      BY <2>1, <2>2, <2>4 DEF blank, m
<1>8. /\ text \in Seq(E) /\ Len(text) = 2 * n + 2
      /\ \A k \in 1 .. 2 * n + 1 : text[k] = body[k]
      /\ n > 0 => text[2 * n + 2] = Txt("blank")
    BY <1>1, <1>6, <1>7, Zenon
<1> HIDE DEF text
<1>9. /\ Len(JsonText) = 2 * n + 4
      /\ JsonText[2 * n + 3] = z[1] /\ JsonText[2 * n + 4] = z[2]
      /\ \A k \in 1 .. 2 * n + 2 : JsonText[k] = text[k]
  <2>0. text \in Seq(E) /\ z \in Seq(E)
      BY <1>5, <1>8
  <2>1. /\ Len(text \o z) = Len(text) + Len(z)
        /\ \A k \in 1 .. Len(text) : (text \o z)[k] = text[k]
        /\ \A k \in 1 .. Len(z) : (text \o z)[Len(text) + k] = z[k]
      BY <2>0, ConcatShape
  <2> QED
    <3>1. JsonText[2 * n + 3] = z[1] /\ JsonText[2 * n + 4] = z[2]
        BY <1>1, <1>3, <1>5, <1>8, <2>1
    <3> QED
        BY <1>1, <1>3, <1>5, <1>8, <2>1, <3>1
<1>10. ASSUME NEW k \in 1 .. n
       PROVE  JsonText[2 * k + 1] = JsonFlight(Listed[k])
  <2>1. 2 * k - 1 \in 1 .. 2 * n /\ (2 * k - 1) + 2 = 2 * k + 1 /\ 2 * k + 1 \in 1 .. 2 * n + 1
      BY <1>1
  <2>2. body[2 * k + 1] = items[2 * k - 1]
      BY <1>6, <2>1
  <2> QED
      BY <1>1, <1>2, <1>8, <1>9, <2>1, <2>2
<1>11. ASSUME NEW k \in 1 .. n - 1
       PROVE  JsonText[2 * k + 2] = Txt("comma")
  <2>1. 2 * k \in 1 .. 2 * n /\ k \in 1 .. n /\ 2 * k + 2 \in 1 .. 2 * n + 1
      BY <1>1
  <2>2. body[2 * k + 2] = items[2 * k]
      BY <1>6, <2>1
  <2> QED
      BY <1>1, <1>2, <1>8, <1>9, <2>1, <2>2
<1>12. n > 0 => /\ JsonText[1] = Txt("head") /\ JsonText[2] = Txt("open")
                /\ JsonText[2 * n + 2] = Txt("blank")
    BY <1>1, <1>5, <1>6, <1>8, <1>9
<1> QED
    BY <1>5, <1>9, <1>10, <1>11, <1>12 DEF n

LEMMA XmlShape ==
    ASSUME IsTable(vPilots)
    PROVE  LET n == Len(Listed) IN
           /\ Len(XmlText) = n + 3
           /\ \A k \in 1 .. n : XmlText[k + 2] = XmlMark(Listed[k])
<1> DEFINE n == Len(Listed)
           marks == [k \in 1 .. n |-> XmlMark(Listed[k])]
           E == {marks[k] : k \in 1 .. n}
                \cup {Txt("fg_server"), Txt("/fg_server"), [count |-> n]}
           a == <<Txt("fg_server"), [count |-> n]>>
           z == <<Txt("/fg_server")>>
<1>1. n \in Nat
    BY ListedType
<1>2. XmlText = a \o marks \o z
    BY DEF XmlText
<1>3. a \in Seq(E) /\ z \in Seq(E) /\ Len(a) = 2 /\ Len(z) = 1
  <2> DEFINE o == Txt("fg_server")
             l == [count |-> n]
             c == Txt("/fg_server")
  <2>1. o \in E /\ l \in E /\ c \in E
      OBVIOUS
  <2> HIDE DEF E, o, l, c
  <2>2. a = <<o, l>> /\ z = <<c>>
      BY DEF o, l, c
  <2> HIDE DEF a, z
  <2> QED
      BY <2>1, <2>2
<1> HIDE DEF n
<1>4. marks \in Seq(E) /\ Len(marks) = n /\ \A k \in 1 .. n : marks[k] = XmlMark(Listed[k])
  <2>1. marks \in [1 .. n -> E]
      OBVIOUS
  <2> QED
      BY <1>1, <2>1
<1> HIDE DEF marks, E, a, z
<1>5. a \o marks \in Seq(E) /\ Len(a \o marks) = n + 2
      /\ \A k \in 1 .. n : (a \o marks)[2 + k] = marks[k]
  <2>0. a \in Seq(E) /\ marks \in Seq(E)
      BY <1>3, <1>4
  <2>1. /\ a \o marks \in Seq(E) /\ Len(a \o marks) = Len(a) + Len(marks)
        /\ \A k \in 1 .. Len(marks) : (a \o marks)[Len(a) + k] = marks[k]
      BY <2>0, ConcatShape
  <2> QED
      BY <1>1, <1>3, <1>4, <2>1
<1>6. Len(XmlText) = n + 3 /\ \A k \in 1 .. n : XmlText[k + 2] = (a \o marks)[2 + k]
  <2> DEFINE b == a \o marks
  <2>1. b \in Seq(E) /\ Len(b) = n + 2
      BY <1>5
  <2> HIDE DEF b
  <2>0. b \in Seq(E) /\ z \in Seq(E)
      BY <1>3, <2>1
  <2>2. /\ Len(b \o z) = Len(b) + Len(z)
        /\ \A k \in 1 .. Len(b) : (b \o z)[k] = b[k]
      BY <2>0, ConcatShape
  <2> QED
      BY <1>1, <1>2, <1>3, <2>1, <2>2 DEF b
<1> QED
    BY <1>4, <1>5, <1>6 DEF n

-----------------------------------------------------------------------------
(* The size of a buffer *)

LEMMA FourIterates ==
    /\ Four[0] = 1
    /\ \A n \in Nat : Four[n] \in Nat /\ Four[n + 1] = 4 * Four[n]
<1> DEFINE step == [n \in Nat |-> 4 * n]
           Is(f) == f = [k \in Nat |-> IF k = 0 THEN 1 ELSE 4 * f[k - 1]]
<1>1. step \in [Nat -> Nat]
    OBVIOUS
<1>2. \A n \in Nat : step[n] = 4 * n
    OBVIOUS
<1> HIDE DEF step
<1>3. PICK f \in [Nat -> Nat] : Iterates(f, 1, step)
    BY <1>1, IterationExists
<1>4. ASSUME NEW k \in Nat PROVE f[k] = IF k = 0 THEN 1 ELSE 4 * f[k - 1]
  <2>1. CASE k # 0
    <3>1. k - 1 \in Nat /\ (k - 1) + 1 = k
        BY <2>1
    <3>2. f[(k - 1) + 1] = step[f[k - 1]] /\ f[k - 1] \in Nat
        BY <1>3, <3>1 DEF Iterates
    <3> QED
        BY <1>2, <2>1, <3>1, <3>2
  <2> QED
      BY <2>1, <1>3 DEF Iterates
<1>5. Is(f)
    BY <1>4
<1>6. Is(Four)
    BY <1>5 DEF Four
<1>7. Four[0] = 1 /\ \A n \in Nat : Four[n + 1] = 4 * Four[n]
  <2>1. \A k \in Nat : Four[k] = IF k = 0 THEN 1 ELSE 4 * Four[k - 1]
      BY <1>6
  <2>2. \A n \in Nat : n + 1 \in Nat /\ n + 1 # 0 /\ (n + 1) - 1 = n
      OBVIOUS
  <2> QED
      BY <2>1, <2>2
<1> DEFINE S == {n \in Nat : Four[n] \in Nat}
<1>8. 0 \in S /\ \A n \in Nat : n \in S => n + 1 \in S
    BY <1>7
<1> HIDE DEF S
<1>9. Nat \subseteq S
    BY <1>8, AllNaturals
<1> QED
    BY <1>7, <1>9 DEF S

\* A buffer that was quadrupled often enough holds the text, and once more than
\* often enough it was not.
LEMMA GrownFits ==
    ASSUME NEW size \in Nat \ {0}, NEW need \in Nat
    PROVE  /\ Grown(size, need) \in Nat
           /\ need < Grown(size, need)
           /\ Grown(size, need) = size \/ Grown(size, need) <= 4 * need
<1> DEFINE g == [n \in Nat |-> size * Four[n]]
           S == {n \in Nat : n < g[n]}
           Enough == {n \in Nat : need < g[n]}
<1>1. /\ g[0] = size
      /\ \A n \in Nat : g[n] \in Nat /\ g[n + 1] = 4 * g[n]
    BY FourIterates
<1>2. \A n \in Nat : g[n] = size * Four[n]
    OBVIOUS
<1> HIDE DEF g
<1>3. 0 \in S /\ \A n \in Nat : n \in S => n + 1 \in S
    BY <1>1
<1> HIDE DEF S
<1>4. Nat \subseteq S
    BY <1>3, AllNaturals
<1>5. need \in Enough
    BY <1>4 DEF S
<1>6. PICK k \in Enough : \A n \in Enough : k <= n
    BY <1>5, LeastExists
<1>7. k \in Nat /\ k <= need /\ need < g[k]
    BY <1>5, <1>6
<1>8. k = 0 \/ need >= g[k - 1]
  <2>1. CASE k # 0
    <3>1. k - 1 \in Nat /\ ~(k <= k - 1)
        BY <1>7, <2>1
    <3>2. g[k - 1] \in Nat /\ ~(need < g[k - 1])
        BY <1>1, <1>6, <3>1
    <3> QED
        BY <3>2
  <2> QED
      BY <2>1
<1> DEFINE Fine(n) == need < size * Four[n] /\ (n = 0 \/ need >= size * Four[n - 1])
           at == CHOOSE n \in 0 .. need : Fine(n)
<1>9. k \in 0 .. need /\ Fine(k)
  <2>1. k # 0 => k - 1 \in Nat
      BY <1>7
  <2> QED
      BY <1>2, <1>7, <1>8, <2>1
<1>10. at \in 0 .. need /\ Fine(at)
    BY <1>9
<1>11. Grown(size, need) = size * Four[at]
    BY DEF Grown
<1> HIDE DEF at
<1>12. at \in Nat /\ Grown(size, need) = g[at] /\ need < g[at]
    BY <1>2, <1>10, <1>11
<1>13. CASE at = 0
    BY <1>1, <1>12, <1>13
<1>14. CASE at # 0
  <2>1. at - 1 \in Nat /\ (at - 1) + 1 = at
      BY <1>12, <1>14
  <2>2. g[at] = 4 * g[at - 1] /\ g[at] \in Nat /\ g[at - 1] \in Nat
      BY <1>1, <2>1
  <2>3. need >= g[at - 1]
      BY <1>2, <1>10, <1>14, <2>1
  <2> QED
      BY <1>12, <2>2, <2>3
<1> QED
    BY <1>13, <1>14

-----------------------------------------------------------------------------
(* The inductive invariant *)

\* The length of the longest table, as BuffersStayBounded has it.
lengths == {Len(v) : v \in Tables \cup {<<>>}}
most == CHOOSE n \in lengths : \A m \in lengths : m <= n

TextLen(n) == HeadLen + n * ItemLen + TailLen
Sized(stg) ==
    stg # NoStg =>
        /\ stg = [size |-> stg.size, used |-> stg.used, buf |-> stg.buf]
        /\ stg.size \in Nat /\ stg.used \in Nat
        /\ stg.used < stg.size /\ stg.used <= TextLen(most)
        /\ stg.size <= Larger(InitSize, 4 * (HeadLen + TextLen(most)))

IInv ==
    /\ vPilots \in Tables \cup {<<>>}
    /\ Sized(_s_pJsonStg) /\ Sized(_s_pXmlStg)
    /\ JsonParsesWithFlights

LEMMA TablesAreTables ==
    ASSUME NEW v \in Tables \cup {<<>>}
    PROVE  IsTable(v)
BY FeedAssumption DEF IsTable

LEMMA MostIsMost ==
    /\ most \in Nat
    /\ \A v \in Tables \cup {<<>>} : Len(v) <= most
<1> DEFINE T == Tables \cup {<<>>}
           top == Ordered(lengths)[Cardinality(lengths)]
<1>1. IsFiniteSet(T)
    BY FeedAssumption, FS_AddElement
<1>2. IsFiniteSet(lengths)
  <2> DEFINE f == [v \in T |-> Len(v)]
  <2>1. f \in Surjection(T, lengths)
      BY DEF lengths, Surjection
  <2> HIDE DEF f, T
  <2> QED
      BY <1>1, <2>1, FS_Surjection
<1>3. lengths \subseteq Nat
    BY TablesAreTables DEF lengths, IsTable
<1>4. Len(<<>>) \in lengths
    BY DEF lengths
<1> DEFINE n == Cardinality(lengths)
           at == Ordered(lengths)
<1>5. /\ at \in [1 .. n -> lengths]
      /\ \A j, k \in 1 .. n : j < k => at[j] < at[k]
      /\ n \in Nat
      /\ \A m \in lengths : \E k \in 1 .. n : at[k] = m
    BY <1>2, <1>3, OrderedEnumerates DEF Enumerates
<1> HIDE DEF n, at
<1>6. n \in 1 .. n
    BY <1>4, <1>5
<1>7. at[n] \in lengths /\ at[n] \in Nat
    BY <1>3, <1>5, <1>6
<1>8. ASSUME NEW m \in lengths PROVE m <= at[n]
  <2>1. PICK k \in 1 .. n : at[k] = m
      BY <1>5
  <2>2. m \in Nat /\ (k = n \/ k < n)
      BY <1>3, <1>5
  <2> QED
      BY <1>5, <1>6, <1>7, <2>1, <2>2
<1>9. most \in lengths /\ \A m \in lengths : m <= most
    BY <1>7, <1>8 DEF most
<1>10. \A v \in T : Len(v) \in lengths
    BY DEF lengths
<1> QED
    BY <1>3, <1>9, <1>10

\* Less to list is less to print.
LEMMA TextLenGrows ==
    ASSUME NEW m \in Nat, NEW n \in Nat, m <= n
    PROVE  TextLen(m) \in Nat /\ TextLen(n) \in Nat /\ TextLen(m) <= TextLen(n)
<1>1. HeadLen \in Nat /\ ItemLen \in Nat /\ TailLen \in Nat
    BY FeedAssumption
<1>2. m * ItemLen \in Nat /\ n * ItemLen \in Nat /\ (n - m) * ItemLen \in Nat
    BY <1>1
<1>3. n * ItemLen = m * ItemLen + (n - m) * ItemLen
    BY <1>1
<1> QED
    BY <1>1, <1>2, <1>3 DEF TextLen

\* Making room for a text of its tables keeps the buffer within its bound.
LEMMA GrownIsBounded ==
    ASSUME NEW size \in Nat \ {0}, NEW need \in Nat, need <= HeadLen + TextLen(most),
           size <= Larger(InitSize, 4 * (HeadLen + TextLen(most)))
    PROVE  Grown(size, need) <= Larger(InitSize, 4 * (HeadLen + TextLen(most)))
<1>1. TextLen(most) \in Nat /\ HeadLen \in Nat /\ InitSize \in Nat
    BY MostIsMost, TextLenGrows, FeedAssumption
<1>2. Grown(size, need) \in Nat /\ (Grown(size, need) = size \/ Grown(size, need) <= 4 * need)
    BY GrownFits
<1> QED
    BY <1>1, <1>2 DEF Larger

LEMMA StgSized ==
    ASSUME NEW stg, Sized(stg)
    PROVE  /\ Stg(stg).size \in Nat \ {0}
           /\ Stg(stg).used \in Nat /\ Stg(stg).used <= TextLen(most)
           /\ Stg(stg).used < Stg(stg).size
           /\ Stg(stg).size <= Larger(InitSize, 4 * (HeadLen + TextLen(most)))
           /\ Stg(stg) = [size |-> Stg(stg).size, used |-> Stg(stg).used,
                          buf |-> Stg(stg).buf]
<1>1. TextLen(most) \in Nat /\ HeadLen \in Nat /\ InitSize \in Nat \ {0}
    BY MostIsMost, TextLenGrows, FeedAssumption
<1>2. CASE stg = NoStg
    BY <1>1, <1>2 DEF Stg, Larger
<1>3. CASE stg # NoStg
    BY <1>3 DEF Stg, Sized
<1> QED
    BY <1>2, <1>3

LEMMA RecordSized ==
    ASSUME NEW size \in Nat, NEW used \in Nat, NEW buf,
           used < size, used <= TextLen(most),
           size <= Larger(InitSize, 4 * (HeadLen + TextLen(most)))
    PROVE  Sized([size |-> size, used |-> used, buf |-> buf])
BY DEF Sized

LEMMA WriteSizes ==
    ASSUME IInv, WriteFeed
    PROVE  Sized(_s_pJsonStg)' /\ Sized(_s_pXmlStg)'
<1> DEFINE used == TextLen(Len(Listed))
           j == Stg(_s_pJsonStg)
           x == Stg(_s_pXmlStg)
           U == TextLen(most)
<1>1. IsTable(vPilots) /\ Len(vPilots) <= most /\ most \in Nat
    BY TablesAreTables, MostIsMost DEF IInv
<1>2. Len(Listed) \in Nat /\ Len(Listed) <= most
    BY <1>1, ListedType DEF IsTable
<1>3. used \in Nat /\ U \in Nat /\ used <= U /\ HeadLen \in Nat
    BY <1>1, <1>2, TextLenGrows, FeedAssumption
<1>4. /\ j.size \in Nat \ {0} /\ x.size \in Nat \ {0}
      /\ j.used \in Nat /\ j.used <= U
      /\ j.size <= Larger(InitSize, 4 * (HeadLen + U))
      /\ x.size <= Larger(InitSize, 4 * (HeadLen + U))
    BY StgSized DEF IInv
<1>5. _s_pJsonStg' = [size |-> Grown(j.size, Larger(j.used + HeadLen, used)),
                      used |-> used, buf |-> JsonText]
    BY DEF WriteFeed, Write_JSON, TextLen
<1>6. _s_pXmlStg' =
        IF vPilots = <<>>
        THEN [x EXCEPT !.used = 0, !.buf = <<>>]
        ELSE [size |-> Grown(x.size, used), used |-> used, buf |-> XmlText]
    BY DEF WriteFeed, Write_XML, TextLen
<1>u. U = TextLen(most)
    OBVIOUS
<1> HIDE DEF used, j, x, U
<1>7. Larger(j.used + HeadLen, used) \in Nat
      /\ used <= Larger(j.used + HeadLen, used)
      /\ Larger(j.used + HeadLen, used) <= HeadLen + U
    BY <1>3, <1>4 DEF Larger
<1>8. Sized(_s_pJsonStg)'
  <2> DEFINE need == Larger(j.used + HeadLen, used)
             size == Grown(j.size, need)
  <2>1. /\ size \in Nat /\ need < size
        /\ size <= Larger(InitSize, 4 * (HeadLen + U))
      BY <1>4, <1>7, <1>u, GrownFits, GrownIsBounded
  <2>2. used < size
      BY <1>3, <1>7, <2>1
  <2> HIDE DEF need, size
  <2>3. Sized([size |-> size, used |-> used, buf |-> JsonText])
      BY <1>3, <2>1, <2>2, RecordSized DEF U
  <2>4. _s_pJsonStg' = [size |-> size, used |-> used, buf |-> JsonText]
      BY <1>5 DEF need, size
  <2> QED
      BY <2>3, <2>4 DEF Sized
<1>9. Sized(_s_pXmlStg)'
  <2>1. CASE vPilots = <<>>
    <3>1. x = [size |-> x.size, used |-> x.used, buf |-> x.buf]
        BY StgSized DEF IInv, x
    <3>2. _s_pXmlStg' = [size |-> x.size, used |-> 0, buf |-> <<>>]
        BY <1>6, <2>1, <3>1
    <3>3. x.size \in Nat /\ 0 < x.size /\ 0 <= U
        BY <1>3, <1>4
    <3>4. Sized([size |-> x.size, used |-> 0, buf |-> <<>>])
        BY <1>4, <3>3, RecordSized DEF U
    <3> QED
        BY <3>2, <3>4 DEF Sized
  <2>2. CASE vPilots # <<>>
    <3> DEFINE size == Grown(x.size, used)
    <3>1. /\ size \in Nat /\ used < size
          /\ size <= Larger(InitSize, 4 * (HeadLen + U))
      <4>1. used <= HeadLen + U
          BY <1>3
      <4> QED
          BY <1>3, <1>4, <1>u, <4>1, GrownFits, GrownIsBounded
    <3> HIDE DEF size
    <3>2. Sized([size |-> size, used |-> used, buf |-> XmlText])
        BY <1>3, <3>1, RecordSized DEF U
    <3>3. _s_pXmlStg' = [size |-> size, used |-> used, buf |-> XmlText]
        BY <1>6, <2>2 DEF size
    <3> QED
        BY <3>2, <3>3 DEF Sized
  <2> QED
      BY <2>1, <2>2
<1> QED
    BY <1>8, <1>9

LEMMA WriteParses ==
    ASSUME IsTable(vPilots), WriteFeed
    PROVE  JsonParsesWithFlights'
<1> DEFINE n == Len(Listed)
<1>1. n \in Nat
    BY ListedType
<1>2. /\ Len(JsonText) = 2 * n + 4
      /\ JsonText[2 * n + 3] = Txt("close") /\ JsonText[2 * n + 4] = [count |-> n]
      /\ \A k \in 1 .. n : JsonText[2 * k + 1] = JsonFlight(Listed[k])
      /\ n > 0 => /\ JsonText[1] = Txt("head") /\ JsonText[2] = Txt("open")
                  /\ JsonText[2 * n + 2] = Txt("blank")
                  /\ \A k \in 1 .. n - 1 : JsonText[2 * k + 2] = Txt("comma")
    BY JsonShape
<1>3. _s_pJsonStg'.buf = JsonText
    BY DEF WriteFeed, Write_JSON
<1> HIDE DEF n
<1>4. JsonText[Len(JsonText)].count = n
    BY <1>2
<1>5. ASSUME n > 0 PROVE JsonOf(JsonText, n)
  <2>1. ASSUME NEW k \in 3 .. 2 * n + 2, k % 2 = 1 PROVE "fid" \in DOMAIN JsonText[k]
    <3>1. PICK i \in 1 .. n : k = 2 * i + 1
      <4>1. (k - 1) \div 2 \in 1 .. n /\ k = 2 * ((k - 1) \div 2) + 1
          BY <1>1, <2>1
      <4> QED
          BY <4>1
    <3>2. JsonText[k] = JsonFlight(Listed[i])
        BY <1>2, <3>1
    <3> QED
        BY <3>2 DEF JsonFlight
  <2>2. ASSUME NEW k \in 3 .. 2 * n + 2, k % 2 # 1, k # 2 * n + 2
        PROVE  JsonText[k] = Txt("comma")
    <3>1. PICK i \in 1 .. n - 1 : k = 2 * i + 2
      <4>1. (k - 2) \div 2 \in 1 .. n - 1 /\ k = 2 * ((k - 2) \div 2) + 2
          BY <1>1, <2>2
      <4> QED
          BY <4>1
    <3> QED
        BY <1>2, <1>5, <3>1
  <2>3. 2 * n + 2 + 2 = 2 * n + 4 /\ (2 * n + 2) + 1 = 2 * n + 3
      BY <1>1
  <2>4. \A k \in 3 .. 2 * n + 2 :
          IF k % 2 = 1 THEN "fid" \in DOMAIN JsonText[k]
          ELSE JsonText[k] = Txt(IF k = 2 * n + 2 THEN "blank" ELSE "comma")
      BY <1>2, <1>5, <2>1, <2>2
  <2> QED
      BY <1>2, <1>5, <2>3, <2>4 DEF JsonOf
<1> QED
    BY <1>3, <1>4, <1>5 DEF JsonParsesWithFlights

LEMMA SpecIInv == Spec => []IInv
<1>1. Init => IInv
    BY DEF Init, IInv, Sized, JsonParsesWithFlights
<1>2. IInv /\ [Next]_vars => IInv'
  <2> SUFFICES ASSUME IInv, [Next]_vars PROVE IInv'
      OBVIOUS
  <2>1. CASE TableChanges \/ UNCHANGED vars
      BY <2>1 DEF TableChanges, IInv, Sized, JsonParsesWithFlights, vars, fvars
  <2>2. CASE WriteFeed /\ UNCHANGED vPilots
    <3>1. IsTable(vPilots)
        BY TablesAreTables DEF IInv
    <3>2. JsonParsesWithFlights' /\ Sized(_s_pJsonStg)' /\ Sized(_s_pXmlStg)'
        BY <2>2, <3>1, WriteParses, WriteSizes
    <3> QED
        BY <2>2, <3>2 DEF IInv
  <2> QED
      BY <2>1, <2>2 DEF Next
<1> QED
    BY <1>1, <1>2, PTL DEF Spec

-----------------------------------------------------------------------------
(* The theorems *)

\* Whatever is listed, the comma that Write_JSON blanks is the one behind the
\* last flight, and the count is that of the flights.
THEOREM JsonAlwaysParses == Spec => []JsonParsesWithFlights
<1>1. IInv => JsonParsesWithFlights
    BY DEF IInv
<1> QED
    BY <1>1, SpecIInv, PTL

\* Each text ends inside its buffer, and no buffer grows beyond four times the
\* longest text, however often it is written.
THEOREM BuffersAlwaysBounded == Spec => []BuffersStayBounded
<1>1. ASSUME IInv PROVE BuffersStayBounded
  <2>1. /\ HeadLen \in Nat /\ most * ItemLen \in Nat /\ TailLen \in Nat
      BY MostIsMost, FeedAssumption
  <2>2. HeadLen + TextLen(most) = 2 * HeadLen + most * ItemLen + TailLen
      BY <2>1 DEF TextLen
  <2> QED
      BY <1>1, <2>2 DEF IInv, Sized, BuffersStayBounded, most, lengths
<1> QED
    BY <1>1, SpecIInv, PTL
=============================================================================
