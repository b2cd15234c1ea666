-------------------------- MODULE DeltaStoreProofs --------------------------
(***************************************************************************)
(* Proofs about DeltaStore for every set of threads and keys, all sizes,   *)
(* any page size and address space: what get_delta_chunks computes, which  *)
(* faults the signal handler gets, and what the deltas on the log rebuild. *)
(***************************************************************************)
EXTENDS DeltaStore, StoreManagerProofs, WellFoundedInduction, TLAPS

-----------------------------------------------------------------------------
(* Pages and bytes. *)

LEMMA Multiples ==
  ASSUME NEW P \in Nat \ {0}, NEW i \in Nat, NEW j \in Nat
  PROVE  /\ i * P \in Nat /\ j * P \in Nat
         /\ i < j => i * P + P <= j * P
         /\ i <= j => i * P <= j * P /\ (j - i) * P = j * P - i * P
         /\ (i + 1) * P = i * P + P
OBVIOUS

LEMMA Division ==
  ASSUME NEW P \in Nat \ {0}, NEW b \in Nat, NEW j \in Nat
  PROVE  /\ b \div P \in Nat
         /\ j * P <= b <=> j <= b \div P
         /\ b < j * P <=> b \div P < j
<1>1. b \div P \in Nat /\ (b \div P) * P <= b /\ b < (b \div P) * P + P
  OBVIOUS
<1> DEFINE q == b \div P
<1>2. q \in Nat /\ q * P <= b /\ b < q * P + P
  BY <1>1
<1> HIDE DEF q
<1>3. /\ q * P \in Nat /\ j * P \in Nat
      /\ j < q => j * P + P <= q * P
      /\ q < j => q * P + P <= j * P
      /\ j = q => j * P = q * P
  BY <1>2, Multiples
<1>4. (j * P <= b <=> j <= q) /\ (b < j * P <=> q < j)
  <2> DEFINE x == q * P
             y == j * P
  <2> HIDE DEF x, y
  <2> QED BY <1>2, <1>3 DEF x, y
<1> QED BY <1>2, <1>4 DEF q

Page(b) == b \div PageSize

LEMMA PageFacts ==
  ASSUME NEW k \in Keys
  PROVE  /\ AlignedPages(k) \in Nat \ {0} /\ Size[k] \in Nat \ {0}
         /\ (AlignedPages(k) - 1) * PageSize < Size[k]
         /\ Size[k] <= AlignedPages(k) * PageSize
<1> DEFINE S == Size[k]
           P == PageSize
           A == AlignedPages(k)
<1>1. S \in Nat \ {0} /\ P \in Nat \ {0} /\ A = (S + P - 1) \div P
  BY DeltaAssumption DEF AlignedPages
<1> HIDE DEF S, P, A
<1> DEFINE T == S + P - 1
<1>2. T \in Nat /\ A = T \div P
  BY <1>1
<1> HIDE DEF T
<1>3. A \in Nat /\ A * P <= T /\ T < (A + 1) * P
  BY <1>1, <1>2, Division
<1>4. A # 0 /\ S <= A * P
  BY <1>1, <1>3, Multiples DEF T
<1>5. (A - 1) * P = A * P - P
  BY <1>1, <1>3, <1>4
<1>6. (A - 1) * P < S
  BY <1>1, <1>3, <1>5 DEF T
<1> QED BY <1>1, <1>3, <1>4, <1>6 DEF S, P, A

LEMMA ByteFacts ==
  ASSUME NEW b \in Nat, NEW j \in Nat
  PROVE  /\ Page(b) \in Nat
         /\ j * PageSize <= b <=> j <= Page(b)
         /\ b < j * PageSize <=> Page(b) < j
BY DeltaAssumption, Division DEF Page

\* The bytes of the pages from i up to j.
LEMMA PageSpan ==
  ASSUME NEW i \in Nat, NEW j \in Nat, i < j
  PROVE  /\ i * PageSize \in Nat /\ j * PageSize \in Nat
         /\ i * PageSize + PageSize <= j * PageSize /\ i * PageSize < j * PageSize
         /\ (j - i) * PageSize = j * PageSize - i * PageSize
         /\ \A b \in Nat : b \in (i * PageSize)..(j * PageSize - 1) <=> Page(b) \in i..(j - 1)
<1>1. PageSize \in Nat \ {0}
  BY DeltaAssumption
<1> DEFINE s == i * PageSize
           e == j * PageSize
<1>2. s \in Nat /\ e \in Nat /\ s + PageSize <= e /\ (j - i) * PageSize = e - s
  BY <1>1, Multiples
<1>3. ASSUME NEW b \in Nat PROVE b \in s..(e - 1) <=> Page(b) \in i..(j - 1)
  <2>1. Page(b) \in Nat /\ (s <= b <=> i <= Page(b)) /\ (b < e <=> Page(b) < j)
    BY ByteFacts
  <2> HIDE DEF s, e
  <2> QED BY <1>2, <2>1
<1>4. s < e
  <2> HIDE DEF s, e
  <2> QED BY <1>1, <1>2
<1> QED BY <1>2, <1>3, <1>4

-----------------------------------------------------------------------------
(* get_delta_chunks. *)

NoRegion == [inside |-> FALSE, start |-> 0, chunks |-> <<>>]

\* g is the state of the scan after each of the first m pages.
Scans(k, m, g) ==
  g = [n \in 0..m |-> IF n = 0 THEN NoRegion ELSE ScanPage(k, n - 1, g[n - 1])]

LEMMA ScanExists ==
  ASSUME NEW k
  PROVE  \A m \in Nat : \E g : Scans(k, m, g)
<1> DEFINE Bad == {m \in Nat : ~ \E g : Scans(k, m, g)}
<1>1. ASSUME Bad # {} PROVE FALSE
  <2>1. PICK m \in Bad : \A n \in Bad : ~ (<<n, m>> \in OpToRel(<, Nat))
    <3>1. Bad \subseteq Nat
      OBVIOUS
    <3> HIDE DEF Bad
    <3> QED BY <1>1, <3>1, WFMin, NatLessThanWellFounded, Zenon
  <2>2. CASE m = 0
    <3>1. Scans(k, 0, [n \in 0..0 |-> NoRegion])
      BY DEF Scans
    <3> QED BY <2>1, <2>2, <3>1
  <2>3. CASE m # 0
    <3>1. m - 1 \in Nat /\ m \in Nat
      BY <2>3
    <3>2. m - 1 \notin Bad
      <4>1. /\ <<m - 1, m>> \in Nat \X Nat /\ <<m - 1, m>>[1] = m - 1 /\ <<m - 1, m>>[2] = m
            /\ m - 1 < m
        BY <3>1
      <4> HIDE DEF Bad
      <4> QED BY <2>1, <4>1, Zenon DEF OpToRel
    <3>3. PICK g : Scans(k, m - 1, g)
      BY <3>1, <3>2
    <3> DEFINE h == [n \in 0..m |-> IF n = 0 THEN NoRegion ELSE ScanPage(k, n - 1, g[n - 1])]
    <3>4. \A n \in 0..(m - 1) : h[n] = g[n]
      BY <3>1, <3>3 DEF Scans
    <3>5. \A n \in 0..m : n # 0 => h[n - 1] = g[n - 1]
      <4> HIDE DEF h
      <4> QED BY <3>1, <3>4
    <3>6. Scans(k, m, h)
      BY <3>5, Zenon DEF Scans
    <3> HIDE DEF h
    <3> QED BY <3>6
  <2> QED BY <2>2, <2>3
<1> QED BY <1>1

LEMMA ScanFact ==
  ASSUME NEW k \in Keys
  PROVE  \E g : Scans(k, AlignedPages(k), g) /\ GetDeltaChunks(k) = g[AlignedPages(k)].chunks
<1>1. PICK g : Scans(k, AlignedPages(k), g)
  BY ScanExists, PageFacts
<1> QED BY <1>1, Zenon DEF Scans, GetDeltaChunks, NoRegion

Chunks == Seq([offset : Nat, len : Nat])
EndOf(c, i) == c[i].offset + c[i].len
Ordered(c) == \A i, j \in DOMAIN c : i < j => EndOf(c, i) < c[j].offset

LEMMA ChunkTypes ==
  ASSUME NEW c \in Chunks
  PROVE  \A i \in DOMAIN c : c[i] \in [offset : Nat, len : Nat] /\ EndOf(c, i) \in Nat
<1> DEFINE R == [offset : Nat, len : Nat]
<1>1. \A i \in DOMAIN c : c[i] \in R
  <2>1. c \in Seq(R)
    BY DEF Chunks
  <2> HIDE DEF R
  <2> QED BY <2>1
<1>2. \A x \in R : x.offset + x.len \in Nat
  OBVIOUS
<1> QED BY <1>1, <1>2, Zenon DEF EndOf

AllBytes(chunks) == BytesOf(Range(chunks))

LEMMA BytesAppend ==
  ASSUME NEW c \in Chunks, NEW x \in [offset : Nat, len : Nat]
  PROVE  AllBytes(Append(c, x)) = AllBytes(c) \cup (x.offset..(x.offset + x.len - 1))
<1>1. Range(Append(c, x)) = Range(c) \cup {x}
  <2> DEFINE d == Append(c, x)
             n == Len(c)
  <2>1. /\ n \in Nat /\ DOMAIN c = 1..n /\ DOMAIN d = 1..(n + 1) /\ d[n + 1] = x
        /\ \A i \in 1..n : d[i] = c[i]
    BY DEF Chunks
  <2> HIDE DEF d, n
  <2>2. {d[i] : i \in 1..(n + 1)} = {c[i] : i \in 1..n} \cup {x}
    <3>1. ASSUME NEW i \in 1..(n + 1) PROVE d[i] \in {c[j] : j \in 1..n} \cup {x}
      BY <2>1
    <3>2. ASSUME NEW i \in 1..n PROVE c[i] \in {d[j] : j \in 1..(n + 1)}
      BY <2>1
    <3>3. x \in {d[j] : j \in 1..(n + 1)}
      BY <2>1
    <3> QED BY <3>1, <3>2, <3>3
  <2> QED BY <2>1, <2>2 DEF Range, d
<1> QED BY <1>1 DEF AllBytes, BytesOf

\* The state of the scan before page n: the pages up to `limit` are in the chunks,
\* those from there on make the open region.
Limit(n, r) == IF r.inside THEN r.start ELSE n

Scanned(k, n, r) ==
  /\ r.inside \in BOOLEAN /\ r.chunks \in Chunks /\ Limit(n, r) \in 0..n
  /\ r.inside => r.start < n /\ \A i \in r.start..(n - 1) : i \in bits[k]
  /\ AllBytes(r.chunks) = {b \in Nat : Page(b) \in bits[k] /\ Page(b) < Limit(n, r)}
  /\ \A i \in DOMAIN r.chunks : EndOf(r.chunks, i) < Limit(n, r) * PageSize
  /\ Ordered(r.chunks)

LEMMA AppendChunk ==
  ASSUME NEW c \in Chunks, NEW s \in Nat, NEW l \in Nat, Ordered(c),
         \A i \in DOMAIN c : EndOf(c, i) < s
  PROVE  LET d == Append(c, [offset |-> s, len |-> l])
         IN /\ d \in Chunks /\ Ordered(d)
            /\ AllBytes(d) = AllBytes(c) \cup (s..(s + l - 1))
            /\ \A i \in DOMAIN d : EndOf(d, i) < s \/ EndOf(d, i) = s + l
<1> DEFINE x == [offset |-> s, len |-> l]
           d == Append(c, x)
           n == Len(c)
<1>1. x \in [offset : Nat, len : Nat] /\ x.offset = s /\ x.len = l
  OBVIOUS
<1> HIDE DEF x
<1>2. /\ d \in Chunks /\ n \in Nat /\ DOMAIN c = 1..n /\ DOMAIN d = 1..(n + 1)
      /\ d[n + 1] = x /\ \A i \in 1..n : d[i] = c[i]
  BY <1>1 DEF Chunks
<1>3. AllBytes(d) = AllBytes(c) \cup (s..(s + l - 1))
  BY <1>1, BytesAppend
<1> HIDE DEF d, n
<1>4. \A i \in DOMAIN c : EndOf(c, i) \in Nat
  BY ChunkTypes
<1>5. \A i \in 1..n : EndOf(d, i) = EndOf(c, i) /\ EndOf(d, i) < s /\ EndOf(d, i) \in Nat
  <2>1. \A i \in 1..n : EndOf(d, i) = EndOf(c, i)
    BY <1>2, Zenon DEF EndOf
  <2> QED BY <1>2, <1>4, <2>1
<1>6. EndOf(d, n + 1) = s + l /\ d[n + 1].offset = s
  BY <1>1, <1>2 DEF EndOf
<1>7. Ordered(d)
  <2> SUFFICES ASSUME NEW i \in 1..(n + 1), NEW j \in 1..(n + 1), i < j
               PROVE  EndOf(d, i) < d[j].offset
    BY <1>2 DEF Ordered
  <2>1. i \in 1..n
    BY <1>2
  <2>2. CASE j = n + 1
    BY <1>5, <1>6, <2>1, <2>2
  <2>3. CASE j # n + 1
    <3>1. j \in 1..n
      BY <1>2, <2>3
    <3> QED BY <1>2, <1>5, <2>1, <3>1 DEF Ordered
  <2> QED BY <2>2, <2>3
<1>8. \A i \in DOMAIN d : EndOf(d, i) < s \/ EndOf(d, i) = s + l
  <2> SUFFICES ASSUME NEW i \in 1..(n + 1) PROVE EndOf(d, i) < s \/ EndOf(d, i) = s + l
    BY <1>2
  <2>1. i = n + 1 \/ i \in 1..n
    BY <1>2
  <2> QED BY <1>5, <1>6, <2>1
<1> QED BY <1>2, <1>3, <1>7, <1>8 DEF d, x

\* A page that is not the last one, or that is clear.
LEMMA ScanMiddle ==
  ASSUME NEW k \in Keys, bits[k] \subseteq PagesOf(k), NEW n \in Nat,
         n < AlignedPages(k) - 1 \/ n \notin bits[k], NEW r, Scanned(k, n, r)
  PROVE  Scanned(k, n + 1, ScanPage(k, n, r))
<1> DEFINE q == ScanPage(k, n, r)
<1> SUFFICES Scanned(k, n + 1, q)
  OBVIOUS
<1>1. n \in bits[k] => n # AlignedPages(k) - 1
  BY PageFacts
<1>2. /\ r.inside \in BOOLEAN /\ r.chunks \in Chunks /\ Ordered(r.chunks)
      /\ Limit(n, r) \in 0..n
      /\ \A i \in DOMAIN r.chunks : EndOf(r.chunks, i) < Limit(n, r) * PageSize
      /\ AllBytes(r.chunks) = {b \in Nat : Page(b) \in bits[k] /\ Page(b) < Limit(n, r)}
  BY Zenon DEF Scanned
<1>3. CASE n \in bits[k]
  <2>1. /\ q.inside = TRUE /\ q.chunks = r.chunks
        /\ q.start = IF r.inside THEN r.start ELSE n
    BY <1>1, <1>3 DEF ScanPage
  <2> HIDE DEF q
  <2>2. Limit(n + 1, q) = Limit(n, r) /\ q.start = Limit(n, r)
    BY <2>1 DEF Limit
  <2>3. \A i \in q.start..n : i \in bits[k]
    BY <1>2, <1>3, <2>2 DEF Scanned, Limit
  <2>4. q.start < n + 1 /\ Limit(n + 1, q) \in 0..(n + 1) /\ (n + 1) - 1 = n
    BY <1>2, <2>2
  <2>5. AllBytes(q.chunks) = {b \in Nat : Page(b) \in bits[k] /\ Page(b) < Limit(n + 1, q)}
    BY <1>2, <2>1, <2>2
  <2>6. \A i \in q.start..((n + 1) - 1) : i \in bits[k]
    BY <2>3, <2>4
  <2> QED BY <1>2, <2>1, <2>2, <2>4, <2>5, <2>6 DEF Scanned
<1>4. CASE n \notin bits[k] /\ ~r.inside
  <2>1. q.inside = FALSE /\ q.chunks = r.chunks
    BY <1>4 DEF ScanPage
  <2> HIDE DEF q
  <2>2. Limit(n + 1, q) = n + 1 /\ Limit(n, r) = n
    BY <1>4, <2>1 DEF Limit
  <2>3. AllBytes(q.chunks) = {b \in Nat : Page(b) \in bits[k] /\ Page(b) < n + 1}
    <3>1. \A b \in Nat : Page(b) \in Nat
      BY ByteFacts
    <3> QED BY <1>2, <1>4, <2>1, <2>2, <3>1
  <2>4. \A i \in DOMAIN q.chunks : EndOf(q.chunks, i) < (n + 1) * PageSize
    <3>1. \A i \in DOMAIN r.chunks : EndOf(r.chunks, i) \in Nat
      BY <1>2, ChunkTypes
    <3> DEFINE x == n * PageSize
               y == (n + 1) * PageSize
    <3>2. x \in Nat /\ y \in Nat /\ x < y
      BY PageSpan
    <3>3. \A i \in DOMAIN r.chunks : EndOf(r.chunks, i) < x
      BY <1>2, <2>2
    <3> HIDE DEF x, y
    <3>4. \A i \in DOMAIN r.chunks : EndOf(r.chunks, i) < y
      BY <3>1, <3>2, <3>3
    <3> QED BY <2>1, <3>4 DEF y
  <2>5. Limit(n + 1, q) \in 0..(n + 1)
    BY <2>2
  <2>6. AllBytes(q.chunks) = {b \in Nat : Page(b) \in bits[k] /\ Page(b) < Limit(n + 1, q)}
    BY <2>2, <2>3
  <2> QED BY <1>2, <2>1, <2>2, <2>4, <2>5, <2>6 DEF Scanned
<1>5. CASE n \notin bits[k] /\ r.inside
  <2> DEFINE s == r.start * PageSize
             e == n * PageSize
  <2>1. /\ q.inside = FALSE
        /\ q.chunks = Append(r.chunks, [offset |-> s, len |-> (n - r.start) * PageSize])
    BY <1>5 DEF ScanPage
  <2>2. /\ r.start \in Nat /\ r.start < n /\ \A i \in r.start..(n - 1) : i \in bits[k]
        /\ Limit(n, r) = r.start
    BY <1>2, <1>5 DEF Scanned, Limit
  <2>3. s \in Nat /\ e \in Nat /\ s < e /\ (n - r.start) * PageSize = e - s
    BY <2>2, PageSpan
  <2>4. (n + 1) * PageSize \in Nat /\ e < (n + 1) * PageSize
    BY PageSpan
  <2>5. \A b \in Nat : Page(b) \in Nat /\ (b \in s..(e - 1) <=> Page(b) \in r.start..(n - 1))
    BY <2>2, PageSpan, ByteFacts
  <2> HIDE DEF q, s, e
  <2> DEFINE d == Append(r.chunks, [offset |-> s, len |-> e - s])
  <2>6. q.chunks = d /\ e - s \in Nat
    BY <2>1, <2>3
  <2>7. /\ d \in Chunks /\ Ordered(d) /\ AllBytes(d) = AllBytes(r.chunks) \cup (s..(s + (e - s) - 1))
        /\ \A i \in DOMAIN d : EndOf(d, i) < s \/ EndOf(d, i) = s + (e - s)
    <3>1. \A i \in DOMAIN r.chunks : EndOf(r.chunks, i) < s
      BY <1>2, <2>2 DEF s
    <3> HIDE DEF d
    <3> QED BY <1>2, <2>3, <2>6, <3>1, AppendChunk, Zenon DEF d
  <2> HIDE DEF d
  <2>8. Limit(n + 1, q) = n + 1
    BY <2>1 DEF Limit
  <2>9. AllBytes(d) = {b \in Nat : Page(b) \in bits[k] /\ Page(b) < n + 1}
    <3>1. s + (e - s) - 1 = e - 1 /\ s..(e - 1) \subseteq Nat
      BY <2>3
    <3> QED BY <1>2, <1>5, <2>2, <2>5, <2>7, <3>1
  <2>10. \A i \in DOMAIN d : EndOf(d, i) < (n + 1) * PageSize
    <3>1. \A i \in DOMAIN d : EndOf(d, i) \in Nat
      BY <2>7, ChunkTypes
    <3> DEFINE y == (n + 1) * PageSize
    <3> HIDE DEF y
    <3>2. y \in Nat /\ e < y
      BY <2>4 DEF y
    <3>3. \A i \in DOMAIN d : EndOf(d, i) < y
      BY <2>3, <2>7, <3>1, <3>2
    <3> QED BY <3>3 DEF y
  <2>11. Limit(n + 1, q) \in 0..(n + 1)
    BY <2>8
  <2>12. AllBytes(q.chunks) = {b \in Nat : Page(b) \in bits[k] /\ Page(b) < Limit(n + 1, q)}
    BY <2>6, <2>8, <2>9
  <2> QED BY <2>1, <2>6, <2>7, <2>8, <2>10, <2>11, <2>12 DEF Scanned
<1> QED BY <1>2, <1>3, <1>4, <1>5

\* The last page.
LEMMA ScanLast ==
  ASSUME NEW k \in Keys, bits[k] \subseteq PagesOf(k), NEW n, n = AlignedPages(k) - 1,
         NEW r, Scanned(k, n, r), NEW c, c = ScanPage(k, n, r).chunks
  PROVE  /\ c \in Chunks /\ Ordered(c)
         /\ AllBytes(c) = {b \in Nat : Page(b) \in bits[k] /\ b < Size[k]}
<1> DEFINE S == Size[k]
<1>1. n \in Nat /\ S \in Nat /\ n * PageSize < S /\ S <= (n + 1) * PageSize
  BY PageFacts
<1>2. bits[k] \subseteq 0..n
  BY DEF PagesOf
<1>3. ASSUME NEW b \in Nat
      PROVE  Page(b) \in Nat /\ (b < S => Page(b) <= n) /\ (Page(b) < n => b < S)
  <2>1. /\ Page(b) \in Nat /\ (b < n * PageSize <=> Page(b) < n)
        /\ b < (n + 1) * PageSize <=> Page(b) < n + 1
    BY <1>1, ByteFacts
  <2> DEFINE x == n * PageSize
             y == (n + 1) * PageSize
  <2>2. x \in Nat /\ y \in Nat
    BY <1>1, PageSpan
  <2> HIDE DEF x, y, S
  <2> QED BY <1>1, <2>1, <2>2 DEF x, y
<1>4. CASE n \notin bits[k]
  <2> DEFINE q == ScanPage(k, n, r)
  <2>1. Scanned(k, n + 1, q)
    BY <1>1, <1>4, ScanMiddle
  <2>2. q.inside = FALSE /\ c = q.chunks
    BY <1>4 DEF ScanPage
  <2> HIDE DEF q, S
  <2>3. Limit(n + 1, q) = n + 1
    BY <2>2 DEF Limit
  <2>4. AllBytes(c) = {b \in Nat : Page(b) \in bits[k] /\ Page(b) < n + 1}
    BY <2>1, <2>2, <2>3 DEF Scanned
  <2>5. \A b \in Nat : Page(b) \in bits[k] => (Page(b) < n + 1 <=> b < S)
    BY <1>1, <1>2, <1>3, <1>4
  <2>6. AllBytes(c) = {b \in Nat : Page(b) \in bits[k] /\ b < S}
    BY <2>4, <2>5
  <2>7. c \in Chunks /\ Ordered(c)
    BY <2>1, <2>2, Zenon DEF Scanned
  <2> QED BY <2>6, <2>7 DEF S
<1>5. CASE n \in bits[k]
  <2> DEFINE m == Limit(n, r)
             s == m * PageSize
             d == Append(r.chunks, [offset |-> s, len |-> S - s])
  <2>1. c = d
    BY <1>5 DEF ScanPage, Limit
  <2>2. /\ r.chunks \in Chunks /\ Ordered(r.chunks) /\ m \in 0..n
        /\ \A i \in DOMAIN r.chunks : EndOf(r.chunks, i) < s
        /\ AllBytes(r.chunks) = {b \in Nat : Page(b) \in bits[k] /\ Page(b) < m}
    BY Zenon DEF Scanned
  <2>3. \A i \in m..n : i \in bits[k]
    BY <1>1, <1>5 DEF Scanned, Limit
  <2>4. s \in Nat /\ s < S
    <3>1. m \in Nat /\ m <= n
      BY <1>1, <2>2
    <3> HIDE DEF m, S
    <3>2. s \in Nat /\ n * PageSize \in Nat /\ s <= n * PageSize
      BY <1>1, <3>1, DeltaAssumption, Multiples
    <3> QED BY <1>1, <3>2
  <2>5. \A b \in Nat : s <= b <=> m <= Page(b)
    <3>1. m \in Nat
      BY <2>2
    <3> HIDE DEF m
    <3> QED BY <3>1, ByteFacts
  <2> HIDE DEF m, s, S
  <2>6. S - s \in Nat /\ s + (S - s) - 1 = S - 1
    BY <1>1, <2>4
  <2>7. d \in Chunks /\ Ordered(d) /\ AllBytes(d) = AllBytes(r.chunks) \cup (s..(s + (S - s) - 1))
    BY <2>2, <2>4, <2>6, AppendChunk
  <2>8. \A b \in Nat : b \in s..(S - 1) <=> m <= Page(b) /\ b < S
    BY <1>1, <2>4, <2>5
  <2>9. ASSUME NEW b \in Nat
        PROVE  (Page(b) \in bits[k] /\ Page(b) < m) \/ b \in s..(S - 1)
               <=> Page(b) \in bits[k] /\ b < S
    BY <1>1, <1>2, <1>3, <2>2, <2>3, <2>8
  <2>10. s..(S - 1) \subseteq Nat
    BY <1>1, <2>4
  <2>11. AllBytes(d) = {b \in Nat : Page(b) \in bits[k] /\ b < S}
    BY <2>2, <2>6, <2>7, <2>9, <2>10
  <2> QED BY <2>1, <2>7, <2>11 DEF S
<1> QED BY <1>4, <1>5

\* What get_delta_chunks computes.
LEMMA DeltaChunks ==
  ASSUME NEW k \in Keys, bits[k] \subseteq PagesOf(k)
  PROVE  /\ GetDeltaChunks(k) \in Chunks /\ Ordered(GetDeltaChunks(k))
         /\ AllBytes(GetDeltaChunks(k)) = {b \in Nat : Page(b) \in bits[k] /\ b < Size[k]}
<1> DEFINE A == AlignedPages(k)
<1>1. PICK g : Scans(k, A, g) /\ GetDeltaChunks(k) = g[A].chunks
  BY ScanFact
<1>2. A \in Nat \ {0}
  BY PageFacts
<1>3. g[0] = NoRegion /\ \A n \in 1..A : g[n] = ScanPage(k, n - 1, g[n - 1])
  BY <1>1, <1>2 DEF Scans
<1> DEFINE Bad == {n \in Nat : n < A /\ ~Scanned(k, n, g[n])}
<1>4. ASSUME Bad # {} PROVE FALSE
  <2>1. PICK n \in Bad : \A m \in Bad : ~ (<<m, n>> \in OpToRel(<, Nat))
    <3>1. Bad \subseteq Nat
      OBVIOUS
    <3> HIDE DEF Bad
    <3> QED BY <1>4, <3>1, WFMin, NatLessThanWellFounded, Zenon
  <2>2. CASE n = 0
    <3>1. AllBytes(<<>>) = {}
      BY DEF AllBytes, BytesOf, Range
    <3>2. \A b \in Nat : Page(b) \in Nat
      BY ByteFacts
    <3>3. Scanned(k, 0, NoRegion)
      BY <3>1, <3>2 DEF Scanned, NoRegion, Limit, Chunks, Ordered
    <3> QED BY <1>3, <2>1, <2>2, <3>3
  <2>3. CASE n # 0
    <3>1. n - 1 \in Nat /\ n \in Nat /\ n < A /\ n \in 1..A
      BY <1>2, <2>3
    <3>2. n - 1 \notin Bad
      <4>1. /\ <<n - 1, n>> \in Nat \X Nat /\ <<n - 1, n>>[1] = n - 1 /\ <<n - 1, n>>[2] = n
            /\ n - 1 < n
        BY <3>1
      <4> HIDE DEF Bad
      <4> QED BY <2>1, <4>1, Zenon DEF OpToRel
    <3>3. Scanned(k, n - 1, g[n - 1]) /\ n - 1 < A - 1 /\ (n - 1) + 1 = n
      BY <1>2, <3>1, <3>2
    <3>4. Scanned(k, (n - 1) + 1, ScanPage(k, n - 1, g[n - 1]))
      BY <3>1, <3>3, ScanMiddle
    <3> QED BY <1>3, <2>1, <3>1, <3>3, <3>4
  <2> QED BY <2>2, <2>3
<1>5. Scanned(k, A - 1, g[A - 1])
  BY <1>2, <1>4
<1>6. GetDeltaChunks(k) = ScanPage(k, A - 1, g[A - 1]).chunks
  BY <1>1, <1>2, <1>3
<1> QED BY <1>5, <1>6, ScanLast


-----------------------------------------------------------------------------
(* GetInstance inside the delta store. *)

\* A step of the delta store is a step of GetInstance or leaves its state alone.
LEMMA GetInstanceSteps == [Next]_vars => [SMNext]_smVars
<1> SUFFICES ASSUME [Next]_vars PROVE SMNext \/ UNCHANGED smVars
  BY DEF SMNext
<1>1. CASE UNCHANGED vars
  BY <1>1 DEF vars
<1>2. CASE Ends
  BY <1>2 DEF Ends, SMNext
<1>3. ASSUME NEW t \in Threads, GetInstance(t) PROVE SMNext
  BY <1>3, Zenon DEF GetInstance, BuildStore, SMNext, Call, GetInstanceStep
<1>4. ASSUME NEW t \in Threads, Use(t) PROVE Ends \/ UNCHANGED smVars
  <2>1. CASE PutAll(t) \/ PutAllOverrun(t) \/ PutNoSpace(t)
    BY <2>1, Zenon DEF PutAll, PutAllOverrun, PutNoSpace, AppendDeltas
  <2>2. ASSUME NEW k \in Keys,
               \/ CreateObj(t, k) \/ CreateObjExists(t, k) \/ FreeObj(t, k)
               \/ PutOverrun(t, k)
               \/ \E b \in Bytes(k) : Write(t, k, b) \/ WriteFault(t, k, b)
               \/ \E v \in 0..MaxVer : Put(t, k, v) \/ GetWithMalloc(t, k, v)
        PROVE  Ends \/ UNCHANGED smVars
    BY <2>2, Zenon DEF CreateObj, CreateObjExists, FreeObj, PutOverrun, Write, WriteFault,
                       Put, AppendDeltas, GetWithMalloc
  <2> QED BY <1>4, <2>1, <2>2, Zenon DEF Use
<1> QED BY <1>1, <1>2, <1>3, <1>4 DEF Next, Ends, SMNext

\* The threads that use the store use the one the signal handler asks.
LEMMA UsersStore ==
  ASSUME SMInv, OwnerInv, NEW t \in Threads, InUse(t)
  PROVE  tmp[t] = dsObject /\ dsObject # Null
<1>1. tmp[t] = instance /\ instance # Null /\ built = {instance}
  BY DEF SMInv, HolderInv, InstanceInv, InUse
<1> QED BY <1>1 DEF OwnerInv

LEMMA OwnedObject ==
  ASSUME IInv, NEW t \in Threads, NEW k \in Keys, Has(t, k)
  PROVE  owner[k] = dsObject /\ frame[k] \in Frames /\ frame[k] # NoFrame /\ frame[k] \in Nat
<1>1. owner[k] = dsObject /\ dsObject # Null
  BY UsersStore DEF IInv, Has
<1> QED BY <1>1, DeltaAssumption DEF IInv, OwnerInv, TypeOK

-----------------------------------------------------------------------------
(* The invariant, action by action. *)

DeltaInv == TypeOK /\ OwnerInv /\ LayoutInv /\ BitsInv /\ DeltasRebuildTail

LEMMA NoFrames ==
  ASSUME NEW k \in Keys, frame[k] = NoFrame
  PROVE  FramesOf(k) = {}
BY DEF FramesOf

LEMMA DeltaInit == Init => DeltaInv
<1> SUFFICES ASSUME Init PROVE DeltaInv
  OBVIOUS
<1> USE DEF Init
<1>1. SMTypeOK
  BY InitInv DEF SMInv
<1>2. TypeOK
  BY <1>1, DeltaAssumption DEF TypeOK
<1>3. OwnerInv
  BY DEF OwnerInv, SMInit
<1>4. LayoutInv
  BY NoFrames DEF LayoutInv
<1>5. BitsInv /\ DeltasRebuildTail
  BY DEF BitsInv, DeltasRebuildTail
<1> QED BY <1>2, <1>3, <1>4, <1>5 DEF DeltaInv

LEMMA SameStep ==
  ASSUME DeltaInv, SMTypeOK', UNCHANGED <<built, deltaVars>>
  PROVE  DeltaInv'
<1> USE DEF DeltaInv, deltaVars, objVars
<1>1. TypeOK'
  BY DEF TypeOK
<1>2. OwnerInv'
  BY DEF OwnerInv
<1>3. LayoutInv'
  BY DEF LayoutInv, FramesOf
<1>4. BitsInv' /\ DeltasRebuildTail'
  BY DEF BitsInv, DeltasRebuildTail
<1> QED BY <1>1, <1>2, <1>3, <1>4

LEMMA EndsStep ==
  ASSUME DeltaInv, SMTypeOK', Ends
  PROVE  DeltaInv'
<1> USE DEF Ends, NoObjects
<1>1. TypeOK'
  BY DeltaAssumption DEF DeltaInv, TypeOK
<1>2. OwnerInv'
  BY DEF OwnerInv, ProcessEnds
<1>3. LayoutInv'
  BY DEF LayoutInv, FramesOf
<1>4. BitsInv' /\ DeltasRebuildTail'
  BY DEF BitsInv, DeltasRebuildTail, DeltaInv
<1> QED BY <1>1, <1>2, <1>3, <1>4 DEF DeltaInv

LEMMA GetInstanceStepKeeps ==
  ASSUME IInv, SMTypeOK', NEW t \in Threads, GetInstance(t)
  PROVE  DeltaInv'
<1>1. CASE BuildStore(t)
  <2>1. built = {} /\ built' = {t} /\ dsObject' = t /\ t # Null
    <3>1. thr[t] = "build" /\ built' = built \cup {t} /\ dsObject' = t
      BY <1>1 DEF BuildStore, Build, At
    <3> QED BY <3>1, ThreadsAssumption DEF IInv, SMInv, HolderInv
  <2>2. \A k \in Keys : owner[k] = Null
    BY <2>1 DEF IInv, OwnerInv
  <2>3. UNCHANGED <<owner, frame, ver, bits, prot, stale, used, missed, lost>>
    BY <1>1 DEF BuildStore
  <2>4. TypeOK'
    BY <2>1, <2>3 DEF IInv, TypeOK
  <2>5. OwnerInv'
    BY <2>1, <2>2, <2>3 DEF IInv, OwnerInv
  <2>6. LayoutInv'
    BY <2>3 DEF IInv, LayoutInv, FramesOf
  <2>7. BitsInv' /\ DeltasRebuildTail'
    BY <2>3 DEF IInv, BitsInv, DeltasRebuildTail
  <2> QED BY <2>4, <2>5, <2>6, <2>7 DEF DeltaInv
<1>2. CASE ~BuildStore(t)
  <2>1. UNCHANGED <<built, deltaVars>>
    BY <1>2, Zenon DEF GetInstance, BuildStore, FirstLoad, AcquireFence, Acquire, SecondLoad,
                       Publish, Unlock, Again
  <2> QED BY <2>1, SameStep DEF IInv, DeltaInv
<1> QED BY <1>1, <1>2


LEMMA AppendedFrames ==
  ASSUME NEW k \in Keys, NEW f \in Nat, NEW i \in PagesOf(k)
  PROVE  i \in Nat /\ i < AlignedPages(k) /\ f + i \in Nat
BY PageFacts DEF PagesOf

LEMMA CreateStep ==
  ASSUME IInv, SMTypeOK', NEW t \in Threads, NEW k \in Keys, CreateObj(t, k)
  PROVE  DeltaInv'
<1>1. tmp[t] = dsObject /\ dsObject # Null /\ owner[k] = Null /\ frame[k] = NoFrame
  <2>1. InUse(t) /\ owner[k] # tmp[t]
    BY DEF CreateObj
  <2>2. tmp[t] = dsObject /\ dsObject # Null
    BY <2>1, UsersStore DEF IInv
  <2> QED BY <2>1, <2>2 DEF IInv, OwnerInv
<1>2. PICK f \in Frames :
        /\ \A i \in PagesOf(k) : f + i \in Frames /\ \A o \in Keys : f + i \notin FramesOf(o)
        /\ frame' = [frame EXCEPT ![k] = f]
  BY Zenon DEF CreateObj
<1>3. /\ owner' = [owner EXCEPT ![k] = dsObject] /\ ver' = [ver EXCEPT ![k] = 0]
      /\ bits' = [bits EXCEPT ![k] = PagesOf(k)] /\ stale' = [stale EXCEPT ![k] = PagesOf(k)]
      /\ UNCHANGED <<smVars, dsObject, prot, used, missed, lost>>
  BY <1>1 DEF CreateObj
<1>4. PagesOf(k) \subseteq Nat /\ f # NoFrame
  BY AppendedFrames, DeltaAssumption
<1> HIDE DEF PagesOf
<1>a. /\ frame \in [Keys -> Frames \cup {NoFrame}] /\ owner \in [Keys -> Threads \cup {Null}]
      /\ ver \in [Keys -> 0..MaxVer] /\ bits \in [Keys -> SUBSET Nat]
      /\ stale \in [Keys -> SUBSET Nat] /\ 0 \in 0..MaxVer
  BY DeltaAssumption DEF IInv, TypeOK
<1>b. /\ frame'[k] = f /\ owner'[k] = dsObject /\ bits'[k] = PagesOf(k) /\ stale'[k] = PagesOf(k)
      /\ \A l \in Keys : l # k => /\ frame'[l] = frame[l] /\ owner'[l] = owner[l]
                                  /\ bits'[l] = bits[l] /\ stale'[l] = stale[l]
  BY <1>2, <1>3, <1>a
<1>5. TypeOK'
  <2>1. /\ frame' \in [Keys -> Frames \cup {NoFrame}] /\ owner' \in [Keys -> Threads \cup {Null}]
        /\ ver' \in [Keys -> 0..MaxVer] /\ bits' \in [Keys -> SUBSET Nat]
        /\ stale' \in [Keys -> SUBSET Nat]
    BY <1>2, <1>3, <1>4, <1>a DEF IInv, TypeOK
  <2>2. \A l \in Keys : bits'[l] \subseteq PagesOf(l) /\ stale'[l] \subseteq PagesOf(l)
    BY <1>b DEF IInv, TypeOK
  <2> QED BY <1>3, <2>1, <2>2, Zenon DEF IInv, TypeOK
<1>6. OwnerInv'
  <2>1. built' = built /\ dsObject' = dsObject
    BY <1>3 DEF smVars
  <2> QED BY <1>1, <1>4, <1>b, <2>1 DEF IInv, OwnerInv
<1>c. /\ FramesOf(k)' = {f + i : i \in PagesOf(k)} /\ FramesOf(k) = {}
      /\ \A l \in Keys : l # k => FramesOf(l)' = FramesOf(l)
  BY <1>1, <1>4, <1>b DEF FramesOf
<1>7. LayoutInv'
  <2>1. \A l \in Keys : FramesOf(l)' \subseteq Frames
    BY <1>2, <1>c DEF IInv, LayoutInv
  <2>2. \A l \in Keys : l # k => FramesOf(k)' \cap FramesOf(l) = {}
    BY <1>2, <1>c
  <2>3. \A l, m \in Keys : l # m => FramesOf(l)' \cap FramesOf(m)' = {}
    BY <1>c, <2>2 DEF IInv, LayoutInv
  <2>4. \A x \in prot : \E l \in Keys : x \in FramesOf(l)'
    BY <1>c DEF IInv, LayoutInv
  <2> QED BY <1>3, <2>1, <2>3, <2>4 DEF LayoutInv
<1>8. BitsInv'
  BY <1>3, <1>b, Zenon DEF IInv, BitsInv
<1>9. DeltasRebuildTail'
  BY <1>3 DEF IInv, DeltasRebuildTail
<1> QED BY <1>5, <1>6, <1>7, <1>8, <1>9 DEF DeltaInv

LEMMA BytePages ==
  ASSUME NEW k \in Keys, NEW b \in Bytes(k)
  PROVE  b \in Nat /\ Page(b) \in PagesOf(k) /\ Page(b) \in Nat
<1>1. b \in Nat /\ b < Size[k] /\ AlignedPages(k) \in Nat \ {0} /\ Size[k] \in Nat
  BY PageFacts DEF Bytes
<1>2. b < AlignedPages(k) * PageSize
  <2> DEFINE x == AlignedPages(k) * PageSize
  <2>1. Size[k] <= x /\ x \in Nat
    BY PageFacts, DeltaAssumption
  <2> HIDE DEF x
  <2>2. b < x
    BY <1>1, <2>1
  <2> QED BY <2>2 DEF x
<1>3. Page(b) \in Nat /\ Page(b) < AlignedPages(k)
  BY <1>1, <1>2, ByteFacts
<1> QED BY <1>1, <1>3 DEF PagesOf

LEMMA WriteStep ==
  ASSUME IInv, SMTypeOK', NEW t \in Threads, NEW k \in Keys, NEW b \in Bytes(k), Write(t, k, b)
  PROVE  DeltaInv'
<1>1. Page(b) \in PagesOf(k) /\ Page(b) \in Nat
  BY BytePages
<1>2. /\ Has(t, k) /\ frame[k] + Page(b) \notin prot
      /\ stale' = [stale EXCEPT ![k] = stale[k] \cup {Page(b)}]
      /\ UNCHANGED <<smVars, dsObject, owner, frame, ver, bits, prot, used, missed, lost>>
  BY Zenon DEF Write, Page
<1>3. Page(b) \in bits[k] \cup {0}
  BY <1>1, <1>2, OwnedObject DEF IInv, BitsInv
<1>4. /\ stale'[k] = stale[k] \cup {Page(b)} /\ \A l \in Keys : l # k => stale'[l] = stale[l]
      /\ stale' \in [Keys -> SUBSET Nat]
  BY <1>1, <1>2 DEF IInv, TypeOK
<1>5. \A l \in Keys : stale'[l] \subseteq PagesOf(l) /\ stale'[l] \subseteq bits[l] \cup {0} \cup lost[l]
  BY <1>1, <1>3, <1>4 DEF IInv, TypeOK, BitsInv
<1>6. TypeOK'
  BY <1>2, <1>4, <1>5, Zenon DEF IInv, TypeOK
<1>7. OwnerInv'
  BY <1>2 DEF IInv, OwnerInv, smVars
<1>8. LayoutInv'
  BY <1>2 DEF IInv, LayoutInv, FramesOf
<1>9. BitsInv' /\ DeltasRebuildTail'
  BY <1>2, <1>5 DEF IInv, BitsInv, DeltasRebuildTail
<1> QED BY <1>6, <1>7, <1>8, <1>9 DEF DeltaInv


LEMMA PageOfAddress ==
  ASSUME NEW f \in Nat, NEW b \in Nat
  PROVE  f * PageSize + b \in Nat /\ Page(f * PageSize + b) = f + Page(b)
<1> DEFINE x == f * PageSize
           p == Page(b)
           y == p * PageSize
           z == (f + p) * PageSize
           q == Page(x + b)
<1>1. PageSize \in Nat \ {0} /\ p \in Nat
  BY DeltaAssumption, ByteFacts
<1>2. x \in Nat /\ y \in Nat /\ z = x + y
  <2> HIDE DEF p
  <2> QED BY <1>1
<1>3. y <= b /\ b < y + PageSize
  <2>1. p * PageSize <= b
    BY <1>1, ByteFacts
  <2>2. b < (p + 1) * PageSize
    <3>1. p + 1 \in Nat /\ p < p + 1
      BY <1>1
    <3> HIDE DEF p
    <3> QED BY <3>1, ByteFacts DEF p
  <2>3. (p + 1) * PageSize = y + PageSize
    <3> HIDE DEF p
    <3> QED BY <1>1, Multiples
  <2> QED BY <2>1, <2>2, <2>3
<1>4. x + b \in Nat /\ z <= x + b /\ x + b < z + PageSize
  <2> HIDE DEF x, y, z
  <2> QED BY <1>1, <1>2, <1>3
<1>5. f + p \in Nat /\ (f + p + 1) * PageSize = z + PageSize
  <2> HIDE DEF p
  <2> QED BY <1>1, Multiples
<1>6. q \in Nat /\ f + p <= q
  <2>1. (f + p) * PageSize <= x + b
    BY <1>4
  <2> HIDE DEF x, p
  <2> QED BY <1>4, <1>5, <2>1, ByteFacts
<1>7. q < f + p + 1
  <2>1. x + b < (f + p + 1) * PageSize /\ f + p + 1 \in Nat
    BY <1>4, <1>5
  <2> HIDE DEF x, p
  <2> QED BY <1>4, <2>1, ByteFacts
<1>8. q = f + p
  <2> HIDE DEF q, p
  <2> QED BY <1>1, <1>6, <1>7
<1> QED BY <1>4, <1>8

LEMMA InFrames ==
  ASSUME NEW k \in Keys, frame[k] \in Nat, frame[k] # NoFrame, NEW i \in Nat,
         i < AlignedPages(k)
  PROVE  frame[k] + i \in FramesOf(k)
BY PageFacts DEF FramesOf, PagesOf

\* The page a fault lifts the protection of has its bit afterwards, unless it is
\* the first of its object; no other object gets a bit.
LEMMA FaultBits ==
  ASSUME IInv, NEW t \in Threads, NEW k \in Keys, NEW b \in Bytes(k), WriteFault(t, k, b)
  PROVE  \/ Page(b) = 0 /\ bits' = bits
         \/ bits' = [bits EXCEPT ![k] = bits[k] \cup {Page(b)}]
<1>1. b \in Nat /\ Page(b) \in PagesOf(k) /\ Page(b) \in Nat
  BY BytePages
<1>2. Has(t, k)
  BY DEF WriteFault
<1>3. frame[k] \in Nat /\ frame[k] # NoFrame
  BY <1>2, OwnedObject
<1> DEFINE a == Ptr(k) + b
<1>4. a \in Nat /\ Page(a) = frame[k] + Page(b)
  BY <1>1, <1>3, PageOfAddress DEF Ptr
<1>5. PICK hit \in Keys : InRange(a, hit) /\ SetModifiedBit(hit, (a - Ptr(hit)) \div PageSize)
  BY Zenon DEF WriteFault
<1>6. frame[hit] \in Nat /\ frame[hit] # NoFrame
  BY <1>5, DeltaAssumption DEF InRange, IInv, TypeOK
<1>7. a - Ptr(hit) \in Nat /\ AlignedPages(hit) \in Nat /\ AlignedPages(k) \in Nat
  <2>1. Ptr(hit) \in Nat /\ a >= Ptr(hit)
    BY <1>5, <1>6, DeltaAssumption DEF Ptr, InRange
  <2> HIDE DEF a
  <2> QED BY <1>4, <2>1, PageFacts
<1> DEFINE c == a - Ptr(hit)
<1>8. Page(a) = frame[hit] + Page(c) /\ Page(c) \in Nat
  <2>1. a = Ptr(hit) + c
    <3>1. Ptr(hit) \in Nat
      BY <1>6, DeltaAssumption DEF Ptr
    <3> HIDE DEF a
    <3> QED BY <1>4, <3>1
  <2> HIDE DEF a, c
  <2>2. a = frame[hit] * PageSize + c /\ c \in Nat
    BY <1>7, <2>1 DEF Ptr, c
  <2> QED BY <1>6, <2>2, PageOfAddress, ByteFacts
<1> DEFINE A == AlignedPages(hit)
           pg == Page(c)
<1>9. pg <= A
  <2>1. c <= A * PageSize /\ A * PageSize \in Nat /\ (A + 1) * PageSize = A * PageSize + PageSize
        /\ PageSize \in Nat \ {0}
    BY <1>5, <1>7, DeltaAssumption, Multiples DEF InRange
  <2> DEFINE x == A * PageSize
             y == (A + 1) * PageSize
  <2>2. c < y
    <3>1. c <= x /\ x \in Nat /\ y = x + PageSize /\ c \in Nat /\ PageSize \in Nat \ {0}
      BY <1>7, <2>1
    <3> HIDE DEF x, y, c
    <3> QED BY <3>1
  <2>3. A + 1 \in Nat /\ c \in Nat
    BY <1>7
  <2>4. pg < A + 1
    <3> HIDE DEF c, A
    <3> QED BY <2>2, <2>3, ByteFacts
  <2> HIDE DEF pg, A
  <2> QED BY <1>7, <1>8, <2>4 DEF pg, A
<1>10. bits' = [bits EXCEPT ![hit] = IF pg > 0 /\ pg < A THEN bits[hit] \cup {pg} ELSE bits[hit]]
  BY <1>5, Zenon DEF SetModifiedBit, Page
<1>11. bits \in [Keys -> SUBSET Nat]
  BY DEF IInv, TypeOK
<1>12. CASE hit = k
  <2>1. pg = Page(b) /\ pg < A
    <3>1. c = b
      <4>1. Ptr(k) \in Nat
        BY <1>3, DeltaAssumption DEF Ptr
      <4> HIDE DEF Ptr
      <4> QED BY <1>1, <1>12, <4>1
    <3>2. Page(b) < A
      BY <1>1, <1>7, <1>12 DEF PagesOf
    <3> HIDE DEF c
    <3> QED BY <3>1, <3>2
  <2> HIDE DEF pg, A
  <2>2. CASE pg = 0
    BY <1>10, <1>11, <2>1, <2>2
  <2>3. CASE pg # 0
    <3>1. pg > 0
      BY <1>1, <2>1, <2>3
    <3> QED BY <1>10, <1>12, <2>1, <3>1, Zenon
  <2> QED BY <2>2, <2>3
<1>13. CASE hit # k
  <2>1. FramesOf(k) \cap FramesOf(hit) = {}
    BY <1>13 DEF IInv, LayoutInv
  <2>2. \A x \in Nat : x < AlignedPages(k) => frame[k] + x \in FramesOf(k)
    BY <1>3, InFrames
  <2>3. \A x \in Nat : x < A => frame[hit] + x \in FramesOf(hit)
    BY <1>6, InFrames
  <2>4. Page(b) < AlignedPages(k) /\ frame[k] + Page(b) = frame[hit] + pg /\ pg \in Nat /\ A \in Nat
    BY <1>1, <1>4, <1>7, <1>8 DEF PagesOf
  <2> DEFINE pb == Page(b)
             F == FramesOf(k)
             G == FramesOf(hit)
             B == AlignedPages(k)
  <2>5. /\ pb \in Nat /\ pg \in Nat /\ A \in Nat /\ B \in Nat /\ pb < B /\ pg <= A
        /\ frame[k] + pb = frame[hit] + pg /\ frame[k] \in Nat /\ frame[hit] \in Nat
        /\ F \cap G = {}
        /\ \A x \in Nat : x < B => frame[k] + x \in F
        /\ \A x \in Nat : x < A => frame[hit] + x \in G
    BY <1>1, <1>3, <1>6, <1>7, <1>9, <2>1, <2>2, <2>3, <2>4
  <2> HIDE DEF pb, pg, A, B, F, G
  <2>6. ~(pg < A)
    BY <2>5
  <2>7. pb = 0
    <3> SUFFICES ASSUME pb # 0 PROVE FALSE
      OBVIOUS
    <3>1. /\ pb - 1 \in Nat /\ pb - 1 < B /\ pg = A
      BY <2>5, <2>6
    <3>2. A # 0
      BY <1>6, PageFacts DEF A
    <3>3. pg - 1 \in Nat /\ pg - 1 < A /\ frame[k] + (pb - 1) = frame[hit] + (pg - 1)
      BY <2>5, <3>1, <3>2
    <3>4. frame[k] + (pb - 1) \in F
      BY <2>5, <3>1
    <3>5. frame[hit] + (pg - 1) \in G
      BY <2>5, <3>3
    <3> QED BY <2>5, <3>3, <3>4, <3>5
  <2>8. bits' = bits
    BY <1>10, <1>11, <2>6
  <2> QED BY <2>7, <2>8 DEF pb
<1> QED BY <1>12, <1>13


LEMMA WriteFaultStep ==
  ASSUME IInv, SMTypeOK', NEW t \in Threads, NEW k \in Keys, NEW b \in Bytes(k),
         WriteFault(t, k, b)
  PROVE  DeltaInv'
<1>1. b \in Nat /\ Page(b) \in PagesOf(k) /\ Page(b) \in Nat
  BY BytePages
<1>2. /\ Has(t, k) /\ prot' = prot \ {Page(Ptr(k) + b)}
      /\ stale' = [stale EXCEPT ![k] = stale[k] \cup {Page(b)}]
      /\ UNCHANGED <<smVars, dsObject, owner, frame, ver, used, missed, lost>>
  BY Zenon DEF WriteFault, Page
<1>3. frame[k] \in Nat /\ frame[k] # NoFrame
  BY <1>2, OwnedObject
<1>4. prot' = prot \ {frame[k] + Page(b)}
  BY <1>1, <1>2, <1>3, PageOfAddress DEF Ptr
<1>5. \/ Page(b) = 0 /\ bits' = bits
      \/ bits' = [bits EXCEPT ![k] = bits[k] \cup {Page(b)}]
  BY FaultBits
<1> DEFINE g == Page(b)
<1>t. /\ bits \in [Keys -> SUBSET Nat] /\ stale \in [Keys -> SUBSET Nat] /\ g \in Nat
      /\ g \in PagesOf(k)
      /\ \A l \in Keys : bits[l] \subseteq PagesOf(l) /\ stale[l] \subseteq PagesOf(l)
  BY <1>1 DEF IInv, TypeOK
<1>s. /\ (g = 0 /\ bits' = bits) \/ bits' = [bits EXCEPT ![k] = bits[k] \cup {g}]
      /\ stale' = [stale EXCEPT ![k] = stale[k] \cup {g}]
  BY <1>2, <1>5
<1> HIDE DEF g
<1>6. /\ bits' \in [Keys -> SUBSET Nat] /\ g \in bits'[k] \cup {0}
      /\ \A l \in Keys : bits[l] \subseteq bits'[l] /\ bits'[l] \subseteq PagesOf(l)
      /\ stale' \in [Keys -> SUBSET Nat] /\ stale'[k] = stale[k] \cup {g}
      /\ \A l \in Keys : l # k => stale'[l] = stale[l]
  <2>1. /\ stale' \in [Keys -> SUBSET Nat] /\ stale'[k] = stale[k] \cup {g}
        /\ \A l \in Keys : l # k => stale'[l] = stale[l]
    BY <1>t, <1>s
  <2>2. CASE g = 0 /\ bits' = bits
    BY <1>t, <2>1, <2>2, Zenon
  <2>3. CASE bits' = [bits EXCEPT ![k] = bits[k] \cup {g}]
    <3>1. bits' \in [Keys -> SUBSET Nat] /\ bits'[k] = bits[k] \cup {g}
          /\ \A l \in Keys : l # k => bits'[l] = bits[l]
      BY <1>t, <2>3
    <3> QED BY <1>t, <2>1, <3>1
  <2> QED BY <1>s, <2>2, <2>3
<1>7. \A l \in Keys : /\ stale'[l] \subseteq PagesOf(l)
                      /\ stale'[l] \subseteq bits'[l] \cup {0} \cup lost[l]
  <2>1. \A l \in Keys : stale[l] \subseteq bits[l] \cup {0} \cup lost[l]
    BY DEF IInv, BitsInv
  <2> QED BY <1>t, <1>6, <2>1
<1>8. TypeOK'
  BY <1>2, <1>6, <1>7, Zenon DEF IInv, TypeOK
<1>9. OwnerInv'
  BY <1>2 DEF IInv, OwnerInv, smVars
<1>10. LayoutInv'
  BY <1>2 DEF IInv, LayoutInv, FramesOf
<1>11. BitsInv'
  <2> SUFFICES ASSUME NEW l \in Keys, frame[l] # NoFrame, NEW i \in PagesOf(l)
               PROVE  frame[l] + i \in prot' \/ i \in bits'[l] \cup {0}
    BY <1>2, <1>7, Zenon DEF BitsInv
  <2>1. frame[l] + i \in prot \/ i \in bits[l] \cup {0}
    BY DEF IInv, BitsInv
  <2>2. CASE frame[l] + i # frame[k] + g
    BY <1>4, <1>6, <2>1, <2>2 DEF g
  <2>3. CASE frame[l] + i = frame[k] + g
    <3>1. frame[l] \in Nat /\ i \in Nat
      BY AppendedFrames, DeltaAssumption DEF IInv, TypeOK
    <3>2. frame[k] + g \in FramesOf(k) /\ frame[l] + i \in FramesOf(l)
      BY <1>3, <1>t DEF FramesOf
    <3>3. l = k
      BY <2>3, <3>2 DEF IInv, LayoutInv
    <3>4. i = g
      BY <1>3, <1>t, <2>3, <3>1, <3>3
    <3> QED BY <1>6, <3>3, <3>4
  <2> QED BY <2>2, <2>3
<1>12. DeltasRebuildTail'
  BY <1>2 DEF IInv, DeltasRebuildTail
<1> QED BY <1>8, <1>9, <1>10, <1>11, <1>12 DEF DeltaInv

\* Every region is before or behind the end of lehdr_t.deltas.
LEMMA RegionsSplit ==
  ASSUME NEW k \in Keys, GetDeltaChunks(k) \in Chunks
  PROVE  AllBytes(GetDeltaChunks(k)) = BytesOf(Described(k)) \cup BytesOf(Undescribed(k))
<1> DEFINE c == GetDeltaChunks(k)
<1>1. \A n \in DOMAIN c : n <= MaxDeltas \/ n > MaxDeltas
  BY DeltaAssumption DEF Chunks
<1>2. Range(c) = Described(k) \cup Undescribed(k)
  BY <1>1, Zenon DEF Range, Described, Undescribed
<1> HIDE DEF c
<1> QED BY <1>2 DEF AllBytes, BytesOf, c

\* What a delta of an object contains: the whole of every page with a bit, unless
\* a part of it is in a region no header describes.
LEMMA BitsAppended ==
  ASSUME TypeOK, NEW k \in Keys
  PROVE  bits[k] \subseteq Covered(k) \cup Dropped(k)
<1> SUFFICES ASSUME NEW i \in bits[k] PROVE i \in Covered(k) \cup Dropped(k)
  OBVIOUS
<1>1. i \in PagesOf(k) /\ i \in Nat
  BY DEF TypeOK
<1>2. AllBytes(GetDeltaChunks(k)) = {b \in Nat : Page(b) \in bits[k] /\ b < Size[k]}
  BY DeltaChunks DEF TypeOK
<1>s. AllBytes(GetDeltaChunks(k)) = BytesOf(Described(k)) \cup BytesOf(Undescribed(k))
  BY DeltaChunks, RegionsSplit DEF TypeOK
<1>3. ASSUME NEW b \in PageBytes(k, i) PROVE b \in AllBytes(GetDeltaChunks(k))
  <2>1. b \in (i * PageSize)..((i + 1) * PageSize - 1) /\ b < Size[k]
    BY DEF PageBytes
  <2>2. i + 1 \in Nat /\ i < i + 1 /\ (i + 1) - 1 = i
    BY <1>1
  <2>3. i * PageSize \in Nat /\ \A c \in Nat :
          c \in (i * PageSize)..((i + 1) * PageSize - 1) <=> Page(c) \in i..((i + 1) - 1)
    BY <1>1, <2>2, PageSpan
  <2>4. b \in Nat
    <3> DEFINE x == i * PageSize
               y == (i + 1) * PageSize - 1
    <3>1. x \in Nat /\ b \in x..y
      BY <2>1, <2>3
    <3> HIDE DEF x, y
    <3> QED BY <3>1
  <2>5. Page(b) \in i..i
    BY <2>1, <2>2, <2>3, <2>4
  <2>6. Page(b) = i
    BY <1>1, <2>5
  <2> QED BY <1>2, <2>1, <2>4, <2>6
<1> QED BY <1>1, <1>3, <1>s DEF Covered, Dropped

LEMMA AppendStep ==
  ASSUME IInv, SMTypeOK', NEW ks \in SUBSET Keys, NEW newVer \in [Keys -> 0..MaxVer],
         \A k \in ks : frame[k] # NoFrame,
         AppendDeltas(ks, newVer)
  PROVE  DeltaInv'
<1>1. /\ used < LogCap /\ used' = used + 1 /\ ver' = newVer
      /\ stale' = [k \in Keys |-> IF k \in ks THEN stale[k] \ Covered(k) ELSE stale[k]]
      /\ missed' = [k \in Keys |-> IF k \in ks THEN stale'[k] ELSE missed[k]]
      /\ lost' = [k \in Keys |-> IF k \in ks THEN (lost[k] \cup Dropped(k)) \ Covered(k)
                                 ELSE lost[k]]
      /\ prot' = prot \cup UNION {FramesOf(k) : k \in ks}
      /\ bits' = [k \in Keys |-> IF k \in ks THEN {} ELSE bits[k]]
      /\ UNCHANGED <<smVars, dsObject, owner, frame>>
  BY DEF AppendDeltas
<1>2. \A k \in ks : stale'[k] \subseteq {0} \cup lost'[k]
  <2> SUFFICES ASSUME NEW k \in ks PROVE stale'[k] \subseteq {0} \cup lost'[k]
    OBVIOUS
  <2>1. stale[k] \subseteq bits[k] \cup {0} \cup lost[k]
    BY DEF IInv, BitsInv
  <2>2. bits[k] \subseteq Covered(k) \cup Dropped(k)
    BY BitsAppended DEF IInv
  <2>3. stale'[k] = stale[k] \ Covered(k) /\ lost'[k] = (lost[k] \cup Dropped(k)) \ Covered(k)
    BY <1>1
  <2> QED BY <2>1, <2>2, <2>3
<1>3. \A k \in Keys : FramesOf(k)' = FramesOf(k)
  BY <1>1 DEF FramesOf
<1>4. TypeOK'
  <2>1. /\ bits' \in [Keys -> SUBSET Nat] /\ stale' \in [Keys -> SUBSET Nat]
        /\ \A k \in Keys : bits'[k] \subseteq PagesOf(k) /\ stale'[k] \subseteq PagesOf(k)
    BY <1>1 DEF IInv, TypeOK
  <2>2. missed' \in [Keys -> SUBSET Nat]
    BY <1>1, <2>1 DEF IInv, TypeOK
  <2>5. lost' \in [Keys -> SUBSET Nat]
    <3>1. \A k \in Keys : Dropped(k) \subseteq Nat
      BY PageFacts DEF Dropped, PagesOf
    <3> QED BY <1>1, <3>1 DEF IInv, TypeOK
  <2>3. prot' \subseteq Frames
    BY <1>1 DEF IInv, TypeOK, LayoutInv
  <2>4. used' \in 0..LogCap
    BY <1>1, DeltaAssumption DEF IInv, TypeOK
  <2> QED BY <1>1, <2>1, <2>2, <2>3, <2>4, <2>5, Zenon DEF IInv, TypeOK
<1>5. OwnerInv'
  BY <1>1 DEF IInv, OwnerInv, smVars
<1>6. LayoutInv'
  <2>1. \A f \in prot' : \E k \in Keys : f \in FramesOf(k)
    BY <1>1 DEF IInv, LayoutInv
  <2> QED BY <1>3, <2>1 DEF IInv, LayoutInv
<1>7. BitsInv'
  <2> SUFFICES ASSUME NEW k \in Keys
               PROVE  /\ stale'[k] \subseteq bits'[k] \cup {0} \cup lost'[k]
                      /\ frame[k] # NoFrame =>
                           \A i \in PagesOf(k) : frame[k] + i \in prot' \/ i \in bits'[k] \cup {0}
    BY <1>1, Zenon DEF BitsInv
  <2>1. CASE k \in ks
    <3>1. \A i \in PagesOf(k) : frame[k] + i \in FramesOf(k)
      BY <2>1 DEF FramesOf
    <3> QED BY <1>1, <1>2, <2>1, <3>1
  <2>2. CASE k \notin ks
    BY <1>1, <2>2 DEF IInv, BitsInv
  <2> QED BY <2>1, <2>2
<1>8. DeltasRebuildTail'
  BY <1>1, <1>2 DEF IInv, DeltasRebuildTail
<1> QED BY <1>4, <1>5, <1>6, <1>7, <1>8 DEF DeltaInv


LEMMA UseStep ==
  ASSUME IInv, SMTypeOK', NEW t \in Threads, Use(t)
  PROVE  DeltaInv'
<1>0. DeltaInv
  BY DEF IInv, DeltaInv
<1>1. CASE Ends
  BY <1>0, <1>1, EndsStep
<1>2. CASE PutAll(t)
  <2> DEFINE ks == {k \in Keys : Has(t, k)}
             newVer == [k \in Keys |-> IF k \in ks THEN ver[k] + 1 ELSE ver[k]]
  <2>1. AppendDeltas(ks, newVer) /\ \A k \in ks : ver[k] < MaxVer
    BY <1>2, Zenon DEF PutAll
  <2>2. newVer \in [Keys -> 0..MaxVer]
    BY <2>1, DeltaAssumption DEF IInv, TypeOK
  <2>3. ks \in SUBSET Keys /\ \A k \in ks : frame[k] # NoFrame
    BY OwnedObject
  <2> HIDE DEF ks, newVer
  <2> QED BY <2>1, <2>2, <2>3, AppendStep
<1>3. ASSUME NEW k \in Keys, CreateObj(t, k) PROVE DeltaInv'
  BY <1>3, CreateStep
<1>4. ASSUME NEW k \in Keys, NEW b \in Bytes(k), Write(t, k, b) \/ WriteFault(t, k, b)
      PROVE  DeltaInv'
  BY <1>4, WriteStep, WriteFaultStep
<1>5. ASSUME NEW k \in Keys, NEW v \in 0..MaxVer, Put(t, k, v) PROVE DeltaInv'
  <2> DEFINE newVer == [ver EXCEPT ![k] = v]
  <2>1. AppendDeltas({k}, newVer) /\ Has(t, k)
    BY <1>5, Zenon DEF Put
  <2>2. newVer \in [Keys -> 0..MaxVer]
    BY DeltaAssumption DEF IInv, TypeOK
  <2>3. {k} \in SUBSET Keys /\ \A l \in {k} : frame[l] # NoFrame
    BY <2>1, OwnedObject
  <2> HIDE DEF newVer
  <2> QED BY <2>1, <2>2, <2>3, AppendStep
<1>6. ASSUME NEW k \in Keys, NEW v \in 0..MaxVer, GetWithMalloc(t, k, v) PROVE DeltaInv'
  <2>1. CASE /\ ver' = [ver EXCEPT ![k] = v]
             /\ UNCHANGED <<smVars, dsObject, owner, frame, bits, prot, stale, used, missed, lost>>
    <3>1. ver' \in [Keys -> 0..MaxVer]
      BY <2>1, DeltaAssumption DEF IInv, TypeOK
    <3>2. TypeOK'
      BY <2>1, <3>1, Zenon DEF IInv, TypeOK
    <3>3. OwnerInv'
      BY <2>1 DEF IInv, OwnerInv, smVars
    <3>4. LayoutInv'
      <4>1. prot' = prot /\ \A l \in Keys : FramesOf(l)' = FramesOf(l)
        BY <2>1 DEF FramesOf
      <4> QED BY <4>1 DEF IInv, LayoutInv
    <3>5. BitsInv' /\ DeltasRebuildTail'
      BY <2>1 DEF IInv, BitsInv, DeltasRebuildTail
    <3> QED BY <3>2, <3>3, <3>4, <3>5 DEF DeltaInv
  <2> QED BY <1>1, <1>6, <2>1, Zenon DEF GetWithMalloc
<1>7. CASE PutNoSpace(t) \/ PutAllOverrun(t)
  BY <1>1, <1>7, Zenon DEF PutNoSpace, PutAllOverrun
<1>8. ASSUME NEW k \in Keys, CreateObjExists(t, k) \/ FreeObj(t, k) \/ PutOverrun(t, k)
      PROVE  DeltaInv'
  BY <1>1, <1>8 DEF CreateObjExists, FreeObj, PutOverrun
<1> QED BY <1>2, <1>3, <1>4, <1>5, <1>6, <1>7, <1>8, Zenon DEF Use

LEMMA DeltaStep == IInv /\ [Next]_vars => IInv'
<1> SUFFICES ASSUME IInv, [Next]_vars PROVE IInv'
  OBVIOUS
<1>1. SMInv' /\ SMTypeOK'
  BY GetInstanceSteps, TypeStep, InvStep DEF IInv, SMInv
<1>2. DeltaInv
  BY DEF IInv, DeltaInv
<1>3. ASSUME Ends PROVE DeltaInv'
  BY <1>1, <1>2, <1>3, EndsStep
<1>4. ASSUME UNCHANGED vars PROVE DeltaInv'
  <2>1. UNCHANGED <<built, deltaVars>>
    BY <1>4 DEF vars, smVars
  <2> QED BY <1>1, <1>2, <2>1, SameStep
<1>5. ASSUME NEW t \in Threads, GetInstance(t) PROVE DeltaInv'
  BY <1>1, <1>5, GetInstanceStepKeeps
<1>6. ASSUME NEW t \in Threads, Use(t) PROVE DeltaInv'
  BY <1>1, <1>6, UseStep
<1>7. DeltaInv'
  BY <1>3, <1>4, <1>5, <1>6, Zenon DEF Next
<1> QED BY <1>1, <1>7 DEF IInv, DeltaInv

-----------------------------------------------------------------------------
(* The theorems. *)

\* All objects belong to the one store, they share no page, a page that is neither
\* protected nor marked in the bitset is the first of its object, and a page that
\* the log does not rebuild is marked, the first one, or was put in a region past
\* the end of lehdr_t.deltas.
THEOREM DeltaInvariance == Spec => []IInv
<1>1. Init => IInv
  BY DeltaInit, InitInv DEF Init, DeltaInv, IInv
<1> QED BY <1>1, DeltaStep, PTL DEF Spec

\* The variables of the delta store keep their types: no bit past the last page
\* of an object, no protected page outside the address space.
THEOREM DeltaTypes == Spec => []TypeOK
<1>1. IInv => TypeOK
  BY DEF IInv
<1> QED BY <1>1, DeltaInvariance, PTL

\* delta_handler never hands a fault of the application to the old handler.
THEOREM FaultsAreOursSafety == Spec => []FaultsAreOurs
<1>1. IInv => FaultsAreOurs
  <2> SUFFICES ASSUME IInv, NEW f \in prot
               PROVE  \E k \in Keys : owner[k] = dsObject /\ f \in FramesOf(k)
    BY DEF FaultsAreOurs
  <2>1. PICK k \in Keys : f \in FramesOf(k)
    BY DEF IInv, LayoutInv
  <2>2. frame[k] # NoFrame
    BY <2>1 DEF FramesOf
  <2>3. owner[k] = dsObject
    BY <2>2 DEF IInv, OwnerInv
  <2> QED BY <2>1, <2>3
<1> QED BY <1>1, DeltaInvariance, PTL

LEMMA PageBytesFact ==
  ASSUME NEW k \in Keys, NEW i \in Nat
  PROVE  PageBytes(k, i) = {b \in Nat : Page(b) = i /\ b < Size[k]}
<1> DEFINE x == i * PageSize
           y == (i + 1) * PageSize
<1>1. i + 1 \in Nat /\ i < i + 1 /\ (i + 1) - 1 = i
  OBVIOUS
<1>2. x \in Nat /\ y \in Nat /\ \A b \in Nat : b \in x..(y - 1) <=> Page(b) \in i..((i + 1) - 1)
  BY <1>1, PageSpan
<1>3. \A b \in Nat : Page(b) \in Nat
  BY ByteFacts
<1> HIDE DEF x, y
<1>4. \A b : b \in x..(y - 1) <=> b \in Nat /\ Page(b) = i
  BY <1>1, <1>2, <1>3
<1>5. PageBytes(k, i) = {b \in x..(y - 1) : b < Size[k]}
  BY DEF PageBytes, x, y
<1> QED BY <1>4, <1>5

\* For every bitset, object size and page size, the chunks of get_delta_chunks
\* hold exactly the bytes of the modified pages, in order, and no two touch.
THEOREM ChunksExactSafety == Spec => []ChunksExact
<1>1. IInv => ChunksExact
  <2> SUFFICES ASSUME IInv, NEW k \in Keys
               PROVE  /\ AllBytes(GetDeltaChunks(k)) = UNION {PageBytes(k, i) : i \in bits[k]}
                      /\ \A m, n \in DOMAIN GetDeltaChunks(k) : m < n =>
                           GetDeltaChunks(k)[m].offset + GetDeltaChunks(k)[m].len
                             < GetDeltaChunks(k)[n].offset
    BY Zenon DEF ChunksExact, AllBytes
  <2>1. bits[k] \subseteq PagesOf(k) /\ bits[k] \subseteq Nat
    BY DEF IInv, TypeOK
  <2>2. /\ Ordered(GetDeltaChunks(k))
        /\ AllBytes(GetDeltaChunks(k)) = {b \in Nat : Page(b) \in bits[k] /\ b < Size[k]}
    BY <2>1, DeltaChunks
  <2>3. UNION {PageBytes(k, i) : i \in bits[k]}
          = {b \in Nat : Page(b) \in bits[k] /\ b < Size[k]}
    BY <2>1, PageBytesFact
  <2> QED BY <2>2, <2>3 DEF Ordered, EndOf
<1> QED BY <1>1, DeltaInvariance, PTL

\* However the objects lie in memory, whatever object the handler finds first and
\* however many regions a put has: the deltas on the log rebuild every page of an
\* object but its first and those last put in a region no header describes.
THEOREM DeltasRebuildTailSafety == Spec => []DeltasRebuildTail
<1>1. IInv => DeltasRebuildTail
  BY DEF IInv
<1> QED BY <1>1, DeltaInvariance, PTL

\* The threads of the delta store get it by steps of GetInstance only: what is
\* proved of GetInstance alone holds for them.
THEOREM DeltaUsesGetInstance == Spec => SMSpec
BY GetInstanceSteps, PTL DEF Spec, SMSpec, Init

\* Whatever the threads do with the store they got, GetInstance implements
\* OneInstance for them.
THEOREM DeltaOneInstance == Spec => ImplementsOneInstance
BY DeltaUsesGetInstance, Refinement, PTL
=============================================================================
