------------------------- MODULE Http2SettingsProofs -------------------------
(***************************************************************************)
(* SETTINGS and header compression, for every size of the tables and       *)
(* windows, every batch size and every number of entries, frames and       *)
(* header blocks.  What the loops over the entries of a frame compute is   *)
(* shown by induction over the number of turns.                            *)
(***************************************************************************)
EXTENDS Http2Settings, FiniteSetTheorems, TLAPS

-----------------------------------------------------------------------------
(* Induction, and the recursive functions that model loops *)

\* Induction over the naturals, for a property given as a set.
LEMMA SetInduction ==
  ASSUME NEW S, 0 \in S, \A n \in Nat : n \in S => n + 1 \in S
  PROVE  \A n \in Nat : n \in S
  <1> DEFINE R == OpToRel(<, Nat)
             T == {n \in Nat : n \notin S}
  <1>1. SUFFICES ASSUME T # {} PROVE FALSE
    OBVIOUS
  <1>2. \E x \in T : \A y \in T : ~ (<<y, x>> \in R)
    <2>1. IsWellFoundedOn(R, Nat)
      BY NatLessThanWellFounded
    <2> HIDE DEF R
    <2> QED
      BY <1>1, <2>1, WFMin
  <1>3. PICK x \in T : \A y \in T : ~ (<<y, x>> \in R)
    BY <1>2
  <1>4. \A y \in T : ~ (y < x)
    BY <1>3 DEF OpToRel
  <1> HIDE DEF R
  <1>5. x # 0 /\ x - 1 \in Nat /\ x - 1 < x
    OBVIOUS
  <1> QED
    BY <1>4, <1>5

\* f holds the states before each turn of a loop of n turns and after the last:
\* it begins with a, and each turn applies h.
IsLoop(f, n, T, a, h) ==
  /\ f \in [1 .. n + 1 -> T]
  /\ f[1] = a
  /\ \A i \in 1 .. n : f[i + 1] = h[<<f[i], i>>]

\* Every loop whose turns stay in a set T of states has such an f.
LEMMA LoopExists ==
  ASSUME NEW n \in Nat, NEW T, NEW a \in T, NEW h \in [T \X (1 .. n) -> T]
  PROVE  \E f : IsLoop(f, n, T, a, h)
  <1> DEFINE S == {k \in Nat : k <= n => \E f : IsLoop(f, k, T, a, h)}
  <1>1. 0 \in S
    <2>1. IsLoop([i \in 1 .. 0 + 1 |-> a], 0, T, a, h)
      BY DEF IsLoop
    <2> QED
      BY <2>1
  <1>2. \A k \in Nat : k \in S => k + 1 \in S
    <2> SUFFICES ASSUME NEW k \in Nat, k \in S, k + 1 <= n
                 PROVE  \E f : IsLoop(f, k + 1, T, a, h)
      OBVIOUS
    <2>1. PICK f : IsLoop(f, k, T, a, h)
      OBVIOUS
    <2> DEFINE m == k + 1
               g == [i \in 1 .. m + 1 |-> IF i <= m THEN f[i] ELSE h[<<f[m], m>>]]
    <2>2. m \in 1 .. n /\ f \in [1 .. m -> T] /\ h[<<f[m], m>>] \in T
      BY <2>1 DEF IsLoop
    <2>3. g \in [1 .. m + 1 -> T] /\ g[1] = a
      BY <2>1, <2>2 DEF IsLoop
    <2>4. ASSUME NEW i \in 1 .. k PROVE g[i + 1] = h[<<g[i], i>>]
      BY <2>1 DEF IsLoop
    <2>5. g[m + 1] = h[<<g[m], m>>]
      <3>1. m + 1 \in 1 .. m + 1 /\ ~(m + 1 <= m) /\ m \in 1 .. m + 1 /\ m <= m
        OBVIOUS
      <3> HIDE DEF m
      <3> QED
        BY <3>1, Zenon
    <2>6. ASSUME NEW i \in 1 .. m, i \notin 1 .. k PROVE i = m
      BY <2>6
    <2> HIDE DEF g
    <2>7. \A i \in 1 .. m : g[i + 1] = h[<<g[i], i>>]
      BY <2>4, <2>5, <2>6
    <2> QED
      BY <2>3, <2>7 DEF IsLoop
  <1> HIDE DEF S
  <1>3. n \in S
    BY <1>1, <1>2, SetInduction
  <1> QED
    BY <1>3 DEF S

\* The loop of Working.
LEMMA FilterLoop ==
  ASSUME NEW size \in 0 .. MaxTable, NEW es \in Seq(Entries)
  PROVE  LET f == Filter(size, es)
         IN /\ f[1] = [size |-> size, kept |-> << >>]
            /\ \A i \in 1 .. Len(es) : f[i + 1] = Keep(f[i], es[i])
  <1> DEFINE n == Len(es)
             T == [size : 0 .. MaxTable, kept : Seq(Known)]
             a == [size |-> size, kept |-> << >>]
             h == [p \in T \X (1 .. n) |-> Keep(p[1], es[p[2]])]
  <1>1. n \in Nat /\ a \in T
    OBVIOUS
  <1>2. \A c \in T, i \in 1 .. n : Keep(c, es[i]) \in T
    <2> SUFFICES ASSUME NEW c \in T, NEW i \in 1 .. n PROVE Keep(c, es[i]) \in T
      OBVIOUS
    <2>1. es[i] \in Entries
      OBVIOUS
    <2>2. CASE es[i].id = "unknown"
      BY <2>2 DEF Keep
    <2>3. CASE es[i].id # "unknown"
      <3>1. es[i] \in Known
        BY <2>1, <2>3 DEF Known
      <3>2. Append(c.kept, es[i]) \in Seq(Known)
        BY <3>1
      <3>3. es[i].id = "table" => es[i].value \in 0 .. MaxTable
        BY <2>1 DEF Entries
      <3> QED
        BY <3>2, <3>3 DEF Keep
    <2> QED
      BY <2>2, <2>3
  <1>3. h \in [T \X (1 .. n) -> T]
    <2> HIDE DEF T, n
    <2> QED
      BY <1>2
  <1> HIDE DEF T, n, a, h
  <1>4. PICK f : IsLoop(f, n, T, a, h)
    BY <1>1, <1>3, LoopExists
  <1>5. f = [i \in 1 .. n + 1 |-> IF i = 1 THEN a ELSE Keep(f[i - 1], es[i - 1])]
    <2>1. ASSUME NEW i \in 1 .. n + 1, i # 1
          PROVE  f[i] = Keep(f[i - 1], es[i - 1])
      <3>1. i - 1 \in 1 .. n /\ i - 1 \in 1 .. n + 1 /\ (i - 1) + 1 = i
        BY <2>1, <1>1
      <3>2. f[i - 1] \in T /\ f[(i - 1) + 1] = h[<<f[i - 1], i - 1>>]
        BY <1>4, <3>1, Zenon DEF IsLoop
      <3> QED
        BY <3>1, <3>2 DEF h
    <2>2. f \in [1 .. n + 1 -> T] /\ f[1] = a
      BY <1>4 DEF IsLoop
    <2> QED
      BY <2>1, <2>2
  <1>6. Filter(size, es) = [i \in 1 .. n + 1 |-> IF i = 1 THEN a ELSE Keep(Filter(size, es)[i - 1], es[i - 1])]
    BY <1>5, Zenon DEF Filter, n, a
  <1> DEFINE F == Filter(size, es)
  <1>7. F = [i \in 1 .. n + 1 |-> IF i = 1 THEN a ELSE Keep(F[i - 1], es[i - 1])]
    BY <1>6
  <1> HIDE DEF F, a, n
  <1>8. F[1] = a /\ \A i \in 1 .. n : F[i + 1] = Keep(F[i], es[i])
    <2>1. ASSUME NEW i \in 1 .. n PROVE F[i + 1] = Keep(F[i], es[i])
      <3>1. i + 1 \in 1 .. n + 1 /\ i + 1 # 1 /\ (i + 1) - 1 = i
        BY <1>1
      <3> QED
        BY <1>7, <3>1, Zenon
    <2>2. 1 \in 1 .. n + 1
      BY <1>1
    <2> QED
      BY <1>7, <2>1, <2>2, Zenon
  <1> QED
    BY <1>8 DEF F, a, n

-----------------------------------------------------------------------------
(* The largest and the smallest of a set *)

\* A set of positions has a last one.
LEMMA MaxOf ==
  ASSUME NEW n \in Nat, NEW S \in SUBSET (1 .. n), S # {}
  PROVE  Max(S) \in S /\ \A y \in S : y <= Max(S)
  <1> DEFINE P == {k \in Nat : \A R \in SUBSET (1 .. k) :
                     R # {} => \E x \in R : \A y \in R : x >= y}
  <1>1. 0 \in P
    <2>1. 1 .. 0 = {}
      OBVIOUS
    <2> QED
      BY <2>1
  <1>2. \A k \in Nat : k \in P => k + 1 \in P
    <2> SUFFICES ASSUME NEW k \in Nat, k \in P,
                        NEW R \in SUBSET (1 .. k + 1), R # {}
                 PROVE  \E x \in R : \A y \in R : x >= y
      OBVIOUS
    <2>1. CASE k + 1 \in R
      BY <2>1
    <2>2. CASE k + 1 \notin R
      <3>1. R \in SUBSET (1 .. k)
        BY <2>2
      <3> QED
        BY <3>1
    <2> QED
      BY <2>1, <2>2
  <1> HIDE DEF P
  <1>3. n \in P
    BY <1>1, <1>2, SetInduction
  <1>4. \E x \in S : \A y \in S : x >= y
    BY <1>3 DEF P
  <1>5. Max(S) \in S /\ \A y \in S : Max(S) >= y
    BY <1>4, Zenon DEF Max
  <1> QED
    BY <1>5

\* A set of sizes has a smallest one.
LEMMA MinOf ==
  ASSUME NEW S \in SUBSET Nat, S # {}
  PROVE  Min(S) \in S /\ \A y \in S : Min(S) <= y
  <1> DEFINE P == {k \in Nat : k \in S => \E x \in S : \A y \in S : x <= y}
             Q == {k \in Nat : \A m \in 0 .. k : m \in P}
  <1>1. 0 \in Q
    OBVIOUS
  <1>2. \A k \in Nat : k \in Q => k + 1 \in Q
    <2> SUFFICES ASSUME NEW k \in Nat, k \in Q, k + 1 \in S
                 PROVE  \E x \in S : \A y \in S : x <= y
      OBVIOUS
    <2>1. CASE \E m \in 0 .. k : m \in S
      BY <2>1
    <2>2. CASE \A m \in 0 .. k : m \notin S
      BY <2>2
    <2> QED
      BY <2>1, <2>2
  <1>3. \A k \in Nat : k \in Q
    <2> HIDE DEF Q
    <2> QED
      BY <1>1, <1>2, SetInduction
  <1>4. \E x \in S : \A y \in S : x <= y
    <2>1. PICK k \in S : k \in Nat
      OBVIOUS
    <2>2. k \in Q /\ k \in 0 .. k
      BY <1>3, <2>1
    <2> QED
      BY <2>1, <2>2, Zenon
  <1> QED
    BY <1>4, Zenon DEF Min

-----------------------------------------------------------------------------
(* The entries of a frame *)

\* The value in force after some entries is that of the last with the identifier.
LEMMA LatestAt ==
  ASSUME NEW E, NEW es \in Seq(E), NEW id, NEW old,
         NEW p \in Positions(es, id), \A q \in Positions(es, id) : q <= p
  PROVE  Latest(es, id, old) = es[p].value
  <1> DEFINE P == Positions(es, id)
  <1>1. Len(es) \in Nat /\ P \in SUBSET (1 .. Len(es)) /\ P # {}
    BY DEF Positions
  <1> HIDE DEF P
  <1>2. Max(P) \in P /\ p <= Max(P)
    BY <1>1, MaxOf DEF P
  <1>3. Max(P) <= p /\ p \in P
    BY <1>2 DEF P
  <1>4. Max(P) = p
    <2>1. 1 .. Len(es) \subseteq Int
      BY <1>1
    <2>2. Max(P) \in Int /\ p \in Int
      BY <1>1, <1>2, <1>3, <2>1, Zenon
    <2> QED
      BY <1>2, <1>3, <2>2
  <1> QED
    BY <1>4, Zenon DEF Latest, P

\* There is such an entry, or the value has not changed.
LEMMA LatestCases ==
  ASSUME NEW E, NEW es \in Seq(E), NEW id, NEW old
  PROVE  \/ Positions(es, id) = {} /\ Latest(es, id, old) = old
         \/ \E p \in Positions(es, id) :
              /\ Latest(es, id, old) = es[p].value
              /\ \A q \in Positions(es, id) : q <= p
  <1> DEFINE P == Positions(es, id)
  <1>1. Len(es) \in Nat /\ P \in SUBSET (1 .. Len(es))
    BY DEF Positions
  <1> HIDE DEF P
  <1>2. CASE P = {}
    BY <1>2, Zenon DEF Latest, P
  <1>3. CASE P # {}
    <2>1. Max(P) \in P /\ \A q \in P : q <= Max(P)
      BY <1>1, <1>3, MaxOf
    <2> QED
      BY <1>3, <2>1, Zenon DEF Latest, P
  <1> QED
    BY <1>2, <1>3

\* The value in force is the old one or one of the values.
LEMMA LatestIn ==
  ASSUME NEW E, NEW es \in Seq(E), NEW id, NEW old
  PROVE  Latest(es, id, old) \in {old} \cup Values(es, id)
  BY LatestCases DEF Values

\* Before any entry.
LEMMA NoEntries ==
  ASSUME NEW id, NEW old
  PROVE  /\ Positions(<< >>, id) = {} /\ Values(<< >>, id) = {}
         /\ Latest(<< >>, id, old) = old /\ Count(<< >>, id) = 0
  <1>1. Positions(<< >>, id) = {}
    BY DEF Positions
  <1> QED
    BY <1>1, FS_EmptySet DEF Values, Latest, Count

\* What one entry more changes.
Adds(a, es, e, id) ==
  /\ Values(a, id) = Values(es, id) \cup (IF e.id = id THEN {e.value} ELSE {})
  /\ \A old : Latest(a, id, old) = IF e.id = id THEN e.value ELSE Latest(es, id, old)
  /\ Count(a, id) = Count(es, id) + (IF e.id = id THEN 1 ELSE 0)

\* Appending an entry changes that and no more.
LEMMA OneMore ==
  ASSUME NEW E, NEW es \in Seq(E), NEW e \in E, NEW id
  PROVE  Adds(Append(es, e), es, e, id)
  <1> DEFINE n == Len(es)
             a == Append(es, e)
             P == Positions(es, id)
             Q == Positions(a, id)
  <1>1. /\ n \in Nat /\ a \in Seq(E) /\ DOMAIN a = 1 .. n + 1 /\ DOMAIN es = 1 .. n
        /\ a[n + 1] = e
    OBVIOUS
  <1>2. \A i \in 1 .. n : a[i] = es[i]
    OBVIOUS
  <1> HIDE DEF n, a
  <1>3. Q = P \cup (IF e.id = id THEN {n + 1} ELSE {})
    BY <1>1, <1>2, SMTT(20) DEF Positions
  <1>4. P \subseteq 1 .. n
    BY <1>1, Zenon DEF Positions
  <1>5. Values(a, id) = Values(es, id) \cup (IF e.id = id THEN {e.value} ELSE {})
    <2>1. CASE e.id = id
      <3>1. Q = P \cup {n + 1}
        BY <1>3, <2>1, Zenon
      <3> HIDE DEF P, Q
      <3>2. \A v : v \in {a[i].value : i \in Q} <=> v \in {es[i].value : i \in P} \cup {e.value}
        BY <1>1, <1>2, <1>4, <3>1, Zenon
      <3> QED
        BY <2>1, <3>2, Zenon DEF Values, P, Q
    <2>2. CASE e.id # id
      <3>1. Q = P
        BY <1>3, <2>2, Zenon
      <3> HIDE DEF P, Q
      <3>2. \A v : v \in {a[i].value : i \in Q} <=> v \in {es[i].value : i \in P}
        BY <1>2, <1>4, <3>1, Zenon
      <3> QED
        BY <2>2, <3>2, Zenon DEF Values, P, Q
    <2> QED
      BY <2>1, <2>2
  <1>6. ASSUME NEW old
        PROVE  Latest(a, id, old) = IF e.id = id THEN e.value ELSE Latest(es, id, old)
    <2>1. CASE e.id = id
      <3>1. n + 1 \in Q /\ \A q \in Q : q <= n + 1
        <4> HIDE DEF P, Q
        <4> QED
          BY <1>1, <1>3, <1>4, <2>1
      <3> QED
        BY <1>1, <2>1, <3>1, LatestAt, Zenon
    <2>2. CASE e.id # id
      <3>1. Q = P
        BY <1>3, <2>2, Zenon
      <3>2. CASE P = {}
        BY <2>2, <3>1, <3>2, Zenon DEF Latest
      <3>3. CASE P # {}
        <4>1. Max(P) \in P
          <5> HIDE DEF P
          <5> QED
            BY <1>1, <1>4, <3>3, MaxOf
        <4>2. a[Max(P)] = es[Max(P)]
          BY <1>2, <1>4, <4>1, Zenon
        <4> QED
          BY <2>2, <3>1, <3>3, <4>2, Zenon DEF Latest
      <3> QED
        BY <3>2, <3>3
    <2> QED
      BY <2>1, <2>2
  <1>7. IsFiniteSet(P) /\ Cardinality(P) \in Nat
    <2>1. IsFiniteSet(1 .. n)
      BY <1>1, FS_Interval
    <2> QED
      BY <1>4, <2>1, FS_Subset, FS_CardinalityType
  <1>8. Count(a, id) = Count(es, id) + (IF e.id = id THEN 1 ELSE 0)
    <2> HIDE DEF P, Q
    <2>1. CASE e.id = id
      <3>1. Q = P \cup {n + 1} /\ n + 1 \notin P
        BY <1>1, <1>3, <1>4, <2>1
      <3>2. Cardinality(Q) = Cardinality(P) + 1
        BY <1>7, <3>1, FS_AddElement
      <3> QED
        BY <2>1, <3>2, Zenon DEF Count, P, Q
    <2>2. CASE e.id # id
      <3>1. Cardinality(Q) = Cardinality(P) + 0
        BY <1>3, <1>7, <2>2
      <3> QED
        BY <2>2, <3>1, Zenon DEF Count, P, Q
    <2> QED
      BY <2>1, <2>2
  <1> QED
    BY <1>5, <1>6, <1>8, Zenon DEF Adds, a

\* The first entries of a frame, one more with each turn of a loop.
LEMMA Prefix ==
  ASSUME NEW E, NEW es \in Seq(E), NEW i \in 1 .. Len(es)
  PROVE  /\ SubSeq(es, 1, i - 1) \in Seq(E) /\ es[i] \in E
         /\ SubSeq(es, 1, i) = Append(SubSeq(es, 1, i - 1), es[i])
  <1>1. SubSeq(es, 1, i - 1) \in Seq(E) /\ Len(SubSeq(es, 1, i - 1)) = i - 1
    OBVIOUS
  <1>2. es[i] \in E
    OBVIOUS
  <1>3. SubSeq(es, 1, i) = Append(SubSeq(es, 1, i - 1), es[i])
    OBVIOUS
  <1> QED
    BY <1>1, <1>2, <1>3

\* None of them, and all of them.
LEMMA PrefixEnds ==
  ASSUME NEW E, NEW es \in Seq(E)
  PROVE  SubSeq(es, 1, 0) = << >> /\ SubSeq(es, 1, Len(es)) = es
  OBVIOUS

\* Table sizes without a repetition stay so with one that is not in force.
LEMMA NoneRepeatedMore ==
  ASSUME NEW E, NEW es \in Seq(E), NEW e \in E, NEW size, NoneRepeated(es, size),
         e.id = "table" => e.value # Latest(es, "table", size)
  PROVE  NoneRepeated(Append(es, e), size)
  <1> DEFINE a == Append(es, e)
  <1> SUFFICES ASSUME NEW i \in Positions(a, "table")
               PROVE  a[i].value # Latest(SubSeq(a, 1, i - 1), "table", size)
    BY DEF NoneRepeated
  <1>1. i \in DOMAIN a /\ a[i].id = "table"
    BY DEF Positions
  <1>2. CASE i \in 1 .. Len(es)
    <2>1. a[i] = es[i] /\ SubSeq(a, 1, i - 1) = SubSeq(es, 1, i - 1)
      BY <1>2
    <2>2. i \in Positions(es, "table")
      BY <1>1, <1>2, <2>1 DEF Positions
    <2> QED
      BY <2>1, <2>2, Zenon DEF NoneRepeated
  <1>3. CASE i = Len(es) + 1
    <2>1. a[i] = e /\ SubSeq(a, 1, i - 1) = es
      BY <1>3
    <2> QED
      BY <1>1, <2>1, Zenon
  <1>4. i \in 1 .. Len(es) \/ i = Len(es) + 1
    BY <1>1
  <1> QED
    BY <1>2, <1>3, <1>4

\* The number of entries with an identifier.
LEMMA CountType ==
  ASSUME NEW E, NEW es \in Seq(E), NEW id
  PROVE  Count(es, id) \in Nat /\ IsFiniteSet(Positions(es, id))
  <1>1. Positions(es, id) \subseteq 1 .. Len(es) /\ Len(es) \in Nat
    BY DEF Positions
  <1>2. IsFiniteSet(1 .. Len(es))
    BY <1>1, FS_Interval
  <1> QED
    BY <1>1, <1>2, FS_Subset, FS_CardinalityType DEF Count

-----------------------------------------------------------------------------
(* What the loop of apply_settings keeps *)

\* The entries in "kept" have the effect of es on a table of a given size.
Follows(kept, es, size) ==
  /\ Latest(kept, "table", size) = Latest(es, "table", size)
  /\ \A w : Latest(kept, "window", w) = Latest(es, "window", w)
  /\ Values(kept, "window") = Values(es, "window")
  /\ Values(es, "table") \subseteq {size} \cup Values(kept, "table")
  /\ Count(kept, "table") <= Count(es, "table")
  /\ NoneRepeated(kept, size)

\* A known entry is a table size or a window size.
LEMMA EntryType ==
  ASSUME NEW e \in Entries
  PROVE  /\ e.id \in {"table", "window", "unknown"}
         /\ e.id = "table" => e.value \in 0 .. MaxTable
         /\ e.id = "window" => e.value \in 0 .. MaxWindow
         /\ e.id # "unknown" => e \in Known
  BY DEF Entries, Known

\* The entries of supported identifiers are entries.
LEMMA KnownType ==
  ASSUME NEW kept \in Seq(Known)
  PROVE  kept \in Seq(Entries)
  BY DEF Known

\* The state of the loop after the entries es.
Filtered(acc, es, size) ==
  /\ acc \in [size : 0 .. MaxTable, kept : Seq(Known)]
  /\ acc.size = Latest(acc.kept, "table", size)
  /\ Follows(acc.kept, es, size)

\* One turn of the loop.
LEMMA KeepFollows ==
  ASSUME NEW size \in 0 .. MaxTable, NEW es \in Seq(Entries), NEW e \in Entries,
         NEW acc, Filtered(acc, es, size)
  PROVE  Filtered(Keep(acc, e), Append(es, e), size)
  <1> DEFINE kept == acc.kept
             more == Append(kept, e)
             all == Append(es, e)
  <1>0. /\ acc \in [size : 0 .. MaxTable, kept : Seq(Known)]
        /\ acc.size = Latest(acc.kept, "table", size) /\ Follows(acc.kept, es, size)
    BY Zenon DEF Filtered
  <1>1. kept \in Seq(Known) /\ kept \in Seq(Entries) /\ acc.size \in 0 .. MaxTable
    BY <1>0, KnownType
  <1>2. /\ Count(kept, "table") \in Nat /\ Count(es, "table") \in Nat
        /\ Count(kept, "table") <= Count(es, "table")
    BY <1>0, <1>1, CountType DEF Follows
  <1> HIDE DEF kept
  <1>3. Adds(all, es, e, "table") /\ Adds(all, es, e, "window")
    BY OneMore
  <1>4. Adds(more, kept, e, "table") /\ Adds(more, kept, e, "window")
    BY <1>1, OneMore
  <1>7. acc.size \in {size} \cup Values(kept, "table")
    BY <1>0, <1>1, LatestIn DEF kept
  <1>8. Follows(kept, es, size) /\ acc.size = Latest(kept, "table", size)
    BY <1>0 DEF kept
  <1>9. "table" # "window" /\ "table" # "unknown" /\ "window" # "unknown"
    OBVIOUS
  <1> HIDE DEF more, all
  <1>10. CASE e.id = "unknown" \/ (e.id = "table" /\ e.value = acc.size)
    <2>1. Keep(acc, e) = acc
      BY <1>10, Zenon DEF Keep
    <2>2. CASE e.id = "unknown"
      <3>1. Count(all, "table") = Count(es, "table") + 0
        BY <1>3, <1>9, <2>2, Zenon DEF Adds
      <3>2. Count(kept, "table") <= Count(all, "table")
        BY <1>2, <3>1
      <3>3. /\ Latest(all, "table", size) = Latest(es, "table", size)
            /\ \A w : Latest(all, "window", w) = Latest(es, "window", w)
            /\ Values(all, "table") = Values(es, "table")
            /\ Values(all, "window") = Values(es, "window")
        BY <1>3, <1>9, <2>2, Zenon DEF Adds
      <3>4. Follows(kept, all, size)
        BY <1>8, <3>2, <3>3, Zenon DEF Follows
      <3> QED
        BY <1>0, <1>8, <2>1, <3>4, Zenon DEF kept, all, Filtered
    <2>3. CASE e.id = "table" /\ e.value = acc.size
      <3>1. Count(all, "table") = Count(es, "table") + 1
        BY <1>3, <2>3, Zenon DEF Adds
      <3>2. Count(kept, "table") <= Count(all, "table")
        BY <1>2, <3>1
      <3>3. /\ Latest(all, "table", size) = acc.size
            /\ \A w : Latest(all, "window", w) = Latest(es, "window", w)
            /\ Values(all, "table") = Values(es, "table") \cup {acc.size}
            /\ Values(all, "window") = Values(es, "window")
        BY <1>3, <1>9, <2>3, Zenon DEF Adds
      <3>4. Values(all, "table") \subseteq {size} \cup Values(kept, "table")
        BY <1>7, <1>8, <3>3, Zenon DEF Follows
      <3>5. Follows(kept, all, size)
        BY <1>8, <3>2, <3>3, <3>4, Zenon DEF Follows
      <3> QED
        BY <1>0, <1>8, <2>1, <3>5, Zenon DEF kept, all, Filtered
    <2> QED
      BY <1>10, <2>2, <2>3
  <1>11. CASE ~(e.id = "unknown" \/ (e.id = "table" /\ e.value = acc.size))
    <2> DEFINE next == [size |-> IF e.id = "table" THEN e.value ELSE acc.size, kept |-> more]
    <2>1. Keep(acc, e) = next
      BY <1>11, Zenon DEF Keep, kept, more
    <2>2. more \in Seq(Known)
      <3>1. e \in Known
        BY <1>11, EntryType
      <3> QED
        BY <1>1, <3>1 DEF more
    <2>3. next \in [size : 0 .. MaxTable, kept : Seq(Known)]
      <3>1. (IF e.id = "table" THEN e.value ELSE acc.size) \in 0 .. MaxTable
        BY <1>1, EntryType
      <3> QED
        BY <2>2, <3>1
    <2>4. next.size = Latest(next.kept, "table", size)
      BY <1>4, <1>8, Zenon DEF Adds
    <2>5. NoneRepeated(more, size)
      BY <1>1, <1>8, <1>11, NoneRepeatedMore, Zenon DEF Follows, more
    <2>6. Count(more, "table") <= Count(all, "table")
      <3>1. (IF e.id = "table" THEN 1 ELSE 0) \in Nat
        OBVIOUS
      <3> HIDE DEF next
      <3> QED
        BY <1>2, <1>3, <1>4, <3>1 DEF Adds
    <2>7. Latest(more, "table", size) = Latest(all, "table", size)
      BY <1>3, <1>4, <1>8, Zenon DEF Adds, Follows
    <2>8. \A w : Latest(more, "window", w) = Latest(all, "window", w)
      BY <1>3, <1>4, <1>8, Zenon DEF Adds, Follows
    <2>9. /\ Values(more, "window") = Values(all, "window")
          /\ Values(all, "table") \subseteq {size} \cup Values(more, "table")
      BY <1>3, <1>4, <1>8, Zenon DEF Adds, Follows
    <2>10. Follows(more, all, size)
      BY <2>5, <2>6, <2>7, <2>8, <2>9, Zenon DEF Follows
    <2>11. next.kept = more
      OBVIOUS
    <2> HIDE DEF next
    <2> QED
      BY <2>1, <2>3, <2>4, <2>10, <2>11, Zenon DEF all, Filtered
  <1> QED
    BY <1>10, <1>11

\* The entries to apply have the effect of the frame.
LEMMA WorkingFollows ==
  ASSUME NEW es \in Seq(Entries), table \in 0 .. MaxTable
  PROVE  Working(es) \in Seq(Known) /\ Follows(Working(es), es, table)
  <1> DEFINE n == Len(es)
             f == Filter(table, es)
             Good(i) == Filtered(f[i + 1], SubSeq(es, 1, i), table)
             S == {i \in Nat : i <= n => Good(i)}
  <1>1. n \in Nat /\ SubSeq(es, 1, 0) = << >> /\ SubSeq(es, 1, n) = es
    BY PrefixEnds
  <1>2. f[1] = [size |-> table, kept |-> << >>] /\ \A i \in 1 .. n : f[i + 1] = Keep(f[i], es[i])
    BY FilterLoop, Zenon
  <1> HIDE DEF n, f
  <1>3. Good(0)
    <2>1. f[0 + 1] = [size |-> table, kept |-> << >>]
      BY <1>2
    <2>2. /\ f[0 + 1] \in [size : 0 .. MaxTable, kept : Seq(Known)]
          /\ f[0 + 1].size = table /\ f[0 + 1].kept = << >>
      BY <2>1
    <2>3. Positions(<< >>, "table") = {} /\ Count(<< >>, "table") <= Count(<< >>, "table")
      <3>1. Count(<< >>, "table") = 0
        BY NoEntries
      <3>2. 0 <= 0
        OBVIOUS
      <3> QED
        BY <3>1, <3>2, NoEntries, Zenon
    <2>4. Latest(<< >>, "table", table) = table /\ Values(<< >>, "table") = {}
      BY NoEntries
    <2>5. Follows(<< >>, << >>, table)
      BY <2>3, <2>4, Zenon DEF Follows, NoneRepeated
    <2> QED
      BY <1>1, <2>2, <2>4, <2>5, Zenon DEF Filtered
  <1>4. ASSUME NEW i \in Nat, i + 1 <= n, Good(i) PROVE Good(i + 1)
    <2> DEFINE k == i + 1
    <2>1. k \in 1 .. n /\ k - 1 = i /\ k \in 1 .. Len(es)
      BY <1>1, <1>4 DEF n
    <2>2. f[k + 1] = Keep(f[k], es[k])
      BY <1>2, <2>1, Zenon
    <2>3. /\ SubSeq(es, 1, i) \in Seq(Entries) /\ es[k] \in Entries
          /\ SubSeq(es, 1, k) = Append(SubSeq(es, 1, i), es[k])
      <3>1. /\ SubSeq(es, 1, k - 1) \in Seq(Entries) /\ es[k] \in Entries
            /\ SubSeq(es, 1, k) = Append(SubSeq(es, 1, k - 1), es[k])
        BY <2>1, Prefix, Zenon
      <3> QED
        BY <2>1, <3>1, Zenon
    <2>4. Filtered(f[k], SubSeq(es, 1, i), table)
      BY <1>4
    <2> HIDE DEF k
    <2>5. Filtered(Keep(f[k], es[k]), SubSeq(es, 1, k), table)
      BY <2>3, <2>4, KeepFollows, Zenon
    <2> QED
      BY <2>2, <2>5, Zenon DEF k
  <1> HIDE DEF Good
  <1>5. 0 \in S
    BY <1>3
  <1>6. \A i \in Nat : i \in S => i + 1 \in S
    BY <1>1, <1>4
  <1> HIDE DEF S
  <1>7. n \in S
    BY <1>1, <1>5, <1>6, SetInduction
  <1>8. Good(n)
    BY <1>1, <1>7 DEF S
  <1> QED
    BY <1>1, <1>8 DEF Good, Filtered, Working, n, f

-----------------------------------------------------------------------------
(* The dynamic table, and the size changes of the encoder *)

\* The smaller of two sizes.
LEMMA MinOfTwo ==
  ASSUME NEW a \in Nat, NEW b \in Nat
  PROVE  Min({a, b}) = IF a <= b THEN a ELSE b
  <1> DEFINE S == {a, b}
  <1>1. S \in SUBSET Nat /\ S # {}
    OBVIOUS
  <1> HIDE DEF S
  <1>2. Min(S) \in S /\ \A y \in S : Min(S) <= y
    BY <1>1, MinOf
  <1> QED
    BY <1>2 DEF S

\* The smallest size with one more.
LEMMA MinMore ==
  ASSUME NEW S \in SUBSET Nat, S # {}, NEW x \in Nat
  PROVE  Min(S \cup {x}) = IF x <= Min(S) THEN x ELSE Min(S)
  <1> DEFINE T == S \cup {x}
  <1>1. T \in SUBSET Nat /\ T # {}
    OBVIOUS
  <1>2. Min(S) \in S /\ \A y \in S : Min(S) <= y
    BY MinOf
  <1>3. Min(T) \in T /\ \A y \in T : Min(T) <= y
    <2> HIDE DEF T
    <2> QED
      BY <1>1, MinOf
  <1>4. Min(T) \in Nat /\ Min(S) \in Nat /\ Min(T) <= Min(S) /\ Min(T) <= x
    BY <1>1, <1>2, <1>3
  <1>5. Min(T) = x \/ Min(S) <= Min(T)
    BY <1>2, <1>3
  <1> HIDE DEF T
  <1>6. Min(T) = IF x <= Min(S) THEN x ELSE Min(S)
    BY <1>4, <1>5
  <1> QED
    BY <1>6 DEF T

\* The smallest of one.
LEMMA MinOfOne ==
  ASSUME NEW x \in Nat
  PROVE  Min({x}) = x
  BY MinOf

\* Eviction keeps the newest entries, as many as fit.
LEMMA EvictIs ==
  ASSUME NEW es \in Seq(Nat), NEW size \in Nat
  PROVE  /\ size <= Len(es) => Evict(es, size) = SubSeq(es, 1, size)
         /\ Len(es) <= size => Evict(es, size) = es
         /\ Evict(es, size) \in Seq(Nat) /\ Len(Evict(es, size)) \in Nat
         /\ Len(Evict(es, size)) <= size
  <1>1. Len(es) \in Nat
    OBVIOUS
  <1>2. SubSeq(es, 1, Len(es)) = es
    OBVIOUS
  <1>3. Min({size, Len(es)}) = IF size <= Len(es) THEN size ELSE Len(es)
    BY <1>1, MinOfTwo
  <1>4. CASE size <= Len(es)
    <2>1. Evict(es, size) = SubSeq(es, 1, size)
      BY <1>3, <1>4, Zenon DEF Evict
    <2>2. SubSeq(es, 1, size) \in Seq(Nat) /\ Len(SubSeq(es, 1, size)) = size
      BY <1>4
    <2>3. Len(es) <= size => size = Len(es)
      BY <1>1, <1>4
    <2>4. size <= size
      OBVIOUS
    <2> QED
      BY <1>2, <1>4, <2>1, <2>2, <2>3, <2>4, Zenon
  <1>5. CASE ~(size <= Len(es))
    <2>1. Evict(es, size) = es
      BY <1>2, <1>3, <1>5, Zenon DEF Evict
    <2>2. Len(es) <= size
      BY <1>1, <1>5
    <2> QED
      BY <1>1, <1>5, <2>1, <2>2, Zenon
  <1> QED
    BY <1>4, <1>5

\* Two evictions are one to the smaller size.
LEMMA EvictTwice ==
  ASSUME NEW es \in Seq(Nat), NEW a \in Nat, NEW b \in Nat
  PROVE  Evict(Evict(es, a), b) = Evict(es, IF b <= a THEN b ELSE a)
  <1> DEFINE fst == Evict(es, a)
  <1>1. fst \in Seq(Nat) /\ Len(fst) <= a /\ Len(fst) \in Nat
    BY EvictIs, Zenon
  <1> HIDE DEF fst
  <1>2. CASE ~(b <= a)
    <2>1. Len(fst) <= b
      BY <1>1, <1>2
    <2>2. Evict(fst, b) = fst
      BY <1>1, <2>1, EvictIs, Zenon
    <2> QED
      BY <1>2, <2>2, Zenon DEF fst
  <1>3. CASE b <= a
    <2>1. CASE a <= Len(es)
      <3>1. fst = SubSeq(es, 1, a)
        BY <2>1, EvictIs, Zenon DEF fst
      <3>2. Len(fst) = a
        BY <2>1, <3>1
      <3>3. Evict(fst, b) = SubSeq(fst, 1, b)
        BY <1>1, <1>3, <3>2, EvictIs, Zenon
      <3>4. b <= Len(es) /\ SubSeq(SubSeq(es, 1, a), 1, b) = SubSeq(es, 1, b)
        BY <1>3, <2>1
      <3>5. Evict(es, b) = SubSeq(es, 1, b)
        BY <3>4, EvictIs, Zenon
      <3> QED
        BY <1>3, <3>1, <3>3, <3>4, <3>5, Zenon DEF fst
    <2>2. CASE ~(a <= Len(es))
      <3>1. Len(es) <= a
        BY <2>2
      <3>2. fst = es
        BY <3>1, EvictIs, Zenon DEF fst
      <3> QED
        BY <1>3, <3>2, Zenon DEF fst
    <2> QED
      BY <2>1, <2>2
  <1> QED
    BY <1>2, <1>3

\* A size change more.
LEMMA ChangesMore ==
  ASSUME NEW T, NEW s \in Seq(T), NEW x \in T
  PROVE  /\ Append(s, x) \in Seq(T) /\ Append(s, x) # << >>
         /\ Len(Append(s, x)) = Len(s) + 1 /\ \A old : InForce(Append(s, x), old) = x
         /\ Range(Append(s, x)) = Range(s) \cup {x}
  <1> DEFINE a == Append(s, x)
  <1>1. a \in Seq(T) /\ a # << >> /\ Len(a) = Len(s) + 1 /\ a[Len(a)] = x
    OBVIOUS
  <1>2. DOMAIN a = DOMAIN s \cup {Len(s) + 1} /\ \A i \in DOMAIN s : a[i] = s[i]
    OBVIOUS
  <1> HIDE DEF a
  <1>3. Range(a) = Range(s) \cup {x}
    <2>1. \A v : v \in {a[i] : i \in DOMAIN a} <=> v \in {s[i] : i \in DOMAIN s} \cup {x}
      BY <1>1, <1>2, Zenon
    <2> QED
      BY <2>1, Zenon DEF Range
  <1> QED
    BY <1>1, <1>3, Zenon DEF a, InForce

-----------------------------------------------------------------------------
(* A frame changes the state of h2 *)

\* The types of the state of h2, before its windows are checked, and of the
\* peer's decoder.
H2Type(c) ==
  /\ c.table \in 0 .. MaxTable /\ c.initial \in 0 .. MaxWindow /\ c.window \in Int
  /\ c.changes \in Seq(0 .. MaxTable) /\ c.resized \in BOOLEAN /\ c.stored \in Seq(Nat)

PeerType(d) ==
  d \in [stored : Seq(Nat), size : 0 .. MaxTable, least : 0 .. MaxTable,
         last : 0 .. MaxTable]

\* The values of the entries of a frame.
LEMMA ValuesType ==
  ASSUME NEW es \in Seq(Entries)
  PROVE  /\ Values(es, "table") \subseteq 0 .. MaxTable
         /\ Values(es, "window") \subseteq 0 .. MaxWindow
  <1>1. \A i \in DOMAIN es : es[i] \in Entries
    OBVIOUS
  <1> QED
    BY <1>1, EntryType, Zenon DEF Values, Positions

\* The pending size changes of an encoder are sizes, and the last of them is one.
LEMMA ChangesType ==
  ASSUME NEW s \in Seq(0 .. MaxTable), NEW old, s # << >>
  PROVE  /\ Range(s) \subseteq 0 .. MaxTable /\ Range(s) \in SUBSET Nat /\ Range(s) # {}
         /\ InForce(s, old) \in Range(s) /\ InForce(s, old) = s[Len(s)]
  <1>1. Len(s) \in DOMAIN s /\ \A i \in DOMAIN s : s[i] \in 0 .. MaxTable
    <2>1. Len(s) = 0 => s = << >>
      OBVIOUS
    <2>2. Len(s) \in Nat /\ DOMAIN s = 1 .. Len(s)
      OBVIOUS
    <2>3. Len(s) \in 1 .. Len(s)
      BY <2>1, <2>2
    <2>4. \A i \in DOMAIN s : s[i] \in 0 .. MaxTable
      <3> DEFINE T == 0 .. MaxTable
      <3>1. s \in Seq(T)
        OBVIOUS
      <3> HIDE DEF T
      <3>2. \A i \in DOMAIN s : s[i] \in T
        BY <3>1
      <3> QED
        BY <3>2 DEF T
    <2> QED
      BY <2>2, <2>3, <2>4, Zenon
  <1>2. 0 .. MaxTable \subseteq Nat
    BY BoundsAssumption
  <1> QED
    BY <1>1, <1>2, Zenon DEF Range, InForce

\* The encoder's table fits its size.
LEMMA StoredFits ==
  ASSUME NEW c, NEW d, H2Type(c), PeerType(d), InStep(c, d)
  PROVE  Evict(c.stored, c.table) = c.stored
  <1>1. c.table \in Nat /\ c.stored \in Seq(Nat) /\ Len(c.stored) \in Nat
    BY BoundsAssumption DEF H2Type
  <1>2. Len(c.stored) <= c.table
    <2>1. CASE c.changes = << >>
      <3>1. c.table = d.size /\ c.stored = d.stored /\ Len(d.stored) <= d.size
        BY <2>1, Zenon DEF InStep, InForce
      <3> QED
        BY <3>1, Zenon
    <2>2. CASE c.changes # << >>
      <3> DEFINE R == Range(c.changes)
                 m == Min(R)
      <3>1. R \in SUBSET Nat /\ R # {} /\ c.table \in R
        BY <2>2, ChangesType, Zenon DEF InStep, H2Type
      <3> HIDE DEF R
      <3>2. m \in Nat /\ m <= c.table
        BY <3>1, MinOf
      <3>3. c.stored = Evict(d.stored, m)
        BY <2>2, Zenon DEF InStep, R
      <3> HIDE DEF m
      <3>4. Len(c.stored) <= m
        BY <3>2, <3>3, EvictIs, Zenon DEF PeerType
      <3> QED
        BY <1>1, <3>2, <3>4
    <2> QED
      BY <2>1, <2>2
  <1> QED
    BY <1>1, <1>2, EvictIs, Zenon

\* Two ends in step stay so when a size change is added.
LEMMA InStepMore ==
  ASSUME NEW c, NEW d, H2Type(c), PeerType(d), InStep(c, d), NEW size \in 0 .. MaxTable,
         NEW r, r.table = size, r.changes = Append(c.changes, size), r.resized,
         r.stored = Evict(c.stored, size)
  PROVE  InStep(r, d)
  <1> DEFINE R == Range(c.changes)
  <1>1. /\ r.changes # << >> /\ r.table = InForce(r.changes, d.size)
        /\ Range(r.changes) = R \cup {size}
    <2> DEFINE T == 0 .. MaxTable
    <2>1. c.changes \in Seq(T) /\ size \in T
      BY DEF H2Type
    <2> HIDE DEF T
    <2>2. /\ Append(c.changes, size) # << >>
          /\ \A old : InForce(Append(c.changes, size), old) = size
          /\ Range(Append(c.changes, size)) = Range(c.changes) \cup {size}
      BY <2>1, ChangesMore
    <2> QED
      BY <2>2, Zenon
  <1>2. size \in Nat
    BY BoundsAssumption
  <1>3. r.stored = Evict(d.stored, Min(R \cup {size}))
    <2>1. CASE c.changes = << >>
      <3>1. R = {}
        BY <2>1 DEF Range
      <3>2. Min(R \cup {size}) = size
        <4>1. R \cup {size} = {size}
          BY <3>1, Zenon
        <4> QED
          BY <1>2, <4>1, MinOfOne, Zenon
      <3>3. c.stored = d.stored
        BY <2>1, Zenon DEF InStep
      <3> QED
        BY <3>2, <3>3, Zenon
    <2>2. CASE c.changes # << >>
      <3>1. R \in SUBSET Nat /\ R # {}
        BY <2>2, ChangesType, Zenon DEF H2Type
      <3>2. c.stored = Evict(d.stored, Min(R))
        BY <2>2, Zenon DEF InStep
      <3> HIDE DEF R
      <3>3. Min(R) \in Nat
        BY <3>1, MinOf
      <3>4. Min(R \cup {size}) = IF size <= Min(R) THEN size ELSE Min(R)
        BY <1>2, <3>1, MinMore, Zenon
      <3>5. d.stored \in Seq(Nat)
        BY DEF PeerType
      <3> QED
        <4> DEFINE m == Min(R)
        <4>1. m \in Nat
          BY <3>3
        <4> HIDE DEF m
        <4>2. Evict(Evict(d.stored, m), size) = Evict(d.stored, IF size <= m THEN size ELSE m)
          BY <1>2, <3>5, <4>1, EvictTwice, Zenon
        <4> QED
          BY <3>2, <3>4, <4>2, Zenon DEF m
    <2> QED
      BY <2>1, <2>2
  <1>4. Len(d.stored) <= d.size
    BY DEF InStep
  <1> QED
    BY <1>1, <1>3, <1>4, Zenon DEF InStep

\* r is a state of h2 after the entries es, which met the state c: both ends are
\* in step, the last values are in force, what the peer has granted is the same,
\* and every table size has left a change.
Applied(r, c, d, es) ==
  /\ H2Type(r) /\ InStep(r, d)
  /\ r.table = Latest(es, "table", c.table)
  /\ r.initial = Latest(es, "window", c.initial)
  /\ r.window - r.initial = c.window - c.initial
  /\ Len(r.changes) <= Len(c.changes) + Count(es, "table")
  /\ Range(r.changes) = Range(c.changes) \cup Values(es, "table")

\* A frame with at most one table size, which is not the one in force.
LEMMA ReceiveApplied ==
  ASSUME NEW c, NEW d, H2Type(c), PeerType(d), InStep(c, d), NEW es \in Seq(Entries),
         \A p, q \in Positions(es, "table") : p = q,
         Positions(es, "table") # {} => Latest(es, "table", c.table) # c.table
  PROVE  Applied(ReceiveSettings(c, es), c, d, es)
  <1> DEFINE P == Positions(es, "table")
             size == Latest(es, "table", c.table)
             fst == Latest(es, "window", c.initial)
             r == ReceiveSettings(c, es)
  <1>1. size \in 0 .. MaxTable /\ fst \in 0 .. MaxWindow
    <2>1. size \in {c.table} \cup Values(es, "table") /\ fst \in {c.initial} \cup Values(es, "window")
      BY LatestIn
    <2>2. c.table \in 0 .. MaxTable /\ c.initial \in 0 .. MaxWindow
      BY DEF H2Type
    <2> HIDE DEF size, fst
    <2> QED
      BY <2>1, <2>2, ValuesType, Zenon
  <1>2. /\ r.table = size /\ r.initial = fst
        /\ r.window = c.window + fst - c.initial
        /\ r.changes = IF size # c.table THEN Append(c.changes, size) ELSE c.changes
        /\ r.resized = IF P # {} THEN size # c.table ELSE c.resized
        /\ r.stored = Evict(c.stored, size)
    BY Zenon DEF ReceiveSettings
  <1>3. Count(es, "table") \in Nat /\ IsFiniteSet(P)
    BY CountType
  <1>4. size \in Nat /\ Len(c.changes) \in Nat /\ c.stored \in Seq(Nat)
    BY <1>1, BoundsAssumption DEF H2Type
  <1>5. r.stored \in Seq(Nat)
    <2>1. Evict(c.stored, size) \in Seq(Nat)
      <3> HIDE DEF size
      <3> QED
        BY <1>4, EvictIs, Zenon
    <2> HIDE DEF r, size
    <2> QED
      BY <1>2, <2>1, Zenon
  <1>6. r.window \in Int /\ r.window - r.initial = c.window - c.initial
    <2>1. c.window \in Int /\ c.initial \in Int /\ fst \in Int
      BY <1>1 DEF H2Type
    <2> HIDE DEF fst, r
    <2> QED
      BY <1>2, <2>1
  <1>7. r.table = Latest(es, "table", c.table) /\ r.initial = Latest(es, "window", c.initial)
    BY <1>2
  <1> SUFFICES Applied(r, c, d, es)
    OBVIOUS
  <1> HIDE DEF size, fst, r, P
  <1>8. CASE P = {}
    <2>1. size = c.table
      BY <1>8, Zenon DEF size, P, Latest
    <2>2. r.changes = c.changes /\ r.resized = c.resized /\ r.table = c.table
      BY <1>2, <1>8, <2>1, Zenon
    <2>3. r.stored = c.stored
      BY <1>2, <2>1, StoredFits, Zenon
    <2>4. InStep(r, d)
      BY <2>2, <2>3, Zenon DEF InStep
    <2>5. Values(es, "table") = {}
      BY <1>8, Zenon DEF Values, P
    <2>6. Len(r.changes) <= Len(c.changes) + Count(es, "table")
      BY <1>3, <1>4, <2>2
    <2>7. Range(r.changes) = Range(c.changes) \cup Values(es, "table")
      BY <2>2, <2>5, Zenon
    <2>8. H2Type(r)
      BY <1>1, <1>2, <1>5, <1>6, <2>2, Zenon DEF H2Type
    <2> QED
      BY <1>6, <1>7, <2>4, <2>6, <2>7, <2>8, Zenon DEF Applied
  <1>9. CASE P # {}
    <2>1. size # c.table
      BY <1>9, Zenon DEF size, P
    <2>2. r.changes = Append(c.changes, size) /\ r.resized
      BY <1>2, <1>9, <2>1, Zenon
    <2>3. InStep(r, d)
      BY <1>1, <1>2, <2>2, InStepMore, Zenon
    <2>4. Values(es, "table") = {size}
      <3>1. PICK p \in P : size = es[p].value
        BY <1>9, LatestCases DEF P, size
      <3>2. P = {p}
        BY <3>1, Zenon DEF P
      <3> QED
        BY <3>1, <3>2, Zenon DEF Values, P
    <2>5. Count(es, "table") = 1
      <3>1. PICK p \in P : P = {p}
        BY <1>9, Zenon DEF P
      <3> QED
        BY <3>1, FS_Singleton, Zenon DEF Count, P
    <2>6. /\ r.changes \in Seq(0 .. MaxTable) /\ Len(r.changes) = Len(c.changes) + 1
          /\ Range(r.changes) = Range(c.changes) \cup {size}
      <3> DEFINE T == 0 .. MaxTable
      <3>1. c.changes \in Seq(T) /\ size \in T
        BY <1>1 DEF H2Type
      <3> HIDE DEF T
      <3>2. /\ Append(c.changes, size) \in Seq(T) /\ Len(Append(c.changes, size)) = Len(c.changes) + 1
            /\ Range(Append(c.changes, size)) = Range(c.changes) \cup {size}
        BY <3>1, ChangesMore
      <3> QED
        BY <2>2, <3>2, Zenon DEF T
    <2>7. Len(r.changes) <= Len(c.changes) + Count(es, "table")
      BY <1>4, <2>5, <2>6
    <2>8. H2Type(r)
      <3>1. r.resized \in BOOLEAN
        BY <2>2, Zenon
      <3> QED
        BY <1>1, <1>2, <1>5, <1>6, <2>6, <3>1, Zenon DEF H2Type
    <2> QED
      BY <1>6, <1>7, <2>3, <2>4, <2>6, <2>7, <2>8, Zenon DEF Applied
  <1> QED
    BY <1>8, <1>9

\* Nothing was applied yet.
LEMMA AppliedNone ==
  ASSUME NEW c, NEW d, H2Type(c), InStep(c, d)
  PROVE  Applied(c, c, d, << >>)
  <1>1. Len(c.changes) <= Len(c.changes) + 0
    BY DEF H2Type
  <1>2. /\ Latest(<< >>, "table", c.table) = c.table
        /\ Latest(<< >>, "window", c.initial) = c.initial
        /\ Count(<< >>, "table") = 0 /\ Values(<< >>, "table") = {}
    BY NoEntries
  <1> QED
    BY <1>1, <1>2, Zenon DEF Applied

\* A frame with one entry.
LEMMA OneEntry ==
  ASSUME NEW e \in Entries, NEW id
  PROVE  /\ <<e>> \in Seq(Entries)
         /\ Values(<<e>>, id) = IF e.id = id THEN {e.value} ELSE {}
         /\ Count(<<e>>, id) = IF e.id = id THEN 1 ELSE 0
         /\ Positions(<<e>>, id) = IF e.id = id THEN {1} ELSE {}
         /\ \A old : Latest(<<e>>, id, old) = IF e.id = id THEN e.value ELSE old
  <1>1. << >> \in Seq(Entries) /\ Append(<< >>, e) = <<e>> /\ <<e>> \in Seq(Entries)
    OBVIOUS
  <1>2. Adds(<<e>>, << >>, e, id)
    BY <1>1, OneMore
  <1>3. Positions(<<e>>, id) = IF e.id = id THEN {1} ELSE {}
    <2>1. DOMAIN <<e>> = {1} /\ <<e>>[1] = e
      OBVIOUS
    <2> QED
      BY <2>1, Zenon DEF Positions
  <1>4. 0 + (IF e.id = id THEN 1 ELSE 0) = IF e.id = id THEN 1 ELSE 0
    <2>1. 0 + 1 = 1 /\ 0 + 0 = 0
      OBVIOUS
    <2> QED
      BY <2>1, Zenon
  <1>5. Values(<< >>, id) = {} /\ Count(<< >>, id) = 0 /\ \A old : Latest(<< >>, id, old) = old
    BY NoEntries
  <1>6. Values(<<e>>, id) = IF e.id = id THEN {e.value} ELSE {}
    BY <1>2, <1>5, Zenon DEF Adds
  <1>7. \A old : Latest(<<e>>, id, old) = IF e.id = id THEN e.value ELSE old
    BY <1>2, <1>5, Zenon DEF Adds
  <1>8. Count(<<e>>, id) = IF e.id = id THEN 1 ELSE 0
    BY <1>2, <1>4, <1>5, Zenon DEF Adds
  <1> QED
    BY <1>1, <1>3, <1>6, <1>7, <1>8, Zenon

\* One more frame with one entry.
LEMMA AppliedMore ==
  ASSUME NEW r, NEW c, NEW d, PeerType(d), H2Type(c), NEW es \in Seq(Entries), NEW e \in Entries,
         Applied(r, c, d, es), e.id = "table" => e.value # r.table
  PROVE  Applied(ReceiveSettings(r, <<e>>), c, d, Append(es, e))
  <1> DEFINE s == ReceiveSettings(r, <<e>>)
             all == Append(es, e)
  <1>1. <<e>> \in Seq(Entries)
    BY OneEntry
  <1>2. \A p, q \in Positions(<<e>>, "table") : p = q
    BY OneEntry, Zenon
  <1>3. Positions(<<e>>, "table") # {} => Latest(<<e>>, "table", r.table) # r.table
    BY OneEntry, Zenon
  <1>4. Applied(s, r, d, <<e>>)
    BY <1>1, <1>2, <1>3, ReceiveApplied, Zenon DEF Applied
  <1>5. Adds(all, es, e, "table") /\ Adds(all, es, e, "window")
    BY OneMore
  <1> SUFFICES Applied(s, c, d, all)
    OBVIOUS
  <1> HIDE DEF s, all
  <1>6. s.table = Latest(all, "table", c.table)
    <2>1. Latest(<<e>>, "table", r.table) = IF e.id = "table" THEN e.value ELSE r.table
      BY OneEntry, Zenon
    <2> QED
      BY <1>4, <1>5, <2>1, Zenon DEF Applied, Adds
  <1>7. s.initial = Latest(all, "window", c.initial)
    <2>1. Latest(<<e>>, "window", r.initial) = IF e.id = "window" THEN e.value ELSE r.initial
      BY OneEntry, Zenon
    <2> QED
      BY <1>4, <1>5, <2>1, Zenon DEF Applied, Adds
  <1>8. s.window - s.initial = c.window - c.initial
    BY <1>4, Zenon DEF Applied
  <1>9. Range(s.changes) = Range(c.changes) \cup Values(all, "table")
    <2>1. Values(<<e>>, "table") = IF e.id = "table" THEN {e.value} ELSE {}
      BY OneEntry, Zenon
    <2>2. Range(s.changes) = Range(r.changes) \cup Values(<<e>>, "table")
      BY <1>4, Zenon DEF Applied
    <2>3. Range(r.changes) = Range(c.changes) \cup Values(es, "table")
      BY Zenon DEF Applied
    <2>4. Values(all, "table") = Values(es, "table") \cup Values(<<e>>, "table")
      BY <1>5, <2>1, Zenon DEF Adds
    <2> QED
      BY <2>2, <2>3, <2>4, Zenon
  <1>10. Len(s.changes) <= Len(c.changes) + Count(all, "table")
    <2>1. Count(all, "table") = Count(es, "table") + Count(<<e>>, "table")
      BY <1>5, OneEntry, Zenon DEF Adds
    <2>2. Len(s.changes) <= Len(r.changes) + Count(<<e>>, "table")
      BY <1>4, Zenon DEF Applied
    <2>3. Len(r.changes) <= Len(c.changes) + Count(es, "table")
      BY Zenon DEF Applied
    <2>4. Count(es, "table") \in Nat /\ Count(<<e>>, "table") \in Nat
      BY <1>1, CountType
    <2>5. c.changes \in Seq(0 .. MaxTable) /\ r.changes \in Seq(0 .. MaxTable) /\ s.changes \in Seq(0 .. MaxTable)
      BY <1>4, Zenon DEF Applied, H2Type
    <2>6. Len(c.changes) \in Nat /\ Len(r.changes) \in Nat /\ Len(s.changes) \in Nat
      BY <2>5
    <2> QED
      BY <2>1, <2>2, <2>3, <2>4, <2>6
  <1> QED
    BY <1>4, <1>6, <1>7, <1>8, <1>9, <1>10, Zenon DEF Applied

-----------------------------------------------------------------------------
(* The loop of ApplyEach *)

H2Loose ==
  [table : 0 .. MaxTable, initial : 0 .. MaxWindow, window : Int,
   changes : Seq(0 .. MaxTable), resized : BOOLEAN, stored : Seq(Nat)]

\* A frame leaves a state of h2, also one with a window that overflows.
LEMMA ReceiveType ==
  ASSUME NEW c \in H2Loose, NEW e \in Entries
  PROVE  ReceiveSettings(c, <<e>>) \in H2Loose
  <1> DEFINE es == <<e>>
             sized == Positions(es, "table") # {}
             size == Latest(es, "table", c.table)
             fst == Latest(es, "window", c.initial)
  <1>1. es \in Seq(Entries)
    BY OneEntry
  <1>2. /\ c.table \in 0 .. MaxTable /\ c.initial \in 0 .. MaxWindow /\ c.window \in Int
        /\ c.changes \in Seq(0 .. MaxTable) /\ c.resized \in BOOLEAN /\ c.stored \in Seq(Nat)
    BY DEF H2Loose
  <1> HIDE DEF es
  <1>3. size \in 0 .. MaxTable /\ fst \in 0 .. MaxWindow
    <2>1. size \in {c.table} \cup Values(es, "table") /\ fst \in {c.initial} \cup Values(es, "window")
      BY <1>1, LatestIn
    <2> HIDE DEF size, fst
    <2> QED
      BY <1>1, <1>2, <2>1, ValuesType, Zenon
  <1> HIDE DEF sized, size, fst
  <1>4. c.window + fst - c.initial \in Int
    BY <1>2, <1>3
  <1>5. Evict(c.stored, size) \in Seq(Nat)
    <2>1. size \in Nat
      BY <1>3, BoundsAssumption
    <2> QED
      BY <1>2, <2>1, EvictIs, Zenon
  <1>6. (IF size # c.table THEN Append(c.changes, size) ELSE c.changes) \in Seq(0 .. MaxTable)
    <2> DEFINE T == 0 .. MaxTable
    <2>1. c.changes \in Seq(T) /\ size \in T
      BY <1>2, <1>3
    <2> HIDE DEF T
    <2>2. Append(c.changes, size) \in Seq(T)
      BY <2>1
    <2> QED
      BY <2>1, <2>2, Zenon DEF T
  <1>7. (IF sized THEN size # c.table ELSE c.resized) \in BOOLEAN
    BY <1>2, Zenon
  <1> QED
    BY <1>2, <1>3, <1>4, <1>5, <1>6, <1>7, Zenon DEF H2Loose, ReceiveSettings, es, sized, size, fst

\* The loop of ApplyEach.
IsReplay(f, c, es) ==
  /\ f[1] = c
  /\ \A i \in 1 .. Len(es) : f[i + 1] = ReceiveSettings(f[i], <<es[i]>>)

\* Replay is that loop.
LEMMA ReplayLoop ==
  ASSUME NEW c \in H2Loose, NEW es \in Seq(Entries)
  PROVE  IsReplay(Replay(c, es), c, es)
  <1> DEFINE n == Len(es)
             h == [p \in H2Loose \X (1 .. n) |-> ReceiveSettings(p[1], <<es[p[2]]>>)]
             F == Replay(c, es)
  <1>1. n \in Nat
    OBVIOUS
  <1>2. \A i \in 1 .. n : es[i] \in Entries
    OBVIOUS
  <1> HIDE DEF n
  <1>3. \A p \in H2Loose \X (1 .. n) : p[1] \in H2Loose /\ p[2] \in 1 .. n
    BY Zenon
  <1>4. \A p \in H2Loose \X (1 .. n) : ReceiveSettings(p[1], <<es[p[2]]>>) \in H2Loose
    BY <1>2, <1>3, ReceiveType, Zenon
  <1>5. h \in [H2Loose \X (1 .. n) -> H2Loose]
    BY <1>4, Zenon
  <1>6. ASSUME NEW x \in H2Loose, NEW i \in 1 .. n
        PROVE  h[<<x, i>>] = ReceiveSettings(x, <<es[i]>>)
    BY DEF h
  <1> HIDE DEF h
  <1>7. PICK f : IsLoop(f, n, H2Loose, c, h)
    BY <1>1, <1>5, LoopExists
  <1>8. f = [i \in 1 .. n + 1 |-> IF i = 1 THEN c ELSE ReceiveSettings(f[i - 1], <<es[i - 1]>>)]
    <2>1. ASSUME NEW i \in 1 .. n + 1, i # 1
          PROVE  f[i] = ReceiveSettings(f[i - 1], <<es[i - 1]>>)
      <3>1. i - 1 \in 1 .. n /\ i - 1 \in 1 .. n + 1 /\ (i - 1) + 1 = i
        BY <2>1, <1>1
      <3>2. f[i - 1] \in H2Loose /\ f[(i - 1) + 1] = h[<<f[i - 1], i - 1>>]
        BY <1>7, <3>1, Zenon DEF IsLoop
      <3> QED
        BY <1>6, <3>1, <3>2, Zenon
    <2>2. f \in [1 .. n + 1 -> H2Loose] /\ f[1] = c
      BY <1>7, Zenon DEF IsLoop
    <2> QED
      BY <2>1, <2>2
  <1>9. F = [i \in 1 .. n + 1 |-> IF i = 1 THEN c ELSE ReceiveSettings(F[i - 1], <<es[i - 1]>>)]
    BY <1>8, Zenon DEF Replay, n
  <1> HIDE DEF F
  <1>10. F[1] = c
    <2>1. 1 \in 1 .. n + 1
      BY <1>1
    <2> QED
      BY <1>9, <2>1, Zenon
  <1>11. ASSUME NEW i \in 1 .. n PROVE F[i + 1] = ReceiveSettings(F[i], <<es[i]>>)
    <2>1. i + 1 \in 1 .. n + 1 /\ i + 1 # 1 /\ (i + 1) - 1 = i
      BY <1>1
    <2> QED
      BY <1>9, <2>1, Zenon
  <1> QED
    BY <1>10, <1>11, Zenon DEF IsReplay, F, n

\* After each turn of the loop the entries so far are applied.
LEMMA ReplayApplied ==
  ASSUME NEW c \in H2Loose, NEW d, PeerType(d), InStep(c, d), NEW es \in Seq(Entries),
         NoneRepeated(es, c.table)
  PROVE  \A i \in 0 .. Len(es) : Applied(Replay(c, es)[i + 1], c, d, SubSeq(es, 1, i))
  <1> DEFINE n == Len(es)
             f == Replay(c, es)
             Good(i) == Applied(f[i + 1], c, d, SubSeq(es, 1, i))
             S == {i \in Nat : i <= n => Good(i)}
  <1>1. n \in Nat /\ SubSeq(es, 1, 0) = << >>
    BY PrefixEnds
  <1>2. f[1] = c /\ \A i \in 1 .. n : f[i + 1] = ReceiveSettings(f[i], <<es[i]>>)
    BY ReplayLoop, Zenon DEF IsReplay
  <1>3. H2Type(c)
    BY DEF H2Type, H2Loose
  <1> HIDE DEF f, n
  <1>4. Good(0)
    <2>1. f[0 + 1] = c
      BY <1>2
    <2> QED
      BY <1>1, <1>3, <2>1, AppliedNone, Zenon
  <1>5. ASSUME NEW i \in Nat, i + 1 <= n, Good(i) PROVE Good(i + 1)
    <2> DEFINE k == i + 1
    <2>1. k \in 1 .. n /\ k - 1 = i /\ k \in 1 .. Len(es)
      BY <1>1, <1>5 DEF n
    <2>2. f[k + 1] = ReceiveSettings(f[k], <<es[k]>>)
      BY <1>2, <2>1, Zenon
    <2>3. /\ SubSeq(es, 1, k - 1) \in Seq(Entries) /\ es[k] \in Entries
          /\ SubSeq(es, 1, k) = Append(SubSeq(es, 1, k - 1), es[k])
      BY <2>1, Prefix, Zenon
    <2>4. Applied(f[k], c, d, SubSeq(es, 1, k - 1))
      BY <1>5, <2>1, Zenon
    <2>5. es[k].id = "table" => es[k].value # f[k].table
      <3> SUFFICES ASSUME es[k].id = "table" PROVE es[k].value # f[k].table
        OBVIOUS
      <3>1. k \in Positions(es, "table")
        <4>1. k \in DOMAIN es
          BY <2>1
        <4> QED
          BY <4>1, Zenon DEF Positions
      <3>2. es[k].value # Latest(SubSeq(es, 1, k - 1), "table", c.table)
        BY <3>1, Zenon DEF NoneRepeated
      <3> QED
        BY <2>4, <3>2, Zenon DEF Applied
    <2> HIDE DEF k
    <2>6. Applied(ReceiveSettings(f[k], <<es[k]>>), c, d, SubSeq(es, 1, k))
      BY <1>3, <2>3, <2>4, <2>5, AppliedMore, Zenon
    <2> QED
      BY <2>2, <2>6, Zenon DEF k
  <1> HIDE DEF Good
  <1>6. 0 \in S
    BY <1>4
  <1>7. \A i \in Nat : i \in S => i + 1 \in S
    BY <1>1, <1>5
  <1> HIDE DEF S
  <1>8. \A i \in Nat : i \in S
    BY <1>6, <1>7, SetInduction
  <1>9. ASSUME NEW i \in 0 .. n PROVE Good(i)
    <2>1. i \in Nat /\ i <= n
      BY <1>1
    <2> QED
      BY <1>8, <2>1, Zenon DEF S
  <1> QED
    BY <1>9 DEF Good, f, n

\* The entries after some are applied, from the state those lead to.
LEMMA LatestRest ==
  ASSUME NEW E, NEW es \in Seq(E), NEW n \in 0 .. Len(es), NEW m \in n .. Len(es),
         NEW id, NEW old
  PROVE  Latest(SubSeq(es, n + 1, m), id, Latest(SubSeq(es, 1, n), id, old))
           = Latest(SubSeq(es, 1, m), id, old)
  <1> DEFINE a == SubSeq(es, 1, n)
             b == SubSeq(es, n + 1, m)
             c == SubSeq(es, 1, m)
  <1>1. a \in Seq(E) /\ b \in Seq(E) /\ c \in Seq(E)
    OBVIOUS
  <1>2. DOMAIN a = 1 .. n /\ DOMAIN b = 1 .. m - n /\ DOMAIN c = 1 .. m
    OBVIOUS
  <1>3. /\ \A i \in 1 .. n : a[i] = es[i]
        /\ \A i \in 1 .. m - n : b[i] = es[n + i]
        /\ \A i \in 1 .. m : c[i] = es[i]
    OBVIOUS
  <1>4. n \in Nat /\ m \in Nat /\ n <= m
    OBVIOUS
  <1> HIDE DEF a, b, c
  <1>5. CASE Positions(b, id) # {}
    <2>1. PICK p \in Positions(b, id) : \A q \in Positions(b, id) : q <= p
      BY <1>1, <1>5, LatestCases
    <2>2. p \in 1 .. m - n /\ b[p].id = id
      BY <1>2, Zenon DEF Positions
    <2>3. n + p \in 1 .. m /\ c[n + p] = b[p]
      BY <1>3, <1>4, <2>2
    <2>4. n + p \in Positions(c, id)
      BY <1>2, <2>2, <2>3, Zenon DEF Positions
    <2>5. ASSUME NEW q \in Positions(c, id) PROVE q <= n + p
      <3>1. q \in 1 .. m /\ c[q].id = id
        BY <1>2, Zenon DEF Positions
      <3>2. CASE q <= n
        BY <1>4, <2>2, <3>1, <3>2
      <3>3. CASE ~(q <= n)
        <4>1. q - n \in 1 .. m - n /\ n + (q - n) = q
          BY <1>4, <3>1, <3>3
        <4>2. b[q - n] = c[q]
          BY <1>3, <3>1, <4>1, Zenon
        <4>3. q - n \in Positions(b, id)
          BY <1>2, <3>1, <4>1, <4>2, Zenon DEF Positions
        <4>4. q - n <= p
          BY <2>1, <4>3, Zenon
        <4> QED
          BY <1>4, <2>2, <3>1, <4>4
      <3> QED
        BY <3>2, <3>3
    <2>6. Latest(c, id, old) = c[n + p].value
      BY <1>1, <2>4, <2>5, LatestAt, Zenon
    <2>7. Latest(b, id, Latest(a, id, old)) = b[p].value
      BY <1>1, <2>1, LatestAt, Zenon
    <2> QED
      BY <2>3, <2>6, <2>7, Zenon DEF a, b, c
  <1>6. CASE Positions(b, id) = {}
    <2>1. Latest(b, id, Latest(a, id, old)) = Latest(a, id, old)
      BY <1>6, Zenon DEF Latest
    <2>2. Positions(c, id) = Positions(a, id)
      <3>1. ASSUME NEW q \in Positions(c, id) PROVE q \in Positions(a, id)
        <4>1. q \in 1 .. m /\ c[q].id = id
          BY <1>2, Zenon DEF Positions
        <4>2. CASE q <= n
          <5>1. q \in 1 .. n /\ c[q] = a[q]
            BY <1>3, <1>4, <4>1, <4>2
          <5> QED
            BY <1>2, <4>1, <5>1, Zenon DEF Positions
        <4>3. CASE ~(q <= n)
          <5>1. q - n \in 1 .. m - n /\ n + (q - n) = q
            BY <1>4, <4>1, <4>3
          <5>2. b[q - n] = c[q]
            BY <1>3, <4>1, <5>1, Zenon
          <5>3. q - n \in Positions(b, id)
            BY <1>2, <4>1, <5>1, <5>2, Zenon DEF Positions
          <5> QED
            BY <1>6, <5>3, Zenon
        <4> QED
          BY <4>2, <4>3
      <3>2. ASSUME NEW q \in Positions(a, id) PROVE q \in Positions(c, id)
        <4>1. q \in 1 .. n /\ a[q].id = id
          BY <1>2, Zenon DEF Positions
        <4>2. q \in 1 .. m
          BY <1>4, <4>1
        <4>3. c[q] = a[q]
          BY <1>3, <4>1, <4>2, Zenon
        <4> QED
          BY <1>2, <4>1, <4>2, <4>3, Zenon DEF Positions
      <3> QED
        BY <3>1, <3>2, Zenon
    <2>3. CASE Positions(a, id) = {}
      BY <2>1, <2>2, <2>3, Zenon DEF Latest, a, b, c
    <2>4. CASE Positions(a, id) # {}
      <3>1. PICK p \in Positions(a, id) : \A q \in Positions(a, id) : q <= p
        BY <1>1, <2>4, LatestCases
      <3>2. Latest(a, id, old) = a[p].value /\ Latest(c, id, old) = c[p].value
        BY <1>1, <2>2, <3>1, LatestAt, Zenon
      <3>3. p \in 1 .. n /\ p \in 1 .. m
        <4>1. p \in 1 .. n
          BY <1>2, Zenon DEF Positions
        <4> QED
          BY <1>4, <4>1
      <3>4. a[p] = c[p]
        BY <1>3, <3>3, Zenon
      <3> QED
        BY <2>1, <3>2, <3>4, Zenon DEF a, b, c
    <2> QED
      BY <2>3, <2>4
  <1> QED
    BY <1>5, <1>6

\* The entries after the first n, next to those.
Splits(a, b, es, id) ==
  /\ Values(es, id) = Values(a, id) \cup Values(b, id)
  /\ Count(a, id) + Count(b, id) <= Count(es, id)

\* Entries split at any point have the values of both parts, and no fewer of each.
LEMMA SplitEntries ==
  ASSUME NEW E, NEW es \in Seq(E), NEW n \in 0 .. Len(es), NEW id
  PROVE  Splits(SubSeq(es, 1, n), SubSeq(es, n + 1, Len(es)), es, id)
  <1> DEFINE m == Len(es)
             a == SubSeq(es, 1, n)
             b == SubSeq(es, n + 1, m)
             A == Positions(a, id)
             B == Positions(b, id)
             C == Positions(es, id)
  <1>1. a \in Seq(E) /\ b \in Seq(E)
    OBVIOUS
  <1>2. DOMAIN a = 1 .. n /\ DOMAIN b = 1 .. m - n /\ DOMAIN es = 1 .. m
    OBVIOUS
  <1>3. /\ \A i \in 1 .. n : a[i] = es[i]
        /\ \A i \in 1 .. m - n : b[i] = es[n + i]
    OBVIOUS
  <1>4. n \in Nat /\ m \in Nat /\ n <= m
    OBVIOUS
  <1>5. /\ IsFiniteSet(A) /\ IsFiniteSet(B) /\ IsFiniteSet(C)
        /\ Count(a, id) \in Nat /\ Count(b, id) \in Nat /\ Count(es, id) \in Nat
    BY <1>1, CountType
  <1> HIDE DEF a, b, m
  <1>6. A \subseteq C /\ A \subseteq 1 .. n
    <2>1. \A i \in 1 .. n : i \in 1 .. m
      BY <1>4
    <2> QED
      BY <1>2, <1>3, <2>1, Zenon DEF Positions
  <1>7. \A i \in B : i \in 1 .. m - n /\ n + i \in C \ A
    <2> SUFFICES ASSUME NEW i \in B PROVE i \in 1 .. m - n /\ n + i \in C \ A
      BY Zenon
    <2>1. i \in 1 .. m - n /\ b[i].id = id
      BY <1>2, Zenon DEF Positions
    <2>2. n + i \in 1 .. m /\ n + i \notin 1 .. n
      BY <1>4, <2>1
    <2>3. n + i \in C
      BY <1>2, <1>3, <2>1, <2>2, Zenon DEF Positions
    <2> QED
      BY <1>6, <2>1, <2>2, <2>3, Zenon
  <1>8. \A q \in C \ A : q - n \in B /\ n + (q - n) = q
    <2> SUFFICES ASSUME NEW q \in C, q \notin A PROVE q - n \in B /\ n + (q - n) = q
      BY Zenon
    <2>1. q \in 1 .. m /\ es[q].id = id
      BY <1>2, Zenon DEF Positions
    <2>2. q \notin 1 .. n
      BY <1>2, <1>3, <2>1, Zenon DEF Positions
    <2>3. q - n \in 1 .. m - n /\ n + (q - n) = q
      BY <1>4, <2>1, <2>2
    <2> QED
      BY <1>2, <1>3, <2>1, <2>3, Zenon DEF Positions
  <1> HIDE DEF A, B, C
  <1>9. Values(es, id) = Values(a, id) \cup Values(b, id)
    <2>1. ASSUME NEW q \in C PROVE es[q].value \in Values(a, id) \cup Values(b, id)
      <3>1. CASE q \in A
        BY <1>3, <1>6, <3>1, Zenon DEF Values, A
      <3>2. CASE q \notin A
        <4>1. q - n \in B /\ n + (q - n) = q
          BY <1>8, <3>2, Zenon
        <4>2. b[q - n] = es[q]
          BY <1>3, <1>7, <4>1, Zenon
        <4> QED
          BY <4>1, <4>2, Zenon DEF Values, B
      <3> QED
        BY <3>1, <3>2
    <2>2. ASSUME NEW i \in A PROVE a[i].value \in Values(es, id)
      BY <1>3, <1>6, Zenon DEF Values, C
    <2>3. ASSUME NEW i \in B PROVE b[i].value \in Values(es, id)
      <3>1. n + i \in C /\ b[i] = es[n + i]
        BY <1>3, <1>7, Zenon
      <3> QED
        BY <3>1, Zenon DEF Values, C
    <2> QED
      BY <2>1, <2>2, <2>3, Zenon DEF Values, A, B, C
  <1>10. Cardinality(B) <= Cardinality(C \ A) /\ IsFiniteSet(C \ A)
    <2> DEFINE R == C \ A
               g == [i \in B |-> n + i]
    <2>1. g \in [B -> R]
      BY <1>7, Zenon
    <2>2. ASSUME NEW i \in B, NEW j \in B, g[i] = g[j] PROVE i = j
      <3>1. g[i] = n + i /\ g[j] = n + j
        BY Zenon
      <3>2. i \in 1 .. m - n /\ j \in 1 .. m - n
        BY <1>7, Zenon
      <3>3. n + i = n + j
        BY <2>2, <3>1, Zenon
      <3>4. i \in Int /\ j \in Int
        BY <1>4, <3>2
      <3> HIDE DEF g
      <3> QED
        BY <1>4, <3>3, <3>4
    <2>3. DOMAIN g = B
      BY Zenon
    <2> HIDE DEF g
    <2>4. g \in Injection(B, R)
      BY <2>1, <2>2, <2>3, Zenon DEF Injection, IsInjective
    <2>5. IsFiniteSet(R)
      BY <1>5, FS_Difference, Zenon
    <2> HIDE DEF R
    <2>6. Cardinality(B) <= Cardinality(R)
      BY <2>4, <2>5, FS_Injection
    <2> QED
      BY <2>5, <2>6, Zenon DEF R
  <1>11. Cardinality(C \ A) = Cardinality(C) - Cardinality(A)
    <2>1. C \cap A = A
      BY <1>6, Zenon
    <2> QED
      BY <1>5, <2>1, FS_Difference, Zenon
  <1>12. Count(a, id) + Count(b, id) <= Count(es, id)
    <2>1. Cardinality(A) \in Nat /\ Cardinality(B) \in Nat /\ Cardinality(C) \in Nat
      BY <1>5, Zenon DEF Count, A, B, C
    <2>2. Cardinality(A) + Cardinality(B) <= Cardinality(C)
      BY <1>10, <1>11, <2>1
    <2> QED
      BY <2>2, Zenon DEF Count, A, B, C
  <1> QED
    BY <1>9, <1>12, Zenon DEF Splits, a, b, m

\* What is left after the first n entries, and how it continues from them.
LEMMA RestOfEntries ==
  ASSUME NEW E, NEW es \in Seq(E), NEW n \in 0 .. Len(es), NEW size, NoneRepeated(es, size)
  PROVE  LET b == SubSeq(es, n + 1, Len(es))
         IN /\ SubSeq(es, 1, n) \in Seq(E) /\ b \in Seq(E)
            /\ n < Len(es) => b # << >>
            /\ n = Len(es) => b = << >>
            /\ NoneRepeated(b, Latest(SubSeq(es, 1, n), "table", size))
  <1> DEFINE m == Len(es)
             b == SubSeq(es, n + 1, m)
             now == Latest(SubSeq(es, 1, n), "table", size)
  <1>1. SubSeq(es, 1, n) \in Seq(E) /\ b \in Seq(E)
    OBVIOUS
  <1>2. DOMAIN b = 1 .. m - n /\ DOMAIN es = 1 .. m
    OBVIOUS
  <1>3. \A i \in 1 .. m - n : b[i] = es[n + i]
    OBVIOUS
  <1>4. n \in Nat /\ m \in Nat /\ n <= m
    OBVIOUS
  <1>5. \A i \in 1 .. m - n : SubSeq(b, 1, i - 1) = SubSeq(es, n + 1, n + i - 1)
    OBVIOUS
  <1>6. (n < m => b # << >>) /\ (n = m => b = << >>)
    <2>1. Len(b) = m - n
      OBVIOUS
    <2> HIDE DEF b
    <2>2. Len(b) = 0 => b = << >>
      BY <1>1
    <2>3. b = << >> => Len(b) = 0
      OBVIOUS
    <2>4. (n < m => m - n # 0) /\ (n = m => m - n = 0)
      BY <1>4
    <2> QED
      BY <2>1, <2>2, <2>3, <2>4, Zenon
  <1>7. ASSUME NEW i \in Positions(b, "table")
        PROVE  b[i].value # Latest(SubSeq(b, 1, i - 1), "table", now)
    <2> HIDE DEF b, m, now
    <2>1. i \in 1 .. m - n /\ b[i].id = "table"
      BY <1>2, Zenon DEF Positions
    <2> DEFINE k == n + i - 1
    <2>2. n + i \in 1 .. m /\ k \in n .. m /\ (n + i) - 1 = k
      BY <1>4, <2>1
    <2> HIDE DEF k
    <2>3. n + i \in Positions(es, "table")
      BY <1>2, <1>3, <2>1, <2>2, Zenon DEF Positions
    <2>4. es[n + i].value # Latest(SubSeq(es, 1, k), "table", size)
      BY <2>2, <2>3, Zenon DEF NoneRepeated
    <2>5. Latest(SubSeq(es, n + 1, k), "table", now) = Latest(SubSeq(es, 1, k), "table", size)
      <3>1. k \in n .. Len(es)
        BY <2>2 DEF m
      <3> QED
        BY <3>1, LatestRest DEF now
    <2>6. SubSeq(b, 1, i - 1) = SubSeq(es, n + 1, k) /\ b[i] = es[n + i]
      BY <1>3, <1>5, <2>1, Zenon DEF k
    <2> QED
      BY <2>4, <2>5, <2>6, Zenon
  <1>8. NoneRepeated(b, now)
    <2> HIDE DEF b, now
    <2> QED
      BY <1>7, Zenon DEF NoneRepeated
  <1> QED
    BY <1>1, <1>6, <1>8, Zenon

-----------------------------------------------------------------------------
(* All entries in one frame *)

\* Entries with distinct identifiers have at most one position each.
LEMMA DistinctPositions ==
  ASSUME NEW es \in Seq(Entries), Distinct(es), NEW id
  PROVE  \A p, q \in Positions(es, id) : p = q
  <1> DEFINE n == Len(es)
             D == DOMAIN es
             T == {es[i].id : i \in D}
             f == [i \in D |-> es[i].id]
  <1>1. n \in Nat /\ D = 1 .. n
    OBVIOUS
  <1>2. Cardinality(T) = n
    BY Zenon DEF Distinct
  <1>3. IsFiniteSet(D) /\ Cardinality(D) = n
    <2> HIDE DEF n, D
    <2>1. IsFiniteSet(1 .. n) /\ Cardinality(1 .. n) = n
      <3>1. 1 \in Int /\ n \in Int
        BY <1>1
      <3>2. IsFiniteSet(1 .. n) /\ Cardinality(1 .. n) = IF 1 > n THEN 0 ELSE n - 1 + 1
        BY <3>1, FS_Interval
      <3>3. (IF 1 > n THEN 0 ELSE n - 1 + 1) = n
        BY <1>1
      <3> QED
        BY <3>2, <3>3
    <2> QED
      BY <1>1, <2>1, Zenon
  <1> HIDE DEF n, D
  <1>4. f \in Surjection(D, T)
    <2>1. f \in [D -> T]
      BY Zenon
    <2>2. \A t \in T : \E s \in D : f[s] = t
      BY Zenon
    <2> HIDE DEF f, T
    <2> QED
      BY <2>1, <2>2, Zenon DEF Surjection
  <1>5. \A p \in D : f[p] = es[p].id
    BY Zenon
  <1> HIDE DEF f, T
  <1>6. f \in Injection(D, T)
    BY <1>2, <1>3, <1>4, FS_SurjSameCardinalityImpliesInj, Zenon
  <1>7. \A p, q \in D : f[p] = f[q] => p = q
    BY <1>6, Zenon DEF Injection, IsInjective
  <1> QED
    BY <1>5, <1>7, Zenon DEF Positions, D

\* They can be applied at once.
LEMMA AtOnceApplied ==
  ASSUME NEW c, NEW d, H2Type(c), PeerType(d), InStep(c, d), NEW es \in Seq(Entries),
         Distinct(es), NoneRepeated(es, c.table)
  PROVE  Applied(ReceiveSettings(c, es), c, d, es)
  <1> DEFINE P == Positions(es, "table")
  <1>1. \A p, q \in P : p = q
    BY DistinctPositions
  <1>2. ASSUME P # {} PROVE Latest(es, "table", c.table) # c.table
    <2>1. PICK p \in P : Latest(es, "table", c.table) = es[p].value
      BY <1>2, LatestCases
    <2>2. p \in DOMAIN es
      BY Zenon DEF Positions
    <2>3. es[p].value # Latest(SubSeq(es, 1, p - 1), "table", c.table)
      BY Zenon DEF NoneRepeated
    <2>4. Positions(SubSeq(es, 1, p - 1), "table") = {}
      <3> SUFFICES ASSUME NEW q \in Positions(SubSeq(es, 1, p - 1), "table") PROVE FALSE
        OBVIOUS
      <3>1. q \in DOMAIN SubSeq(es, 1, p - 1) /\ SubSeq(es, 1, p - 1)[q].id = "table"
        BY Zenon DEF Positions
      <3>2. q \in DOMAIN es /\ es[q] = SubSeq(es, 1, p - 1)[q] /\ q # p
        BY <2>2, <3>1
      <3>3. q \in P
        BY <3>1, <3>2, Zenon DEF Positions
      <3> QED
        BY <1>1, <3>2, <3>3, Zenon
    <2>5. Latest(SubSeq(es, 1, p - 1), "table", c.table) = c.table
      BY <2>4, Zenon DEF Latest
    <2> QED
      BY <2>1, <2>3, <2>5, Zenon
  <1> QED
    BY <1>1, <1>2, ReceiveApplied, Zenon

-----------------------------------------------------------------------------
(* What a frame is owed *)

\* The states of h2 meet its types.
LEMMA LooseType ==
  ASSUME NEW c \in H2Loose
  PROVE  H2Type(c)
  BY DEF H2Type, H2Loose

\* Every state of a replay is one.
LEMMA ReplayType ==
  ASSUME NEW c \in H2Loose, NEW es \in Seq(Entries)
  PROVE  \A i \in 0 .. Len(es) : Replay(c, es)[i + 1] \in H2Loose
  <1> DEFINE n == Len(es)
             f == Replay(c, es)
             S == {i \in Nat : i <= n => f[i + 1] \in H2Loose}
  <1>1. n \in Nat
    OBVIOUS
  <1>2. f[1] = c /\ \A i \in 1 .. n : f[i + 1] = ReceiveSettings(f[i], <<es[i]>>)
    BY ReplayLoop, Zenon DEF IsReplay
  <1>3. \A i \in 1 .. n : es[i] \in Entries
    OBVIOUS
  <1> HIDE DEF f, n
  <1>4. 0 \in S
    <2>1. f[0 + 1] = c
      BY <1>2
    <2> QED
      BY <2>1
  <1>5. ASSUME NEW i \in Nat, i \in S PROVE i + 1 \in S
    <2>1. CASE i + 1 <= n
      <3>1. i + 1 \in 1 .. n /\ i <= n
        BY <1>1, <2>1
      <3>2. f[i + 1] \in H2Loose
        BY <1>5, <3>1, Zenon
      <3>3. f[i + 1 + 1] = ReceiveSettings(f[i + 1], <<es[i + 1]>>)
        BY <1>2, <3>1, Zenon
      <3>4. f[i + 1 + 1] \in H2Loose
        BY <1>3, <3>1, <3>2, <3>3, ReceiveType, Zenon
      <3>5. i + 1 \in Nat
        OBVIOUS
      <3> QED
        BY <3>4, <3>5, Zenon
    <2>2. CASE ~(i + 1 <= n)
      BY <2>2
    <2> QED
      BY <2>1, <2>2
  <1> HIDE DEF S
  <1>6. \A i \in Nat : i \in S
    BY <1>4, <1>5, SetInduction
  <1>7. ASSUME NEW i \in 0 .. n PROVE f[i + 1] \in H2Loose
    <2>1. i \in Nat /\ i <= n
      BY <1>1
    <2> QED
      BY <1>6, <2>1, Zenon DEF S
  <1> QED
    BY <1>7 DEF f, n

\* The window after an entry of the replay that is a window size is that size next
\* to what the peer has granted.
LEMMA ReplayWindow ==
  ASSUME NEW c \in H2Loose, NEW d, PeerType(d), InStep(c, d), NEW es \in Seq(Entries),
         NoneRepeated(es, c.table), NEW j \in Positions(es, "window")
  PROVE  /\ j \in 1 .. Len(es)
         /\ Replay(c, es)[j + 1].window = es[j].value + (c.window - c.initial)
  <1> DEFINE r == Replay(c, es)[j + 1]
             a == SubSeq(es, 1, j)
  <1>1. j \in 1 .. Len(es) /\ es[j].id = "window"
    BY DEF Positions
  <1>2. j \in 0 .. Len(es)
    BY <1>1
  <1>3. Applied(r, c, d, a)
    BY <1>2, ReplayApplied, Zenon
  <1>4. a \in Seq(Entries) /\ DOMAIN a = 1 .. j /\ a[j] = es[j] /\ j \in 1 .. j
    BY <1>1
  <1> HIDE DEF a, r
  <1>5. j \in Positions(a, "window")
    BY <1>1, <1>4, Zenon DEF Positions
  <1>6. \A q \in Positions(a, "window") : q <= j
    <2>1. \A q \in 1 .. j : q <= j
      BY <1>1
    <2> QED
      BY <1>4, <2>1, Zenon DEF Positions
  <1>7. Latest(a, "window", c.initial) = es[j].value
    BY <1>4, <1>5, <1>6, LatestAt, Zenon
  <1>8. r.initial = es[j].value /\ r.window - r.initial = c.window - c.initial
    BY <1>3, <1>7, Zenon DEF Applied
  <1>9. /\ r.window \in Int /\ r.initial \in 0 .. MaxWindow
        /\ c.window \in Int /\ c.initial \in 0 .. MaxWindow
    BY <1>3, LooseType, Zenon DEF Applied, H2Type
  <1>10. r.window = r.initial + (c.window - c.initial)
    BY <1>8, <1>9
  <1> QED
    BY <1>1, <1>8, <1>10, Zenon DEF r

\* A window that overflows during a replay is one of the frame's.
LEMMA ReplayOverflow ==
  ASSUME NEW c \in H2Loose, c.window <= MaxWindow, NEW d, PeerType(d), InStep(c, d),
         NEW es, NEW frame, Owed(c, d, es, frame),
         NEW i \in 1 .. Len(es), Overflows(Replay(c, es)[i + 1])
  PROVE  ~Fits(frame)
  <1> DEFINE r == Replay(c, es)[i + 1]
             a == SubSeq(es, 1, i)
  <1>1. es \in Seq(Entries) /\ NoneRepeated(es, c.table)
    BY KnownType DEF Owed
  <1>2. i \in 0 .. Len(es) /\ Len(es) \in Nat
    BY <1>1
  <1>3. Applied(r, c, d, a)
    BY <1>1, <1>2, ReplayApplied, Zenon
  <1>4. a \in Seq(Entries)
    BY <1>1, <1>2
  <1>5. r.window > MaxWindow
    BY DEF Overflows
  <1>6. Values(es, "window") = Values(a, "window") \cup Values(SubSeq(es, i + 1, Len(es)), "window")
    BY <1>1, <1>2, SplitEntries, Zenon DEF Splits
  <1> HIDE DEF r, a
  <1>7. r.initial \in {c.initial} \cup Values(a, "window")
    BY <1>3, <1>4, LatestIn DEF Applied
  <1>8. /\ r.window \in Int /\ r.initial \in 0 .. MaxWindow
        /\ c.window \in Int /\ c.initial \in 0 .. MaxWindow
    BY <1>3, LooseType, Zenon DEF Applied, H2Type
  <1>9. r.window - r.initial = c.window - c.initial
    BY <1>3, Zenon DEF Applied
  <1>10. MaxWindow \in Nat
    BY BoundsAssumption
  <1>11. r.initial # c.initial /\ ~(r.initial + (c.window - c.initial) <= MaxWindow)
    BY <1>5, <1>8, <1>9, <1>10
  <1>12. r.initial \in Values(frame.entries, "window")
    BY <1>6, <1>7, <1>11, Zenon DEF Owed
  <1>13. c.window - c.initial = frame.window - frame.initial
    BY Zenon DEF Owed
  <1> QED
    BY <1>11, <1>12, <1>13, Zenon DEF Fits

\* A replay without an overflow leaves the frame what is left of it.
LEMMA ReplayOwed ==
  ASSUME NEW c \in H2Loose, NEW d, PeerType(d), InStep(c, d),
         NEW es, NEW frame, Owed(c, d, es, frame), NEW n \in 0 .. Len(es),
         \A i \in 1 .. n : ~Overflows(Replay(c, es)[i + 1])
  PROVE  /\ InStep(Replay(c, es)[n + 1], d)
         /\ Range(c.changes) \subseteq Range(Replay(c, es)[n + 1].changes)
         /\ Owed(Replay(c, es)[n + 1], d, SubSeq(es, n + 1, Len(es)), frame)
         /\ Len(Replay(c, es)[n + 1].changes) + Count(SubSeq(es, n + 1, Len(es)), "table")
              <= Len(c.changes) + Count(es, "table")
  <1> DEFINE f == Replay(c, es)
             r == f[n + 1]
             m == Len(es)
             a == SubSeq(es, 1, n)
             b == SubSeq(es, n + 1, m)
  <1>1. es \in Seq(Entries) /\ es \in Seq(Known) /\ NoneRepeated(es, c.table)
    BY KnownType DEF Owed
  <1>2. m \in Nat /\ n \in 0 .. m /\ m \in n .. m
    BY <1>1
  <1>3. Applied(r, c, d, a)
    BY <1>1, ReplayApplied, Zenon
  <1>4. /\ a \in Seq(Known) /\ b \in Seq(Known)
        /\ NoneRepeated(b, Latest(a, "table", c.table))
    BY <1>1, <1>2, RestOfEntries, Zenon
  <1>5. SubSeq(es, 1, m) = es
    BY <1>1, PrefixEnds, Zenon
  <1>6. ASSUME NEW id, NEW old
        PROVE  Latest(b, id, Latest(a, id, old)) = Latest(es, id, old)
    <2>1. Latest(b, id, Latest(a, id, old)) = Latest(SubSeq(es, 1, m), id, old)
      BY <1>1, <1>2, LatestRest
    <2> QED
      BY <1>5, <2>1, Zenon
  <1>7. Splits(a, b, es, "table") /\ Splits(a, b, es, "window")
    BY <1>1, SplitEntries, Zenon
  <1>8. ASSUME NEW v \in Values(frame.entries, "window") \ Values(b, "window")
        PROVE  v + (c.window - c.initial) <= MaxWindow
    <2>1. CASE v \notin Values(es, "window")
      BY <1>8, <2>1, Zenon DEF Owed
    <2>2. CASE v \in Values(es, "window")
      <3>1. v \in Values(a, "window")
        BY <1>7, <2>2, Zenon DEF Splits
      <3>2. PICK j \in Positions(a, "window") : v = a[j].value
        BY <3>1, Zenon DEF Values
      <3>3. j \in 1 .. n /\ a[j] = es[j] /\ j \in DOMAIN es
        <4>1. j \in DOMAIN a
          BY <3>2, Zenon DEF Positions
        <4> QED
          BY <1>1, <1>2, <4>1
      <3>4. j \in Positions(es, "window")
        BY <3>2, <3>3, Zenon DEF Positions
      <3>5. f[j + 1].window = es[j].value + (c.window - c.initial)
        BY <1>1, <3>4, ReplayWindow, Zenon
      <3>6. ~(f[j + 1].window > MaxWindow)
        BY <3>3, Zenon DEF Overflows
      <3>7. f[j + 1].window \in Int /\ MaxWindow \in Int
        <4>1. j \in 0 .. m
          BY <1>1, <1>2, <3>3
        <4>2. f[j + 1] \in H2Loose
          BY <1>1, <4>1, ReplayType, Zenon
        <4>3. MaxWindow \in Int
          BY BoundsAssumption
        <4> QED
          BY <4>2, <4>3, LooseType, Zenon DEF H2Type
      <3>8. f[j + 1].window <= MaxWindow
        <4> HIDE DEF f
        <4> QED
          BY <3>6, <3>7
      <3> QED
        BY <3>2, <3>3, <3>5, <3>8, Zenon
    <2> QED
      BY <2>1, <2>2
  <1> HIDE DEF a, b, m, f, r
  <1>9. /\ r.table = Latest(a, "table", c.table) /\ r.initial = Latest(a, "window", c.initial)
        /\ r.window - r.initial = c.window - c.initial
        /\ Range(r.changes) = Range(c.changes) \cup Values(a, "table")
        /\ InStep(r, d)
    BY <1>3, Zenon DEF Applied
  <1>10. /\ NoneRepeated(b, r.table)
         /\ Latest(b, "table", r.table) = Latest(frame.entries, "table", frame.table)
         /\ Latest(b, "window", r.initial) = Latest(frame.entries, "window", frame.initial)
    BY <1>4, <1>6, <1>9, ZenonT(30) DEF Owed
  <1>11. /\ Values(b, "window") \subseteq Values(frame.entries, "window")
         /\ Values(frame.entries, "table")
              \subseteq Range(r.changes) \cup {d.size} \cup Values(b, "table")
    BY <1>7, <1>9, Zenon DEF Owed, Splits
  <1>12. d.last = frame.table /\ r.window - r.initial = frame.window - frame.initial
    BY <1>9, Zenon DEF Owed
  <1>13. Owed(r, d, b, frame)
    BY <1>4, <1>8, <1>9, <1>10, <1>11, <1>12, Zenon DEF Owed
  <1>14. Len(r.changes) + Count(b, "table") <= Len(c.changes) + Count(es, "table")
    <2>1. Len(r.changes) <= Len(c.changes) + Count(a, "table")
      BY <1>3, Zenon DEF Applied
    <2>2. Count(a, "table") + Count(b, "table") <= Count(es, "table")
      BY <1>7, Zenon DEF Splits
    <2>3. Count(a, "table") \in Nat /\ Count(b, "table") \in Nat /\ Count(es, "table") \in Nat
      BY <1>1, <1>4, CountType
    <2>4. c.changes \in Seq(0 .. MaxTable) /\ r.changes \in Seq(0 .. MaxTable)
      BY <1>3, LooseType, Zenon DEF Applied, H2Type
    <2>5. Len(c.changes) \in Nat /\ Len(r.changes) \in Nat
      BY <2>4
    <2> QED
      BY <2>1, <2>2, <2>3, <2>5
  <1> QED
    BY <1>9, <1>13, <1>14, Zenon DEF r, f, b, m

\* A frame whose entries are applied at once fails only for one of its windows;
\* otherwise nothing is left of it.
LEMMA AtOnceOwed ==
  ASSUME NEW c \in H2Loose, c.window <= MaxWindow, NEW d, PeerType(d), InStep(c, d),
         NEW es, NEW frame, Owed(c, d, es, frame), Distinct(es)
  PROVE  LET r == ReceiveSettings(c, es)
         IN /\ Overflows(r) => ~Fits(frame)
            /\ H2Type(r) /\ InStep(r, d) /\ Range(c.changes) \subseteq Range(r.changes)
            /\ ~Overflows(r) => Owed(r, d, << >>, frame)
            /\ Len(r.changes) <= Len(c.changes) + Count(es, "table")
  <1> DEFINE r == ReceiveSettings(c, es)
             granted == c.window - c.initial
  <1>1. es \in Seq(Entries) /\ NoneRepeated(es, c.table)
    BY KnownType DEF Owed
  <1>2. H2Type(c)
    BY LooseType
  <1>3. Applied(r, c, d, es)
    BY <1>1, <1>2, AtOnceApplied, Zenon
  <1> HIDE DEF r
  <1>4. /\ r.window \in Int /\ r.initial \in 0 .. MaxWindow /\ r.window - r.initial = granted
        /\ c.window \in Int /\ c.initial \in 0 .. MaxWindow /\ MaxWindow \in Nat
    <2>1. MaxWindow \in Nat
      BY BoundsAssumption
    <2> QED
      BY <1>2, <1>3, <2>1, Zenon DEF Applied, H2Type
  <1>5. r.initial = Latest(es, "window", c.initial)
    BY <1>3, Zenon DEF Applied
  <1>6. granted = frame.window - frame.initial
    BY Zenon DEF Owed
  <1>7. r.initial \in {c.initial} \cup Values(es, "window")
    BY <1>1, <1>5, LatestIn
  <1>8. ASSUME Overflows(r) PROVE ~Fits(frame)
    <2>1. r.window > MaxWindow
      BY <1>8, Zenon DEF Overflows
    <2>2. r.initial # c.initial /\ ~(r.initial + granted <= MaxWindow)
      BY <1>4, <2>1
    <2>3. r.initial \in Values(frame.entries, "window")
      BY <1>7, <2>2, Zenon DEF Owed
    <2> HIDE DEF granted
    <2> QED
      BY <1>6, <2>2, <2>3, Zenon DEF Fits
  <1>9. ASSUME ~Overflows(r) PROVE Owed(r, d, << >>, frame)
    <2>1. r.window <= MaxWindow
      <3>1. ~(r.window > MaxWindow)
        BY <1>9, Zenon DEF Overflows
      <3> QED
        BY <1>4, <3>1
    <2>2. r.initial + granted <= MaxWindow
      BY <1>4, <2>1
    <2>3. ASSUME NEW v \in Values(es, "window") PROVE v = r.initial
      <3>1. PICK p \in Positions(es, "window") : v = es[p].value
        BY <2>3, Zenon DEF Values
      <3>2. \A q \in Positions(es, "window") : q = p
        BY <1>1, DistinctPositions, Zenon
      <3>3. PICK q \in Positions(es, "window") : Latest(es, "window", c.initial) = es[q].value
        BY <1>1, <3>1, LatestCases
      <3> QED
        BY <1>5, <3>1, <3>2, <3>3, Zenon
    <2>4. ASSUME NEW v \in Values(frame.entries, "window")
          PROVE  v + (r.window - r.initial) <= MaxWindow
      <3>1. v + granted <= MaxWindow
        BY <2>2, <2>3, Zenon DEF Owed
      <3> QED
        BY <1>4, <3>1, Zenon
    <2>5. << >> \in Seq(Known) /\ NoneRepeated(<< >>, r.table)
      <3>1. Positions(<< >>, "table") = {}
        BY NoEntries
      <3>2. << >> \in Seq(Known)
        OBVIOUS
      <3> QED
        BY <3>1, <3>2, Zenon DEF NoneRepeated
    <2>6. /\ Latest(<< >>, "table", r.table) = r.table
          /\ Latest(<< >>, "window", r.initial) = r.initial
          /\ Values(<< >>, "table") = {} /\ Values(<< >>, "window") = {}
      BY NoEntries
    <2>7. /\ r.table = Latest(frame.entries, "table", frame.table)
          /\ r.initial = Latest(frame.entries, "window", frame.initial)
      BY <1>3, Zenon DEF Applied, Owed
    <2>8. d.last = frame.table /\ r.window - r.initial = frame.window - frame.initial
      BY <1>4, <1>6, Zenon DEF Owed
    <2>9. Values(frame.entries, "table") \subseteq Range(r.changes) \cup {d.size}
      BY <1>3, Zenon DEF Applied, Owed
    <2> QED
      BY <2>4, <2>5, <2>6, <2>7, <2>8, <2>9, ZenonT(30) DEF Owed
  <1> QED
    BY <1>3, <1>8, <1>9, Zenon DEF Applied, r

\* When nothing is left of a frame it has had its effect.
LEMMA NothingOwed ==
  ASSUME NEW c, NEW d, NEW frame, Owed(c, d, << >>, frame)
  PROVE  /\ Fits(frame)
         /\ c.table = Latest(frame.entries, "table", frame.table)
         /\ c.initial = Latest(frame.entries, "window", frame.initial)
         /\ Values(frame.entries, "table") \subseteq Range(c.changes) \cup {d.size}
  <1>1. /\ \A old : Latest(<< >>, "table", old) = old
        /\ \A old : Latest(<< >>, "window", old) = old
        /\ Values(<< >>, "table") = {} /\ Values(<< >>, "window") = {}
    BY NoEntries
  <1>2. Fits(frame)
    BY <1>1, ZenonT(30) DEF Fits, Owed
  <1>3. /\ c.table = Latest(frame.entries, "table", frame.table)
        /\ c.initial = Latest(frame.entries, "window", frame.initial)
        /\ Values(frame.entries, "table") \subseteq Range(c.changes) \cup {d.size}
    BY <1>1, ZenonT(30) DEF Owed
  <1> QED
    BY <1>2, <1>3

\* The peer sees the acknowledgement of a frame of which nothing is left.
LEMMA PeerSees ==
  ASSUME NEW c, NEW d, H2Type(c), PeerType(d), InStep(c, d), Covered(c, d), NEW frame,
         Owed(c, d, << >>, frame), frame.entries \in Seq(Entries), NEW e,
         e = [d EXCEPT !.least = Min(Values(frame.entries, "table") \cup {@}),
                       !.last = Latest(frame.entries, "table", @)]
  PROVE  PeerType(e) /\ InStep(c, e) /\ Covered(c, e) /\ c.table = e.last
  <1> DEFINE V == Values(frame.entries, "table")
             least == Min(V \cup {d.least})
             last == Latest(frame.entries, "table", d.last)
  <1>1. e = [d EXCEPT !.least = least, !.last = last]
    OBVIOUS
  <1>2. V \subseteq 0 .. MaxTable
    BY ValuesType
  <1>3. last = c.table /\ last \in 0 .. MaxTable
    <2>1. d.last = frame.table
      BY Zenon DEF Owed
    <2>2. c.table = Latest(frame.entries, "table", frame.table)
      BY NothingOwed
    <2>3. c.table \in 0 .. MaxTable
      BY DEF H2Type
    <2> QED
      BY <2>1, <2>2, <2>3, Zenon
  <1> HIDE DEF V
  <1>4. d.least \in 0 .. MaxTable
    BY DEF PeerType
  <1>5. least \in V \cup {d.least}
    <2>1. V \cup {d.least} \in SUBSET Nat /\ V \cup {d.least} # {}
      BY <1>2, <1>4, BoundsAssumption
    <2> QED
      BY <2>1, MinOf
  <1> HIDE DEF least, last
  <1>6. least \in 0 .. MaxTable
    BY <1>2, <1>4, <1>5, Zenon
  <1>7. e \in [stored : Seq(Nat), size : 0 .. MaxTable, least : 0 .. MaxTable, last : 0 .. MaxTable]
    BY <1>1, <1>3, <1>6 DEF PeerType
  <1>8. e.stored = d.stored /\ e.size = d.size /\ e.least = least /\ e.last = last
    BY <1>1 DEF PeerType
  <1>9. InStep(c, e)
    BY <1>8, Zenon DEF InStep
  <1>10. Covered(c, e)
    <2>1. CASE least = d.least
      BY <1>8, <2>1, Zenon DEF Covered
    <2>2. CASE least \in V
      <3>1. least \in Range(c.changes) \cup {d.size}
        BY <2>2, NothingOwed DEF V
      <3>2. least <= least
        BY <1>6
      <3> QED
        BY <1>8, <3>1, <3>2, Zenon DEF Covered
    <2> QED
      BY <1>5, <2>1, <2>2
  <1> QED
    BY <1>3, <1>7, <1>8, <1>9, <1>10, Zenon DEF PeerType

-----------------------------------------------------------------------------
(* The calls of apply_settings *)

\* Two records hold the same state of h2.
SameH2(c, r) ==
  /\ c.table = r.table /\ c.initial = r.initial /\ c.window = r.window
  /\ c.changes = r.changes /\ c.resized = r.resized /\ c.stored = r.stored

\* What the invariant says of one it says of the other.
LEMMA SameFacts ==
  ASSUME NEW c, NEW r, SameH2(c, r), NEW d, NEW es, NEW frame
  PROVE  /\ InStep(r, d) => InStep(c, d)
         /\ Covered(r, d) => Covered(c, d)
         /\ Owed(r, d, es, frame) => Owed(c, d, es, frame)
  <1>1. InStep(r, d) => InStep(c, d)
    BY Zenon DEF SameH2, InStep
  <1>2. Covered(r, d) => Covered(c, d)
    BY Zenon DEF SameH2, Covered
  <1>3. Owed(r, d, es, frame) => Owed(c, d, es, frame)
    BY ZenonT(30) DEF SameH2, Owed
  <1> QED
    BY <1>1, <1>2, <1>3

\* The variables that hold the state of h2, before and after a step that sets it.
LEMMA CurrentIs ==
  /\ Current.table = table /\ Current.initial = initial /\ Current.window = window
  /\ Current.changes = changes /\ Current.resized = resized /\ Current.stored = stored
  BY DEF Current

\* A step that sets the state of h2 leaves the variables with it.
LEMMA CurrentNext ==
  ASSUME NEW r, SetH2(r)
  PROVE  SameH2(Current', r) /\ changes' = r.changes /\ table' = r.table /\ initial' = r.initial
  BY DEF SetH2, SameH2, Current

\* A state of h2 that does not overflow is one the variables may have.
LEMMA CurrentType ==
  ASSUME NEW r, SetH2(r), H2Type(r), ~Overflows(r)
  PROVE  Current' \in H2States
  <1>1. MaxWindow \in Int
    BY BoundsAssumption
  <1>2. r.window \in {w \in Int : w <= MaxWindow}
    <2>1. r.window \in Int
      BY DEF H2Type
    <2>2. ~(r.window > MaxWindow)
      BY DEF Overflows
    <2>3. r.window <= MaxWindow
      BY <1>1, <2>1, <2>2
    <2> QED
      BY <2>1, <2>3, Zenon
  <1>3. /\ r.table \in 0 .. MaxTable /\ r.initial \in 0 .. MaxWindow
        /\ r.changes \in Seq(0 .. MaxTable) /\ r.resized \in BOOLEAN /\ r.stored \in Seq(Nat)
    BY Zenon DEF H2Type
  <1>4. Current' = [table |-> r.table, initial |-> r.initial, window |-> r.window,
                    changes |-> r.changes, resized |-> r.resized, stored |-> r.stored]
    BY Zenon DEF SetH2, Current
  <1> QED
    BY <1>2, <1>3, <1>4, Zenon DEF H2States

\* A state of h2 that is not in error.
LEMMA StateType ==
  ASSUME NEW c \in H2States
  PROVE  c \in H2Loose /\ H2Type(c) /\ c.window <= MaxWindow
  <1>1. c \in H2Loose /\ c.window <= MaxWindow
    BY DEF H2States, H2Loose
  <1> QED
    BY <1>1, LooseType

\* What a call of apply_settings meets and what it leaves: it fails for an
\* overflow, yields with entries left, or has had its effect.
Meets ==
  /\ Current \in H2States /\ PeerType(peer)
  /\ InStep(Current, peer) /\ Covered(Current, peer)
  /\ out = << >>
  /\ due'.entries \in Seq(Entries)

Settled(es) ==
  /\ Current' \in H2States /\ PeerType(peer') /\ left' \in Seq(Known)
  /\ InStep(Current', peer') /\ Covered(Current', peer')
  /\ out' = << >>
  /\ Len(changes') + Count(left', "table") <= Len(changes) + Count(es, "table")
  /\ \/ pc' = "failed" /\ acks' = acks /\ ~Fits(due')
     \/ /\ pc' = "replay" /\ acks' = acks
        /\ left' # << >> /\ Owed(Current', peer', left', due')
     \/ /\ pc' = "idle" /\ acks' = acks + 1 /\ Fits(due') /\ table' = peer'.last
        /\ table' = Latest(due'.entries, "table", due'.table)
        /\ initial' = Latest(due'.entries, "window", due'.initial)

\* A GOAWAY leaves the state of h2 as it is.
LEMMA FailSettled ==
  ASSUME NEW es \in Seq(Known), Meets, Fail, ~Fits(due')
  PROVE  Settled(es)
  <1>1. /\ pc' = "failed" /\ left' = << >> /\ out' = << >> /\ acks' = acks /\ peer' = peer
        /\ table' = table /\ initial' = initial /\ window' = window
        /\ changes' = changes /\ resized' = resized /\ stored' = stored
    BY DEF Fail, h2Vars
  <1>2. Current' = Current
    BY <1>1, Zenon DEF Current
  <1>3. Count(es, "table") \in Nat /\ Count(<< >>, "table") = 0
    BY CountType, NoEntries
  <1>4. Len(changes) \in Nat
    <2>1. Current.changes \in Seq(0 .. MaxTable)
      BY StateType, Zenon DEF Meets, H2Type
    <2>2. changes \in Seq(0 .. MaxTable)
      BY <2>1, CurrentIs, Zenon
    <2> QED
      BY <2>2
  <1>5. Len(changes) + 0 <= Len(changes) + Count(es, "table")
    BY <1>3, <1>4
  <1>6. Len(changes') + Count(left', "table") <= Len(changes) + Count(es, "table")
    BY <1>1, <1>3, <1>5, Zenon
  <1>7. << >> \in Seq(Known)
    OBVIOUS
  <1> QED
    BY <1>1, <1>2, <1>6, <1>7, Zenon DEF Settled, Meets

\* One acknowledgement is written, and the peer takes the limits.
LEMMA FlushAck ==
  ASSUME NEW queue, queue = << >>, Flush(Append(queue, "ack"))
  PROVE  /\ out' = << >> /\ acks' = acks + 1
         /\ peer' = [peer EXCEPT !.least = Min(Values(due'.entries, "table") \cup {@}),
                                 !.last = Latest(due'.entries, "table", @)]
  <1> DEFINE q == Append(queue, "ack")
  <1>1. q = <<"ack">>
    OBVIOUS
  <1>2. DOMAIN q = {1} /\ q[1] = "ack"
    BY <1>1
  <1> HIDE DEF q
  <1>3. Acknowledgements(q) = 1
    <2>1. {i \in DOMAIN q : q[i] = "ack"} = {1}
      BY <1>2, Zenon
    <2>2. Cardinality({1}) = 1
      BY FS_Singleton
    <2> QED
      BY <2>1, <2>2, Zenon DEF Acknowledgements
  <1>4. "ack" \in Range(q)
    BY <1>2, Zenon DEF Range
  <1>5. Flush(q)
    BY DEF q
  <1> QED
    BY <1>3, <1>4, <1>5, Zenon DEF Flush

\* Nothing is left of the frame.
LEMMA AckSettled ==
  ASSUME NEW es \in Seq(Known), Meets, NEW r, H2Type(r), ~Overflows(r), InStep(r, peer),
         Range(changes) \subseteq Range(r.changes), Owed(r, peer, << >>, due'),
         Len(r.changes) <= Len(changes) + Count(es, "table"),
         SetH2(r), NEW queue, queue = << >>, Flush(Append(queue, "ack")),
         pc' = "idle", left' = << >>
  PROVE  Settled(es)
  <1>1. out' = << >> /\ acks' = acks + 1
    BY FlushAck, Zenon
  <1>2. peer' = [peer EXCEPT !.least = Min(Values(due'.entries, "table") \cup {@}),
                             !.last = Latest(due'.entries, "table", @)]
    BY FlushAck, Zenon
  <1>3. SameH2(Current', r) /\ changes' = r.changes /\ table' = r.table /\ initial' = r.initial
    BY CurrentNext
  <1>4. Current' \in H2States
    BY CurrentType
  <1>5. Covered(r, peer)
    <2>1. Covered(Current, peer) /\ Current.changes = changes
      BY CurrentIs DEF Meets
    <2> QED
      BY <2>1, Zenon DEF Covered
  <1>6. PeerType(peer') /\ InStep(r, peer') /\ Covered(r, peer') /\ r.table = peer'.last
    <2>1. PeerType(peer) /\ due'.entries \in Seq(Entries)
      BY DEF Meets
    <2> DEFINE frame == due'
    <2>2. Owed(r, peer, << >>, frame) /\ frame.entries \in Seq(Entries)
      BY <2>1
    <2>3. peer' = [peer EXCEPT !.least = Min(Values(frame.entries, "table") \cup {@}),
                               !.last = Latest(frame.entries, "table", @)]
      BY <1>2
    <2> HIDE DEF frame
    <2> QED
      BY <1>5, <2>1, <2>2, <2>3, PeerSees, ZenonT(30)
  <1>7. InStep(Current', peer') /\ Covered(Current', peer')
    BY <1>3, <1>6, SameFacts, Zenon
  <1>8. /\ Fits(due')
        /\ r.table = Latest(due'.entries, "table", due'.table)
        /\ r.initial = Latest(due'.entries, "window", due'.initial)
    BY NothingOwed, Zenon
  <1>9. Len(changes') + Count(left', "table") <= Len(changes) + Count(es, "table")
    <2>1. Count(<< >>, "table") = 0
      BY NoEntries
    <2>2. r.changes \in Seq(0 .. MaxTable)
      BY DEF H2Type
    <2>3. Len(r.changes) \in Nat
      BY <2>2
    <2>4. Len(r.changes) + 0 = Len(r.changes)
      BY <2>3
    <2> QED
      BY <1>3, <2>1, <2>4, Zenon
  <1>10. << >> \in Seq(Known)
    OBVIOUS
  <1> QED
    BY <1>1, <1>3, <1>4, <1>6, <1>7, <1>8, <1>9, <1>10, Zenon DEF Settled

\* All entries in one frame.
LEMMA AtOnceSettled ==
  ASSUME NEW es, Meets, Owed(Current, peer, es, due'), Distinct(es), ApplyAtOnce(es)
  PROVE  Settled(es)
  <1> DEFINE r == ReceiveSettings(Current, es)
  <1>1. es \in Seq(Known)
    BY DEF Owed
  <1>2. Current \in H2Loose /\ Current.window <= MaxWindow /\ PeerType(peer) /\ InStep(Current, peer)
    BY StateType, Zenon DEF Meets
  <1>3. /\ Overflows(r) => ~Fits(due')
        /\ H2Type(r) /\ InStep(r, peer) /\ Range(Current.changes) \subseteq Range(r.changes)
        /\ ~Overflows(r) => Owed(r, peer, << >>, due')
        /\ Len(r.changes) <= Len(Current.changes) + Count(es, "table")
    BY <1>2, AtOnceOwed, Zenon
  <1> HIDE DEF r
  <1>4. CASE Overflows(r)
    <2>1. Fail
      BY <1>4, Zenon DEF ApplyAtOnce, r
    <2> QED
      BY <1>1, <1>3, <1>4, <2>1, FailSettled, Zenon
  <1>5. CASE ~Overflows(r)
    <2>1. SetH2(r) /\ Flush(Append(out, "ack")) /\ pc' = "idle" /\ left' = << >>
      BY <1>5, Zenon DEF ApplyAtOnce, r
    <2>2. /\ Range(changes) \subseteq Range(r.changes)
          /\ Len(r.changes) <= Len(changes) + Count(es, "table")
      BY <1>3, CurrentIs, Zenon
    <2>3. out = << >>
      BY DEF Meets
    <2> QED
      BY <1>1, <1>3, <1>5, <2>1, <2>2, <2>3, AckSettled, Zenon
  <1> QED
    BY <1>4, <1>5
\* A frame for each entry.
LEMMA EachSettled ==
  ASSUME NEW es, Meets, Owed(Current, peer, es, due'), ApplyEach(es)
  PROVE  Settled(es)
  <1> DEFINE m == Len(es)
             n == IF m <= BatchSize THEN m ELSE BatchSize
             f == Replay(Current, es)
             r == f[n + 1]
             b == SubSeq(es, n + 1, m)
             queued(i) == IF i = 1 THEN out ELSE << >>
             unexpected == \E i \in 1 .. n : i < m /\ queued(i) # << >>
  <1>1. es \in Seq(Known) /\ es \in Seq(Entries) /\ NoneRepeated(es, Current.table)
    BY KnownType DEF Owed
  <1>2. m \in Nat /\ n \in 0 .. m
    <2>1. m \in Nat
      BY <1>1
    <2> HIDE DEF m
    <2> QED
      BY <2>1, BoundsAssumption
  <1>3. /\ Current \in H2Loose /\ Current.window <= MaxWindow /\ H2Type(Current)
        /\ PeerType(peer) /\ InStep(Current, peer) /\ out = << >>
    BY StateType, Zenon DEF Meets
  <1>4. \A i : queued(i) = << >>
    BY <1>3, Zenon
  <1>5. ~unexpected
    BY <1>4, Zenon
  <1>6. \/ (\E i \in 1 .. n : Overflows(f[i + 1])) /\ Fail
        \/ /\ \A i \in 1 .. n : ~Overflows(f[i + 1])
           /\ SetH2(r) /\ left' = b
           /\ \/ n < m /\ pc' = "replay" /\ out' = << >> /\ UNCHANGED <<acks, peer>>
              \/ n = m /\ pc' = "idle" /\ Flush(Append(queued(n), "ack"))
    <2> HIDE DEF queued
    <2> QED
      BY <1>5, Zenon DEF ApplyEach, queued
  <1> HIDE DEF unexpected
  <1>7. CASE (\E i \in 1 .. n : Overflows(f[i + 1])) /\ Fail
    <2>1. PICK i \in 1 .. n : Overflows(f[i + 1])
      BY <1>7
    <2>2. i \in 1 .. Len(es)
      <3> HIDE DEF n
      <3> QED
        BY <1>2, <2>1
    <2>3. ~Fits(due')
      BY <1>3, <2>1, <2>2, ReplayOverflow, Zenon
    <2> QED
      BY <1>1, <1>7, <2>3, FailSettled, Zenon
  <1>8. CASE /\ \A i \in 1 .. n : ~Overflows(f[i + 1])
             /\ SetH2(r) /\ left' = b
             /\ \/ n < m /\ pc' = "replay" /\ out' = << >> /\ UNCHANGED <<acks, peer>>
                \/ n = m /\ pc' = "idle" /\ Flush(Append(queued(n), "ack"))
    <2>1. n \in 0 .. Len(es) /\ \A i \in 1 .. n : ~Overflows(Replay(Current, es)[i + 1])
      BY <1>2, <1>8, Zenon
    <2> HIDE DEF n
    <2>2. /\ InStep(r, peer) /\ Range(Current.changes) \subseteq Range(r.changes)
          /\ Owed(r, peer, b, due')
          /\ Len(r.changes) + Count(b, "table") <= Len(Current.changes) + Count(es, "table")
      BY <1>3, <2>1, ReplayOwed, Zenon
    <2>3. r \in H2Loose
      BY <1>1, <1>2, <1>3, ReplayType, Zenon
    <2>4. H2Type(r)
      BY <2>3, LooseType
    <2>5. ~Overflows(r)
      <3>1. CASE n = 0
        <4>1. r = Current
          <5>1. f[1] = Current
            BY <1>1, <1>3, ReplayLoop, Zenon DEF IsReplay
          <5>2. n + 1 = 1
            BY <3>1
          <5> QED
            BY <5>1, <5>2, Zenon
        <4>2. Current.window \in Int /\ MaxWindow \in Int
          BY <1>3, BoundsAssumption DEF H2Type
        <4>3. ~(Current.window > MaxWindow)
          BY <1>3, <4>2
        <4> QED
          BY <4>1, <4>3, Zenon DEF Overflows
      <3>2. CASE n # 0
        <4>1. n \in 1 .. n
          BY <1>2, <3>2
        <4> QED
          BY <1>8, <4>1, Zenon
      <3> QED
        BY <3>1, <3>2
    <2>6. SameH2(Current', r) /\ changes' = r.changes /\ Current' \in H2States
      BY <1>8, <2>4, <2>5, CurrentNext, CurrentType, Zenon
    <2>7. Covered(r, peer)
      <3>1. Covered(Current, peer)
        BY DEF Meets
      <3> QED
        BY <2>2, <3>1, Zenon DEF Covered
    <2>8. Current.changes = changes
      BY CurrentIs
    <2> HIDE DEF r, f
    <2>9. /\ n < m => b # << >>
          /\ n = m => b = << >>
      BY <1>1, <2>1, RestOfEntries, Zenon
    <2>10. b \in Seq(Known)
      BY <2>2, Zenon DEF Owed
    <2> HIDE DEF b
    <2>11. CASE n < m /\ pc' = "replay" /\ out' = << >> /\ UNCHANGED <<acks, peer>>
      <3>1. acks' = acks /\ peer' = peer /\ left' = b
        BY <1>8, <2>11
      <3>2. /\ InStep(Current', peer) /\ Covered(Current', peer)
            /\ Owed(Current', peer, b, due')
        BY <2>2, <2>6, <2>7, SameFacts, Zenon
      <3>3. Len(changes') + Count(left', "table") <= Len(changes) + Count(es, "table")
        BY <2>2, <2>6, <2>8, <3>1, Zenon
      <3> QED
        BY <1>3, <2>6, <2>9, <2>10, <2>11, <3>1, <3>2, <3>3, Zenon DEF Settled
    <2>12. CASE n = m /\ pc' = "idle" /\ Flush(Append(queued(n), "ack"))
      <3>1. b = << >>
        BY <2>9, <2>12, Zenon
      <3>2. Count(b, "table") = 0
        BY <3>1, NoEntries, Zenon
      <3>3. r.changes \in Seq(0 .. MaxTable)
        BY <2>4 DEF H2Type
      <3>4. Len(r.changes) \in Nat
        BY <3>3
      <3>5. Len(r.changes) + 0 = Len(r.changes)
        BY <3>4
      <3>6. Len(r.changes) <= Len(changes) + Count(es, "table")
        BY <2>2, <2>8, <3>2, <3>5, Zenon
      <3>7. /\ Range(changes) \subseteq Range(r.changes) /\ Owed(r, peer, << >>, due')
            /\ SetH2(r) /\ left' = << >>
        BY <1>8, <2>2, <2>8, <3>1, Zenon
      <3> DEFINE q == queued(n)
      <3>8. q = << >> /\ Flush(Append(q, "ack"))
        BY <1>4, <2>12
      <3> HIDE DEF q
      <3> QED
        BY <1>1, <2>2, <2>4, <2>5, <2>12, <3>6, <3>7, <3>8, AckSettled, Zenon
    <2> QED
      BY <1>8, <2>11, <2>12, Zenon
  <1> QED
    BY <1>6, <1>7, <1>8, Zenon

\* The state is as SettingsInv says after a call of apply_settings.
LEMMA SettledInv ==
  ASSUME NEW es, Settled(es), budget' \in 0 .. MaxTableChanges,
         Len(changes) + Count(es, "table") <= budget', es \in Seq(Known), changes \in Seq(0 .. MaxTable),
         acks \in Int, frames' \in Nat, acks = frames' - 1, blocks' \in Nat,
         due' \in [entries : Seq(Entries), table : 0 .. MaxTable, initial : 0 .. MaxWindow,
                   window : {w \in Int : w <= MaxWindow}]
  PROVE  SettingsInv'
  <1>1. /\ Current' \in H2States /\ PeerType(peer') /\ left' \in Seq(Known)
        /\ InStep(Current', peer') /\ Covered(Current', peer')
        /\ out' = << >>
        /\ Len(changes') + Count(left', "table") <= Len(changes) + Count(es, "table")
        /\ \/ pc' = "failed" /\ acks' = acks /\ ~Fits(due')
           \/ /\ pc' = "replay" /\ acks' = acks
              /\ left' # << >> /\ Owed(Current', peer', left', due')
           \/ /\ pc' = "idle" /\ acks' = acks + 1 /\ Fits(due') /\ table' = peer'.last
              /\ table' = Latest(due'.entries, "table", due'.table)
              /\ initial' = Latest(due'.entries, "window", due'.initial)
    BY Zenon DEF Settled
  <1>2. Len(changes') + Count(left', "table") <= budget'
    <2> DEFINE a == Len(changes')
               b == Count(left', "table")
               c == Len(changes)
               d == Count(es, "table")
    <2>1. c \in Nat
      OBVIOUS
    <2>2. d \in Nat /\ b \in Nat
      BY <1>1, CountType, Zenon
    <2>3. changes' \in Seq(0 .. MaxTable)
      BY <1>1 DEF H2States, Current
    <2>4. a \in Nat
      BY <2>3
    <2>5. a + b <= c + d /\ c + d <= budget' /\ budget' \in Nat
      BY <1>1, BoundsAssumption
    <2> HIDE DEF a, b, c, d
    <2>6. a + b <= budget'
      BY <2>1, <2>2, <2>4, <2>5
    <2> QED
      BY <2>6 DEF a, b
  <1>3. pc' \in {"idle", "replay", "failed"}
    BY <1>1, Zenon
  <1>4. TypeOK'
    <2>1. acks' \in Int
      BY <1>1
    <2>2. peer' \in [stored : Seq(Nat), size : 0 .. MaxTable, least : 0 .. MaxTable,
                     last : 0 .. MaxTable]
      BY <1>1, Zenon DEF PeerType
    <2> QED
      BY <1>1, <1>3, <2>1, <2>2, Zenon DEF TypeOK
  <1>5. /\ pc' = "idle" => acks' = frames' /\ table' = peer'.last
        /\ pc' \in {"replay", "failed"} => acks' = frames' - 1 /\ acks' # frames'
        /\ pc' # "ended"
    <2>1. \A k \in Nat : (k - 1) + 1 = k /\ k - 1 # k
      OBVIOUS
    <2>2. (frames' - 1) + 1 = frames' /\ frames' - 1 # frames'
      BY <2>1, Zenon
    <2> QED
      BY <1>1, <2>2, Zenon
  <1>6. WireOrder'
    <2>1. CASE pc' = "idle"
      BY <1>1, <2>1, Zenon DEF WireOrder
    <2>2. CASE pc' = "replay"
      BY <1>5, <2>2, Zenon DEF WireOrder
    <2>3. CASE pc' = "failed"
      <3>1. ~Fits(due')
        BY <1>1, <2>3
      <3> QED
        BY <1>5, <2>3, <3>1, Zenon DEF WireOrder
    <2> QED
      BY <1>3, <2>1, <2>2, <2>3
  <1>7. pc' = "replay" => left' # << >> /\ Owed(Current', peer', left', due')
    BY <1>1
  <1> QED
    BY <1>1, <1>2, <1>3, <1>4, <1>5, <1>6, <1>7, Zenon DEF SettingsInv

\* What apply_settings keeps of a frame leads to what the frame asks for.
LEMMA WorkOwed ==
  ASSUME SettingsInv, NEW es \in Seq(Entries), NEW work \in Seq(Known), Follows(work, es, table),
         NEW frame, peer.last = table,
         frame = [entries |-> es, table |-> table, initial |-> initial, window |-> window]
  PROVE  Owed(Current, peer, work, frame)
  <1>1. /\ frame.entries = es /\ frame.table = table /\ frame.initial = initial
        /\ frame.window = window
    OBVIOUS
  <1>2. table \in Range(changes) \cup {peer.size}
    <2>1. /\ table = InForce(changes, peer.size) /\ changes \in Seq(0 .. MaxTable)
      BY CurrentIs, StateType DEF SettingsInv, TypeOK, InStep, H2Type
    <2>2. CASE changes = << >>
      BY <2>1, <2>2, Zenon DEF InForce
    <2>3. CASE changes # << >>
      BY <2>1, <2>3, ChangesType, Zenon
    <2> QED
      BY <2>2, <2>3, Zenon
  <1>3. Values(es, "table") \subseteq Range(changes) \cup {peer.size} \cup Values(work, "table")
    BY <1>2, Zenon DEF Follows
  <1>4. Values(work, "window") = Values(es, "window")
    BY Zenon DEF Follows
  <1>5. /\ Latest(work, "table", table) = Latest(es, "table", table)
        /\ Latest(work, "window", initial) = Latest(es, "window", initial)
        /\ NoneRepeated(work, table)
    BY Zenon DEF Follows
  <1>6. /\ Values(work, "window") \subseteq Values(es, "window")
        /\ \A v \in Values(es, "window") \ Values(work, "window") :
             v + (window - initial) <= MaxWindow
    BY <1>4, Zenon
  <1> QED
    BY <1>1, <1>3, <1>5, <1>6, CurrentIs, ZenonT(30) DEF Owed

\* A SETTINGS frame.
LEMMA SettingsStep ==
  ASSUME SettingsInv, NEW n \in 0 .. MaxEntries, NEW es \in [1 .. n -> Entries], Settings(es)
  PROVE  SettingsInv'
  <1> DEFINE work == Working(es)
             k == Count(work, "table")
  <1>1. es \in Seq(Entries)
    <2>1. n \in Nat
      BY BoundsAssumption
    <2> QED
      BY <2>1
  <1>2. /\ Current \in H2States /\ PeerType(peer) /\ budget \in 0 .. MaxTableChanges
        /\ acks \in Int /\ frames \in Nat /\ blocks \in Nat
        /\ InStep(Current, peer) /\ Covered(Current, peer)
        /\ Len(changes) + Count(left, "table") <= budget
    BY Zenon DEF SettingsInv, TypeOK, PeerType
  <1>3. pc = "idle" /\ frames' = frames + 1 /\ blocks' = blocks
    BY DEF Settings
  <1>4. out = << >> /\ acks = frames /\ table = peer.last
    BY <1>3, Zenon DEF SettingsInv
  <1>5. /\ table \in 0 .. MaxTable /\ initial \in 0 .. MaxWindow
        /\ window \in {w \in Int : w <= MaxWindow} /\ changes \in Seq(0 .. MaxTable)
    BY <1>2 DEF H2States, Current
  <1>6. work \in Seq(Known) /\ Follows(work, es, table)
    BY <1>1, <1>5, WorkingFollows, Zenon
  <1>7. due' = [entries |-> es, table |-> table, initial |-> initial, window |-> window]
    BY Zenon DEF Settings
  <1>8. /\ due'.entries = es
        /\ due' \in [entries : Seq(Entries), table : 0 .. MaxTable, initial : 0 .. MaxWindow,
                     window : {w \in Int : w <= MaxWindow}]
    BY <1>1, <1>5, <1>7
  <1>9. Meets
    BY <1>1, <1>2, <1>4, <1>8, Zenon DEF Meets
  <1>10. \/ Exceeded(k) /\ Fail /\ UNCHANGED budget
         \/ /\ ~Exceeded(k) /\ budget' = budget + k
            /\ IF Distinct(work) THEN ApplyAtOnce(work) ELSE ApplyEach(work)
    BY Zenon DEF Settings
  <1> HIDE DEF work
  <1>11. Owed(Current, peer, work, due')
    <2> DEFINE frame == due'
    <2>1. frame = [entries |-> es, table |-> table, initial |-> initial, window |-> window]
      BY <1>7
    <2> HIDE DEF frame
    <2>2. Owed(Current, peer, work, frame)
      BY <1>1, <1>4, <1>6, <2>1, WorkOwed, Zenon
    <2> QED
      BY <2>2 DEF frame
  <1>12. k \in Nat /\ Count(es, "table") \in Nat /\ k <= Count(es, "table")
    BY <1>1, <1>6, CountType, Zenon DEF Follows
  <1>13. Len(changes) \in Nat /\ Len(changes) <= budget
    <2>1. Len(changes) \in Nat
      BY <1>5
    <2>2. left \in Seq(Known)
      BY DEF SettingsInv, TypeOK
    <2>3. Count(left, "table") \in Nat
      BY <2>2, CountType, Zenon
    <2> QED
      BY <1>2, <2>1, <2>3, BoundsAssumption
  <1>14. acks = frames' - 1 /\ frames' \in Nat /\ blocks' \in Nat
    BY <1>2, <1>3, <1>4
  <1>15. CASE Exceeded(k) /\ Fail /\ UNCHANGED budget
    <2>1. /\ pc' = "failed" /\ left' = << >> /\ out' = << >> /\ acks' = acks /\ peer' = peer
          /\ changes' = changes /\ Current' = Current /\ budget' = budget
      BY <1>15, Zenon DEF Fail, h2Vars, Current
    <2>2. budget' + Count(due'.entries, "table") > MaxTableChanges
      <3>1. budget + k > MaxTableChanges
        BY <1>15 DEF Exceeded
      <3> DEFINE c == Count(es, "table")
      <3>2. c \in Nat /\ k <= c
        BY <1>12
      <3> HIDE DEF c, k
      <3>3. budget + c > MaxTableChanges
        <4>1. budget \in 0 .. MaxTableChanges /\ k \in Nat
          BY <1>2, <1>12, Zenon
        <4> QED
          BY <3>1, <3>2, <4>1, BoundsAssumption
      <3> QED
        BY <1>8, <2>1, <3>3, Zenon DEF c
    <2>3. acks' = frames' - 1 /\ acks' # frames'
      <3>1. \A m \in Nat : m - 1 # m
        OBVIOUS
      <3>2. frames' - 1 # frames'
        BY <1>14, <3>1, Zenon
      <3> QED
        BY <1>14, <2>1, <3>2, Zenon
    <2>4. WireOrder'
      BY <2>2, <2>3, Zenon DEF WireOrder
    <2>5. Len(changes') + Count(left', "table") <= budget'
      <3>1. Count(left', "table") = 0
        BY <2>1, NoEntries, Zenon
      <3>2. Len(changes) + 0 <= budget
        BY <1>13
      <3> QED
        BY <2>1, <3>1, <3>2, Zenon
    <2>6. left' \in Seq(Known)
      BY <2>1
    <2>7. TypeOK'
      BY <1>2, <1>8, <1>14, <2>1, <2>6, Zenon DEF TypeOK, PeerType
    <2>8. pc' # "idle" /\ pc' # "replay" /\ pc' # "ended"
      BY <2>1
    <2> QED
      BY <1>2, <2>1, <2>3, <2>4, <2>5, <2>7, <2>8, Zenon DEF SettingsInv
  <1>16. CASE /\ ~Exceeded(k) /\ budget' = budget + k
              /\ IF Distinct(work) THEN ApplyAtOnce(work) ELSE ApplyEach(work)
    <2>1. Settled(work)
      BY <1>9, <1>11, <1>16, AtOnceSettled, EachSettled, Zenon
    <2>2. budget' \in 0 .. MaxTableChanges /\ Len(changes) + k <= budget'
      <3> HIDE DEF k
      <3>1. ~(budget + k > MaxTableChanges) /\ budget' = budget + k
        BY <1>16, Zenon DEF Exceeded
      <3>2. budget \in 0 .. MaxTableChanges /\ k \in Nat
        BY <1>2, <1>12, Zenon
      <3> QED
        BY <1>13, <3>1, <3>2, BoundsAssumption
    <2> QED
      BY <1>2, <1>5, <1>6, <1>8, <1>14, <2>1, <2>2, SettledInv, Zenon
  <1> QED
    BY <1>10, <1>15, <1>16

\* The next batch of entries.
LEMMA ResumeStep ==
  ASSUME SettingsInv, Resume
  PROVE  SettingsInv'
  <1>1. pc = "replay" /\ budget' = budget /\ frames' = frames /\ blocks' = blocks /\ due' = due
    BY DEF Resume
  <1>2. /\ Current \in H2States /\ PeerType(peer) /\ budget \in 0 .. MaxTableChanges
        /\ acks \in Int /\ frames \in Nat /\ blocks \in Nat /\ left \in Seq(Known)
        /\ InStep(Current, peer) /\ Covered(Current, peer) /\ out = << >>
        /\ Len(changes) + Count(left, "table") <= budget
        /\ acks = frames - 1 /\ Owed(Current, peer, left, due)
        /\ due \in [entries : Seq(Entries), table : 0 .. MaxTable, initial : 0 .. MaxWindow,
                    window : {w \in Int : w <= MaxWindow}]
    BY <1>1, Zenon DEF SettingsInv, TypeOK, PeerType
  <1>3. due'.entries \in Seq(Entries)
    BY <1>1, <1>2
  <1>4. Meets
    BY <1>2, <1>3, Zenon DEF Meets
  <1>5. Settled(left)
    BY <1>1, <1>2, <1>4, EachSettled, Zenon DEF Resume
  <1>6. changes \in Seq(0 .. MaxTable)
    BY <1>2 DEF H2States, Current
  <1> QED
    BY <1>1, <1>2, <1>5, <1>6, SettledInv, Zenon

-----------------------------------------------------------------------------
(* The size updates of a header block *)

\* The loop of Resized, for the two updates that a block has at most.
LEMMA ResizedIs ==
  ASSUME NEW es \in Seq(Nat), NEW sizes \in Seq(0 .. MaxTable)
  PROVE  /\ Len(sizes) = 0 => Resized(es, sizes) = es
         /\ Len(sizes) = 1 => Resized(es, sizes) = Evict(es, sizes[1])
         /\ Len(sizes) = 2 => Resized(es, sizes) = Evict(Evict(es, sizes[1]), sizes[2])
  <1> DEFINE n == Len(sizes)
             T == Seq(Nat)
             h == [p \in T \X (1 .. n) |-> Evict(p[1], sizes[p[2]])]
             Step(f, i) == Evict(f[i - 1], sizes[i - 1])
             IsF(f) == f = [i \in 1 .. n + 1 |-> IF i = 1 THEN es ELSE Step(f, i)]
             F == CHOOSE f : IsF(f)
  <1>1. n \in Nat /\ es \in T
    OBVIOUS
  <1>2. \A i \in 1 .. n : sizes[i] \in Nat
    BY BoundsAssumption
  <1> HIDE DEF n
  <1>3. \A x \in T, i \in 1 .. n : Evict(x, sizes[i]) \in T
    BY <1>2, EvictIs, Zenon
  <1> HIDE DEF T
  <1>4. h \in [T \X (1 .. n) -> T]
    BY <1>3
  <1>5. ASSUME NEW x \in T, NEW i \in 1 .. n
        PROVE  h[<<x, i>>] = Evict(x, sizes[i])
    BY DEF h
  <1> HIDE DEF h
  <1>6. PICK f : IsLoop(f, n, T, es, h)
    BY <1>1, <1>4, LoopExists
  <1>7. IsF(f)
    <2>1. ASSUME NEW i \in 1 .. n + 1, i # 1
          PROVE  f[i] = Step(f, i)
      <3>1. i - 1 \in 1 .. n /\ i - 1 \in 1 .. n + 1 /\ (i - 1) + 1 = i
        BY <2>1, <1>1
      <3>2. f[i - 1] \in T /\ f[(i - 1) + 1] = h[<<f[i - 1], i - 1>>]
        BY <1>6, <3>1, Zenon DEF IsLoop
      <3> QED
        BY <1>5, <3>1, <3>2, Zenon
    <2>2. f \in [1 .. n + 1 -> T] /\ f[1] = es
      BY <1>6 DEF IsLoop
    <2> HIDE DEF Step
    <2> QED
      BY <2>1, <2>2
  <1>8. IsF(F)
    <2> HIDE DEF IsF
    <2> QED
      BY <1>7, Zenon
  <1>9. Resized(es, sizes) = F[n + 1]
    BY Zenon DEF Resized, n
  <1> HIDE DEF F
  <1>10. F[1] = es /\ \A i \in 1 .. n : F[i + 1] = Evict(F[i], sizes[i])
    <2>1. ASSUME NEW i \in 1 .. n PROVE F[i + 1] = Evict(F[i], sizes[i])
      <3>1. i + 1 \in 1 .. n + 1 /\ i + 1 # 1 /\ (i + 1) - 1 = i
        BY <1>1
      <3> QED
        BY <1>8, <3>1, Zenon
    <2>2. 1 \in 1 .. n + 1
      BY <1>1
    <2> QED
      BY <1>8, <2>1, <2>2, Zenon
  <1>11. n = 0 => F[n + 1] = es
    <2>1. 0 + 1 = 1
      OBVIOUS
    <2> QED
      BY <1>10, <2>1, Zenon
  <1>12. n = 1 => F[n + 1] = Evict(es, sizes[1])
    <2>1. 1 \in 1 .. 1
      OBVIOUS
    <2> QED
      BY <1>10, <2>1, Zenon
  <1>13. n = 2 => F[n + 1] = Evict(Evict(es, sizes[1]), sizes[2])
    <2>1. 1 \in 1 .. 2 /\ 2 \in 1 .. 2 /\ 1 + 1 = 2
      OBVIOUS
    <2> QED
      BY <1>10, <2>1, Zenon
  <1> QED
    BY <1>9, <1>11, <1>12, <1>13, Zenon DEF n

\* The updates turn the table of the peer into that of the encoder: at most two,
\* none above the size in force, one of them the smallest of the changes.
LEMMA UpdatesApply ==
  ASSUME H2Type(Current), PeerType(peer), InStep(Current, peer)
  PROVE  /\ Resized(peer.stored, Updates) = stored
         /\ InForce(Updates, peer.size) = table
         /\ Len(Updates) <= 2
         /\ \A i \in DOMAIN Updates : Updates[i] <= table
         /\ changes # << >> => \E i \in DOMAIN Updates : Updates[i] = Min(Range(changes))
  <1>1. /\ table \in 0 .. MaxTable /\ changes \in Seq(0 .. MaxTable)
        /\ peer.stored \in Seq(Nat) /\ peer.size \in 0 .. MaxTable
    BY CurrentIs DEF H2Type, PeerType
  <1>2. /\ resized <=> changes # << >>
        /\ table = InForce(changes, peer.size)
        /\ stored = IF changes = << >> THEN peer.stored ELSE Evict(peer.stored, Min(Range(changes)))
    BY CurrentIs, Zenon DEF InStep
  <1>3. CASE changes = << >>
    <2>1. Updates = << >>
      BY <1>2, <1>3, Zenon DEF Updates
    <2>2. << >> \in Seq(0 .. MaxTable) /\ Len(<< >>) = 0 /\ DOMAIN << >> = {} /\ 0 <= 2
      OBVIOUS
    <2>3. Resized(peer.stored, << >>) = peer.stored
      BY <1>1, <2>2, ResizedIs, Zenon
    <2>4. InForce(<< >>, peer.size) = table
      BY <1>2, <1>3, Zenon
    <2> QED
      BY <1>2, <1>3, <2>1, <2>2, <2>3, <2>4, Zenon
  <1>4. CASE changes # << >>
    <2> DEFINE least == Min(Range(changes))
               last == changes[Len(changes)]
    <2>1. /\ Range(changes) \subseteq 0 .. MaxTable /\ Range(changes) \in SUBSET Nat
          /\ Range(changes) # {} /\ last \in Range(changes) /\ last = table
      BY <1>1, <1>2, <1>4, ChangesType, Zenon
    <2>2. least \in Range(changes) /\ least <= last
      BY <2>1, MinOf, Zenon
    <2>3. least \in 0 .. MaxTable /\ last \in 0 .. MaxTable
      BY <2>1, <2>2, Zenon
    <2>4. least \in Nat /\ last \in Nat
      BY <2>1, <2>2, Zenon
    <2>5. Updates = IF least = last THEN <<last>> ELSE <<least, last>>
      BY <1>2, <1>4, Zenon DEF Updates
    <2>6. stored = Evict(peer.stored, least) /\ last = table
      BY <1>2, <1>4, <2>1, Zenon
    <2> HIDE DEF least, last
    <2>7. last <= last
      BY <2>4
    <2>8. CASE least = last
      <3> DEFINE u == <<last>>
      <3>1. u \in Seq(0 .. MaxTable) /\ Len(u) = 1 /\ u # << >>
        BY <2>3
      <3>2. DOMAIN u = {1} /\ u[1] = last
        OBVIOUS
      <3>3. Updates = u
        BY <2>5, <2>8
      <3>4. 1 <= 2
        OBVIOUS
      <3> HIDE DEF u
      <3>5. Resized(peer.stored, u) = Evict(peer.stored, last)
        BY <1>1, <3>1, <3>2, ResizedIs, Zenon
      <3>6. InForce(u, peer.size) = table
        BY <2>6, <3>1, <3>2, Zenon DEF InForce
      <3>7. \A i \in DOMAIN u : u[i] <= table /\ u[i] = least
        BY <2>6, <2>7, <2>8, <3>2, Zenon
      <3> QED
        BY <2>6, <2>8, <3>1, <3>2, <3>3, <3>4, <3>5, <3>6, <3>7, Zenon DEF least
    <2>9. CASE least # last
      <3> DEFINE u == <<least, last>>
      <3>1. u \in Seq(0 .. MaxTable) /\ Len(u) = 2 /\ u # << >>
        BY <2>3
      <3>2. DOMAIN u = {1, 2} /\ u[1] = least /\ u[2] = last
        OBVIOUS
      <3>3. Updates = u
        BY <2>5, <2>9
      <3>4. 2 <= 2
        OBVIOUS
      <3> HIDE DEF u
      <3>5. Resized(peer.stored, u) = Evict(Evict(peer.stored, least), last)
        BY <1>1, <3>1, <3>2, ResizedIs, Zenon
      <3>6. ~(last <= least)
        BY <2>2, <2>4, <2>9
      <3>7. Evict(Evict(peer.stored, least), last) = Evict(peer.stored, least)
        BY <1>1, <2>4, <3>6, EvictTwice, Zenon
      <3>8. InForce(u, peer.size) = table
        BY <2>6, <3>1, <3>2, Zenon DEF InForce
      <3>9. \A i \in DOMAIN u : u[i] <= table
        BY <2>2, <2>6, <2>7, <3>2, Zenon
      <3> QED
        BY <2>6, <3>1, <3>2, <3>3, <3>4, <3>5, <3>7, <3>8, <3>9, Zenon DEF least
    <2> QED
      BY <2>8, <2>9
  <1> QED
    BY <1>3, <1>4

-----------------------------------------------------------------------------
(* The invariant *)

\* Neither a step that leaves the last frame and what it did alone, nor one that
\* ends the session, disturbs what was said of the frame.
LEMMA WireOrderKept ==
  ASSUME WireOrder, UNCHANGED <<budget, table, initial, acks, frames, due>>,
         pc' = "failed" => pc = "failed"
  PROVE  WireOrder'
  BY Zenon DEF WireOrder

\* A frame other than SETTINGS.
LEMMA OtherFrameStep ==
  ASSUME SettingsInv, OtherFrame
  PROVE  SettingsInv'
  <1>1. /\ pc = "idle" /\ pc' = pc /\ left' = left /\ budget' = budget /\ table' = table
        /\ initial' = initial /\ changes' = changes /\ resized' = resized /\ stored' = stored
        /\ frames' = frames /\ blocks' = blocks /\ due' = due
        /\ out' = << >> /\ acks' = acks /\ peer' = peer
        /\ window' \in {window} \cup (window + 1 .. MaxWindow)
    BY Zenon DEF OtherFrame, Answer
  <1>2. Current \in H2States
    BY DEF SettingsInv, TypeOK
  <1>3. window' \in {w \in Int : w <= MaxWindow}
    <2>1. window \in Int /\ window <= MaxWindow /\ MaxWindow \in Int
      BY <1>2, BoundsAssumption DEF H2States, Current
    <2> QED
      BY <1>1, <2>1
  <1>4. Current' \in H2States
    <2>1. /\ table \in 0 .. MaxTable /\ initial \in 0 .. MaxWindow
          /\ changes \in Seq(0 .. MaxTable) /\ resized \in BOOLEAN /\ stored \in Seq(Nat)
      BY <1>2 DEF H2States, Current
    <2>2. Current' = [table |-> table, initial |-> initial, window |-> window',
                      changes |-> changes, resized |-> resized, stored |-> stored]
      BY <1>1, Zenon DEF Current
    <2> QED
      BY <1>3, <2>1, <2>2, Zenon DEF H2States
  <1>5. /\ Current'.table = Current.table /\ Current'.changes = Current.changes
        /\ Current'.resized = Current.resized /\ Current'.stored = Current.stored
    BY <1>1 DEF Current
  <1>6. InStep(Current', peer) /\ Covered(Current', peer)
    BY <1>5, Zenon DEF SettingsInv, InStep, Covered
  <1>7. TypeOK'
    BY <1>1, <1>4, Zenon DEF SettingsInv, TypeOK
  <1>8. WireOrder'
    BY <1>1, WireOrderKept, Zenon DEF SettingsInv
  <1>9. acks = frames /\ table = peer.last /\ Len(changes) + Count(left, "table") <= budget
    BY <1>1, Zenon DEF SettingsInv
  <1>10. pc' # "replay" /\ pc' # "failed" /\ pc' # "ended"
    BY <1>1
  <1> QED
    BY <1>1, <1>6, <1>7, <1>8, <1>9, <1>10, Zenon DEF SettingsInv

\* A header block.
LEMMA SendBlockStep ==
  ASSUME SettingsInv, SendBlock
  PROVE  SettingsInv'
  <1>1. /\ pc = "idle" /\ pc' = pc /\ left' = left /\ budget' = budget /\ table' = table
        /\ initial' = initial /\ window' = window /\ out' = out /\ acks' = acks
        /\ frames' = frames /\ due' = due
        /\ blocks' = blocks + 1 /\ resized' = FALSE
        /\ changes' = IF resized THEN << >> ELSE changes
        /\ stored' = Evict(<<blocks'>> \o stored, table)
    BY Zenon DEF SendBlock
  <1>2. /\ Current \in H2States /\ PeerType(peer) /\ InStep(Current, peer) /\ blocks \in Nat
        /\ left \in Seq(Known) /\ budget \in 0 .. MaxTableChanges
        /\ acks = frames /\ table = peer.last /\ out = << >>
        /\ Len(changes) + Count(left, "table") <= budget
    BY <1>1, Zenon DEF SettingsInv, TypeOK, PeerType
  <1>3. /\ table \in 0 .. MaxTable /\ initial \in 0 .. MaxWindow
        /\ window \in {w \in Int : w <= MaxWindow}
        /\ changes \in Seq(0 .. MaxTable) /\ resized \in BOOLEAN /\ stored \in Seq(Nat)
    BY <1>2 DEF H2States, Current
  <1>4. Resized(peer.stored, Updates) = stored /\ InForce(Updates, peer.size) = table
    BY <1>2, StateType, UpdatesApply, Zenon
  <1>5. peer' = [peer EXCEPT !.stored = stored', !.size = table, !.least = MaxTable]
    BY <1>1, <1>4, Zenon DEF SendBlock
  <1>6. blocks' \in Nat /\ table \in Nat /\ MaxTable \in 0 .. MaxTable /\ table <= MaxTable
    BY <1>1, <1>2, <1>3, BoundsAssumption
  <1>7. stored' \in Seq(Nat) /\ Len(stored') <= table
    <2>0. stored \in Seq(Nat) /\ blocks' \in Nat
      BY <1>3, <1>6, Zenon
    <2>1. <<blocks'>> \o stored \in Seq(Nat)
      BY <2>0
    <2> QED
      BY <1>1, <1>6, <2>1, EvictIs, Zenon
  <1>8. /\ PeerType(peer') /\ peer'.stored = stored' /\ peer'.size = table
        /\ peer'.least = MaxTable /\ peer'.last = peer.last
    <2> DEFINE s == stored'
    <2>1. s \in Seq(Nat) /\ peer' = [peer EXCEPT !.stored = s, !.size = table, !.least = MaxTable]
      BY <1>5, <1>7
    <2>2. peer \in [stored : Seq(Nat), size : 0 .. MaxTable, least : 0 .. MaxTable,
                    last : 0 .. MaxTable]
      BY <1>2 DEF PeerType
    <2> HIDE DEF s
    <2>3. /\ PeerType(peer') /\ peer'.stored = s /\ peer'.size = table
          /\ peer'.least = MaxTable /\ peer'.last = peer.last
      BY <1>3, <1>6, <2>1, <2>2 DEF PeerType
    <2> QED
      BY <2>3 DEF s
  <1>9. changes' = << >>
    <2>1. resized <=> changes # << >>
      BY <1>2, CurrentIs, Zenon DEF InStep
    <2> QED
      BY <1>1, <2>1, Zenon
  <1>10. << >> \in Seq(0 .. MaxTable) /\ Len(<< >>) = 0
    OBVIOUS
  <1>11. Current' = [table |-> table, initial |-> initial, window |-> window,
                     changes |-> << >>, resized |-> FALSE, stored |-> stored']
    BY <1>1, <1>9, Zenon DEF Current
  <1>12. Current' \in H2States
    BY <1>3, <1>7, <1>10, <1>11, Zenon DEF H2States
  <1>13. /\ Current'.changes = << >> /\ Current'.resized = FALSE /\ Current'.table = table
         /\ Current'.stored = stored'
    BY <1>11, Zenon
  <1>14. InStep(Current', peer') /\ Covered(Current', peer')
    BY <1>6, <1>7, <1>8, <1>13, Zenon DEF InStep, Covered, InForce
  <1>15. TypeOK'
    BY <1>1, <1>6, <1>8, <1>12, Zenon DEF SettingsInv, TypeOK, PeerType
  <1>16. WireOrder'
    BY <1>1, WireOrderKept, Zenon DEF SettingsInv
  <1>17. Len(changes') + Count(left', "table") <= budget'
    <2>1. Count(left, "table") \in Nat
      BY <1>2, CountType, Zenon
    <2>2. Len(changes) \in Nat
      BY <1>3
    <2> DEFINE k == Count(left, "table")
    <2> HIDE DEF k
    <2>3. 0 + k <= budget
      BY <1>2, <2>1, <2>2, BoundsAssumption DEF k
    <2> QED
      BY <1>1, <1>9, <1>10, <2>3, Zenon DEF k
  <1>18. pc' # "replay" /\ pc' # "failed" /\ pc' # "ended"
    BY <1>1
  <1> QED
    BY <1>1, <1>2, <1>8, <1>14, <1>15, <1>16, <1>17, <1>18, Zenon DEF SettingsInv

\* The session ends between two frames or within one.
LEMMA InterruptStep ==
  ASSUME SettingsInv, Interrupt
  PROVE  SettingsInv'
  <1>1. /\ pc \in {"idle", "replay"} /\ pc' = "ended" /\ left' = << >> /\ budget' = budget
        /\ table' = table /\ initial' = initial /\ changes' = changes
        /\ frames' = frames /\ blocks' = blocks /\ due' = due /\ Current' = Current
    BY Zenon DEF Interrupt, h2Vars, Current
  <1>2. out = << >>
    BY <1>1, Zenon DEF SettingsInv
  <1>3. acks' = acks /\ peer' = peer
    <2>1. Acknowledgements(<< >>) = 0
      <3>1. {i \in DOMAIN << >> : << >>[i] = "ack"} = {}
        OBVIOUS
      <3> QED
        BY <3>1, FS_EmptySet, Zenon DEF Acknowledgements
    <2>2. "ack" \notin Range(<< >>)
      <3>1. DOMAIN << >> = {}
        OBVIOUS
      <3> QED
        BY <3>1, Zenon DEF Range
    <2>3. acks + 0 = acks
      BY DEF SettingsInv, TypeOK
    <2> QED
      BY <1>2, <2>1, <2>2, <2>3, Zenon DEF Interrupt, Flush
  <1>4. left' \in Seq(Known)
    BY <1>1
  <1>5. TypeOK'
    BY <1>1, <1>3, <1>4, Zenon DEF SettingsInv, TypeOK
  <1>6. WireOrder'
    BY <1>1, <1>3, WireOrderKept, Zenon DEF SettingsInv
  <1>7. Len(changes') + Count(left', "table") <= budget'
    <2>1. /\ left \in Seq(Known) /\ changes \in Seq(0 .. MaxTable)
          /\ budget \in 0 .. MaxTableChanges
      BY StateType, CurrentIs DEF SettingsInv, TypeOK, H2Type
    <2>2. Count(left, "table") \in Nat /\ Count(<< >>, "table") = 0
      BY <2>1, CountType, NoEntries, Zenon
    <2>3. Len(changes) \in Nat
      BY <2>1
    <2>4. Len(changes) + Count(left, "table") <= budget
      BY DEF SettingsInv
    <2>5. Len(changes) + 0 <= budget
      BY <2>1, <2>2, <2>3, <2>4
    <2> QED
      BY <1>1, <2>2, <2>5, Zenon
  <1>8. acks \in {frames - 1, frames}
    BY <1>1, Zenon DEF SettingsInv
  <1>9. pc' # "idle" /\ pc' # "replay" /\ pc' # "failed"
    BY <1>1
  <1> QED
    BY <1>1, <1>3, <1>5, <1>6, <1>7, <1>8, <1>9, Zenon DEF SettingsInv

\* Before any frame.
LEMMA InitSettings ==
  ASSUME Init
  PROVE  SettingsInv
  <1>1. /\ pc = "idle" /\ left = << >> /\ budget = 0 /\ table = DefaultTable /\ initial = 1
        /\ window = 1 /\ changes = << >> /\ resized = FALSE /\ stored = << >> /\ out = << >>
        /\ acks = 0 /\ frames = 0 /\ blocks = 0
        /\ peer = [stored |-> << >>, size |-> DefaultTable, least |-> MaxTable,
                   last |-> DefaultTable]
        /\ due = [entries |-> << >>, table |-> DefaultTable, initial |-> 1, window |-> 1]
    BY Zenon DEF Init
  <1>2. /\ MaxTable \in 0 .. MaxTable /\ DefaultTable \in 0 .. MaxTable
        /\ DefaultTable <= MaxTable /\ 1 \in 0 .. MaxWindow /\ 1 \in {w \in Int : w <= MaxWindow}
        /\ 0 \in 0 .. MaxTableChanges /\ 0 \in Int /\ 0 \in Nat /\ 0 <= DefaultTable
        /\ FALSE \in BOOLEAN /\ 0 + 0 <= 0
    BY BoundsAssumption
  <1>3. /\ << >> \in Seq(Known) /\ << >> \in Seq(Nat) /\ << >> \in Seq(Entries)
        /\ << >> \in Seq(0 .. MaxTable) /\ Len(<< >>) = 0
    OBVIOUS
  <1>4. Current = [table |-> DefaultTable, initial |-> 1, window |-> 1,
                   changes |-> << >>, resized |-> FALSE, stored |-> << >>]
    BY <1>1, Zenon DEF Current
  <1>5. Current \in H2States
    BY <1>2, <1>3, <1>4, Zenon DEF H2States
  <1>6. /\ peer.stored = << >> /\ peer.size = DefaultTable /\ peer.least = MaxTable
        /\ peer.last = DefaultTable
        /\ peer \in [stored : Seq(Nat), size : 0 .. MaxTable, least : 0 .. MaxTable,
                     last : 0 .. MaxTable]
    BY <1>1, <1>2, <1>3
  <1>7. /\ due.entries = << >> /\ due.table = DefaultTable /\ due.initial = 1
        /\ due \in [entries : Seq(Entries), table : 0 .. MaxTable, initial : 0 .. MaxWindow,
                    window : {w \in Int : w <= MaxWindow}]
    BY <1>1, <1>2, <1>3, Zenon
  <1>8. TypeOK
    BY <1>1, <1>2, <1>3, <1>5, <1>6, <1>7, Zenon DEF TypeOK
  <1>9. InStep(Current, peer) /\ Covered(Current, peer)
    BY <1>1, <1>2, <1>3, <1>6, CurrentIs, Zenon DEF InStep, Covered, InForce
  <1>10. \A id, old : /\ Values(<< >>, id) = {} /\ Latest(<< >>, id, old) = old
                      /\ Count(<< >>, id) = 0
    BY NoEntries, Zenon
  <1>11. WireOrder
    BY <1>1, <1>7, <1>10, Zenon DEF WireOrder, Fits
  <1>12. Len(changes) + Count(left, "table") <= budget
    BY <1>1, <1>2, <1>3, <1>10, Zenon
  <1>13. pc # "replay" /\ pc # "failed" /\ pc # "ended"
    BY <1>1
  <1> QED
    BY <1>1, <1>6, <1>8, <1>9, <1>11, <1>12, <1>13, Zenon DEF SettingsInv

\* A step that changes nothing.
LEMMA SettingsStutter ==
  ASSUME SettingsInv, UNCHANGED vars
  PROVE  SettingsInv'
  <1>1. UNCHANGED <<pc, left, budget, changes, table, initial, out, acks, frames, blocks, peer, due>>
    BY Zenon DEF vars, h2Vars
  <1>2. Current' = Current
    BY Zenon DEF vars, h2Vars, Current
  <1>3. WireOrder'
    BY <1>1, WireOrderKept, Zenon DEF SettingsInv
  <1>4. TypeOK'
    BY <1>1, <1>2, Zenon DEF SettingsInv, TypeOK
  <1> QED
    BY <1>1, <1>2, <1>3, <1>4, Zenon DEF SettingsInv

\* SettingsInv holds in every state: whatever SETTINGS frames arrive, between
\* header blocks and while apply_settings yields, the encoder is in step with the
\* peer's decoder, the entries not applied yet lead to what the frame asks for,
\* and the table sizes that wait for a header block are within the budget.
THEOREM SettingsInvariant == Spec => []SettingsInv
  <1>1. Init => SettingsInv
    BY InitSettings
  <1>2. SettingsInv /\ [Next]_vars => SettingsInv'
    <2> SUFFICES ASSUME SettingsInv, [Next]_vars
                 PROVE  SettingsInv'
      OBVIOUS
    <2>1. CASE \E n \in 0 .. MaxEntries : \E es \in [1 .. n -> Entries] : Settings(es)
      BY <2>1, SettingsStep, Zenon
    <2>2. CASE Resume
      BY <2>2, ResumeStep
    <2>3. CASE OtherFrame
      BY <2>3, OtherFrameStep
    <2>4. CASE SendBlock
      BY <2>4, SendBlockStep
    <2>5. CASE Interrupt
      BY <2>5, InterruptStep
    <2>6. CASE UNCHANGED vars
      BY <2>6, SettingsStutter
    <2> QED
      BY <2>1, <2>2, <2>3, <2>4, <2>5, <2>6, Zenon DEF Next
  <1> QED
    BY <1>1, <1>2, PTL DEF Spec

\* A SETTINGS frame has the effect of its entries in the order of the wire,
\* although apply_settings drops some, passes the others to h2 in one frame or in
\* one for each, and yields in between; it fails only for a window that overflows
\* or for the limit on table sizes.
THEOREM SettingsInWireOrder == Spec => []WireOrder
  <1>1. SettingsInv => WireOrder
    BY DEF SettingsInv
  <1> QED
    BY <1>1, SettingsInvariant, PTL

\* A SETTINGS frame is acknowledged once it is applied whole, and only once; the
\* replay takes back nothing but acknowledgements; and no more table sizes pile
\* up than apply_settings allows over a connection.
THEOREM SettingsAcknowledgedOnce == Spec => []OneAck
  <1>1. SettingsInv => OneAck
    <2> SUFFICES ASSUME SettingsInv PROVE OneAck
      OBVIOUS
    <2>1. /\ pc \in {"idle", "replay", "failed", "ended"} /\ left \in Seq(Known)
          /\ changes \in Seq(0 .. MaxTable) /\ budget \in 0 .. MaxTableChanges
      BY StateType, CurrentIs DEF SettingsInv, TypeOK, H2Type
    <2>2. pc # "crashed"
      BY <2>1
    <2>3. budget <= MaxTableChanges /\ Len(changes) <= MaxTableChanges
      <3>1. Count(left, "table") \in Nat
        BY <2>1, CountType, Zenon
      <3>2. Len(changes) \in Nat
        BY <2>1
      <3>3. Len(changes) + Count(left, "table") <= budget
        BY DEF SettingsInv
      <3> QED
        BY <2>1, <3>1, <3>2, <3>3, BoundsAssumption
    <2> QED
      BY <2>2, <2>3, Zenon DEF SettingsInv, OneAck
  <1> QED
    BY <1>1, SettingsInvariant, PTL

\* Whenever a header block may be sent, the size updates that _ResponseEncoder
\* puts before it bring the peer's table into step with the encoder's, stay within
\* the limit the peer has set last, go as low as the lowest it has set since the
\* last block, and are two at most.
THEOREM HeaderTablesAgree == Spec => []TablesAgree
  <1>1. SettingsInv => TablesAgree
    <2> SUFFICES ASSUME SettingsInv, pc = "idle" PROVE TablesAgree
      BY Zenon DEF TablesAgree
    <2>1. /\ Current \in H2States /\ PeerType(peer) /\ InStep(Current, peer)
          /\ Covered(Current, peer) /\ table = peer.last
      BY Zenon DEF SettingsInv, TypeOK, PeerType
    <2>2. H2Type(Current)
      BY <2>1, StateType, Zenon
    <2>3. /\ Resized(peer.stored, Updates) = stored
          /\ InForce(Updates, peer.size) = table
          /\ Len(Updates) <= 2
          /\ \A i \in DOMAIN Updates : Updates[i] <= table
          /\ changes # << >> => \E i \in DOMAIN Updates : Updates[i] = Min(Range(changes))
      BY <2>1, <2>2, UpdatesApply, Zenon
    <2>4. ASSUME peer.least < peer.size
          PROVE  \E i \in DOMAIN Updates : Updates[i] <= peer.least
      <3>1. peer.least \in Nat /\ peer.size \in Nat /\ changes \in Seq(0 .. MaxTable)
        BY <2>1, <2>2, CurrentIs, BoundsAssumption DEF PeerType, H2Type
      <3>2. PICK v \in Range(changes) \cup {peer.size} : v <= peer.least
        BY <2>1, CurrentIs, Zenon DEF Covered
      <3>3. v # peer.size
        BY <2>4, <3>1, <3>2
      <3>4. v \in Range(changes) /\ changes # << >>
        <4>1. v \in Range(changes)
          BY <3>2, <3>3, Zenon
        <4>2. DOMAIN << >> = {}
          OBVIOUS
        <4> QED
          BY <4>1, <4>2, Zenon DEF Range
      <3>5. Range(changes) \in SUBSET Nat /\ Range(changes) # {}
        BY <3>1, <3>4, ChangesType, Zenon
      <3>6. Min(Range(changes)) \in Range(changes) /\ Min(Range(changes)) <= v
        BY <3>4, <3>5, MinOf, Zenon
      <3> DEFINE m == Min(Range(changes))
      <3>7. m \in Nat /\ v \in Nat /\ m <= v
        BY <3>4, <3>5, <3>6, Zenon
      <3> HIDE DEF m
      <3>8. m <= peer.least
        BY <3>1, <3>2, <3>7
      <3>9. PICK i \in DOMAIN Updates : Updates[i] = m
        BY <2>3, <3>4, Zenon DEF m
      <3> QED
        BY <3>8, <3>9, Zenon
    <2> QED
      BY <2>1, <2>3, <2>4, Zenon DEF TablesAgree
  <1> QED
    BY <1>1, SettingsInvariant, PTL
=============================================================================
