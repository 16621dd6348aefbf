---------------------------- MODULE RequestProofs ----------------------------
(***************************************************************************)
(* Requests of both versions.  The plain HTTP connection, for every head   *)
(* and request a peer may send, every limit on the size of a head, every   *)
(* size of a read and every split of a head into reads; the fields of an   *)
(* HTTP/2 request, for every list of fields.                               *)
(***************************************************************************)
EXTENDS Redirect, HttpLists, HttpFields, FiniteSetTheorems, TLAPS

\* The smaller of two numbers.
LEMMA MinOfTwo ==
  ASSUME NEW a \in Int, NEW b \in Int
  PROVE  Min({a, b}) = IF a <= b THEN a ELSE b
  BY DEF Min

-----------------------------------------------------------------------------
(* The verdict on a head *)

\* Lengths are numbers, and the head is longer than its first line.
LEMMA SizeType ==
  ASSUME NEW h \in AnyHead
  PROVE  /\ h.lead \in Nat /\ h.method \in Nat /\ h.target \in Nat \cup {-1}
         /\ LineEnd(h) \in Nat /\ Size(h) \in Nat /\ Room(h) \in Int
         /\ Size(h) >= LineEnd(h) + 4
         /\ LineEnd(h) >= h.lead + h.method + 1 + h.target
         /\ Room(h) < MaxHead - h.lead - h.method - 1
  BY HeadAssumption DEF AnyHead, LineEnd, Size, Part, Room, Absent

\* Whether the request line or the fields are too large does not depend on how
\* many bytes beyond the limit, or beyond the head, have been read.
LEMMA SameBlame ==
  ASSUME NEW h \in AnyHead, NEW n \in Nat, n >= MaxHead \/ n >= Size(h),
         NEW target, target = Min({h.target, n - h.lead - h.method - 1})
  PROVE  /\ LineTooLarge(h, n) <=> LineEnd(h) + 4 > MaxHead
         /\ 0 < Room(h) => (Room(h) < target <=> Room(h) < h.target)
  <1>1. MaxHead \in Nat
    BY HeadAssumption
  <1>2. LineTooLarge(h, n) <=> LineEnd(h) + 4 > MaxHead
    BY <1>1, SizeType DEF LineTooLarge
  <1>3. target = IF h.target <= n - h.lead - h.method - 1
                   THEN h.target ELSE n - h.lead - h.method - 1
    BY SizeType, MinOfTwo
  <1>4. 0 < Room(h) => (Room(h) < target <=> Room(h) < h.target)
    BY <1>1, <1>3, SizeType
  <1> QED
    BY <1>2, <1>4

\* check_head_size gives the verdict on the whole head as soon as it gives one.
LEMMA VerdictOfWhole ==
  ASSUME NEW h \in AnyHead, NEW n \in Nat, CheckHeadSize(h, n, TRUE) # 0
  PROVE  CheckHeadSize(h, n, TRUE) = CheckHeadSize(h, Size(h), FALSE)
  <1> DEFINE blame(m) == /\ LineTooLarge(h, m) /\ 0 < Room(h)
                         /\ Room(h) < Min({h.target, m - h.lead - h.method - 1})
  <1>1. MaxHead \in Nat /\ Size(h) \in Nat
    BY HeadAssumption, SizeType
  <1>2. (n >= MaxHead \/ n >= Size(h)) /\ Size(h) > MaxHead
    BY <1>1 DEF CheckHeadSize
  <1>3. CheckHeadSize(h, n, TRUE) = IF blame(n) THEN 414 ELSE 431
    BY <1>1, <1>2 DEF CheckHeadSize
  <1>4. CheckHeadSize(h, Size(h), FALSE) = IF blame(Size(h)) THEN 414 ELSE 431
    BY <1>1, <1>2 DEF CheckHeadSize
  <1>5. blame(n) <=> blame(Size(h))
    BY <1>1, <1>2, SameBlame
  <1> QED
    BY <1>3, <1>4, <1>5, ZenonT(30)

\* A head whose first n bytes get no verdict is within the limit if it is
\* complete, and what has been read of it is below the limit if it is not.
LEMMA NoVerdict ==
  ASSUME NEW h \in AnyHead, NEW n \in Nat, CheckHeadSize(h, n, TRUE) = 0
  PROVE  IF n >= Size(h) THEN Size(h) <= MaxHead /\ CheckHeadSize(h, Size(h), FALSE) = 0
                         ELSE n < MaxHead
  BY HeadAssumption, SizeType DEF CheckHeadSize

-----------------------------------------------------------------------------
(* The number that digits denote *)

\* Induction over the naturals, for a property given as a set.
LEMMA SetInduction ==
  ASSUME NEW S, 0 \in S, \A n \in Nat : n \in S => n + 1 \in S
  PROVE  \A n \in Nat : n \in S
  <1> DEFINE R == OpToRel(<, Nat)
             T == {n \in Nat : n \notin S}
  <1>1. SUFFICES ASSUME T # {} PROVE FALSE
    OBVIOUS
  <1>2. \E x \in T : \A y \in T : ~ (<<y, x>> \in R)
    <2>1. IsWellFoundedOn(R, Nat)
      BY NatLessThanWellFounded
    <2> HIDE DEF R
    <2> QED
      BY <1>1, <2>1, WFMin
  <1>3. PICK x \in T : \A y \in T : ~ (<<y, x>> \in R)
    BY <1>2
  <1>4. \A y \in T : ~ (y < x)
    BY <1>3 DEF OpToRel
  <1> HIDE DEF R
  <1>5. x # 0 /\ x - 1 \in Nat /\ x - 1 < x
    OBVIOUS
  <1> QED
    BY <1>4, <1>5

\* f holds what the first k of the digits denote, for each k up to n.
Denotes(f, digits, n) ==
  /\ f \in [1 .. n + 1 -> Nat]
  /\ f[1] = 0
  /\ \A i \in 1 .. n : f[i + 1] = 10 * f[i] + digits[i]

\* Each prefix of a sequence of digits denotes a number.
LEMMA DenotesExists ==
  ASSUME NEW n \in Nat, NEW digits, \A i \in 1 .. n : digits[i] \in Nat
  PROVE  \E f : Denotes(f, digits, n)
  <1> DEFINE S == {k \in Nat : k <= n => \E f : Denotes(f, digits, k)}
  <1>1. 0 \in S
    <2>1. Denotes([i \in 1 .. 0 + 1 |-> 0], digits, 0)
      BY DEF Denotes
    <2> QED
      BY <2>1
  <1>2. \A k \in Nat : k \in S => k + 1 \in S
    <2> SUFFICES ASSUME NEW k \in Nat, k \in S, k + 1 <= n
                 PROVE  \E f : Denotes(f, digits, k + 1)
      OBVIOUS
    <2>1. PICK f : Denotes(f, digits, k)
      OBVIOUS
    <2> DEFINE m == k + 1
               x == 10 * f[m] + digits[m]
               g == [i \in 1 .. m + 1 |-> IF i <= m THEN f[i] ELSE x]
    <2>2. m \in 1 .. n /\ f \in [1 .. m -> Nat] /\ x \in Nat
      BY <2>1 DEF Denotes
    <2>3. g \in [1 .. m + 1 -> Nat] /\ g[1] = 0
      BY <2>1, <2>2 DEF Denotes
    <2>4. ASSUME NEW i \in 1 .. k PROVE g[i + 1] = 10 * g[i] + digits[i]
      BY <2>1 DEF Denotes
    <2>5. g[m + 1] = 10 * g[m] + digits[m]
      <3>1. m + 1 \in 1 .. m + 1 /\ ~(m + 1 <= m) /\ m \in 1 .. m + 1 /\ m <= m
        OBVIOUS
      <3> HIDE DEF m
      <3> QED
        BY <3>1, Zenon
    <2>6. ASSUME NEW i \in 1 .. m, i \notin 1 .. k PROVE i = m
      BY <2>6
    <2> HIDE DEF g
    <2>7. \A i \in 1 .. m : g[i + 1] = 10 * g[i] + digits[i]
      BY <2>4, <2>5, <2>6
    <2> QED
      BY <2>3, <2>7 DEF Denotes
  <1> HIDE DEF S
  <1>3. n \in S
    BY <1>1, <1>2, SetInduction
  <1> QED
    BY <1>3 DEF S

\* Number is the last of these numbers.
LEMMA NumberDenoted ==
  ASSUME NEW digits \in Seq(Nat)
  PROVE  \E f : Denotes(f, digits, Len(digits)) /\ Number(digits) = f[Len(digits) + 1]
  <1> DEFINE n == Len(digits)
             IsF(f) == f = [i \in 1 .. n + 1 |-> IF i = 1 THEN 0 ELSE 10 * f[i - 1] + digits[i - 1]]
             F == CHOOSE f : IsF(f)
  <1>1. n \in Nat /\ \A i \in 1 .. n : digits[i] \in Nat
    OBVIOUS
  <1> HIDE DEF n
  <1>2. PICK f : Denotes(f, digits, n)
    BY <1>1, DenotesExists
  <1>3. IsF(f)
    <2>1. ASSUME NEW i \in 1 .. n + 1, i # 1
          PROVE  f[i] = 10 * f[i - 1] + digits[i - 1]
      <3>1. i - 1 \in 1 .. n /\ (i - 1) + 1 = i
        BY <2>1, <1>1
      <3> QED
        BY <1>2, <3>1, Zenon DEF Denotes
    <2>2. f \in [1 .. n + 1 -> Nat] /\ f[1] = 0
      BY <1>2 DEF Denotes
    <2> QED
      BY <2>1, <2>2
  <1>4. IsF(F)
    <2> HIDE DEF IsF
    <2> QED
      BY <1>3, Zenon
  <1>5. Number(digits) = F[n + 1]
    BY Zenon DEF Number, n
  <1> HIDE DEF F
  <1>6. F[1] = 0 /\ \A i \in 1 .. n : F[i + 1] = 10 * F[i] + digits[i]
    <2>1. ASSUME NEW i \in 1 .. n PROVE F[i + 1] = 10 * F[i] + digits[i]
      <3>1. i + 1 \in 1 .. n + 1 /\ i + 1 # 1 /\ (i + 1) - 1 = i
        BY <1>1
      <3> QED
        BY <1>4, <3>1, Zenon
    <2>2. 1 \in 1 .. n + 1
      BY <1>1
    <2> QED
      BY <1>4, <2>1, <2>2, Zenon
  <1>7. \A i \in 1 .. n + 1 : F[i] \in Nat
    <2> DEFINE S == {k \in Nat : k <= n => F[k + 1] \in Nat}
    <2>1. 0 \in S
      BY <1>6
    <2>2. \A k \in Nat : k \in S => k + 1 \in S
      <3> SUFFICES ASSUME NEW k \in Nat, k \in S, k + 1 <= n
                   PROVE  F[(k + 1) + 1] \in Nat
        OBVIOUS
      <3>1. k + 1 \in 1 .. n /\ F[k + 1] \in Nat
        BY <1>1
      <3>2. F[(k + 1) + 1] = 10 * F[k + 1] + digits[k + 1] /\ digits[k + 1] \in Nat
        BY <1>1, <1>6, <3>1, Zenon
      <3> QED
        BY <3>1, <3>2
    <2> HIDE DEF S
    <2>3. \A k \in Nat : k \in S
      BY <2>1, <2>2, SetInduction
    <2> SUFFICES ASSUME NEW i \in 1 .. n + 1 PROVE F[i] \in Nat
      OBVIOUS
    <2>4. i - 1 \in Nat /\ i - 1 <= n /\ (i - 1) + 1 = i
      BY <1>1
    <2> QED
      BY <2>3, <2>4, Zenon DEF S
  <1>8. F \in [1 .. n + 1 -> Nat]
    <2>1. F = [i \in 1 .. n + 1 |-> F[i]]
      BY <1>4, Zenon
    <2> QED
      BY <1>7, <2>1, Zenon
  <1>9. Denotes(F, digits, n)
    BY <1>6, <1>8, Zenon DEF Denotes
  <1> QED
    BY <1>5, <1>9, Zenon DEF n

\* The first m of the digits are zeros.
Zeros(digits, m) == \A i \in 1 .. m : digits[i] = 0

\* The d digits that follow the first m, and two values that are the same.
Remains(rest, digits, d, m) == \A i \in 1 .. d : rest[i] = digits[m + i]
Agree(g, d, f, n) == g[d + 1] = f[n + 1]

\* Digits that are all zero denote zero.
LEMMA ZerosDenote ==
  ASSUME NEW n \in Nat, NEW digits, NEW f, Denotes(f, digits, n), NEW m \in 0 .. n,
         Zeros(digits, m)
  PROVE  f[m + 1] = 0
  <1> DEFINE S == {k \in Nat : k <= m => f[k + 1] = 0}
  <1>1. 0 \in S
    BY DEF Denotes
  <1>2. \A k \in Nat : k \in S => k + 1 \in S
    <2> SUFFICES ASSUME NEW k \in Nat, k \in S, k + 1 <= m
                 PROVE  f[(k + 1) + 1] = 0
      OBVIOUS
    <2>1. k + 1 \in 1 .. m /\ k + 1 \in 1 .. n /\ f[k + 1] = 0
      OBVIOUS
    <2>2. f[(k + 1) + 1] = 10 * f[k + 1] + digits[k + 1] /\ digits[k + 1] = 0
      BY <2>1, Zenon DEF Denotes, Zeros
    <2>3. f[(k + 1) + 1] = 10 * 0 + 0
      BY <2>1, <2>2, Zenon
    <2> QED
      BY <2>3
  <1> HIDE DEF S
  <1>3. m \in S
    BY <1>1, <1>2, SetInduction
  <1> QED
    BY <1>3 DEF S

\* Digits denote what they denote after zeros.
LEMMA ZerosDropped ==
  ASSUME NEW n \in Nat, NEW digits, NEW f, Denotes(f, digits, n), NEW m \in 0 .. n,
         Zeros(digits, m), NEW rest, NEW g, NEW d, d = n - m, Denotes(g, rest, d),
         Remains(rest, digits, d, m)
  PROVE  Agree(g, d, f, n)
  <1> DEFINE S == {k \in Nat : k <= d => g[k + 1] = f[m + k + 1]}
  <1>1. 0 \in S
    <2>1. f[m + 1] = 0
      BY ZerosDenote
    <2>2. m + 0 + 1 = m + 1 /\ 0 + 1 = 1
      OBVIOUS
    <2>3. g[1] = 0
      BY DEF Denotes
    <2> QED
      BY <2>1, <2>2, <2>3
  <1>2. \A k \in Nat : k \in S => k + 1 \in S
    <2> SUFFICES ASSUME NEW k \in Nat, k \in S, k + 1 <= d
                 PROVE  g[(k + 1) + 1] = f[m + (k + 1) + 1]
      OBVIOUS
    <2>1. /\ k + 1 \in 1 .. d /\ m + k + 1 \in 1 .. n
          /\ m + (k + 1) = m + k + 1 /\ g[k + 1] = f[m + k + 1]
      OBVIOUS
    <2>2. g[(k + 1) + 1] = 10 * g[k + 1] + rest[k + 1] /\ rest[k + 1] = digits[m + (k + 1)]
      BY <2>1, Zenon DEF Denotes, Remains
    <2>3. f[(m + k + 1) + 1] = 10 * f[m + k + 1] + digits[m + k + 1]
      BY <2>1, Zenon DEF Denotes
    <2> QED
      BY <2>1, <2>2, <2>3, Zenon
  <1> HIDE DEF S
  <1>3. d \in Nat
    OBVIOUS
  <1>4. d \in S
    BY <1>1, <1>2, <1>3, SetInduction
  <1>5. d <= d /\ m + d + 1 = n + 1
    OBVIOUS
  <1>6. g[d + 1] = f[m + d + 1]
    BY <1>4, <1>5, Zenon DEF S
  <1> QED
    BY <1>5, <1>6, Zenon DEF Agree

\* A set of positions has a first one.
LEMMA FirstOf ==
  ASSUME NEW S \in SUBSET Nat, S # {}
  PROVE  Min(S) \in S /\ \A y \in S : Min(S) <= y
  <1> DEFINE P == {k \in Nat : \A j \in 0 .. k : j \in S => \E x \in S : \A y \in S : x <= y}
  <1>1. 0 \in P
    OBVIOUS
  <1>2. \A k \in Nat : k \in P => k + 1 \in P
    <2> SUFFICES ASSUME NEW k \in Nat, k \in P, k + 1 \in S
                 PROVE  \E x \in S : \A y \in S : x <= y
      OBVIOUS
    <2>1. CASE \E j \in 0 .. k : j \in S
      BY <2>1
    <2>2. CASE \A j \in 0 .. k : j \notin S
      <3>1. \A y \in S : k + 1 <= y
        BY <2>2
      <3> QED
        BY <3>1
    <2> QED
      BY <2>1, <2>2
  <1> HIDE DEF P
  <1>3. \A k \in Nat : k \in P
    BY <1>1, <1>2, SetInduction
  <1>4. PICK s \in S : TRUE
    OBVIOUS
  <1>5. s \in Nat /\ s \in 0 .. s
    OBVIOUS
  <1>6. \E x \in S : \A y \in S : x <= y
    BY <1>3, <1>5, Zenon DEF P
  <1> QED
    BY <1>6, Zenon DEF Min

\* Stripping leading zeros keeps the number.
LEMMA SignificantKeepsNumber ==
  ASSUME NEW digits \in Seq(Nat)
  PROVE  Number(Significant(digits)) = Number(digits)
  <1> DEFINE n == Len(digits)
             nonzero == {i \in DOMAIN digits : digits[i] # 0}
  <1>1. n \in Nat /\ DOMAIN digits = 1 .. n
    OBVIOUS
  <1>2. PICK f : Denotes(f, digits, n) /\ Number(digits) = f[n + 1]
    BY NumberDenoted, Zenon
  <1>3. nonzero \in SUBSET (1 .. n) /\ \A i \in 1 .. n : i \notin nonzero => digits[i] = 0
    BY <1>1, Zenon
  <1>4. Significant(digits) = IF nonzero = {} THEN << >> ELSE SubSeq(digits, Min(nonzero), n)
    BY Zenon DEF Significant
  <1>5. CASE nonzero = {}
    <2>1. n \in 0 .. n /\ Zeros(digits, n)
      BY <1>1, <1>3, <1>5 DEF Zeros
    <2> HIDE DEF n
    <2>2. Number(digits) = 0
      BY <1>1, <1>2, <2>1, ZerosDenote, Zenon
    <2>3. PICK g : Denotes(g, << >>, Len(<< >>)) /\ Number(<< >>) = g[Len(<< >>) + 1]
      <3>1. << >> \in Seq(Nat)
        OBVIOUS
      <3> QED
        BY <3>1, NumberDenoted, Zenon
    <2>4. g[Len(<< >>) + 1] = 0
      BY <2>3 DEF Denotes
    <2> QED
      BY <1>4, <1>5, <2>2, <2>3, <2>4, Zenon
  <1>6. CASE nonzero # {}
    <2> DEFINE k == Min(nonzero)
               m == k - 1
               d == n - m
               rest == SubSeq(digits, k, n)
    <2>1. nonzero \in SUBSET Nat
      BY <1>3
    <2>2. k \in nonzero /\ \A y \in nonzero : k <= y
      BY <1>6, <2>1, FirstOf, Zenon
    <2>3. k \in 1 .. n
      BY <1>3, <2>2, Zenon
    <2> HIDE DEF nonzero, k
    <2>4. m \in 0 .. n /\ d \in Nat
      BY <1>1, <2>3
    <2>5. Zeros(digits, m)
      <3> SUFFICES ASSUME NEW i \in 1 .. m PROVE digits[i] = 0
        BY DEF Zeros
      <3>1. i \in 1 .. n /\ ~(k <= i)
        BY <1>1, <2>3
      <3> QED
        BY <1>3, <2>2, <3>1, Zenon
    <2>6. rest \in Seq(Nat) /\ Len(rest) = d
      BY <1>1, <2>3
    <2>7. Remains(rest, digits, d, m)
      <3> SUFFICES ASSUME NEW i \in 1 .. d PROVE rest[i] = digits[m + i]
        BY DEF Remains
      <3>1. rest[i] = digits[k + i - 1] /\ k + i - 1 = m + i
        BY <1>1, <2>3, <2>6
      <3> QED
        BY <3>1, Zenon
    <2>8. Significant(digits) = rest
      BY <1>4, <1>6, Zenon DEF k
    <2>9. d = n - m
      OBVIOUS
    <2> HIDE DEF rest, m, n, d
    <2>10. PICK g : Denotes(g, rest, d) /\ Number(rest) = g[d + 1]
      BY <2>6, NumberDenoted, Zenon
    <2>11. Agree(g, d, f, n)
      BY <1>1, <1>2, <2>4, <2>5, <2>7, <2>9, <2>10, ZerosDropped, Zenon
    <2> QED
      BY <1>2, <2>8, <2>10, <2>11, Zenon DEF Agree
  <1> QED
    BY <1>5, <1>6

\* So does writing zero as one digit.
LEMMA StripKeepsNumber ==
  ASSUME NEW digits \in Seq(Nat)
  PROVE  Number(Strip(digits)) = Number(digits)
  <1>1. CASE Significant(digits) = << >>
    <2> DEFINE z == <<0>>
    <2>1. z \in Seq(Nat) /\ << >> \in Seq(Nat) /\ Significant(z) = << >>
      BY DEF Significant
    <2>2. Strip(digits) = z
      BY <1>1, Zenon DEF Strip
    <2> HIDE DEF z
    <2> QED
      BY <1>1, <2>1, <2>2, SignificantKeepsNumber, Zenon
  <1>2. CASE Significant(digits) # << >>
    BY <1>2, SignificantKeepsNumber, Zenon DEF Strip
  <1> QED
    BY <1>1, <1>2

\* Lengths that _validate_framing takes for the same are equal numbers.
LEMMA SameLengthEqual ==
  ASSUME NEW lengths \in Seq(Seq(Nat)), \A m \in Range(lengths) : m # << >>,
         SameLength(Range(lengths))
  PROVE  \A k, l \in Range(lengths) : Number(k) = Number(l)
  <1> DEFINE n == Len(lengths)
             f == [i \in 1 .. n |-> Strip(lengths[i])]
             T == {Strip(m) : m \in Range(lengths)}
  <1>1. n \in Nat /\ DOMAIN lengths = 1 .. n /\ \A i \in 1 .. n : lengths[i] \in Seq(Nat)
    OBVIOUS
  <1> HIDE DEF n
  <1>2. T = {f[i] : i \in 1 .. n}
    BY <1>1, Zenon DEF Range
  <1>3. f \in Surjection(1 .. n, T)
    <2>1. f \in [1 .. n -> T]
      BY <1>1, Zenon DEF Range
    <2>2. \A t \in T : \E i \in 1 .. n : f[i] = t
      BY <1>2, Zenon
    <2> HIDE DEF f, T
    <2> QED
      BY <2>1, <2>2, Zenon DEF Surjection
  <1> HIDE DEF f
  <1>4. IsFiniteSet(T)
    <2>1. IsFiniteSet(1 .. n)
      BY <1>1, FS_Interval
    <2> HIDE DEF T
    <2> QED
      BY <1>3, <2>1, FS_Surjection, Zenon
  <1>5. Cardinality(T) = 1
    BY Zenon DEF SameLength
  <1>6. PICK x : T = {x}
    <2> HIDE DEF T
    <2> QED
      BY <1>4, <1>5, FS_Singleton, Zenon
  <1>7. \A m \in Range(lengths) : m \in Seq(Nat) /\ m # << >> /\ Strip(m) = x
    BY <1>1, <1>6, Zenon DEF Range
  <1>8. \A m \in Range(lengths) : Number(m) = Number(x)
    BY <1>7, StripKeepsNumber, Zenon
  <1> QED
    BY <1>8, Zenon

-----------------------------------------------------------------------------
(* The answer to a request *)

\* What the peer sends does not change.
PeerInv == head \in AnyHead /\ request \in AnyRequest

\* The statuses of a complete head.
LEMMA StatusType ==
  ASSUME NEW r
  PROVE  Status(r) \in {308, 400, 501, 505}
  <1>1. FramingStatus(r) \in {0, 400, 501}
    BY DEF FramingStatus
  <1>2. ParseRequest(r) \in {0, 400, 501, 505}
    BY <1>1 DEF ParseRequest
  <1>3. RedirectLocation(r) \in {308, 400, 501}
    BY DEF RedirectLocation
  <1> QED
    BY <1>2, <1>3 DEF Status

\* The statuses of an oversized one.
LEMMA VerdictType ==
  ASSUME NEW h, NEW n, NEW incomplete
  PROVE  CheckHeadSize(h, n, incomplete) \in {0, 414, 431}
  BY DEF CheckHeadSize

\* The lengths are equal numbers.
EqualNumbers(lengths) == \A k, l \in Range(lengths) : Number(k) = Number(l)

\* _validate_framing accepts no lengths that differ as numbers.
LEMMA FramedLengths ==
  ASSUME NEW r, r.lengths \in Seq(Seq(Digits)), FramingStatus(r) = 0
  PROVE  EqualNumbers(r.lengths)
  <1> DEFINE lengths == r.lengths
  <1>1. CASE lengths = << >>
    <2>1. DOMAIN << >> = {}
      OBVIOUS
    <2> QED
      BY <1>1, <2>1, Zenon DEF Range, EqualNumbers
  <1>2. CASE lengths # << >>
    <2>1. /\ \A m \in Range(lengths) : m # << >> /\ NoDigit \notin Range(m)
          /\ SameLength(Range(lengths))
      <3>1. 400 # 0
        OBVIOUS
      <3> QED
        BY <1>2, <3>1, Zenon DEF FramingStatus
    <2> HIDE DEF lengths
    <2>2. lengths \in Seq(Seq(Digits))
      BY DEF lengths
    <2>3. \A i \in 1 .. Len(lengths) : lengths[i] \in Seq(Digits) /\ i \in DOMAIN lengths
      BY <2>2
    <2>4. \A i \in 1 .. Len(lengths) : lengths[i] \in Seq(Digits) /\ lengths[i] \in Range(lengths)
      BY <2>3, Zenon DEF Range
    <2>5. ASSUME NEW i \in 1 .. Len(lengths) PROVE lengths[i] \in Seq(Nat)
      <3> DEFINE m == lengths[i]
      <3>1. m \in Seq(Digits) /\ NoDigit \notin Range(m)
        BY <2>1, <2>4, Zenon
      <3> HIDE DEF m
      <3>2. \A j \in DOMAIN m : m[j] \in Digits
        BY <3>1
      <3>3. \A j \in DOMAIN m : m[j] \in Nat
        <4> SUFFICES ASSUME NEW j \in DOMAIN m PROVE m[j] \in Nat
          OBVIOUS
        <4>1. m[j] \in Digits /\ m[j] # NoDigit
          BY <3>1, <3>2, Zenon DEF Range
        <4> QED
          BY <4>1 DEF Digits
      <3>4. m \in Seq(Nat)
        BY <3>1, <3>3
      <3> QED
        BY <3>4 DEF m
    <2>6. lengths \in Seq(Seq(Nat))
      <3> DEFINE T == Seq(Nat)
      <3>1. \A i \in 1 .. Len(lengths) : lengths[i] \in T
        BY <2>5
      <3> HIDE DEF T
      <3>2. lengths \in Seq(T)
        BY <2>2, <3>1
      <3> QED
        BY <3>2 DEF T
    <2>7. \A k, l \in Range(lengths) : Number(k) = Number(l)
      BY <2>1, <2>6, SameLengthEqual, Zenon
    <2> QED
      BY <2>7, Zenon DEF lengths, EqualNumbers
  <1> QED
    BY <1>1, <1>2

\* A request that is redirected names a host, and is chunked in the end if it has
\* a transfer coding, which excludes a length; its lengths are equal numbers.
Framed(r) ==
  /\ r.target = "http" \/ r.hosts = <<"name">>
  /\ r.encoded => r.lengths = << >> /\ r.codings[Len(r.codings)].name = "chunked"
  /\ EqualNumbers(r.lengths)

\* The status 308 is given to such a request only.
LEMMA RedirectedRequest ==
  ASSUME NEW r \in AnyRequest, Status(r) = 308
  PROVE  Framed(r)
  <1> DEFINE hosts == r.hosts
  <1>0. /\ hosts \in Seq({"name", "empty", Invalid})
        /\ r.codings \in Seq(Coding) /\ r.lengths \in Seq(Seq(Digits))
    BY DEF AnyRequest
  <1>1. FramingStatus(r) \in {0, 400, 501}
    BY DEF FramingStatus
  <1>2. ParseRequest(r) = 0 /\ RedirectLocation(r) = 308
    BY <1>1 DEF Status, ParseRequest
  <1>3. /\ ValidTarget(r) /\ Len(r.hosts) = 1 /\ r.hosts # <<Invalid>>
        /\ FramingStatus(r) = 0
    BY <1>2 DEF ParseRequest
  <1>4. /\ r.method # "CONNECT" /\ r.target \notin {"asterisk", "other"}
        /\ r.target = "origin" => r.hosts # <<"empty">>
    BY <1>2 DEF RedirectLocation
  <1>5. r.hosts \in {<<"name">>, <<"empty">>}
    <2> HIDE DEF hosts
    <2>1. Len(hosts) = 1 /\ hosts # <<Invalid>>
      BY <1>3, Zenon DEF hosts
    <2>2. hosts = <<hosts[1]>> /\ hosts[1] \in {"name", "empty", Invalid}
      <3> DEFINE T == {"name", "empty", Invalid}
      <3>1. hosts \in Seq(T) /\ Len(hosts) = 1
        BY <1>0, <2>1, Zenon
      <3> HIDE DEF T
      <3>2. hosts = <<hosts[1]>> /\ hosts[1] \in T
        BY <3>1
      <3> QED
        BY <3>2, Zenon DEF T
    <2>3. hosts \in {<<"name">>, <<"empty">>}
      BY <2>1, <2>2, Zenon
    <2> QED
      BY <2>3, Zenon DEF hosts
  <1>6. r.target \in {"origin", "http"}
    BY <1>3, <1>4 DEF ValidTarget
  <1>7. ASSUME r.encoded
        PROVE  r.lengths = << >> /\ r.codings[Len(r.codings)].name = "chunked"
    <2> DEFINE codings == [i \in DOMAIN r.codings |-> r.codings[i].name]
               chunked == {i \in DOMAIN codings : codings[i] = "chunked"}
    <2>1. r.lengths = << >>
      BY <1>3, <1>7 DEF FramingStatus
    <2>2. chunked = {Len(codings)}
      <3>1. ASSUME chunked # {Len(codings)} PROVE FramingStatus(r) = 400
        BY <1>7, <2>1, <3>1, Zenon DEF FramingStatus
      <3>2. 400 # 0
        OBVIOUS
      <3> HIDE DEF codings, chunked
      <3> QED
        BY <1>3, <3>1, <3>2, Zenon
    <2>3. Len(codings) = Len(r.codings)
      BY <1>0
    <2>4. Len(r.codings) \in DOMAIN r.codings /\ codings[Len(r.codings)] = "chunked"
      <3>1. \A i \in chunked : i \in DOMAIN r.codings /\ codings[i] = "chunked"
        BY Zenon
      <3> HIDE DEF codings, chunked
      <3> QED
        BY <2>2, <2>3, <3>1, Zenon
    <2> QED
      BY <2>1, <2>4
  <1>8. EqualNumbers(r.lengths)
    BY <1>3, <1>0, FramedLengths, ZenonT(30)
  <1> QED
    BY <1>4, <1>5, <1>6, <1>7, <1>8, Zenon DEF Framed

-----------------------------------------------------------------------------
(* The connection begins *)

\* A peer sends some head, and some request.
LEMMA PeerTypes == Init => PeerInv
  <1> SUFFICES ASSUME Init PROVE PeerInv
    OBVIOUS
  <1>1. PICK p \in Peers : head = p.head /\ request = p.request
    BY DEF Init
  <1>2. p \in [head : AnyHead, request : AnyRequest]
    BY PeersAssumption
  <1>3. p.head \in AnyHead /\ p.request \in AnyRequest
    BY <1>2
  <1> QED
    BY <1>1, <1>3 DEF PeerInv

\* A connection that was accepted satisfies the invariant.
LEMMA InitEstablishesInv == Init => RedirectInv
  <1> SUFFICES ASSUME Init PROVE RedirectInv
    OBVIOUS
  <1>1. Size(head) \in Nat /\ Size(head) >= 4
    BY PeerTypes, SizeType DEF PeerInv
  <1>2. location \in BOOLEAN /\ ~location /\ disturbed \in BOOLEAN
    BY ZenonT(30) DEF Init
  <1>3. pc = "read" /\ got = 0 /\ status = 0 /\ sent = {} /\ transport = "open"
    BY DEF Init
  <1>4. TypeOK
    BY <1>1, <1>2, <1>3, SizesAssumption DEF TypeOK
  <1> QED
    BY <1>1, <1>2, <1>3, <1>4, HeadAssumption
    DEF RedirectInv, SplitsDoNotMatter, Complete, LocationSound

-----------------------------------------------------------------------------
(* Its steps *)

\* The answer to the whole head at once.
Whole == CheckHeadSize(head, Size(head), FALSE)
Verdict == IF Whole = 0 THEN Status(request) ELSE Whole

\* The statuses the handler may have chosen, by what it has read.
Justified ==
  status \in {0, 408} \/ status = Verdict
    \/ (status = 400 /\ got < Min({Size(head), MaxHead}))

\* SplitsDoNotMatter in these terms, before and after a step.
LEMMA Splits ==
  /\ SplitsDoNotMatter <=> TypeOK /\ (pc = "read" => got < MaxHead) /\ Justified
  /\ SplitsDoNotMatter' <=> TypeOK' /\ (pc' = "read" => got' < MaxHead) /\ Justified'
  BY DEF SplitsDoNotMatter, Justified, Verdict, Whole

\* A step that leaves the peer's bytes, the status and the location as they are
\* leaves their justification.
LEMMA SameAnswer ==
  ASSUME UNCHANGED <<head, request, got, status, location>>
  PROVE  /\ Justified => Justified'
         /\ LocationSound => LocationSound'
  BY ZenonT(30) DEF Justified, Verdict, Whole, LocationSound

\* The handler responds with a status that the bytes read justify.
LEMMA Responds ==
  ASSUME RedirectInv, PeerInv, pc = "read", NEW s, Respond(s),
         s \in {308, 400, 408, 414, 431, 501, 505},
         s = 408 \/ s = Verdict \/ (s = 400 /\ got' < Min({Size(head), MaxHead})),
         s = 308 => s = Verdict /\ Whole = 0 /\ Size(head) <= Min({got', MaxHead}),
         got' \in 0 .. Size(head) + MaxTail,
         UNCHANGED <<peerVars, transport, disturbed>>
  PROVE  RedirectInv'
  <1>1. /\ pc' = "write" /\ sent' = {"response"} /\ status' = s
        /\ UNCHANGED <<head, request, transport, disturbed>>
    BY DEF Respond, peerVars
  <1>2. location' = (s = 308)
    BY DEF Respond
  <1>3. location' \in BOOLEAN /\ (location' <=> s = 308)
    BY <1>2, ZenonT(60)
  <1>4. TypeOK'
    BY <1>1, <1>3, Splits DEF RedirectInv, TypeOK
  <1>5. Verdict' = Verdict
    BY <1>1 DEF Verdict, Whole
  <1>6. Justified'
    BY <1>1, <1>5 DEF Justified
  <1>7. LocationSound'
    <2> SUFFICES ASSUME location' PROVE LocationSound'
      BY DEF LocationSound
    <2>1. Status(request) = 308 /\ Size(head) <= Min({got', MaxHead})
      BY <1>3 DEF Verdict
    <2>2. Framed(request)
      BY <2>1, RedirectedRequest, ZenonT(30) DEF PeerInv
    <2>3. head' = head /\ request' = request
      BY <1>1
    <2>4. Size(head') <= Min({got', MaxHead}) /\ Framed(request')
      BY <2>1, <2>2, <2>3, ZenonT(30)
    <2> QED
      BY <2>4, ZenonT(30) DEF LocationSound, Framed, EqualNumbers
  <1>8. SplitsDoNotMatter'
    BY <1>1, <1>4, <1>6, Splits
  <1> QED
    BY <1>1, <1>7, <1>8 DEF RedirectInv

\* A portion arrives.  Its head is answered if it is too large or complete.
LEMMA ReadChunkStep ==
  ASSUME RedirectInv, PeerInv, NEW n \in 1 .. Chunk, ReadChunk(n)
  PROVE  RedirectInv'
  <1> DEFINE error == CheckHeadSize(head, got + n, TRUE)
  <1>1. head \in AnyHead /\ Size(head) \in Nat /\ MaxTail \in Nat /\ MaxHead \in Nat
    BY SizeType, SizesAssumption, HeadAssumption DEF PeerInv
  <1>2. n \in Nat /\ got \in Nat
    BY <1>1, SizesAssumption, Splits DEF RedirectInv, TypeOK
  <1>3. got' = got + n /\ got + n \in Nat /\ got' \in 0 .. Size(head) + MaxTail
    BY <1>1, <1>2 DEF ReadChunk
  <1>4. UNCHANGED <<peerVars, transport, disturbed>> /\ pc = "read"
    BY DEF ReadChunk
  <1>5. CASE error # 0 /\ Respond(error)
    <2>1. error = Whole
      BY <1>1, <1>3, <1>5, VerdictOfWhole, ZenonT(30) DEF Whole
    <2>2. error \in {0, 414, 431}
      BY VerdictType, ZenonT(60)
    <2> HIDE DEF error
    <2>3. error = Verdict /\ error \in {414, 431}
      BY <1>5, <2>1, <2>2 DEF Verdict
    <2> QED
      BY <1>3, <1>4, <1>5, <2>3, Responds
  <1>6. CASE error = 0 /\ Complete(got') /\ Respond(Status(request))
    <2>1. Size(head) <= got' /\ Size(head) <= MaxHead /\ Whole = 0
      BY <1>1, <1>3, <1>6, NoVerdict, ZenonT(30) DEF Complete, Whole
    <2>2. Size(head) <= Min({got', MaxHead})
      BY <1>1, <1>3, <2>1, MinOfTwo
    <2>3. Status(request) = Verdict /\ Status(request) \in {308, 400, 501, 505}
      BY <2>1, StatusType DEF Verdict
    <2> QED
      BY <1>3, <1>4, <1>6, <2>1, <2>2, <2>3, Responds
  <1>7. CASE error = 0 /\ ~Complete(got') /\ UNCHANGED <<pc, status, location, sent>>
    <2>1. got' < MaxHead /\ ~Complete(got')
      BY <1>1, <1>3, <1>7, NoVerdict, ZenonT(30) DEF Complete
    <2>2. UNCHANGED <<pc, head, request, status, location, sent, transport, disturbed>>
      BY <1>4, <1>7 DEF peerVars
    <2>3. status = 0 /\ ~location /\ sent = {} /\ TypeOK
      BY <1>4, Splits DEF RedirectInv
    <2>4. TypeOK'
      BY <1>3, <2>2, <2>3 DEF TypeOK
    <2>5. Justified' /\ LocationSound'
      BY <2>2, <2>3 DEF Justified, LocationSound
    <2>6. ~Complete(got)'
      BY <2>1, <2>2 DEF Complete
    <2> QED
      BY <1>4, <2>1, <2>2, <2>3, <2>4, <2>5, <2>6, Splits, ZenonT(30) DEF RedirectInv
  <1> QED
    BY <1>3, <1>5, <1>6, <1>7, ZenonT(30) DEF ReadChunk

\* The peer closes before its head is complete, or is late.
LEMMA ReadEndsStep ==
  ASSUME RedirectInv, PeerInv, ReadEof \/ ReadTimeout
  PROVE  RedirectInv'
  <1>1. /\ Size(head) \in Nat /\ MaxHead \in Nat /\ got \in 0 .. Size(head) + MaxTail
        /\ pc = "read" /\ MaxTail \in Nat
    BY SizeType, SizesAssumption, HeadAssumption, Splits
    DEF PeerInv, RedirectInv, TypeOK, ReadEof, ReadTimeout
  <1>2. UNCHANGED <<peerVars, got, transport, disturbed>>
    BY DEF ReadEof, ReadTimeout
  <1>3. got' < Min({Size(head), MaxHead})
    BY <1>1, <1>2, MinOfTwo, Splits DEF RedirectInv, Complete
  <1>4. CASE Respond(400)
    BY <1>1, <1>2, <1>3, <1>4, Responds
  <1>5. CASE Respond(408)
    BY <1>1, <1>2, <1>5, Responds
  <1>6. CASE got = 0 /\ pc' = "close" /\ UNCHANGED <<status, location, sent>>
    <2>1. UNCHANGED <<head, request, got, status, location, sent, transport, disturbed>>
      BY <1>2, <1>6 DEF peerVars
    <2>2. Justified' /\ LocationSound'
      BY <2>1, SameAnswer, Splits DEF RedirectInv
    <2>3. TypeOK'
      BY <1>6, <2>1, Splits DEF RedirectInv, TypeOK
    <2> QED
      BY <1>1, <1>6, <2>1, <2>2, <2>3, Splits DEF RedirectInv
  <1> QED
    BY <1>4, <1>5, <1>6 DEF ReadEof, ReadTimeout

\* Every later step keeps the answer, and sends what its place says.
LEMMA LaterStep ==
  ASSUME RedirectInv,
         Write \/ WriteStalls \/ Drain \/ Lost \/ CloseTransport \/ WaitClosed \/ Cancel
  PROVE  RedirectInv'
  <1>1. UNCHANGED <<head, request, got, status, location>> /\ pc' # "read" /\ pc' # "write"
    BY DEF Write, WriteStalls, Drain, Lost, CloseTransport, WaitClosed, Cancel, peerVars
  <1>2. Justified' /\ LocationSound' /\ (status' = 0 => ~location')
    BY <1>1, SameAnswer, Splits DEF RedirectInv
  <1>3. TypeOK
    BY Splits DEF RedirectInv
  <1>4. disturbed' \in BOOLEAN
    <2>1. CASE disturbed' = disturbed
      BY <1>3, <2>1 DEF TypeOK
    <2>2. CASE disturbed' = TRUE
      BY <2>2
    <2> QED
      BY <2>1, <2>2, ZenonT(30)
      DEF Write, WriteStalls, Drain, Lost, CloseTransport, WaitClosed, Cancel
  <1>5. /\ transport' \in {"open", "eof", "closing", "closed", "aborted"}
        /\ sent' \subseteq {"response", "fin"}
        /\ pc' \in {"drain", "close", "wait", "done"}
    <2>1. transport' \in {transport, "eof", "closing", "closed", "aborted"}
      BY DEF Write, WriteStalls, Drain, Lost, CloseTransport, WaitClosed, Cancel, Stuck
    <2>2. sent' \in {sent, sent \cup {"fin"}}
      BY DEF Write, WriteStalls, Drain, Lost, CloseTransport, WaitClosed, Cancel
    <2>3. pc' \in {"drain", "close", "wait", "done"}
      BY DEF Write, WriteStalls, Drain, Lost, CloseTransport, WaitClosed, Cancel
    <2> QED
      BY <1>3, <2>1, <2>2, <2>3 DEF TypeOK
  <1>6. TypeOK'
    BY <1>1, <1>3, <1>4, <1>5 DEF TypeOK
  <1>7. CASE Write
    <2>1. sent = {"response"} /\ status # 0
      BY <1>7 DEF RedirectInv, Write
    <2> QED
      BY <1>1, <1>2, <1>6, <1>7, <2>1, Splits, ZenonT(30) DEF RedirectInv, Write
  <1>8. CASE WriteStalls \/ Lost \/ Cancel
    <2>1. disturbed' /\ pc' \in {"close", "done"}
      BY <1>8 DEF WriteStalls, Lost, Cancel
    <2> QED
      BY <1>1, <1>2, <1>6, <2>1, Splits, ZenonT(30) DEF RedirectInv
  <1>9. CASE Drain \/ CloseTransport \/ WaitClosed
    <2>1. UNCHANGED <<sent, disturbed>> /\ pc' \in {"close", "wait", "done"}
      BY <1>9 DEF Drain, CloseTransport, WaitClosed
    <2>2. pc \in {"drain", "close", "wait"}
      BY <1>9 DEF Drain, CloseTransport, WaitClosed
    <2>3. ~disturbed =>
            IF status = 0 THEN got = 0 /\ sent = {} ELSE sent = {"response", "fin"}
      BY <2>2 DEF RedirectInv
    <2> QED
      BY <1>1, <1>2, <1>6, <2>1, <2>3, Splits, ZenonT(30) DEF RedirectInv
  <1> QED
    BY <1>7, <1>8, <1>9

\* Every step keeps the invariant, and what the peer sends.
LEMMA NextStep ==
  ASSUME RedirectInv, PeerInv, [Next]_vars
  PROVE  RedirectInv' /\ PeerInv'
  <1>1. UNCHANGED <<head, request>>
    BY ZenonT(30)
    DEF Next, Handler, ReadChunk, ReadEof, ReadTimeout, Write, WriteStalls, Drain, Lost,
        CloseTransport, WaitClosed, Cancel, vars, peerVars
  <1>2. CASE UNCHANGED vars
    <2>1. UNCHANGED <<pc, head, request, got, status, location, sent, transport, disturbed>>
      BY <1>2 DEF vars, peerVars
    <2>2. Justified' /\ LocationSound' /\ PeerInv'
      BY <2>1, SameAnswer, Splits DEF RedirectInv, PeerInv
    <2>3. TypeOK' /\ (Complete(got)' <=> Complete(got))
      BY <2>1, Splits DEF RedirectInv, TypeOK, Complete
    <2> QED
      BY <2>1, <2>2, <2>3, Splits DEF RedirectInv
  <1>3. CASE Next
    <2>1. RedirectInv'
      BY <1>3, ReadChunkStep, ReadEndsStep, LaterStep DEF Next, Handler
    <2> QED
      BY <1>1, <2>1 DEF PeerInv
  <1> QED
    BY <1>2, <1>3

-----------------------------------------------------------------------------
(* The theorems *)

\* The invariant of handle_redirect's reading, answering and closing.
THEOREM RedirectInvariant == Spec => []RedirectInv
  <1>1. Init => RedirectInv /\ PeerInv
    BY PeerTypes, InitEstablishesInv
  <1>2. (RedirectInv /\ PeerInv) /\ [Next]_vars => (RedirectInv /\ PeerInv)'
    BY NextStep
  <1> QED
    BY <1>1, <1>2, PTL DEF Spec

\* However the peer splits its bytes into reads, handle_redirect gives a head the
\* verdict on all of it, and holds less than MAX_HEAD_SIZE bytes while it reads.
\* This is so for heads whose parts have any lengths.
THEOREM OneVerdict == Spec => []SplitsDoNotMatter
  <1>1. RedirectInv => SplitsDoNotMatter
    BY DEF RedirectInv
  <1> QED
    BY <1>1, RedirectInvariant, PTL

\* handle_redirect answers an undisturbed connection that sent anything, and only
\* that; it names a location only for a complete head within the limit, with a
\* host, about whose content no two recipients can disagree: its lengths are equal
\* numbers however many zeros they begin with, or it is chunked in the end.  Peers
\* is any set of heads and requests: parts of any length, any number of lengths of
\* any number of digits, any number of codings.
THEOREM AnsweredSoundly == Spec => []EveryRequestAnswered
  <1>1. RedirectInv => EveryRequestAnswered
    BY DEF RedirectInv, EveryRequestAnswered, Answered
  <1> QED
    BY <1>1, RedirectInvariant, PTL

-----------------------------------------------------------------------------
(* The fields of an HTTP/2 request *)

\* A field that is the only one of its name has the value that dict() keeps.
LEMMA OnlyOne ==
  ASSUME NEW V, NEW fields \in Seq(V), NEW name,
         \A i, j \in Named(fields, name) : i = j,
         NEW v \in Values(fields, name)
  PROVE  Sent(fields, name) /\ v = Value(fields, name)
  <1>1. PICK i \in Named(fields, name) : v = fields[i].value
    BY Zenon DEF Values
  <1>2. Named(fields, name) = {i}
    BY Zenon
  <1>3. i \in Int
    BY DEF Named
  <1>4. Max({i}) = i
    BY <1>3 DEF Max
  <1> QED
    BY <1>1, <1>2, <1>4, Zenon DEF Sent, Value

\* There is at most one Host field.
LEMMA OneHost ==
  ASSUME NEW V, NEW fields \in Seq(V), SingleHost(fields)
  PROVE  \A i, j \in Named(fields, "host") : i = j
  <1> DEFINE H == Named(fields, "host")
  <1>1. IsFiniteSet(H)
    <2>1. Len(fields) \in Nat /\ H \subseteq 1 .. Len(fields)
      BY DEF Named
    <2>2. IsFiniteSet(1 .. Len(fields))
      BY <2>1, FS_Interval
    <2> QED
      BY <2>1, <2>2, FS_Subset, Zenon
  <1>2. Cardinality(H) <= 1
    BY Zenon DEF SingleHost
  <1> HIDE DEF H
  <1>3. Cardinality(H) \in Nat
    BY <1>1, FS_CardinalityType, Zenon
  <1>4. Cardinality(H) = 0 \/ Cardinality(H) = 1
    BY <1>2, <1>3
  <1>5. H = {} \/ \E x : H = {x}
    BY <1>1, <1>4, FS_EmptySet, FS_Singleton, Zenon
  <1> QED
    BY <1>5, Zenon DEF H

\* The copy that h2 is shown has the names of the fields.
LEMMA SameNames ==
  ASSUME NEW V, NEW fields \in Seq([name : STRING, value : V]), NEW trailers
  PROVE  LET copy == HeadersForH2(fields, trailers)
         IN /\ DOMAIN copy = DOMAIN fields
            /\ \A i \in DOMAIN fields : copy[i].name = fields[i].name
  <1>1. ASSUME NEW i \in DOMAIN fields, NEW w
        PROVE  [fields[i] EXCEPT !.value = w].name = fields[i].name
    <2>1. ASSUME NEW S, NEW f \in Seq(S), NEW j \in DOMAIN f PROVE f[j] \in S
      OBVIOUS
    <2>2. fields[i] \in [name : STRING, value : V]
      BY <2>1, Zenon
    <2> QED
      BY <2>2
  <1> QED
    BY <1>1, Zenon DEF HeadersForH2

\* Of the fields that h2 accepts, each pseudo-header comes at most once, and none
\* is a trailer.
LEMMA PseudoOnce ==
  ASSUME NEW V, NEW fields \in Seq([name : STRING, value : V]), NEW trailers,
         H2Validates(HeadersForH2(fields, trailers), trailers), NEW n \in Pseudo
  PROVE  /\ \A i, j \in Named(fields, n) : i = j
         /\ trailers => ~Sent(fields, n)
  <1> DEFINE copy == HeadersForH2(fields, trailers)
             pseudo == {i \in DOMAIN copy : copy[i].name \in Pseudo}
  <1>1. DOMAIN copy = DOMAIN fields /\ \A i \in DOMAIN fields : copy[i].name = fields[i].name
    BY SameNames, Zenon
  <1>2. /\ trailers => pseudo = {}
        /\ \A i, j \in pseudo : copy[i].name = copy[j].name => i = j
    BY Zenon DEF H2Validates
  <1> HIDE DEF copy
  <1>3. \A i \in Named(fields, n) : i \in pseudo /\ copy[i].name = n
    BY <1>1, Zenon DEF Named
  <1> QED
    BY <1>2, <1>3, Zenon DEF Sent

\* Every header block that validate_fields accepts is unambiguous, however many
\* fields it has and in whatever order they come: each :authority and Host names
\* the same host and port, each Content-Length is the same number, no
\* pseudo-header comes twice, and trailers have neither.  The code looks at the
\* last field of a name and h2 at a rewritten copy.
THEOREM AcceptedFieldsUnambiguous ==
  ASSUME NEW V, NEW fields \in Seq([name : STRING, value : V]), NEW trailers \in BOOLEAN,
         \A l \in Values(fields, "content-length") : l \in Seq(Nat),
         ValidateFields(fields, trailers)
  PROVE  Unambiguous(fields, trailers)
  <1> DEFINE A == ":authority"
             H == "host"
             authorities == Values(fields, A) \cup Values(fields, H)
             scheme == IF Sent(fields, ":scheme") THEN Value(fields, ":scheme") ELSE ""
  <1>1. /\ ValidLists(fields, trailers)
        /\ ~trailers => ValidRequestTarget(fields)
        /\ H2Validates(HeadersForH2(fields, trailers), trailers)
    BY Zenon DEF ValidateFields
  <1>2. \A n \in Pseudo :
          /\ \A i, j \in Named(fields, n) : i = j
          /\ trailers => ~Sent(fields, n)
    BY <1>1, PseudoOnce, Zenon
  <1>3. trailers => ~Sent(fields, "content-length")
    BY <1>1, Zenon DEF ValidLists, Values, Sent
  <1>4. \A k, l \in Values(fields, "content-length") : Number(k) = Number(l)
    <2>1. \A k, l \in Values(fields, "content-length") : Significant(k) = Significant(l)
      BY <1>1, Zenon DEF ValidLists
    <2> QED
      BY <2>1, SignificantKeepsNumber, Zenon
  <1>5. ASSUME ~trailers
        PROVE  /\ authorities # {}
               /\ \A a, b \in authorities :
                    a.host # "" /\ Normalized(a, scheme) = Normalized(b, scheme)
    <2>1. \A v \in Values(fields, A) : Sent(fields, A) /\ v = Value(fields, A)
      <3>1. A \in Pseudo
        BY DEF Pseudo
      <3> HIDE DEF A
      <3>2. \A i, j \in Named(fields, A) : i = j
        BY <1>2, <3>1, Zenon
      <3> QED
        BY <3>2, OnlyOne, Zenon
    <2>2. \A v \in Values(fields, H) : Sent(fields, H) /\ v = Value(fields, H)
      <3>1. \A i, j \in Named(fields, H) : i = j
        BY <1>1, OneHost, Zenon DEF ValidLists
      <3> QED
        BY <3>1, OnlyOne, Zenon
    <2>3. PICK connect : ValidRequestAuthority(fields, connect)
      BY <1>1, <1>5, Zenon DEF ValidRequestTarget
    <2> DEFINE name == IF Sent(fields, A) THEN A ELSE H
    <2>4. /\ Sent(fields, name) /\ Value(fields, name).host # ""
          /\ Sent(fields, A) /\ Sent(fields, H) =>
               Normalized(Value(fields, A), scheme) = Normalized(Value(fields, H), scheme)
      BY <2>3, Zenon DEF ValidRequestAuthority
    <2>5. authorities # {}
      BY <2>4, Zenon DEF Sent, Values
    <2> HIDE DEF A, H, scheme
    <2>6. \A a, b \in authorities : Normalized(a, scheme) = Normalized(b, scheme)
      BY <2>1, <2>2, <2>4, Zenon
    <2>7. ASSUME NEW a, NEW b, a.host # "", Normalized(a, scheme) = Normalized(b, scheme)
          PROVE  b.host # ""
      BY <2>7 DEF Normalized
    <2>8. Value(fields, name) \in authorities
      <3>1. \E v \in Values(fields, name) : v = Value(fields, name)
        BY <2>1, <2>2, <2>4, Zenon DEF Sent, Values
      <3> QED
        BY <3>1, Zenon
    <2>9. \A a \in authorities : a.host # ""
      BY <2>4, <2>6, <2>7, <2>8, Zenon
    <2> QED
      BY <2>5, <2>6, <2>9, Zenon
  <1>6. \A n \in Pseudo \cup {"content-length"} : trailers => ~Sent(fields, n)
    BY <1>2, <1>3, Zenon
  <1>7. /\ trailers => \A n \in Pseudo \cup {"content-length"} : ~Sent(fields, n)
        /\ ~trailers => authorities # {}
        /\ ~trailers => \A a, b \in authorities :
             a.host # "" /\ Normalized(a, scheme) = Normalized(b, scheme)
    BY <1>5, <1>6, Zenon
  <1>8. \A n \in Pseudo : \A i, j \in Named(fields, n) : i = j
    BY <1>2, Zenon
  <1> QED
    BY <1>4, <1>7, <1>8, Zenon DEF Unambiguous

-----------------------------------------------------------------------------
(* Lists that are spread over fields *)

\* Characters, among which is the comma (the provers do not know it is a string).
Chars == STRING \cup {","}
Texts == Seq(Chars)
Start == State(<< >>, << >>, FALSE, FALSE)

\* f holds the states of parse_http_list before each of the first n characters and
\* after the last.
Scans(f, text, n) ==
  f = [i \in 1 .. n + 1 |-> IF i = 1 THEN Start ELSE Scan(f[i - 1], text[i - 1])]

\* These states exist.
LEMMA ScansExists ==
  ASSUME NEW n \in Nat, NEW text
  PROVE  \E f : Scans(f, text, n)
  <1> DEFINE S == {k \in Nat : \E f : Scans(f, text, k)}
  <1>1. 0 \in S
    <2> DEFINE f == [i \in 1 .. 0 + 1 |-> Start]
    <2>1. ASSUME NEW i \in 1 .. 0 + 1 PROVE i = 1
      OBVIOUS
    <2>2. Scans(f, text, 0)
      BY <2>1, Zenon DEF Scans
    <2> QED
      BY <2>2
  <1>2. ASSUME NEW k \in Nat, k \in S PROVE k + 1 \in S
    <2>1. PICK f : Scans(f, text, k)
      BY <1>2
    <2> DEFINE m == k + 1
               g == [i \in 1 .. m + 1 |-> IF i <= m THEN f[i] ELSE Scan(f[m], text[m])]
    <2>2. ASSUME NEW i \in 1 .. m + 1, i # 1
          PROVE  g[i] = Scan(g[i - 1], text[i - 1])
      <3>1. i - 1 \in 1 .. m + 1 /\ i - 1 <= m
        BY <2>2
      <3>2. g[i - 1] = f[i - 1]
        BY <3>1, Zenon
      <3>3. CASE i <= m
        <4>1. i \in 1 .. k + 1
          BY <3>3
        <4>2. f[i] = Scan(f[i - 1], text[i - 1])
          BY <2>1, <2>2, <4>1, Zenon DEF Scans
        <4> QED
          BY <3>2, <3>3, <4>2, Zenon
      <3>4. CASE ~(i <= m)
        <4>1. i - 1 = m
          BY <3>4
        <4> HIDE DEF m
        <4> QED
          BY <3>2, <3>4, <4>1, Zenon
      <3> QED
        BY <3>3, <3>4, Zenon
    <2>3. g[1] = Start
      <3>1. 1 \in 1 .. m + 1 /\ 1 <= m /\ 1 \in 1 .. k + 1
        OBVIOUS
      <3>2. f[1] = Start
        BY <2>1, <3>1, Zenon DEF Scans
      <3> QED
        BY <3>1, <3>2, Zenon
    <2>4. DOMAIN g = 1 .. m + 1 /\ g = [i \in DOMAIN g |-> g[i]]
      OBVIOUS
    <2> HIDE DEF g
    <2>5. Scans(g, text, m)
      BY <2>2, <2>3, <2>4, Zenon DEF Scans
    <2> QED
      BY <2>5
  <1> HIDE DEF S
  <1>3. n \in S
    BY <1>1, <1>2, SetInduction
  <1> QED
    BY <1>3 DEF S

\* Each follows from the one before.
Steps(f, text, n) == \A i \in 1 .. n : f[i + 1] = Scan(f[i], text[i])

\* Scanned is the last of them.
LEMMA ScanLoop ==
  ASSUME NEW text \in Texts
  PROVE  \E f : /\ f[1] = Start /\ Steps(f, text, Len(text))
               /\ Scanned(text) = f[Len(text) + 1]
  <1> DEFINE n == Len(text)
             F == CHOOSE f : Scans(f, text, n)
  <1>1. n \in Nat
    BY DEF Texts
  <1>2. Scanned(text) = F[n + 1]
    BY Zenon DEF Scanned, Scans, Start
  <1> HIDE DEF n
  <1>3. Scans(F, text, n)
    BY <1>1, ScansExists, Zenon
  <1> HIDE DEF F
  <1>4. 1 \in 1 .. n + 1
    BY <1>1
  <1>5. F[1] = Start
    BY <1>3, <1>4, Zenon DEF Scans
  <1>6. ASSUME NEW i \in 1 .. n PROVE F[i + 1] = Scan(F[i], text[i])
    <2>1. i + 1 \in 1 .. n + 1 /\ i + 1 # 1 /\ (i + 1) - 1 = i
      BY <1>1
    <2> QED
      BY <1>3, <2>1, Zenon DEF Scans
  <1> QED
    BY <1>2, <1>5, <1>6, Zenon DEF n, Steps

\* A set of positions has a last one.
LEMMA LastOf ==
  ASSUME NEW n \in Nat, NEW S \in SUBSET (1 .. n), S # {}
  PROVE  Max(S) \in S /\ \A y \in S : y <= Max(S)
  <1> DEFINE U == {n - y : y \in S}
             d == Min(U)
  <1>1. U \in SUBSET Nat /\ U # {}
    <2>1. \A y \in S : n - y \in Nat
      OBVIOUS
    <2> QED
      BY <2>1, Zenon
  <1>2. d \in U /\ \A y \in U : d <= y
    BY <1>1, FirstOf, Zenon
  <1>3. PICK x \in S : d = n - x
    BY <1>2, Zenon
  <1>4. ASSUME NEW y \in S PROVE x >= y
    <2>1. d <= n - y
      BY <1>2, Zenon
    <2> HIDE DEF d
    <2> QED
      BY <1>3, <2>1
  <1>5. Max(S) \in S /\ \A y \in S : Max(S) >= y
    BY <1>4, Zenon DEF Max
  <1> HIDE DEF U
  <1> QED
    BY <1>5

\* The positions of a text that hold no space.
Solid(s) == {i \in DOMAIN s : s[i] \notin Blank}

\* They are positions.
LEMMA SolidType ==
  ASSUME NEW s \in Texts
  PROVE  Solid(s) \in SUBSET (1 .. Len(s)) /\ Solid(s) \in SUBSET Nat
  <1>1. DOMAIN s = 1 .. Len(s)
    BY DEF Texts
  <1>2. Solid(s) \in SUBSET (1 .. Len(s))
    BY <1>1, Zenon DEF Solid
  <1>3. 1 .. Len(s) \in SUBSET Nat
    OBVIOUS
  <1> QED
    BY <1>2, <1>3, Zenon

\* strip() returns a text that, unless it is empty, begins and ends with no space.
LEMMA TrimIs ==
  ASSUME NEW s \in Texts
  PROVE  /\ Trim(s) \in Texts
         /\ Trim(s) # << >> => {1, Len(Trim(s))} \subseteq Solid(Trim(s))
  <1> DEFINE a == Min(Solid(s))
             b == Max(Solid(s))
  <1>1. Trim(s) = IF Solid(s) = {} THEN << >> ELSE SubSeq(s, a, b)
    BY Zenon DEF Trim, Solid
  <1>2. CASE Solid(s) = {}
    <2>1. << >> \in Texts
      BY DEF Texts
    <2> QED
      BY <1>1, <1>2, <2>1, Zenon
  <1>3. CASE Solid(s) # {}
    <2>1. Len(s) \in Nat
      BY DEF Texts
    <2>2. a \in Solid(s) /\ b \in Solid(s) /\ a <= b
      BY <1>3, <2>1, SolidType, FirstOf, LastOf, Zenon
    <2> HIDE DEF a, b
    <2>3. a \in 1 .. Len(s) /\ b \in 1 .. Len(s)
      BY <2>2, SolidType, Zenon
    <2> DEFINE t == SubSeq(s, a, b)
    <2>4. t \in Texts /\ Len(t) = b - a + 1
      BY <2>1, <2>2, <2>3 DEF Texts
    <2>5. /\ 1 \in DOMAIN t /\ Len(t) \in DOMAIN t
          /\ t[1] = s[a] /\ t[Len(t)] = s[b]
      BY <2>1, <2>2, <2>3, <2>4 DEF Texts
    <2> HIDE DEF t
    <2>6. 1 \in Solid(t) /\ Len(t) \in Solid(t)
      BY <2>2, <2>5, Zenon DEF Solid
    <2> QED
      BY <1>1, <1>3, <2>4, <2>6, Zenon DEF t
  <1> QED
    BY <1>2, <1>3, Zenon

\* Such a text is its own strip().
LEMMA TrimOfTrimmed ==
  ASSUME NEW t \in Texts, {1, Len(t)} \subseteq Solid(t)
  PROVE  Trim(t) = t
  <1> DEFINE n == Len(t)
  <1>1. n \in Nat /\ SubSeq(t, 1, n) = t
    BY DEF Texts
  <1>2. Solid(t) \in SUBSET (1 .. n) /\ 1 \in Solid(t) /\ n \in Solid(t)
    BY SolidType, Zenon
  <1>3. Trim(t) = SubSeq(t, Min(Solid(t)), Max(Solid(t)))
    BY <1>2, ZenonT(30) DEF Trim, Solid
  <1> HIDE DEF n
  <1>4. Min(Solid(t)) = 1
    BY <1>1, <1>2 DEF Min
  <1>5. Max(Solid(t)) = n
    BY <1>1, <1>2 DEF Max
  <1> QED
    BY <1>1, <1>3, <1>4, <1>5, Zenon

\* A member that is recorded is not empty and carries no outer space.
IsMember(m) == m # << >> /\ m = Trim(m)

\* strip() of any text is such a member, or empty.
LEMMA TrimIsMember ==
  ASSUME NEW s \in Texts, Trim(s) # << >>
  PROVE  IsMember(Trim(s))
  BY TrimIs, TrimOfTrimmed, Zenon DEF IsMember

\* Members with one more text.
Add(o, m) == IF Trim(m) = << >> THEN o ELSE Append(o, Trim(m))
Outs == {o \in Seq(Texts) : \A i \in DOMAIN o : IsMember(o[i])}

\* One character, in terms of the parts of the state.
After(o, m, added, q, e, c) ==
  IF e THEN State(o, Append(m, c), q, FALSE)
  ELSE IF q /\ c = "\\" THEN State(o, Append(m, c), TRUE, TRUE)
  ELSE IF c = "\"" THEN State(o, Append(m, c), ~q, FALSE)
  ELSE IF c = "," /\ ~q THEN State(added, << >>, FALSE, FALSE)
  ELSE State(o, Append(m, c), q, FALSE)

\* Scan takes these steps.
LEMMA ScanCases ==
  ASSUME NEW o, NEW m, NEW q, NEW e, NEW c
  PROVE  Scan(State(o, m, q, e), c) = After(o, m, Add(o, m), q, e, c)
  <1> DEFINE s == State(o, m, q, e)
  <1>1. s.out = o /\ s.member = m /\ s.quoted = q /\ s.escaped = e
    BY DEF State
  <1>2. Flushed(s) = Add(o, m)
    BY <1>1, Zenon DEF Flushed, Add
  <1> HIDE DEF s
  <1> QED
    BY <1>1, <1>2, Zenon DEF Scan, After, s

\* Adding a text keeps the members that precede it, and adds a member.
LEMMA AddBehind ==
  ASSUME NEW p \in Outs, NEW o \in Outs, NEW m \in Texts
  PROVE  Add(o, m) \in Outs /\ Add(p \o o, m) = p \o Add(o, m)
  <1>1. CASE Trim(m) = << >>
    BY <1>1, Zenon DEF Add
  <1>2. CASE Trim(m) # << >>
    <2> DEFINE t == Trim(m)
    <2>1. t \in Texts /\ IsMember(t)
      BY <1>2, TrimIs, TrimIsMember, Zenon
    <2> HIDE DEF t
    <2>2. p \in Seq(Texts) /\ o \in Seq(Texts) /\ \A i \in DOMAIN o : IsMember(o[i])
      BY Zenon DEF Outs
    <2>3. /\ Append(p \o o, t) = p \o Append(o, t) /\ Append(o, t) \in Seq(Texts)
          /\ \A i \in DOMAIN Append(o, t) :
               Append(o, t)[i] = t \/ (i \in DOMAIN o /\ Append(o, t)[i] = o[i])
      BY <2>1, <2>2, SMTT(30)
    <2>4. Append(o, t) \in Outs
      BY <2>1, <2>2, <2>3, Zenon DEF Outs
    <2> QED
      BY <1>2, <2>3, <2>4, Zenon DEF Add, t
  <1> QED
    BY <1>1, <1>2, Zenon

\* The same state, with members p before the others.
Behind(p, s, t) ==
  \E o \in Outs, m \in Texts : \E q, e :
    s = State(o, m, q, e) /\ t = State(p \o o, m, q, e)

\* Members that were recorded before make no difference to what follows.
LEMMA ScanBehind ==
  ASSUME NEW p \in Outs, NEW s, NEW t, Behind(p, s, t), NEW c \in Chars
  PROVE  Behind(p, Scan(s, c), Scan(t, c))
  <1>1. PICK o \in Outs, m \in Texts :
               \E q, e : s = State(o, m, q, e) /\ t = State(p \o o, m, q, e)
    BY Zenon DEF Behind
  <1>2. PICK q, e : s = State(o, m, q, e) /\ t = State(p \o o, m, q, e)
    BY <1>1
  <1> DEFINE n == Append(m, c)
  <1>3. n \in Texts /\ << >> \in Texts
    <2>1. ASSUME NEW C, NEW x \in Seq(C), NEW d \in C
          PROVE  Append(x, d) \in Seq(C) /\ << >> \in Seq(C)
      OBVIOUS
    <2> QED
      BY <2>1, Zenon DEF Texts
  <1>4. Add(o, m) \in Outs /\ Add(p \o o, m) = p \o Add(o, m)
    BY AddBehind, ZenonT(60)
  <1> DEFINE Same(o2, m2, q2, e2) ==
               Scan(s, c) = State(o2, m2, q2, e2) /\ Scan(t, c) = State(p \o o2, m2, q2, e2)
  <1>5. \/ Same(o, n, q, FALSE) \/ Same(o, n, TRUE, TRUE) \/ Same(o, n, ~q, FALSE)
        \/ Same(Add(o, m), << >>, FALSE, FALSE)
    <2>1. /\ Scan(s, c) = After(o, m, Add(o, m), q, e, c)
          /\ Scan(t, c) = After(p \o o, m, p \o Add(o, m), q, e, c)
      BY <1>2, <1>4, ScanCases, ZenonT(60)
    <2>2. CASE e
      BY <2>1, <2>2, Zenon DEF After
    <2>3. CASE ~e /\ q /\ c = "\\"
      BY <2>1, <2>3, Zenon DEF After
    <2>4. CASE ~e /\ ~(q /\ c = "\\") /\ c = "\""
      BY <2>1, <2>4, Zenon DEF After
    <2>5. CASE ~e /\ ~(q /\ c = "\\") /\ c # "\"" /\ c = "," /\ ~q
      BY <2>1, <2>5, Zenon DEF After
    <2>6. CASE ~e /\ ~(q /\ c = "\\") /\ c # "\"" /\ ~(c = "," /\ ~q)
      BY <2>1, <2>6, Zenon DEF After
    <2> QED
      BY <2>2, <2>3, <2>4, <2>5, <2>6, Zenon
  <1> HIDE DEF n
  <1> QED
    BY <1>3, <1>4, <1>5, Zenon DEF Behind

\* The n characters of t are those of u after the first d.
Within(t, u, d, n) == \A i \in 1 .. n : t[i] \in Chars /\ u[d + i] = t[i]

\* Two loops over the same characters, the second with more members before them.
LEMMA LoopBehind ==
  ASSUME NEW p \in Outs, NEW n \in Nat, NEW d \in Nat, NEW k \in Nat, d + n <= k,
         NEW f, NEW g, NEW t, NEW u, Within(t, u, d, n),
         Steps(f, t, n), Steps(g, u, k), Behind(p, f[1], g[d + 1])
  PROVE  Behind(p, f[n + 1], g[d + n + 1])
  <1> DEFINE S == {j \in Nat : j <= n => Behind(p, f[j + 1], g[d + j + 1])}
  <1>1. 0 \in S
    <2>1. 0 + 1 = 1 /\ d + 0 + 1 = d + 1
      OBVIOUS
    <2> QED
      BY <2>1, Zenon
  <1>2. ASSUME NEW j \in Nat, j \in S PROVE j + 1 \in S
    <2> SUFFICES ASSUME j + 1 <= n
                 PROVE  Behind(p, f[(j + 1) + 1], g[d + (j + 1) + 1])
      OBVIOUS
    <2>1. /\ j <= n /\ j + 1 \in 1 .. n /\ d + (j + 1) \in 1 .. k
          /\ d + (j + 1) = d + j + 1
      OBVIOUS
    <2>2. Behind(p, f[j + 1], g[d + (j + 1)])
      BY <1>2, <2>1, Zenon
    <2>3. t[j + 1] \in Chars /\ u[d + (j + 1)] = t[j + 1]
      BY <2>1, Zenon DEF Within
    <2>4. /\ f[(j + 1) + 1] = Scan(f[j + 1], t[j + 1])
          /\ g[d + (j + 1) + 1] = Scan(g[d + (j + 1)], t[j + 1])
      BY <2>1, <2>3, Zenon DEF Steps
    <2> QED
      BY <2>2, <2>3, <2>4, ScanBehind, ZenonT(60)
  <1> HIDE DEF S
  <1>3. n \in S
    BY <1>1, <1>2, SetInduction
  <1>4. n <= n
    OBVIOUS
  <1> QED
    BY <1>3, <1>4, Zenon DEF S

\* There may be no members.
LEMMA NoMembers == << >> \in Outs /\ << >> \in Texts
  <1>1. << >> \in Seq(Texts) /\ DOMAIN << >> = {}
    OBVIOUS
  <1>2. << >> \in Texts
    BY DEF Texts
  <1> QED
    BY <1>1, <1>2, Zenon DEF Outs

\* The start of the loop, after members p.
LEMMA StartBehind ==
  ASSUME NEW p \in Outs
  PROVE  Behind(p, Start, State(p, << >>, FALSE, FALSE))
  <1>1. p \o << >> = p
    <2>1. p \in Seq(Texts)
      BY Zenon DEF Outs
    <2> QED
      BY <2>1
  <1> QED
    BY <1>1, NoMembers, Zenon DEF Behind, Start

IsState(s) == \E o \in Outs, m \in Texts : \E q, e : s = State(o, m, q, e)

\* Nothing before the members is no change.
LEMMA BehindNothing ==
  ASSUME NEW s, NEW t, Behind(<< >>, s, t)
  PROVE  t = s /\ IsState(s)
  <1>1. ASSUME NEW o \in Outs PROVE << >> \o o = o
    <2>1. o \in Seq(Texts)
      BY Zenon DEF Outs
    <2> QED
      BY <2>1
  <1> QED
    BY <1>1, Zenon DEF Behind, IsState

\* The members of a text that ends outside quotes.
LEMMA MembersType ==
  ASSUME NEW text \in Texts, Members(text) # Unterminated
  PROVE  LET end == Scanned(text)
         IN /\ Members(text) \in Outs /\ Members(text) = Flushed(end)
            /\ IsState(end) /\ ~end.quoted /\ ~end.escaped
  <1> DEFINE n == Len(text)
  <1>1. PICK f : /\ f[1] = Start /\ Steps(f, text, n)
                 /\ Scanned(text) = f[n + 1]
    BY ScanLoop, Zenon
  <1>2. n \in Nat /\ 0 \in Nat /\ 0 + n <= n /\ 0 + 1 = 1 /\ 0 + n + 1 = n + 1
    BY DEF Texts
  <1>3. Within(text, text, 0, n)
    <2>1. ASSUME NEW i \in 1 .. n PROVE text[i] \in Chars /\ 0 + i = i
      BY DEF Texts
    <2> QED
      BY <2>1, Zenon DEF Within
  <1> HIDE DEF n
  <1>4. Behind(<< >>, f[1], f[0 + 1])
    BY <1>1, <1>2, NoMembers, StartBehind, ZenonT(60) DEF Start
  <1>5. Behind(<< >>, f[n + 1], f[0 + n + 1])
    BY <1>1, <1>2, <1>3, <1>4, NoMembers, LoopBehind, ZenonT(60)
  <1>6. IsState(Scanned(text))
    BY <1>1, <1>5, BehindNothing, Zenon
  <1>7. PICK o \in Outs, m \in Texts : \E q, e : Scanned(text) = State(o, m, q, e)
    BY <1>6, Zenon DEF IsState
  <1>8. Scanned(text).out = o /\ Scanned(text).member = m
    BY <1>7 DEF State
  <1>9. Flushed(Scanned(text)) \in Outs
    <2>1. Flushed(Scanned(text)) = Add(o, m)
      BY <1>8, Zenon DEF Flushed, Add
    <2> QED
      BY <2>1, NoMembers, AddBehind, ZenonT(60)
  <1>10. LET end == Scanned(text)
         IN ~end.quoted /\ ~end.escaped /\ Members(text) = Flushed(end)
    BY Zenon DEF Members
  <1> QED
    BY <1>6, <1>9, <1>10, Zenon

\* A comma outside quotes records the member before it.
LEMMA CommaFlushes ==
  ASSUME NEW s, IsState(s), ~s.quoted, ~s.escaped
  PROVE  Scan(s, ",") = State(Flushed(s), << >>, FALSE, FALSE)
  BY Zenon DEF Scan

\* What the end of a text adds comes after the members that were there before.
LEMMA FlushedBehind ==
  ASSUME NEW p \in Outs, NEW s, NEW t, Behind(p, s, t)
  PROVE  Flushed(t) = p \o Flushed(s) /\ t.quoted = s.quoted /\ t.escaped = s.escaped
  <1>1. PICK o \in Outs, m \in Texts :
               \E q, e : s = State(o, m, q, e) /\ t = State(p \o o, m, q, e)
    BY Zenon DEF Behind
  <1>2. /\ s.out = o /\ s.member = m /\ t.out = p \o o /\ t.member = m
        /\ t.quoted = s.quoted /\ t.escaped = s.escaped
    BY <1>1 DEF State
  <1>3. Flushed(s) = Add(o, m) /\ Flushed(t) = Add(p \o o, m)
    BY <1>2, Zenon DEF Flushed, Add
  <1>4. Add(p \o o, m) = p \o Add(o, m)
    BY AddBehind, ZenonT(60)
  <1> QED
    BY <1>2, <1>3, <1>4, Zenon

\* The elements of a concatenation.
IsConcat(z, x, k, y, n) ==
  /\ Len(z) = k + n
  /\ \A i \in 1 .. k : z[i] = x[i]
  /\ \A i \in 1 .. n : z[k + i] = y[i]

\* Those of the first sequence come before those of the second.
LEMMA Concat ==
  ASSUME NEW C, NEW x \in Seq(C), NEW y \in Seq(C), NEW k, k = Len(x), NEW n, n = Len(y)
  PROVE  x \o y \in Seq(C) /\ IsConcat(x \o y, x, k, y, n)
  BY DEF IsConcat

\* Two texts joined by a comma have the members of both.
LEMMA JoinedMembers ==
  ASSUME NEW a \in Texts, NEW b \in Texts,
         Members(a) # Unterminated, Members(b) # Unterminated
  PROVE  Members(a \o <<",">> \o b) = Members(a) \o Members(b)
  <1> DEFINE comma == <<",">>
             c == a \o comma \o b
             k == Len(a)
             n == Len(b)
             l == Len(c)
             p == Members(a)
  <1>1. (comma \in Texts /\ Len(comma) = 1) /\ comma[1] = ","
    <2>1. ASSUME NEW C, NEW x \in C PROVE <<x>> \in Seq(C) /\ Len(<<x>>) = 1 /\ <<x>>[1] = x
      OBVIOUS
    <2>2. "," \in Chars
      BY Zenon DEF Chars
    <2> QED
      BY <2>1, <2>2, Zenon DEF Texts
  <1> HIDE DEF comma
  <1>2. a \o comma \in Texts /\ IsConcat(a \o comma, a, k, comma, 1)
    BY <1>1, Concat, Zenon DEF Texts
  <1>3. c \in Texts /\ IsConcat(c, a \o comma, k + 1, b, n)
    <2>1. Len(a \o comma) = k + 1
      BY <1>2, Zenon DEF IsConcat
    <2> HIDE DEF k
    <2> QED
      BY <1>2, <2>1, Concat, Zenon DEF Texts
  <1>4. /\ k \in Nat /\ n \in Nat
        /\ \A i \in 1 .. k : a[i] \in Chars /\ 0 + i = i /\ i \in 1 .. k + 1
        /\ \A i \in 1 .. n : b[i] \in Chars
    BY DEF Texts
  <1> HIDE DEF c, k, n, l
  <1>5. Within(a, c, 0, k) /\ Within(b, c, k + 1, n) /\ l = (k + 1) + n
    BY <1>2, <1>3, <1>4, Zenon DEF Within, IsConcat, l
  <1>6. k + 1 \in 1 .. k + 1 /\ 1 \in 1 .. 1
    BY <1>4
  <1>7. c[k + 1] = ","
    BY <1>1, <1>2, <1>3, <1>6, Zenon DEF IsConcat
  <1>8. PICK f : f[1] = Start /\ Steps(f, a, k) /\ Scanned(a) = f[k + 1]
    BY ScanLoop, Zenon DEF k, n
  <1>9. PICK g : g[1] = Start /\ Steps(g, b, n) /\ Scanned(b) = g[n + 1]
    BY ScanLoop, Zenon DEF k, n
  <1>10. PICK h : h[1] = Start /\ Steps(h, c, l) /\ Scanned(c) = h[l + 1]
    BY <1>3, ScanLoop, Zenon DEF l
  <1>11. /\ 0 + k <= l /\ 0 + 1 = 1 /\ 0 + k + 1 = k + 1 /\ 0 \in Nat /\ l \in Nat
        /\ (k + 1) \in 1 .. l /\ k + 1 \in Nat /\ (k + 1) + n <= l
        /\ (k + 1) + n + 1 = l + 1
    BY <1>4, <1>5
  <1>12. h[k + 1] = f[k + 1]
    <2>1. Behind(<< >>, f[1], h[0 + 1])
      BY <1>8, <1>10, <1>11, NoMembers, StartBehind, ZenonT(60) DEF Start
    <2>2. Behind(<< >>, f[k + 1], h[0 + k + 1])
      BY <1>4, <1>5, <1>8, <1>10, <1>11, <2>1, NoMembers, LoopBehind, ZenonT(60)
    <2> QED
      BY <1>11, <2>2, BehindNothing, Zenon
  <1>13. p \in Outs /\ h[(k + 1) + 1] = State(p, << >>, FALSE, FALSE)
    <2>1. /\ p \in Outs /\ p = Flushed(f[k + 1])
          /\ IsState(f[k + 1]) /\ ~f[k + 1].quoted /\ ~f[k + 1].escaped
      BY <1>8, MembersType, ZenonT(60)
    <2>2. h[(k + 1) + 1] = Scan(f[k + 1], ",")
      BY <1>7, <1>10, <1>11, <1>12, Zenon DEF Steps
    <2> QED
      BY <2>1, <2>2, CommaFlushes, Zenon
  <1> HIDE DEF p
  <1>14. Behind(p, g[n + 1], h[l + 1])
    <2>1. Behind(p, g[1], h[(k + 1) + 1])
      BY <1>9, <1>13, StartBehind, ZenonT(60)
    <2>2. Behind(p, g[n + 1], h[(k + 1) + n + 1])
      BY <1>4, <1>5, <1>9, <1>10, <1>11, <1>13, <2>1, LoopBehind, ZenonT(60)
    <2> QED
      BY <1>11, <2>2, Zenon
  <1>15. LET s == Scanned(b)
             t == Scanned(c)
         IN /\ Flushed(t) = p \o Flushed(s) /\ t.quoted = s.quoted /\ t.escaped = s.escaped
            /\ ~s.quoted /\ ~s.escaped /\ Members(b) = Flushed(s)
    BY <1>9, <1>10, <1>13, <1>14, FlushedBehind, MembersType, ZenonT(60)
  <1>16. Members(c) = p \o Members(b)
    BY <1>15, Zenon DEF Members
  <1> QED
    BY <1>16, Zenon DEF c, comma, p

\* One more field of ",".join(), the i-th, and the texts before each of the first n
\* fields and after the last.
Longer(x, i, value) == x \o (IF i + 1 = 2 THEN << >> ELSE <<",">>) \o value
Joins(f, values, n) ==
  f = [i \in 1 .. n + 1 |-> IF i = 1 THEN << >> ELSE Longer(f[i - 1], i - 1, values[i - 1])]

\* These texts exist.
LEMMA JoinsExists ==
  ASSUME NEW n \in Nat, NEW values
  PROVE  \E f : Joins(f, values, n)
  <1> DEFINE S == {k \in Nat : \E f : Joins(f, values, k)}
  <1>1. 0 \in S
    <2> DEFINE f == [i \in 1 .. 0 + 1 |-> << >>]
    <2>1. ASSUME NEW i \in 1 .. 0 + 1 PROVE i = 1
      OBVIOUS
    <2>2. Joins(f, values, 0)
      BY <2>1, Zenon DEF Joins
    <2> QED
      BY <2>2
  <1>2. ASSUME NEW k \in Nat, k \in S PROVE k + 1 \in S
    <2>1. PICK f : Joins(f, values, k)
      BY <1>2
    <2> DEFINE m == k + 1
               g == [i \in 1 .. m + 1 |-> IF i <= m THEN f[i] ELSE Longer(f[m], m, values[m])]
    <2>2. ASSUME NEW i \in 1 .. m + 1, i # 1
          PROVE  g[i] = Longer(g[i - 1], i - 1, values[i - 1])
      <3>1. i - 1 \in 1 .. m + 1 /\ i - 1 <= m
        BY <2>2
      <3>2. g[i - 1] = f[i - 1]
        BY <3>1, Zenon
      <3>3. CASE i <= m
        <4>1. i \in 1 .. k + 1
          BY <3>3
        <4>2. f[i] = Longer(f[i - 1], i - 1, values[i - 1])
          BY <2>1, <2>2, <4>1, Zenon DEF Joins
        <4> QED
          BY <3>2, <3>3, <4>2, Zenon
      <3>4. CASE ~(i <= m)
        <4>1. i - 1 = m
          BY <3>4
        <4> HIDE DEF m
        <4> QED
          BY <3>2, <3>4, <4>1, Zenon
      <3> QED
        BY <3>3, <3>4, Zenon
    <2>3. g[1] = << >>
      <3>1. 1 \in 1 .. m + 1 /\ 1 <= m /\ 1 \in 1 .. k + 1
        OBVIOUS
      <3>2. f[1] = << >>
        BY <2>1, <3>1, Zenon DEF Joins
      <3> QED
        BY <3>1, <3>2, Zenon
    <2>4. DOMAIN g = 1 .. m + 1 /\ g = [i \in DOMAIN g |-> g[i]]
      OBVIOUS
    <2> HIDE DEF g
    <2>5. Joins(g, values, m)
      BY <2>2, <2>3, <2>4, Zenon DEF Joins
    <2> QED
      BY <2>5
  <1> HIDE DEF S
  <1>3. n \in S
    BY <1>1, <1>2, SetInduction
  <1> QED
    BY <1>3 DEF S

\* Each follows from the one before.
Lengthens(f, values, n) == \A i \in 1 .. n : f[i + 1] = Longer(f[i], i, values[i])

\* Joined is the last of them.
LEMMA JoinLoop ==
  ASSUME NEW values \in Seq(Texts)
  PROVE  \E f : /\ f[1] = << >> /\ Lengthens(f, values, Len(values))
               /\ Joined(values) = f[Len(values) + 1]
  <1> DEFINE n == Len(values)
             F == CHOOSE f : Joins(f, values, n)
             IsJ(f) == f = [i \in 1 .. n + 1 |->
                        IF i = 1 THEN << >>
                        ELSE f[i - 1] \o (IF i = 2 THEN << >> ELSE <<",">>) \o values[i - 1]]
             J == CHOOSE f : IsJ(f)
  <1>1. n \in Nat
    OBVIOUS
  <1>2. Joined(values) = J[n + 1]
    BY Zenon DEF Joined
  <1> HIDE DEF n
  <1>3. J = F
    <2>1. ASSUME NEW i \in 1 .. n + 1 PROVE (i - 1) + 1 = i
      BY <1>1
    <2>2. ASSUME NEW f PROVE IsJ(f) <=> Joins(f, values, n)
      BY <2>1, Zenon DEF Joins, Longer
    <2> HIDE DEF IsJ
    <2> QED
      BY <2>2, Zenon
  <1>4. Joins(F, values, n)
    BY <1>1, JoinsExists, Zenon
  <1> HIDE DEF F, J
  <1>5. 1 \in 1 .. n + 1
    BY <1>1
  <1>6. F[1] = << >>
    BY <1>4, <1>5, Zenon DEF Joins
  <1>7. ASSUME NEW i \in 1 .. n PROVE F[i + 1] = Longer(F[i], i, values[i])
    <2>1. i + 1 \in 1 .. n + 1 /\ i + 1 # 1 /\ (i + 1) - 1 = i
      BY <1>1
    <2> QED
      BY <1>4, <2>1, Zenon DEF Joins
  <1> QED
    BY <1>2, <1>3, <1>6, <1>7, Zenon DEF n, Lengthens

\* Concatenations are texts, and an empty text makes no difference.
LEMMA ConcatText ==
  ASSUME NEW x \in Texts, NEW y \in Texts
  PROVE  x \o y \in Texts /\ << >> \o x = x /\ x \o << >> = x
  BY DEF Texts

\* Concatenation is associative.
LEMMA Associative ==
  ASSUME NEW x \in Texts, NEW y \in Texts, NEW z \in Texts
  PROVE  (x \o y) \o z = x \o (y \o z)
  BY DEF Texts

\* A comma is a text.
LEMMA CommaText == <<",">> \in Texts
  <1>1. ASSUME NEW C, NEW x \in C PROVE <<x>> \in Seq(C)
    OBVIOUS
  <1>2. "," \in Chars
    BY Zenon DEF Chars
  <1> QED
    BY <1>1, <1>2, Zenon DEF Texts

\* The first field is the text itself.
LEMMA LongerFirst ==
  ASSUME NEW x \in Texts, NEW value \in Texts
  PROVE  Longer(x, 1, value) = x \o value /\ Longer(x, 1, value) \in Texts
  <1>1. 1 + 1 = 2
    OBVIOUS
  <1>2. Longer(x, 1, value) = (x \o << >>) \o value
    BY <1>1, Zenon DEF Longer
  <1>3. x \o << >> = x /\ x \o value \in Texts
    BY ConcatText, Zenon
  <1> QED
    BY <1>2, <1>3, Zenon

\* Each further one follows a comma.
LEMMA LongerNext ==
  ASSUME NEW x \in Texts, NEW i \in Nat, i # 1, NEW value \in Texts
  PROVE  /\ Longer(x, i, value) = (x \o <<",">>) \o value
         /\ Longer(x, i, value) \in Texts
  <1>1. i + 1 # 2
    OBVIOUS
  <1>2. Longer(x, i, value) = (x \o <<",">>) \o value
    BY <1>1, Zenon DEF Longer
  <1>3. x \o <<",">> \in Texts
    BY CommaText, ConcatText, Zenon
  <1> QED
    BY <1>2, <1>3, ConcatText, Zenon

\* The texts of the loop are texts.
LEMMA JoinType ==
  ASSUME NEW n \in Nat, NEW values, \A i \in 1 .. n : values[i] \in Texts,
         NEW f, f[1] = << >>, Lengthens(f, values, n), NEW k \in 0 .. n
  PROVE  f[k + 1] \in Texts
  <1> DEFINE S == {j \in Nat : j <= n => f[j + 1] \in Texts}
  <1>1. 0 \in S
    <2>1. 0 + 1 = 1
      OBVIOUS
    <2> QED
      BY <2>1, NoMembers, Zenon
  <1>2. ASSUME NEW j \in Nat, j \in S PROVE j + 1 \in S
    <2> SUFFICES ASSUME j + 1 <= n PROVE f[(j + 1) + 1] \in Texts
      OBVIOUS
    <2>1. j <= n /\ j + 1 \in 1 .. n /\ j + 1 \in Nat
      OBVIOUS
    <2>2. f[(j + 1) + 1] = Longer(f[j + 1], j + 1, values[j + 1])
      BY <2>1, Zenon DEF Lengthens
    <2>3. f[j + 1] \in Texts /\ values[j + 1] \in Texts
      BY <1>2, <2>1, Zenon
    <2>4. CASE j + 1 = 1
      <3>1. f[(j + 1) + 1] = Longer(f[j + 1], 1, values[j + 1])
        BY <2>2, <2>4, Zenon
      <3> QED
        BY <2>3, <3>1, LongerFirst, Zenon
    <2>5. CASE j + 1 # 1
      BY <2>1, <2>2, <2>3, <2>5, LongerNext, ZenonT(60)
    <2> QED
      BY <2>4, <2>5
  <1> HIDE DEF S
  <1>3. \A j \in Nat : j \in S
    BY <1>1, <1>2, SetInduction, SMTT(30)
  <1>4. k \in Nat /\ k <= n
    OBVIOUS
  <1> QED
    BY <1>3, <1>4, Zenon DEF S

\* The fields c are the k fields v followed by the n fields w.
First(c, v, k) == \A i \in 1 .. k : c[i] = v[i]
Second(c, w, k, n) == \A i \in 1 .. n : w[i] \in Texts /\ c[k + i] = w[i]

\* The loop over the fields v followed by w is the loop over v ...
LEMMA JoinsFirst ==
  ASSUME NEW k \in Nat, NEW l \in Nat, k <= l, NEW f, NEW h, NEW v, NEW c,
         First(c, v, k), f[1] = h[1],
         Lengthens(f, v, k), Lengthens(h, c, l)
  PROVE  h[k + 1] = f[k + 1]
  <1> DEFINE S == {j \in Nat : j <= k => h[j + 1] = f[j + 1]}
  <1>1. 0 \in S
    <2>1. 0 + 1 = 1
      OBVIOUS
    <2> QED
      BY <2>1, Zenon
  <1>2. ASSUME NEW j \in Nat, j \in S PROVE j + 1 \in S
    <2> SUFFICES ASSUME j + 1 <= k PROVE h[(j + 1) + 1] = f[(j + 1) + 1]
      OBVIOUS
    <2>1. j <= k /\ j + 1 \in 1 .. k /\ j + 1 \in 1 .. l
      OBVIOUS
    <2> QED
      BY <1>2, <2>1, Zenon DEF Lengthens, First
  <1> HIDE DEF S
  <1>3. k \in S /\ k <= k
    BY <1>1, <1>2, SetInduction
  <1> QED
    BY <1>3, Zenon DEF S

\* ... followed by a comma and the loop over w.
LEMMA JoinsSecond ==
  ASSUME NEW k \in Nat, k # 0, NEW n \in Nat, n # 0,
         NEW g, NEW h, NEW w, NEW c, h[k + 1] \in Texts, g[1] = << >>,
         Second(c, w, k, n),
         Lengthens(g, w, n), Lengthens(h, c, k + n)
  PROVE  h[(k + n) + 1] = (h[k + 1] \o <<",">>) \o g[n + 1]
  <1> DEFINE x == h[k + 1]
             y == x \o <<",">>
             S == {j \in Nat : j + 1 <= n => h[(k + (j + 1)) + 1] = y \o g[(j + 1) + 1]}
  <1>1. y \in Texts
    BY CommaText, ConcatText, Zenon
  <1>2. 0 \in S
    <2>1. /\ 1 \in 1 .. n /\ k + 1 \in 1 .. k + n /\ k + 1 # 1 /\ 0 + 1 = 1
          /\ k + 1 \in Nat
      OBVIOUS
    <2>2. w[1] \in Texts /\ c[k + 1] = w[1]
      BY <2>1, Zenon DEF Second
    <2>3. h[(k + 1) + 1] = y \o w[1]
      <3>1. h[(k + 1) + 1] = Longer(x, k + 1, w[1])
        BY <2>1, <2>2, Zenon DEF Lengthens
      <3> QED
        BY <2>1, <2>2, <3>1, LongerNext, ZenonT(60)
    <2>4. g[1 + 1] = w[1]
      <3>1. g[1 + 1] = Longer(<< >>, 1, w[1])
        BY <2>1, Zenon DEF Lengthens
      <3>2. << >> \o w[1] = w[1]
        BY <2>2, ConcatText, Zenon
      <3> QED
        BY <2>2, <3>1, <3>2, NoMembers, LongerFirst, Zenon
    <2> HIDE DEF y
    <2> QED
      BY <2>1, <2>3, <2>4, Zenon
  <1>3. ASSUME NEW j \in Nat, j \in S PROVE j + 1 \in S
    <2> HIDE DEF y
    <2> DEFINE m == j + 1
    <2> SUFFICES ASSUME m + 1 <= n PROVE h[(k + (m + 1)) + 1] = y \o g[(m + 1) + 1]
      OBVIOUS
    <2>1. /\ j + 1 <= n /\ m \in 0 .. n /\ m + 1 \in 1 .. n /\ k + (m + 1) \in 1 .. k + n
          /\ m + 1 # 1 /\ k + (m + 1) # 1 /\ k + (m + 1) = (k + m) + 1
          /\ m + 1 \in Nat /\ k + (m + 1) \in Nat
      OBVIOUS
    <2>2. h[(k + m) + 1] = y \o g[m + 1]
      BY <1>3, <2>1, Zenon
    <2>3. w[m + 1] \in Texts /\ c[k + (m + 1)] = w[m + 1]
      BY <2>1, Zenon DEF Second
    <2>4. g[m + 1] \in Texts
      <3>1. \A i \in 1 .. n : w[i] \in Texts
        BY Zenon DEF Second
      <3> QED
        BY <2>1, <3>1, JoinType, Zenon
    <2> HIDE DEF m
    <2> DEFINE t == w[m + 1]
               z == g[m + 1]
               comma == <<",">>
    <2>5. t \in Texts /\ z \in Texts /\ comma \in Texts /\ y \o z \in Texts
      BY <1>1, <2>3, <2>4, CommaText, ConcatText, Zenon
    <2>6. h[(k + (m + 1)) + 1] = Longer(y \o z, k + (m + 1), t)
      BY <2>1, <2>2, <2>3, Zenon DEF Lengthens
    <2>7. g[(m + 1) + 1] = Longer(z, m + 1, t)
      BY <2>1, Zenon DEF Lengthens
    <2> HIDE DEF t, z
    <2>8. Longer(y \o z, k + (m + 1), t) = ((y \o z) \o comma) \o t
      BY <2>1, <2>5, LongerNext, ZenonT(60)
    <2>9. Longer(z, m + 1, t) = (z \o comma) \o t
      BY <2>1, <2>5, LongerNext, ZenonT(60)
    <2> HIDE DEF comma
    <2>10. ((y \o z) \o comma) \o t = y \o ((z \o comma) \o t)
      <3> DEFINE u == z \o comma
      <3>1. u \in Texts
        BY <2>5, ConcatText
      <3>2. (y \o z) \o comma = y \o u
        BY <1>1, <2>5, Associative, ZenonT(60)
      <3> HIDE DEF u
      <3>3. y \in Texts /\ u \in Texts /\ t \in Texts
        BY <1>1, <2>5, <3>1, Zenon
      <3>4. (y \o u) \o t = y \o (u \o t)
        BY <3>3, Associative, ZenonT(60)
      <3> QED
        BY <3>2, <3>4, Zenon DEF u
    <2> QED
      BY <2>6, <2>7, <2>8, <2>9, <2>10, Zenon
  <1> HIDE DEF S
  <1> HIDE DEF y
  <1>4. n - 1 \in S
    <2>1. n - 1 \in Nat
      OBVIOUS
    <2> QED
      BY <1>2, <1>3, <2>1, SetInduction
  <1>5. (n - 1) + 1 = n /\ n <= n
    OBVIOUS
  <1> QED
    BY <1>4, <1>5, Zenon DEF S, y

\* Joined fields are a text.
LEMMA JoinedType ==
  ASSUME NEW v \in Seq(Texts)
  PROVE  Joined(v) \in Texts
  <1> DEFINE n == Len(v)
  <1>1. n \in Nat /\ n \in 0 .. n /\ \A i \in 1 .. n : v[i] \in Texts
    OBVIOUS
  <1>2. PICK f : f[1] = << >> /\ Lengthens(f, v, n) /\ Joined(v) = f[n + 1]
    BY JoinLoop, Zenon
  <1> HIDE DEF n
  <1>3. f[n + 1] \in Texts
    BY <1>1, <1>2, JoinType, Zenon
  <1> QED
    BY <1>2, <1>3, Zenon

\* Fields and more fields are joined by one more comma.
LEMMA JoinedConcat ==
  ASSUME NEW v \in Seq(Texts), v # << >>, NEW w \in Seq(Texts), w # << >>
  PROVE  Joined(v \o w) = (Joined(v) \o <<",">>) \o Joined(w)
  <1> DEFINE c == v \o w
             k == Len(v)
             n == Len(w)
  <1>1. k \in Nat /\ k # 0 /\ n \in Nat /\ n # 0 /\ \A i \in 1 .. n : w[i] \in Texts
    OBVIOUS
  <1>2. c \in Seq(Texts) /\ IsConcat(c, v, k, w, n)
    BY Concat, Zenon
  <1>3. PICK f : f[1] = << >> /\ Lengthens(f, v, k) /\ Joined(v) = f[k + 1]
    BY JoinLoop, Zenon
  <1>4. PICK g : g[1] = << >> /\ Lengthens(g, w, n) /\ Joined(w) = g[n + 1]
    BY JoinLoop, Zenon
  <1> HIDE DEF c, k, n
  <1>5. Len(c) = k + n /\ First(c, v, k) /\ Second(c, w, k, n)
    BY <1>1, <1>2, Zenon DEF IsConcat, First, Second
  <1>6. PICK h : h[1] = << >> /\ Lengthens(h, c, k + n) /\ Joined(c) = h[(k + n) + 1]
    BY <1>2, <1>5, JoinLoop, Zenon
  <1>7. h[k + 1] = f[k + 1]
    <2> DEFINE l == k + n
    <2>1. k \in Nat /\ l \in Nat /\ k <= l
      BY <1>1
    <2>2. Lengthens(h, c, l) /\ Lengthens(f, v, k) /\ First(c, v, k) /\ f[1] = h[1]
      BY <1>3, <1>5, <1>6, Zenon
    <2> HIDE DEF l
    <2> QED
      BY <2>1, <2>2, JoinsFirst, ZenonT(60)
  <1> DEFINE x == Joined(v)
  <1>8. x \in Texts /\ h[k + 1] = x
    BY <1>3, <1>7, JoinedType, Zenon
  <1> HIDE DEF x
  <1>9. h[(k + n) + 1] = (h[k + 1] \o <<",">>) \o g[n + 1]
    <2>1. /\ Second(c, w, k, n) /\ Lengthens(g, w, n) /\ Lengthens(h, c, k + n)
          /\ k \in Nat /\ k # 0 /\ n \in Nat /\ n # 0 /\ g[1] = << >>
          /\ h[k + 1] \in Texts
      BY <1>1, <1>4, <1>5, <1>6, <1>8, Zenon
    <2> QED
      BY <2>1, JoinsSecond, ZenonT(60)
  <1> QED
    BY <1>4, <1>6, <1>8, <1>9, ZenonT(60) DEF x, c

\* No fields have no members.
LEMMA NoFields == ParseHttpList(<< >>) = << >>
  <1>1. << >> \in Seq(Texts) /\ Len(<< >>) = 0 /\ 0 + 1 = 1
    OBVIOUS
  <1>2. Joined(<< >>) = << >>
    BY <1>1, JoinLoop, Zenon
  <1>3. Scanned(<< >>) = Start
    BY <1>1, NoMembers, ScanLoop, Zenon
  <1>4. Start.out = << >> /\ Start.member = << >> /\ ~Start.quoted /\ ~Start.escaped
    BY DEF Start, State
  <1>5. Trim(<< >>) = << >>
    <2>1. DOMAIN << >> = {}
      OBVIOUS
    <2> QED
      BY <2>1, ZenonT(30) DEF Trim
  <1>6. Flushed(Start) = << >>
    BY <1>4, <1>5, Zenon DEF Flushed
  <1> QED
    BY <1>2, <1>3, <1>4, <1>6, Zenon DEF ParseHttpList, Members

\* Splitting a list over fields does not change it, for any number of fields of any
\* text: if parse_http_list accepts the fields v and the fields w, it accepts both
\* and returns the members of v followed by those of w, although it joins all
\* fields and scans them with one state of quotes and escapes.
THEOREM ListsCombineEverywhere ==
  ASSUME NEW v \in Seq(Texts), NEW w \in Seq(Texts)
  PROVE  Combine(v, w)
  <1> SUFFICES ASSUME ParseHttpList(v) # Unterminated, ParseHttpList(w) # Unterminated
               PROVE  ParseHttpList(v \o w) = ParseHttpList(v) \o ParseHttpList(w)
    BY Zenon DEF Combine
  <1>1. \A u \in Seq(Texts) : ParseHttpList(u) # Unterminated => ParseHttpList(u) \in Seq(Texts)
    BY JoinedType, MembersType, ZenonT(60) DEF ParseHttpList, Outs
  <1>2. ASSUME NEW T, NEW x \in Seq(T) PROVE << >> \o x = x /\ x \o << >> = x
    OBVIOUS
  <1>3. CASE v = << >>
    BY <1>1, <1>2, <1>3, NoFields, Zenon
  <1>4. CASE w = << >>
    BY <1>1, <1>2, <1>4, NoFields, Zenon
  <1>5. CASE v # << >> /\ w # << >>
    <2>1. Joined(v \o w) = (Joined(v) \o <<",">>) \o Joined(w)
      BY <1>5, JoinedConcat, ZenonT(60)
    <2>2. Joined(v) \in Texts /\ Joined(w) \in Texts
      BY JoinedType, Zenon
    <2> QED
      BY <2>1, <2>2, JoinedMembers, Zenon DEF ParseHttpList
  <1> QED
    BY <1>3, <1>4, <1>5, Zenon

\* What parse_http_list returns for any fields has no empty member and no member
\* with outer space or tab, also when a field is empty, ends in a comma or quotes one.
THEOREM MembersAreTidy ==
  ASSUME NEW v \in Seq(Texts)
  PROVE  Tidy(v)
  BY JoinedType, MembersType, ZenonT(60) DEF Tidy, ParseHttpList, Outs, IsMember
=============================================================================
