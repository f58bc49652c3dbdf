---------------------------- MODULE RtxKernelProofs ----------------------------
(***************************************************************************)
(* What the functions of the kernel do to its lists, proved for all sets   *)
(* of threads and all priorities.                                          *)
(***************************************************************************)
EXTENDS RtxKernel, SequenceTheorems, WellFoundedInduction, TLAPS

-----------------------------------------------------------------------------
(* Numbers and sequences. *)

\* A set of natural numbers that is not empty has a least member.
LEMMA MinIs ==
  ASSUME NEW T \in SUBSET Nat, T # {}
  PROVE  Min(T) \in T /\ \A y \in T : Min(T) <= y
<1>1. IsWellFoundedOn(OpToRel(<, Nat), Nat)
  BY NatLessThanWellFounded
<1>2. PICK x \in T : \A y \in T : << y, x >> \notin OpToRel(<, Nat)
  BY <1>1, WFMin
<1>3. \A y \in T : ~(y < x)
  BY <1>2 DEF OpToRel
<1>4. \A y \in T : x <= y
  BY <1>3
<1> QED
  BY <1>2, <1>4 DEF Min

\* What a list holds.
LEMMA ToSetIs ==
  ASSUME NEW S, NEW q \in Seq(S)
  PROVE  /\ ToSet(q) \in SUBSET S
         /\ \A x : x \in ToSet(q) <=> \E i \in 1..Len(q) : q[i] = x
BY DEF ToSet

\* InsertAt and RemoveAt, member by member.
LEMMA InsertAtIs ==
  ASSUME NEW S, NEW q \in Seq(S), NEW i \in 1..Len(q)+1, NEW t \in S
  PROVE  /\ InsertAt(q, i, t) \in Seq(S) /\ Len(InsertAt(q, i, t)) = Len(q) + 1
         /\ \A j \in 1..Len(q)+1 :
              InsertAt(q, i, t)[j] = IF j < i THEN q[j] ELSE IF j = i THEN t ELSE q[j-1]
<1> DEFINE a == SubSeq(q, 1, i - 1)
           b == SubSeq(q, i, Len(q))
<1>1. Len(q) \in Nat /\ i \in Int /\ i >= 1 /\ i <= Len(q) + 1
  OBVIOUS
<1>2. /\ a \in Seq(S) /\ Len(a) = i - 1
      /\ \A j \in 1..i-1 : a[j] = q[j]
  BY <1>1
<1>3. /\ b \in Seq(S) /\ Len(b) = Len(q) - i + 1
      /\ \A j \in 1..Len(q)-i+1 : b[j] = q[i+j-1]
  BY <1>1
<1>4. << t >> \in Seq(S) /\ Len(<< t >>) = 1 /\ << t >>[1] = t
  OBVIOUS
<1> HIDE DEF a, b
<1>5. /\ a \o << t >> \in Seq(S) /\ Len(a \o << t >>) = (i - 1) + 1
      /\ \A j \in 1..(i - 1) + 1 :
           (a \o << t >>)[j] = IF j <= i - 1 THEN a[j] ELSE << t >>[j - (i - 1)]
  BY ONLY <1>1, <1>2, <1>4, ConcatProperties
<1> DEFINE c == a \o << t >>
<1> HIDE DEF c
<1>6. c \in Seq(S) /\ Len(c) = i /\ \A j \in 1..i : c[j] = IF j < i THEN q[j] ELSE t
  <2>1. ASSUME NEW j \in 1..i PROVE c[j] = IF j < i THEN q[j] ELSE t
    <3>1. CASE j < i
      BY <1>1, <1>2, <1>5, <3>1 DEF c
    <3>2. CASE j = i
      BY <1>1, <1>4, <1>5, <3>2 DEF c
    <3> QED
      BY <1>1, <3>1, <3>2
  <2> QED
    BY <1>1, <1>5, <2>1 DEF c
<1>7. /\ c \o b \in Seq(S) /\ Len(c \o b) = Len(q) + 1
      /\ \A j \in 1..Len(q)+1 : (c \o b)[j] = IF j <= i THEN c[j] ELSE b[j - i]
  <2>1. /\ c \o b \in Seq(S) /\ Len(c \o b) = Len(c) + Len(b)
        /\ \A j \in 1..Len(c)+Len(b) :
             (c \o b)[j] = IF j <= Len(c) THEN c[j] ELSE b[j - Len(c)]
    BY ONLY <1>3, <1>6, ConcatProperties
  <2>2. Len(c) = i /\ Len(c) + Len(b) = Len(q) + 1
    BY <1>1, <1>3, <1>6
  <2> QED
    BY <2>1, <2>2
<1>8. InsertAt(q, i, t) = c \o b
  BY DEF InsertAt, a, b, c
<1>9. ASSUME NEW j \in 1..Len(q)+1
      PROVE  (c \o b)[j] = IF j < i THEN q[j] ELSE IF j = i THEN t ELSE q[j-1]
  <2> j \in Int /\ (j <= i \/ j > i)
    BY <1>1
  <2>1. CASE j <= i
    BY <1>1, <1>6, <1>7, <2>1
  <2>2. CASE j > i
    <3>1. j - i \in 1..Len(q)-i+1 /\ i + (j - i) - 1 = j - 1
      BY <1>1, <2>2
    <3> QED
      BY <1>1, <1>3, <1>7, <2>2, <3>1
  <2> QED
    BY <1>1, <2>1, <2>2
<1> QED
  BY <1>7, <1>8, <1>9

\* A list without one of its positions: its length and its members.
LEMMA RemoveAtIs ==
  ASSUME NEW S, NEW q \in Seq(S), NEW i \in 1..Len(q)
  PROVE  /\ RemoveAt(q, i) \in Seq(S) /\ Len(RemoveAt(q, i)) = Len(q) - 1
         /\ \A j \in 1..Len(q)-1 : RemoveAt(q, i)[j] = IF j < i THEN q[j] ELSE q[j+1]
<1> DEFINE a == SubSeq(q, 1, i - 1)
           b == SubSeq(q, i + 1, Len(q))
<1>1. Len(q) \in Nat /\ i \in Int /\ i >= 1 /\ i <= Len(q)
  OBVIOUS
<1>2. /\ a \in Seq(S) /\ Len(a) = i - 1
      /\ \A j \in 1..i-1 : a[j] = q[j]
  BY <1>1
<1>3. /\ b \in Seq(S) /\ Len(b) = Len(q) - i
      /\ \A j \in 1..Len(q)-i : b[j] = q[i+j]
  BY <1>1
<1> HIDE DEF a, b
<1>4. /\ a \o b \in Seq(S) /\ Len(a \o b) = Len(q) - 1
      /\ \A j \in 1..Len(q)-1 : (a \o b)[j] = IF j <= i - 1 THEN a[j] ELSE b[j - (i - 1)]
  <2>1. /\ a \o b \in Seq(S) /\ Len(a \o b) = Len(a) + Len(b)
        /\ \A j \in 1..Len(a)+Len(b) :
             (a \o b)[j] = IF j <= Len(a) THEN a[j] ELSE b[j - Len(a)]
    BY ONLY <1>2, <1>3, ConcatProperties
  <2>2. Len(a) = i - 1 /\ Len(a) + Len(b) = Len(q) - 1
    BY <1>1, <1>2, <1>3
  <2> QED
    BY <2>1, <2>2
<1>5. RemoveAt(q, i) = a \o b
  BY DEF RemoveAt, a, b
<1>6. ASSUME NEW j \in 1..Len(q)-1
      PROVE  (a \o b)[j] = IF j < i THEN q[j] ELSE q[j+1]
  <2> j \in Int /\ (j <= i - 1 \/ j > i - 1)
    BY <1>1
  <2>1. CASE j <= i - 1
    BY <1>1, <1>2, <1>4, <2>1
  <2>2. CASE j > i - 1
    <3>1. j - (i - 1) \in 1..Len(q)-i /\ i + (j - (i - 1)) = j + 1
      BY <1>1, <2>2
    <3> QED
      BY <1>1, <1>3, <1>4, <2>2, <3>1
  <2> QED
    BY <1>1, <2>1, <2>2
<1> QED
  BY <1>4, <1>5, <1>6

-----------------------------------------------------------------------------
(* Lists without duplicates, in the order of priorities. *)

SortedBy(q, prio) == \A i, j \in 1..Len(q) : i < j => prio[q[i]] >= prio[q[j]]

\* A thread that is put into a list is in it once, with the others.
LEMMA InsertAtList ==
  ASSUME NEW S, NEW q \in Seq(S), NoDuplicates(q), NEW t \in S, t \notin ToSet(q),
         NEW i \in 1..Len(q)+1
  PROVE  /\ InsertAt(q, i, t) \in Seq(S) /\ NoDuplicates(InsertAt(q, i, t))
         /\ ToSet(InsertAt(q, i, t)) = ToSet(q) \cup {t}
<1> DEFINE r == InsertAt(q, i, t)
<1>1. /\ r \in Seq(S) /\ Len(r) = Len(q) + 1
      /\ \A j \in 1..Len(q)+1 : r[j] = IF j < i THEN q[j] ELSE IF j = i THEN t ELSE q[j-1]
  BY InsertAtIs
<1> HIDE DEF r
<1>2. Len(q) \in Nat /\ i \in 1..Len(q)+1
  OBVIOUS
<1>3. \A j \in 1..Len(q) : q[j] # t
  BY ToSetIs
<1>4. NoDuplicates(r)
  <2> SUFFICES ASSUME NEW a \in 1..Len(q)+1, NEW b \in 1..Len(q)+1, r[a] = r[b], a < b
               PROVE  FALSE
    BY <1>1, <1>2 DEF NoDuplicates
  <2>1. /\ a < i => r[a] = q[a] /\ a \in 1..Len(q)
        /\ a = i => r[a] = t
        /\ a > i => r[a] = q[a-1] /\ a - 1 \in 1..Len(q)
    BY <1>1, <1>2
  <2>2. /\ b < i => r[b] = q[b] /\ b \in 1..Len(q)
        /\ b = i => r[b] = t
        /\ b > i => r[b] = q[b-1] /\ b - 1 \in 1..Len(q)
    BY <1>1, <1>2
  <2>3. \A x, y \in 1..Len(q) : q[x] = q[y] => x = y
    BY DEF NoDuplicates
  <2> QED
    BY <1>2, <1>3, <2>1, <2>2, <2>3
<1>5. ToSet(r) = ToSet(q) \cup {t}
  <2>1. ASSUME NEW x \in ToSet(r) PROVE x \in ToSet(q) \cup {t}
    <3>1. PICK j \in 1..Len(q)+1 : r[j] = x
      BY <1>1, ToSetIs
    <3>2. j < i \/ j = i \/ (j > i /\ j - 1 \in 1..Len(q))
      BY <1>2
    <3> QED
      BY <1>1, <1>2, <3>1, <3>2, ToSetIs
  <2>2. ASSUME NEW x \in ToSet(q) PROVE x \in ToSet(r)
    <3>1. PICK j \in 1..Len(q) : q[j] = x
      BY ToSetIs
    <3>2. CASE j < i
      BY <1>1, <1>2, <3>1, <3>2, ToSetIs
    <3>3. CASE ~(j < i)
      <4>1. j + 1 \in 1..Len(q)+1 /\ ~(j + 1 < i) /\ j + 1 # i /\ (j + 1) - 1 = j
        BY <1>2, <3>3
      <4>2. r[j + 1] = x
        BY <1>1, <3>1, <4>1
      <4> QED
        BY <1>1, <4>1, <4>2, ToSetIs
    <3> QED
      BY <3>2, <3>3
  <2>3. t \in ToSet(r)
    BY <1>1, <1>2, ToSetIs
  <2> QED
    BY <2>1, <2>2, <2>3
<1> QED
  BY <1>1, <1>4, <1>5 DEF r

\* The first member whose priority is below p.
Below(q, prio, p) == {j \in 1..Len(q) : prio[q[j]] < p}
FirstBelow(q, prio, p) ==
  IF Below(q, prio, p) # {} THEN Min(Below(q, prio, p)) ELSE 0

\* FirstBelow is where ThreadListPut stops: all before it are as high as the
\* new thread, the one there is lower.
LEMMA FirstBelowIs ==
  ASSUME NEW S, NEW q \in Seq(S), NEW prio, NEW p
  PROVE  /\ FirstBelow(q, prio, p) \in 0..Len(q)
         /\ FirstBelow(q, prio, p) = 0 => \A j \in 1..Len(q) : ~(prio[q[j]] < p)
         /\ FirstBelow(q, prio, p) # 0 =>
              /\ prio[q[FirstBelow(q, prio, p)]] < p
              /\ \A j \in 1..FirstBelow(q, prio, p)-1 : ~(prio[q[j]] < p)
<1> DEFINE I == Below(q, prio, p)
           i == FirstBelow(q, prio, p)
<1>1. /\ i = IF I # {} THEN Min(I) ELSE 0
      /\ \A j : j \in I <=> j \in 1..Len(q) /\ prio[q[j]] < p
  BY DEF Below, FirstBelow
<1>2. I \in SUBSET Nat /\ Len(q) \in Nat
  BY <1>1
<1> HIDE DEF I, i
<1>3. I # {} => Min(I) \in I /\ \A y \in I : Min(I) <= y
  BY <1>2, MinIs
<1>4. CASE I = {}
  BY <1>1, <1>2, <1>4 DEF i
<1>5. CASE I # {}
  <2>1. i \in 1..Len(q) /\ prio[q[i]] < p
    BY <1>1, <1>3, <1>5
  <2>2. ASSUME NEW j \in 1..i-1 PROVE ~(prio[q[j]] < p)
    <3>1. j \in 1..Len(q) /\ ~(i <= j)
      BY <1>2, <2>1
    <3> QED
      BY <1>1, <1>3, <1>5, <3>1
  <2>3. i # 0 /\ i \in 0..Len(q)
    BY <1>2, <2>1
  <2> QED
    BY <2>1, <2>2, <2>3 DEF i
<1> QED
  BY <1>4, <1>5

\* osRtxThreadListPut and the insertion of osRtxThreadBlock keep the order.
LEMMA InsertBelowList ==
  ASSUME NEW S, NEW q \in Seq(S), NoDuplicates(q), NEW t \in S, t \notin ToSet(q),
         NEW prio \in [S -> Nat], SortedBy(q, prio), NEW p \in {prio[t], prio[t] + 1}
  PROVE  /\ InsertBelow(q, prio, p, t) \in Seq(S) /\ NoDuplicates(InsertBelow(q, prio, p, t))
         /\ ToSet(InsertBelow(q, prio, p, t)) = ToSet(q) \cup {t}
         /\ SortedBy(InsertBelow(q, prio, p, t), prio)
<1> DEFINE i == FirstBelow(q, prio, p)
           n == IF i = 0 THEN Len(q) + 1 ELSE i
           r == InsertAt(q, n, t)
<1>1. /\ i \in 0..Len(q)
      /\ i = 0 => \A j \in 1..Len(q) : ~(prio[q[j]] < p)
      /\ i # 0 => prio[q[i]] < p /\ \A j \in 1..i-1 : ~(prio[q[j]] < p)
  BY FirstBelowIs
<1>2. InsertBelow(q, prio, p, t) = r
  BY DEF InsertBelow, SelectInSeq, FirstBelow, Below
<1> HIDE DEF i
<1>3. Len(q) \in Nat /\ n \in 1..Len(q)+1
  BY <1>1
<1>4. /\ \A j \in 1..n-1 : j \in 1..Len(q) /\ ~(prio[q[j]] < p)
      /\ n <= Len(q) => prio[q[n]] < p
  BY <1>1, <1>3
<1> HIDE DEF n
<1>5. r \in Seq(S) /\ NoDuplicates(r) /\ ToSet(r) = ToSet(q) \cup {t}
  BY <1>3, InsertAtList
<1>6. /\ Len(r) = Len(q) + 1
      /\ \A j \in 1..Len(q)+1 : r[j] = IF j < n THEN q[j] ELSE IF j = n THEN t ELSE q[j-1]
  BY <1>3, InsertAtIs
<1> HIDE DEF r
<1>7. prio[t] \in Nat /\ p \in Nat /\ \A j \in 1..Len(q) : q[j] \in S /\ prio[q[j]] \in Nat
  OBVIOUS
<1>8. /\ \A j \in 1..n-1 : prio[q[j]] >= prio[t]
      /\ \A j \in n..Len(q) : prio[t] >= prio[q[j]]
  <2>1. ASSUME NEW j \in 1..n-1 PROVE prio[q[j]] >= prio[t]
    BY <1>4, <1>7
  <2>2. ASSUME NEW j \in n..Len(q) PROVE prio[t] >= prio[q[j]]
    <3>1. n \in 1..Len(q) /\ j \in 1..Len(q) /\ (n < j \/ n = j)
      BY <1>3
    <3>2. prio[q[n]] >= prio[q[j]]
      BY <1>7, <3>1 DEF SortedBy
    <3>3. prio[q[n]] < p
      BY <1>4, <3>1
    <3> QED
      BY <1>7, <3>1, <3>2, <3>3
  <2> QED
    BY <2>1, <2>2
<1>9. SortedBy(r, prio)
  <2> SUFFICES ASSUME NEW a \in 1..Len(q)+1, NEW b \in 1..Len(q)+1, a < b
               PROVE  prio[r[a]] >= prio[r[b]]
    BY <1>6 DEF SortedBy
  <2>1. /\ a < n => r[a] = q[a] /\ a \in 1..Len(q) /\ a \in 1..n-1
        /\ a = n => r[a] = t
        /\ a > n => r[a] = q[a-1] /\ a - 1 \in 1..Len(q) /\ a - 1 \in n..Len(q)
    BY <1>3, <1>6
  <2>2. /\ b < n => r[b] = q[b] /\ b \in 1..Len(q) /\ b \in 1..n-1
        /\ b = n => r[b] = t
        /\ b > n => r[b] = q[b-1] /\ b - 1 \in 1..Len(q) /\ b - 1 \in n..Len(q)
    BY <1>3, <1>6
  <2>3. \A x, y \in 1..Len(q) : x < y => prio[q[x]] >= prio[q[y]]
    BY DEF SortedBy
  <2>4. CASE a < n /\ b < n
    BY <2>1, <2>2, <2>3, <2>4
  <2>5. CASE a < n /\ b = n
    BY <1>8, <2>1, <2>2, <2>5
  <2>6. CASE a < n /\ b > n
    <3>1. q[a] = q[a] /\ a < n /\ b - 1 >= n /\ a < b - 1
      BY <1>3, <2>6
    <3>2. a \in 1..Len(q) /\ b - 1 \in 1..Len(q) /\ r[a] = q[a] /\ r[b] = q[b-1]
      BY <2>1, <2>2, <2>6
    <3> QED
      BY <2>3, <3>1, <3>2
  <2>7. CASE a = n /\ b > n
    BY <1>8, <2>1, <2>2, <2>7
  <2>8. CASE a > n /\ b > n
    <3>1. a - 1 < b - 1
      BY <1>3
    <3> QED
      BY <2>1, <2>2, <2>3, <2>8, <3>1
  <2> QED
    <3>1. a \in Int /\ b \in Int /\ n \in Int
      BY <1>3
    <3>2. (a < n \/ a = n \/ a > n) /\ (b < n \/ b = n \/ b > n) /\ a < b
      BY <3>1
    <3>3. ~(a = n /\ b < n) /\ ~(a = n /\ b = n) /\ ~(a > n /\ b < n) /\ ~(a > n /\ b = n)
      BY <3>1, <3>2
    <3> QED
      BY <2>4, <2>5, <2>6, <2>7, <2>8, <3>2, <3>3
<1> QED
  BY <1>2, <1>5, <1>9

\* A list without one of its members.
LEMMA RemoveAtList ==
  ASSUME NEW S, NEW q \in Seq(S), NoDuplicates(q), NEW i \in 1..Len(q)
  PROVE  /\ RemoveAt(q, i) \in Seq(S) /\ NoDuplicates(RemoveAt(q, i))
         /\ ToSet(RemoveAt(q, i)) = ToSet(q) \ {q[i]}
         /\ \A prio : SortedBy(q, prio) => SortedBy(RemoveAt(q, i), prio)
<1> DEFINE r == RemoveAt(q, i)
<1>1. /\ r \in Seq(S) /\ Len(r) = Len(q) - 1
      /\ \A j \in 1..Len(q)-1 : r[j] = IF j < i THEN q[j] ELSE q[j+1]
  BY RemoveAtIs
<1> HIDE DEF r
<1>2. Len(q) \in Nat /\ i \in 1..Len(q)
  OBVIOUS
<1> DEFINE at(j) == IF j < i THEN j ELSE j + 1
<1>3. \A j \in 1..Len(q)-1 : r[j] = q[at(j)] /\ at(j) \in 1..Len(q) /\ at(j) # i
  BY <1>1, <1>2
<1>4. \A a, b \in 1..Len(q)-1 : a < b => at(a) < at(b)
  BY <1>2
<1>5. \A j \in 1..Len(q) : j # i => \E a \in 1..Len(q)-1 : at(a) = j
  <2> SUFFICES ASSUME NEW j \in 1..Len(q), j # i
               PROVE  \E a \in 1..Len(q)-1 : at(a) = j
    OBVIOUS
  <2>1. CASE j < i
    <3>1. j \in 1..Len(q)-1 /\ at(j) = j
      BY <1>2, <2>1
    <3> QED
      BY <3>1
  <2>2. CASE j > i
    <3>1. j - 1 \in 1..Len(q)-1 /\ at(j - 1) = j
      BY <1>2, <2>2
    <3> QED
      BY <3>1
  <2> QED
    BY <1>2, <2>1, <2>2
<1> HIDE DEF at
<1>6. NoDuplicates(r)
  <2> SUFFICES ASSUME NEW a \in 1..Len(q)-1, NEW b \in 1..Len(q)-1, r[a] = r[b], a < b
               PROVE  FALSE
    BY <1>1, <1>2 DEF NoDuplicates
  <2>1. at(a) = at(b)
    <3>1. /\ at(a) \in 1..Len(q) /\ at(b) \in 1..Len(q)
          /\ q[at(a)] = q[at(b)]
      BY <1>3
    <3> QED
      BY <3>1 DEF NoDuplicates
  <2> QED
    BY <1>2, <1>3, <1>4, <2>1
<1>7. ToSet(r) = ToSet(q) \ {q[i]}
  <2>1. ASSUME NEW x \in ToSet(r) PROVE x \in ToSet(q) \ {q[i]}
    <3>1. PICK a \in 1..Len(q)-1 : r[a] = x
      BY <1>1, ToSetIs
    <3>2. q[at(a)] = x /\ at(a) \in 1..Len(q) /\ at(a) # i
      BY <1>3, <3>1
    <3> QED
      BY <1>2, <3>2, ToSetIs DEF NoDuplicates
  <2>2. ASSUME NEW x \in ToSet(q) \ {q[i]} PROVE x \in ToSet(r)
    <3>1. PICK j \in 1..Len(q) : q[j] = x
      BY ToSetIs
    <3>2. PICK a \in 1..Len(q)-1 : at(a) = j
      BY <1>5, <3>1
    <3> QED
      BY <1>1, <1>3, <3>1, <3>2, ToSetIs
  <2> QED
    BY <2>1, <2>2
<1>8. ASSUME NEW prio, SortedBy(q, prio) PROVE SortedBy(r, prio)
  <2> SUFFICES ASSUME NEW a \in 1..Len(q)-1, NEW b \in 1..Len(q)-1, a < b
               PROVE  prio[r[a]] >= prio[r[b]]
    BY <1>1 DEF SortedBy
  <2> QED
    BY <1>3, <1>4, <1>8 DEF SortedBy
<1> QED
  BY <1>1, <1>6, <1>7, <1>8 DEF r

\* osRtxThreadListRemove on one list.
LEMMA RemoveFirstList ==
  ASSUME NEW S, NEW q \in Seq(S), NoDuplicates(q), NEW t
  PROVE  /\ RemoveFirst(q, t) \in Seq(S) /\ NoDuplicates(RemoveFirst(q, t))
         /\ ToSet(RemoveFirst(q, t)) = ToSet(q) \ {t}
         /\ \A prio : SortedBy(q, prio) => SortedBy(RemoveFirst(q, t), prio)
<1>1. CASE t \in ToSet(q)
  <2> DEFINE I == {j \in 1..Len(q) : q[j] = t}
  <2>1. I # {} /\ I \in SUBSET Nat
    BY <1>1, ToSetIs
  <2>2. Min(I) \in 1..Len(q) /\ q[Min(I)] = t
    BY <2>1, MinIs
  <2>3. RemoveFirst(q, t) = RemoveAt(q, Min(I))
    BY <2>1 DEF RemoveFirst, SelectInSeq
  <2> HIDE DEF I
  <2> QED
    BY <2>2, <2>3, RemoveAtList
<1>2. CASE t \notin ToSet(q)
  <2>1. RemoveFirst(q, t) = q
    BY <1>2, ToSetIs DEF RemoveFirst
  <2> QED
    BY <1>2, <2>1
<1> QED
  BY <1>1, <1>2

\* osRtxThreadListGet
LEMMA TailList ==
  ASSUME NEW S, NEW q \in Seq(S), NoDuplicates(q), q # << >>
  PROVE  /\ Head(q) \in S /\ Head(q) \in ToSet(q)
         /\ Tail(q) \in Seq(S) /\ NoDuplicates(Tail(q))
         /\ ToSet(Tail(q)) = ToSet(q) \ {Head(q)}
         /\ \A prio : SortedBy(q, prio) => SortedBy(Tail(q), prio)
<1>1. /\ Len(q) \in Nat /\ Len(q) >= 1 /\ Head(q) = q[1] /\ Head(q) \in S
      /\ Tail(q) \in Seq(S) /\ Len(Tail(q)) = Len(q) - 1
      /\ \A j \in 1..Len(q)-1 : Tail(q)[j] = q[j+1]
  OBVIOUS
<1>2. RemoveAt(q, 1) = Tail(q)
  <2> 1 \in 1..Len(q)
    BY <1>1
  <2>1. /\ RemoveAt(q, 1) \in Seq(S) /\ Len(RemoveAt(q, 1)) = Len(q) - 1
        /\ \A j \in 1..Len(q)-1 : RemoveAt(q, 1)[j] = IF j < 1 THEN q[j] ELSE q[j+1]
    BY RemoveAtIs
  <2>2. \A j \in 1..Len(q)-1 : RemoveAt(q, 1)[j] = Tail(q)[j]
    BY <1>1, <2>1
  <2> QED
    BY <1>1, <2>1, <2>2, SeqEqual
<1>3. 1 \in 1..Len(q)
  BY <1>1
<1>4. /\ RemoveAt(q, 1) \in Seq(S) /\ NoDuplicates(RemoveAt(q, 1))
      /\ ToSet(RemoveAt(q, 1)) = ToSet(q) \ {q[1]}
      /\ \A prio : SortedBy(q, prio) => SortedBy(RemoveAt(q, 1), prio)
  BY <1>3, RemoveAtList
<1>5. Head(q) \in ToSet(q)
  BY <1>1, <1>3, ToSetIs
<1> QED
  BY <1>1, <1>2, <1>4, <1>5

-----------------------------------------------------------------------------
(* Kernel records. *)

\* Thread t is linked where its state says, with q for the delay list, and what
\* is left of its time slice is no longer than the timeout.
AtPlace(s, q, t) ==
  /\ t \in ToSet(s.ready) <=> s.state[t] = "Ready"
  /\ t \in ToSet(q) <=> IsBlocked(s, t) /\ s.delay[t] # Forever
  /\ t \in s.waitList <=> IsBlocked(s, t) /\ s.delay[t] = Forever
  /\ s.state[t] \in {"Ready", "Running"} => s.delay[t] \in 0..RobinTimeout

Nowhere(s, q, t) ==
  t \notin ToSet(s.ready) /\ t \notin ToSet(q) /\ t \notin s.waitList

\* Within a handler the threads X are on their way from one list to another.
Linked(s, q, X) ==
  /\ s \in Kernel
  /\ NoDuplicates(s.ready) /\ SortedBy(s.ready, s.priority)
  /\ q \in Seq(Thread) /\ NoDuplicates(q)
  /\ \A t \in Thread \ X : AtPlace(s, q, t)
  /\ \A t \in X : Nowhere(s, q, t)

\* The first member of a delay list is not due yet.
NotDue(s) == s.delayList # << >> => s.delay[Head(s.delayList)] >= 1

Good(s, X) == Linked(s, s.delayList, X) /\ NotDue(s)

\* The fields that only the calls of the programs change.
Blocks(s, r) ==
  /\ r.joinable = s.joinable /\ r.joiner = s.joiner /\ r.target = s.target
  /\ r.owned = s.owned /\ r.run = s.run /\ r.kernel = s.kernel
  /\ r.base = s.base /\ r.mutex = s.mutex /\ r.owner = s.owner /\ r.lock = s.lock

\* What scheduling leaves alone.
Frame(s, r) ==
  /\ r.joinable = s.joinable /\ r.joiner = s.joiner /\ r.target = s.target
  /\ r.owned = s.owned /\ r.run = s.run /\ r.kernel = s.kernel
  /\ r.base = s.base /\ r.mutex = s.mutex /\ r.owner = s.owner /\ r.lock = s.lock
  /\ r.priority = s.priority /\ r.list = s.list

\* The fields of a record.
LEMMA Fields ==
  ASSUME NEW s \in Kernel
  PROVE  /\ s.state \in [Thread -> ThreadState] /\ s.priority \in [Thread -> Priority]
         /\ s.priority \in [Thread -> Nat]
         /\ s.delay \in [Thread -> Nat \cup {Forever}]
         /\ s.ready \in Seq(Thread) /\ s.delayList \in Seq(Thread)
         /\ s.waitList \in SUBSET Thread
         /\ s.next \in Thread \cup {NoThread}
         /\ s.list \in [Object -> Seq(Thread)]
         /\ s.owned \in [Thread -> Seq(Mutex)]
         /\ s.base \in [Thread -> Priority]
         /\ s.owner \in [Mutex -> Thread \cup {NoThread}]
         /\ s.lock \in [Mutex -> Nat]
BY KernelAssumption DEF Kernel

\* Updates that keep the types.
LEMMA WithReady ==
  ASSUME NEW s \in Kernel, NEW q \in Seq(Thread)
  PROVE  [s EXCEPT !.ready = q] \in Kernel
BY DEF Kernel

LEMMA WithLists ==
  ASSUME NEW s \in Kernel, NEW q \in Seq(Thread), NEW f \in [Object -> Seq(Thread)]
  PROVE  [s EXCEPT !.ready = q, !.list = f] \in Kernel
BY DEF Kernel

LEMMA WithStateReady ==
  ASSUME NEW s \in Kernel, NEW t \in Thread, NEW q \in Seq(Thread)
  PROVE  [s EXCEPT !.state[t] = "Ready", !.ready = q] \in Kernel
BY DEF Kernel, ThreadState

LEMMA WithStateNext ==
  ASSUME NEW s \in Kernel, NEW t \in Thread
  PROVE  [s EXCEPT !.state[t] = "Running", !.next = t] \in Kernel
BY DEF Kernel, ThreadState

LEMMA WithDelayWait ==
  ASSUME NEW s \in Kernel, NEW t \in Thread, NEW W \in SUBSET Thread,
         NEW d \in Nat \cup {Forever}
  PROVE  [s EXCEPT !.delay[t] = d, !.waitList = W] \in Kernel
BY DEF Kernel

LEMMA WithDelayList ==
  ASSUME NEW s \in Kernel, NEW q \in Seq(Thread), NEW e \in [Thread -> Nat \cup {Forever}]
  PROVE  [s EXCEPT !.delayList = q, !.delay = e] \in Kernel
BY DEF Kernel

LEMMA WithState ==
  ASSUME NEW s \in Kernel, NEW t \in Thread, NEW x \in ThreadState
  PROVE  [s EXCEPT !.state[t] = x] \in Kernel
BY DEF Kernel

\* A thread that is in no list may be taken to be on its way.
LEMMA Leaves ==
  ASSUME NEW s, NEW q, NEW X \in SUBSET Thread, Linked(s, q, X), NEW t \in Thread \ X,
         s.state[t] \in {"Running", "Inactive", "Terminated"}
  PROVE  Linked(s, q, X \cup {t})
<1>1. AtPlace(s, q, t) /\ ~IsBlocked(s, t)
  BY DEF Linked, IsBlocked, Waiting
<1>2. Nowhere(s, q, t)
  BY <1>1 DEF AtPlace, Nowhere
<1> QED
  BY <1>2 DEF Linked

\* t becomes ready, q being the ready list with t.
MadeReady(s, z, t) == [s EXCEPT !.state[t] = "Ready", !.ready = z]

\* What else changes.
Readied(s, r, t) ==
  /\ Frame(s, r)
  /\ r.state = [s.state EXCEPT ![t] = "Ready"]
  /\ r.next = s.next /\ r.delay = s.delay
  /\ r.delayList = s.delayList /\ r.waitList = s.waitList
  /\ r.ready # << >>

\* The first ready thread is taken.
Popped(s) == [s EXCEPT !.ready = Tail(@)]

\* Both become ready in their place.
LEMMA MakeReady ==
  ASSUME NEW s, NEW q, NEW X \in SUBSET Thread, Linked(s, q, X), NEW t \in X,
         s.delay[t] \in 0..RobinTimeout,
         NEW z \in Seq(Thread), NoDuplicates(z), SortedBy(z, s.priority),
         ToSet(z) = ToSet(s.ready) \cup {t},
         NEW r, r = MadeReady(s, z, t)
  PROVE  Linked(r, q, X \ {t}) /\ Readied(s, r, t)
<1>1. s \in Kernel /\ t \in Thread /\ Nowhere(s, q, t)
  BY DEF Linked
<1>3. /\ z \in Seq(Thread) /\ NoDuplicates(z) /\ ToSet(z) = ToSet(s.ready) \cup {t}
      /\ SortedBy(z, s.priority)
  OBVIOUS
<1>4. r = [s EXCEPT !.state[t] = "Ready", !.ready = z]
  BY DEF MadeReady
<1>5. /\ r.state = [s.state EXCEPT ![t] = "Ready"] /\ r.ready = z
      /\ r.priority = s.priority /\ r.delay = s.delay /\ r.delayList = s.delayList
      /\ r.waitList = s.waitList /\ r.next = s.next /\ r.list = s.list
  BY <1>1, <1>4 DEF Kernel
<1>6. Frame(s, r)
  BY <1>1, <1>4 DEF Kernel, Frame
<1>7. r \in Kernel
  <2>1. [s EXCEPT !.state[t] = "Ready", !.ready = z] \in Kernel
    BY ONLY <1>1, <1>3, WithStateReady
  <2> QED
    BY ONLY <1>4, <2>1
<1>8. ASSUME NEW u \in Thread \ (X \ {t}) PROVE AtPlace(r, q, u)
  <2>1. s.state \in [Thread -> ThreadState]
    BY <1>1, Fields
  <2>2. CASE u = t
    BY <1>1, <1>3, <1>5, <2>1, <2>2 DEF AtPlace, Nowhere, IsBlocked, Waiting
  <2>3. CASE u # t
    <3>1. AtPlace(s, q, u)
      BY <2>3 DEF Linked
    <3> QED
      BY <1>3, <1>5, <2>1, <2>3, <3>1 DEF AtPlace, IsBlocked
  <2> QED
    BY <2>2, <2>3
<1>9. ASSUME NEW u \in X \ {t} PROVE Nowhere(r, q, u)
  BY <1>3, <1>5 DEF Linked, Nowhere
<1>11. q \in Seq(Thread) /\ NoDuplicates(q)
  BY DEF Linked
<1>10. z # << >>
  BY <1>3 DEF ToSet
<1> QED
  BY <1>3, <1>5, <1>6, <1>7, <1>8, <1>9, <1>10, <1>11 DEF Linked, Readied

\* osRtxThreadReadyPut
LEMMA ReadyPutGood ==
  ASSUME NEW s, NEW q, NEW X \in SUBSET Thread, Linked(s, q, X), NEW t \in X,
         s.delay[t] \in 0..RobinTimeout,
         NEW r, r = ThreadReadyPut(s, t)
  PROVE  Linked(r, q, X \ {t}) /\ Readied(s, r, t)
<1> DEFINE p == s.priority[t]
           z == InsertBelow(s.ready, s.priority, p, t)
<1>1. /\ s.priority \in [Thread -> Nat] /\ s.ready \in Seq(Thread) /\ t \in Thread
      /\ t \notin ToSet(s.ready) /\ NoDuplicates(s.ready) /\ SortedBy(s.ready, s.priority)
  BY Fields DEF Linked, Nowhere
<1>2. r = MadeReady(s, z, t)
  BY DEF ThreadReadyPut, ThreadListPut, MadeReady
<1>3. p \in {s.priority[t], s.priority[t] + 1}
  OBVIOUS
<1> HIDE DEF p
<1>4. /\ z \in Seq(Thread) /\ NoDuplicates(z) /\ ToSet(z) = ToSet(s.ready) \cup {t}
      /\ SortedBy(z, s.priority)
  BY <1>1, <1>3, InsertBelowList
<1> HIDE DEF z
<1> QED
  BY <1>2, <1>4, MakeReady

\* osRtxThreadBlock for a preempted thread on its way.
LEMMA BlockGood ==
  ASSUME NEW s, NEW q, NEW X \in SUBSET Thread, Linked(s, q, X), NEW t \in X,
         s.delay[t] \in 0..RobinTimeout,
         NEW r, r = ThreadBlock(s, t)
  PROVE  Linked(r, q, X \ {t}) /\ Readied(s, r, t)
<1> DEFINE p == s.priority[t] + 1
           z == InsertBelow(s.ready, s.priority, p, t)
<1>1. /\ s.priority \in [Thread -> Nat] /\ s.ready \in Seq(Thread) /\ t \in Thread
      /\ t \notin ToSet(s.ready) /\ NoDuplicates(s.ready) /\ SortedBy(s.ready, s.priority)
  BY Fields DEF Linked, Nowhere
<1>2. r = MadeReady(s, z, t)
  BY DEF ThreadBlock, ThreadListPutFirst, MadeReady
<1>3. p \in {s.priority[t], s.priority[t] + 1}
  OBVIOUS
<1> HIDE DEF p
<1>4. /\ z \in Seq(Thread) /\ NoDuplicates(z) /\ ToSet(z) = ToSet(s.ready) \cup {t}
      /\ SortedBy(z, s.priority)
  BY <1>1, <1>3, InsertBelowList
<1> HIDE DEF z
<1> QED
  BY <1>2, <1>4, MakeReady

\* osRtxThreadSwitch to a thread on its way.
LEMMA SwitchTo ==
  ASSUME NEW s, NEW q, NEW X \in SUBSET Thread, Linked(s, q, X), NEW t \in X,
         s.delay[t] \in 0..RobinTimeout,
         NEW r, r = ThreadSwitch(s, t)
  PROVE  /\ Linked(r, q, X \ {t}) /\ Frame(s, r)
         /\ r.state = [s.state EXCEPT ![t] = "Running"]
         /\ r.next = t /\ r.delay = s.delay /\ r.ready = s.ready
         /\ r.delayList = s.delayList /\ r.waitList = s.waitList
<1>1. /\ s \in Kernel /\ t \in Thread /\ Nowhere(s, q, t)
      /\ s.state \in [Thread -> ThreadState]
  BY Fields DEF Linked
<1>2. r = [s EXCEPT !.state[t] = "Running", !.next = t]
  BY DEF ThreadSwitch
<1>3. /\ r.state = [s.state EXCEPT ![t] = "Running"] /\ r.ready = s.ready
      /\ r.priority = s.priority /\ r.delay = s.delay /\ r.delayList = s.delayList
      /\ r.waitList = s.waitList /\ r.next = t /\ r.list = s.list
  BY <1>1, <1>2 DEF Kernel
<1>4. Frame(s, r)
  BY <1>1, <1>2 DEF Kernel, Frame
<1>5. r \in Kernel
  BY <1>1, <1>2, WithStateNext
<1>6. ASSUME NEW u \in Thread \ (X \ {t}) PROVE AtPlace(r, q, u)
  <2>1. CASE u = t
    BY <1>1, <1>3, <2>1 DEF AtPlace, Nowhere, IsBlocked, Waiting
  <2>2. CASE u # t
    <3>1. AtPlace(s, q, u)
      BY <2>2 DEF Linked
    <3> QED
      BY <1>1, <1>3, <2>2, <3>1 DEF AtPlace, IsBlocked
  <2> QED
    BY <2>1, <2>2
<1>7. ASSUME NEW u \in X \ {t} PROVE Nowhere(r, q, u)
  BY <1>3 DEF Linked, Nowhere
<1> QED
  BY <1>3, <1>4, <1>5, <1>6, <1>7 DEF Linked

\* It is a ready thread of the highest priority outside X.
Taken(s, r, X) ==
  /\ Head(s.ready) \in Thread \ X /\ s.state[Head(s.ready)] = "Ready"
  /\ s.delay[Head(s.ready)] \in 0..RobinTimeout
  /\ Frame(s, r)
  /\ r.state = s.state /\ r.next = s.next /\ r.delay = s.delay
  /\ r.delayList = s.delayList /\ r.waitList = s.waitList
  /\ \A u \in Thread \ X : s.state[u] = "Ready"
                             => s.priority[u] <= s.priority[Head(s.ready)]

\* osRtxThreadListGet of the ready list.
LEMMA TakeReady ==
  ASSUME NEW s, NEW q, NEW X \in SUBSET Thread, Linked(s, q, X), s.ready # << >>,
         NEW r, r = Popped(s)
  PROVE  Linked(r, q, X \cup {Head(s.ready)}) /\ Taken(s, r, X)
<1> DEFINE z == Tail(s.ready)
           h == Head(s.ready)
<1>1. /\ s \in Kernel /\ s.state \in [Thread -> ThreadState] /\ s.ready \in Seq(Thread)
      /\ NoDuplicates(s.ready) /\ SortedBy(s.ready, s.priority)
      /\ s.priority \in [Thread -> Nat]
  BY Fields DEF Linked
<1>2. /\ h \in Thread /\ h \in ToSet(s.ready)
      /\ z \in Seq(Thread) /\ NoDuplicates(z) /\ ToSet(z) = ToSet(s.ready) \ {h}
      /\ SortedBy(z, s.priority)
  BY <1>1, TailList
<1>3. \A u \in Thread : u \in ToSet(s.ready) => s.priority[u] <= s.priority[h]
  <2>1. SUFFICES ASSUME NEW i \in 1..Len(s.ready)
                 PROVE  s.priority[s.ready[i]] <= s.priority[h]
    BY <1>1, ToSetIs
  <2>2. Len(s.ready) \in Nat /\ h = s.ready[1] /\ s.ready[i] \in Thread
    BY <1>1
  <2>3. CASE i = 1
    BY <1>1, <1>2, <2>2, <2>3
  <2>4. CASE i # 1
    BY <1>1, <1>2, <2>2, <2>4 DEF SortedBy
  <2> QED
    BY <2>3, <2>4
<1>4. r = [s EXCEPT !.ready = z]
  BY DEF Popped
<1> HIDE DEF z, h
<1>5. /\ r.state = s.state /\ r.ready = z
      /\ r.priority = s.priority /\ r.delay = s.delay /\ r.delayList = s.delayList
      /\ r.waitList = s.waitList /\ r.next = s.next /\ r.list = s.list
  BY <1>1, <1>4 DEF Kernel
<1>6. Frame(s, r)
  BY <1>1, <1>4 DEF Kernel, Frame
<1>7. r \in Kernel
  <2>1. [s EXCEPT !.ready = z] \in Kernel
    BY ONLY <1>1, <1>2, WithReady
  <2> QED
    BY ONLY <1>4, <2>1
<1>8. h \in Thread \ X
  BY <1>2 DEF Linked, Nowhere
<1>9. AtPlace(s, q, h) /\ s.state[h] = "Ready" /\ s.delay[h] \in 0..RobinTimeout
  BY <1>2, <1>8 DEF Linked, AtPlace
<1>10. Nowhere(r, q, h)
  BY <1>2, <1>5, <1>9 DEF AtPlace, Nowhere, IsBlocked, Waiting
<1>11. ASSUME NEW u \in Thread \ (X \cup {h}) PROVE AtPlace(r, q, u)
  <2>1. AtPlace(s, q, u) /\ u # h
    BY DEF Linked
  <2> QED
    BY <1>2, <1>5, <2>1 DEF AtPlace, IsBlocked
<1>12. ASSUME NEW u \in X PROVE Nowhere(r, q, u)
  BY <1>2, <1>5 DEF Linked, Nowhere
<1>13. ASSUME NEW u \in Thread \ X, s.state[u] = "Ready" PROVE s.priority[u] <= s.priority[h]
  BY <1>3, <1>13 DEF Linked, AtPlace
<1>14. Linked(r, q, X \cup {h})
  BY <1>2, <1>5, <1>7, <1>10, <1>11, <1>12 DEF Linked
<1> QED
  BY <1>5, <1>6, <1>8, <1>9, <1>13, <1>14 DEF h, Taken

-----------------------------------------------------------------------------
(* The scheduler. *)

\* The states of a thread that waits in the list of an object.
QueueStates == {"WaitingEventFlags", "WaitingMutex", "WaitingSemaphore",
                "WaitingMemoryPool", "WaitingMessageGet", "WaitingMessagePut"}

\* The states of a thread that matter to others than the scheduler.
Life(x) ==
  IF x \in {"Inactive", "Terminated", "WaitingJoin"} \cup QueueStates THEN x ELSE "Live"

\* From s to r nobody outside X is born, ends, or starts or stops waiting for a
\* thread or an object.
Keeps(s, r, X) ==
  /\ Frame(s, r)
  /\ \A u \in Thread \ X :
       /\ Life(r.state[u]) = Life(s.state[u])
       /\ u \in s.waitList /\ r.state[u] = "WaitingJoin" => u \in r.waitList

\* One thread is marked as running: the chosen one.
Runs(s) == s.next \in Thread /\ \A u \in Thread : s.state[u] = "Running" <=> u = s.next

\* No ready thread outside X should preempt the chosen one.
Highest(s, X) ==
  \A u \in Thread \ X : s.state[u] = "Ready" => s.priority[u] <= s.priority[s.next]

\* A ready thread that no thread outside X should preempt becomes the running one.
Chosen(s, r, X) ==
  /\ Frame(s, r)
  /\ r.next \in Thread \ X /\ s.state[r.next] = "Ready"
  /\ r.state = [s.state EXCEPT ![r.next] = "Running"]
  /\ r.delay = s.delay /\ r.delayList = s.delayList /\ r.waitList = s.waitList
  /\ Highest(r, X)

\* The best ready thread is chosen.
LEMMA SwitchToReadyGood ==
  ASSUME NEW s, NEW q, NEW X \in SUBSET Thread, Linked(s, q, X), s.ready # << >>,
         NEW r, r = ThreadSwitchToReady(s)
  PROVE  Linked(r, q, X) /\ Chosen(s, r, X)
<1> DEFINE h  == Head(s.ready)
           s1 == Popped(s)
<1>1. /\ h \in Thread \ X /\ s.state[h] = "Ready" /\ s.delay[h] \in 0..RobinTimeout
      /\ Linked(s1, q, X \cup {h}) /\ Frame(s, s1)
      /\ s1.state = s.state /\ s1.next = s.next /\ s1.delay = s.delay
      /\ s1.delayList = s.delayList /\ s1.waitList = s.waitList
      /\ \A u \in Thread \ X : s.state[u] = "Ready" => s.priority[u] <= s.priority[h]
  <2>1. Linked(s1, q, X \cup {h}) /\ Taken(s, s1, X)
    BY TakeReady
  <2> QED
    BY <2>1 DEF Taken
<1>2. r = ThreadSwitch(s1, h)
  BY DEF ThreadSwitchToReady, Popped
<1> HIDE DEF h, s1
<1>3. /\ Linked(r, q, (X \cup {h}) \ {h}) /\ Frame(s1, r)
      /\ r.state = [s1.state EXCEPT ![h] = "Running"]
      /\ r.next = h /\ r.delay = s1.delay
      /\ r.delayList = s1.delayList /\ r.waitList = s1.waitList
  <2>1. X \cup {h} \in SUBSET Thread /\ h \in X \cup {h} /\ s1.delay[h] \in 0..RobinTimeout
    BY <1>1
  <2> QED
    BY ONLY <1>1, <1>2, <2>1, SwitchTo
<1>4. (X \cup {h}) \ {h} = X /\ s.state \in [Thread -> ThreadState]
  BY <1>1, Fields DEF Linked
<1>5. Frame(s, r)
  BY <1>1, <1>3 DEF Frame
<1>6. Highest(r, X)
  BY <1>1, <1>3, <1>4, <1>5 DEF Highest, Frame
<1> QED
  BY <1>1, <1>3, <1>4, <1>5, <1>6 DEF Chosen

\* The threads X apart, only the scheduler's states change.
Rescheduled(s, r, X) ==
  /\ Keeps(s, r, {}) /\ Runs(r) /\ r.next \notin X
  /\ \A u \in X : r.state[u] = s.state[u]
  /\ r.delay = s.delay /\ r.delayList = s.delayList /\ r.waitList = s.waitList
  /\ s.kernel = "Running" => Highest(r, X)

\* osRtxThreadDispatch(NULL)
LEMMA DispatchReadyGood ==
  ASSUME NEW s, NEW q, NEW X \in SUBSET Thread, Linked(s, q, X),
         Runs(s), s.run = s.next, s.next \notin X,
         NEW r, r = ThreadDispatchReady(s)
  PROVE  Linked(r, q, X) /\ Rescheduled(s, r, X)
<1> DEFINE h  == Head(s.ready)
           c  == s.run
           s1 == Popped(s)
           s2 == ThreadBlock(s1, c)
<1>1. s.priority \in [Thread -> Nat] /\ s.state \in [Thread -> ThreadState] /\ c \in Thread \ X
  BY Fields DEF Linked, Runs
<1>2. CASE s.ready # << >> /\ Preempts(s, s.priority[h])
  <2>1. /\ h \in Thread \ X /\ s.state[h] = "Ready" /\ s.delay[h] \in 0..RobinTimeout
        /\ Linked(s1, q, X \cup {h}) /\ Frame(s, s1)
        /\ s1.state = s.state /\ s1.next = s.next /\ s1.delay = s.delay
        /\ s1.delayList = s.delayList /\ s1.waitList = s.waitList
        /\ \A u \in Thread \ X : s.state[u] = "Ready" => s.priority[u] <= s.priority[h]
    <3>1. Linked(s1, q, X \cup {h}) /\ Taken(s, s1, X)
      BY <1>2, TakeReady
    <3> HIDE DEF s1
    <3> QED
      BY <3>1 DEF Taken
  <2>2. r = ThreadSwitch(s2, h)
    BY <1>2 DEF ThreadDispatchReady, Popped
  <2>3. s2 = ThreadBlock(s1, c)
    OBVIOUS
  <2> HIDE DEF h, c, s1, s2
  <2>4. s1.state[c] = "Running" /\ c # h /\ s1.delay[c] \in 0..RobinTimeout
    <3>1. s.state[c] = "Running" /\ AtPlace(s, q, c)
      BY <1>1 DEF Runs, Linked, c
    <3> QED
      BY <2>1, <3>1 DEF AtPlace
  <2>5. Linked(s1, q, X \cup {h} \cup {c})
    <3>1. c \in Thread \ (X \cup {h}) /\ X \cup {h} \in SUBSET Thread
      BY <1>1, <2>1, <2>4
    <3> QED
      BY <2>1, <2>4, <3>1, Leaves
  <2>6. /\ Linked(s2, q, (X \cup {h} \cup {c}) \ {c}) /\ Frame(s1, s2)
        /\ s2.state = [s1.state EXCEPT ![c] = "Ready"]
        /\ s2.next = s1.next /\ s2.delay = s1.delay
        /\ s2.delayList = s1.delayList /\ s2.waitList = s1.waitList
    <3>1. X \cup {h} \cup {c} \in SUBSET Thread /\ c \in X \cup {h} \cup {c}
      BY <1>1, <2>1
    <3>2. Linked(s2, q, (X \cup {h} \cup {c}) \ {c}) /\ Readied(s1, s2, c)
      BY ONLY <2>3, <2>4, <2>5, <3>1, BlockGood
    <3> QED
      BY ONLY <3>2 DEF Readied
  <2>7. (X \cup {h} \cup {c}) \ {c} = X \cup {h} /\ (X \cup {h}) \ {h} = X
    BY <1>1, <2>1, <2>4
  <2>8. /\ Linked(r, q, X) /\ Frame(s2, r)
        /\ r.state = [s2.state EXCEPT ![h] = "Running"]
        /\ r.next = h /\ r.delay = s2.delay
        /\ r.delayList = s2.delayList /\ r.waitList = s2.waitList
    <3>1. X \cup {h} \in SUBSET Thread /\ Linked(s2, q, X \cup {h}) /\ h \in X \cup {h}
          /\ s2.delay[h] \in 0..RobinTimeout
      BY <2>1, <2>6, <2>7
    <3> QED
      BY <2>2, <2>7, <3>1, SwitchTo
  <2>9. r.state = [[s.state EXCEPT ![c] = "Ready"] EXCEPT ![h] = "Running"]
    BY <2>1, <2>6, <2>8
  <2>10. Keeps(s, r, {})
    <3>1. Frame(s, r)
      BY <2>1, <2>6, <2>8 DEF Frame
    <3>2. \A u \in Thread : Life(r.state[u]) = Life(s.state[u])
      BY <1>1, <2>1, <2>4, <2>9 DEF Life, QueueStates
    <3> QED
      BY <2>1, <2>6, <2>8, <3>1, <3>2 DEF Keeps
  <2>11. Runs(r)
    BY <1>1, <2>1, <2>4, <2>8, <2>9 DEF Runs, c
  <2>12. Highest(r, X)
    <3>1. r.priority = s.priority /\ s.priority[c] <= s.priority[h]
      BY <1>1, <1>2, <2>1, <2>10 DEF Keeps, Frame, Preempts, c, h
    <3> QED
      BY <1>1, <2>1, <2>8, <2>9, <3>1 DEF Highest
  <2> QED
    BY <1>1, <2>1, <2>4, <2>6, <2>8, <2>9, <2>10, <2>11, <2>12 DEF Rescheduled
<1>3. CASE ~(s.ready # << >> /\ Preempts(s, s.priority[h]))
  <2>1. r = s
    BY <1>3 DEF ThreadDispatchReady
  <2>2. Keeps(s, s, {})
    BY DEF Keeps, Frame
  <2>3. ASSUME s.kernel = "Running" PROVE Highest(s, X)
    <3>1. CASE s.ready = << >>
      BY <3>1 DEF Highest, Linked, AtPlace, ToSet
    <3>2. CASE s.ready # << >>
      <4>1. /\ h \in Thread
            /\ \A u \in Thread \ X : s.state[u] = "Ready" => s.priority[u] <= s.priority[h]
        BY <3>2, TakeReady DEF Taken
      <4>2. s.priority[h] <= s.priority[c]
        BY <1>1, <1>3, <2>3, <3>2, <4>1 DEF Preempts
      <4> QED
        BY <1>1, <4>1, <4>2 DEF Highest
    <3> QED
      BY <3>1, <3>2
  <2> QED
    BY <2>1, <2>2, <2>3 DEF Rescheduled
<1> QED
  BY <1>2, <1>3

\* t is taken over by the scheduler.
Admitted(s, r, X, t) ==
  /\ Keeps(s, r, {t})
  /\ Runs(s) => Runs(r)
  /\ s.kernel # "Running" => /\ r.state = [s.state EXCEPT ![t] = "Ready"]
                             /\ r.next = s.next /\ r.ready # << >>
  /\ r.state[t] \in {"Ready", "Running"}
  /\ r.delay = s.delay /\ r.delayList = s.delayList /\ r.waitList = s.waitList
  /\ s.kernel = "Running" /\ Highest(s, X) => Highest(r, X \ {t})

\* osRtxThreadDispatch(thread) for a thread on its way.
LEMMA DispatchGood ==
  ASSUME NEW s, NEW q, NEW X \in SUBSET Thread, Linked(s, q, X), NEW t \in X,
         s.delay[t] \in 0..RobinTimeout, s.state[t] # "Running",
         s.kernel = "Running" => Runs(s) /\ s.run = s.next /\ s.next \notin X,
         NEW r, r = ThreadDispatch(s, t)
  PROVE  Linked(r, q, X \ {t}) /\ Admitted(s, r, X, t)
<1> DEFINE c  == s.run
           s2 == ThreadBlock(s, c)
<1>1. s.priority \in [Thread -> Nat] /\ s.state \in [Thread -> ThreadState] /\ t \in Thread
  BY Fields DEF Linked
<1>2. CASE Preempts(s, s.priority[t])
  <2>1. s.kernel = "Running" /\ Runs(s) /\ c = s.next /\ c \in Thread \ X
        /\ s.priority[t] > s.priority[c]
    BY <1>2 DEF Preempts, Runs
  <2>2. r = ThreadSwitch(s2, t)
    BY <1>2 DEF ThreadDispatch
  <2>3. s2 = ThreadBlock(s, c)
    OBVIOUS
  <2> HIDE DEF c, s2
  <2>4. s.state[c] = "Running" /\ c # t /\ s.delay[c] \in 0..RobinTimeout
    <3>1. s.state[c] = "Running" /\ AtPlace(s, q, c)
      BY <2>1 DEF Runs, Linked
    <3> QED
      BY <2>1, <3>1 DEF AtPlace
  <2>5. Linked(s, q, X \cup {c})
    BY <2>1, <2>4, Leaves
  <2>6. /\ Linked(s2, q, (X \cup {c}) \ {c}) /\ Frame(s, s2)
        /\ s2.state = [s.state EXCEPT ![c] = "Ready"]
        /\ s2.next = s.next /\ s2.delay = s.delay
        /\ s2.delayList = s.delayList /\ s2.waitList = s.waitList
    <3>1. X \cup {c} \in SUBSET Thread /\ c \in X \cup {c}
      BY <2>1
    <3>2. Linked(s2, q, (X \cup {c}) \ {c}) /\ Readied(s, s2, c)
      BY ONLY <2>3, <2>4, <2>5, <3>1, BlockGood
    <3> QED
      BY ONLY <3>2 DEF Readied
  <2>7. (X \cup {c}) \ {c} = X
    BY <2>1
  <2>8. /\ Linked(r, q, X \ {t}) /\ Frame(s2, r)
        /\ r.state = [s2.state EXCEPT ![t] = "Running"]
        /\ r.next = t /\ r.delay = s2.delay
        /\ r.delayList = s2.delayList /\ r.waitList = s2.waitList
    <3>1. Linked(s2, q, X) /\ s2.delay[t] \in 0..RobinTimeout
      BY <2>6, <2>7
    <3> QED
      BY <2>2, <3>1, SwitchTo
  <2>9. r.state = [[s.state EXCEPT ![c] = "Ready"] EXCEPT ![t] = "Running"]
    BY <2>6, <2>8
  <2>10. Keeps(s, r, {t})
    <3>1. Frame(s, r)
      BY <2>6, <2>8 DEF Frame
    <3>2. \A u \in Thread \ {t} : Life(r.state[u]) = Life(s.state[u])
      BY <1>1, <2>1, <2>4, <2>9 DEF Life, QueueStates
    <3> QED
      BY <2>6, <2>8, <3>1, <3>2 DEF Keeps
  <2>11. Runs(r)
    BY <1>1, <2>1, <2>4, <2>8, <2>9 DEF Runs
  <2>12. ASSUME Highest(s, X) PROVE Highest(r, X \ {t})
    <3>1. r.priority = s.priority /\ s.priority[c] <= s.priority[t]
      BY <1>1, <2>1, <2>10 DEF Keeps, Frame
    <3>2. \A u \in Thread \ X : s.state[u] = "Ready" => s.priority[u] <= s.priority[t]
      BY <1>1, <2>1, <2>12, <3>1 DEF Highest
    <3> QED
      BY <1>1, <2>1, <2>8, <2>9, <3>1, <3>2 DEF Highest
  <2> QED
    BY <1>1, <2>1, <2>4, <2>6, <2>8, <2>9, <2>10, <2>11, <2>12 DEF Admitted
<1>3. CASE ~Preempts(s, s.priority[t])
  <2>1. r = ThreadReadyPut(s, t)
    BY <1>3 DEF ThreadDispatch
  <2>2. /\ Linked(r, q, X \ {t}) /\ Frame(s, r)
        /\ r.state = [s.state EXCEPT ![t] = "Ready"]
        /\ r.next = s.next /\ r.delay = s.delay
        /\ r.delayList = s.delayList /\ r.waitList = s.waitList
        /\ r.ready # << >>
    BY <2>1, ReadyPutGood DEF Readied
  <2>3. Keeps(s, r, {t})
    BY <1>1, <2>2 DEF Keeps
  <2>4. Runs(s) => Runs(r)
    BY <1>1, <2>2 DEF Runs
  <2>5. ASSUME s.kernel = "Running", Highest(s, X) PROVE Highest(r, X \ {t})
    <3>1. s.priority[t] <= s.priority[s.next] /\ r.priority = s.priority
      BY <1>1, <1>3, <2>2, <2>5 DEF Preempts, Runs, Frame
    <3> QED
      BY <1>1, <2>2, <2>5, <3>1 DEF Highest
  <2> QED
    BY <1>1, <2>2, <2>3, <2>4, <2>5 DEF Admitted
<1> QED
  BY <1>2, <1>3

-----------------------------------------------------------------------------
(* Leaving the lists. *)

\* Nothing but the ready list and the lists of the objects differs.
Unlisted(s, r, t) ==
  /\ Blocks(s, r) /\ r.priority = s.priority
  /\ r.list = [o \in Object |-> RemoveFirst(s.list[o], t)]
  /\ r.state = s.state /\ r.next = s.next /\ r.delay = s.delay
  /\ r.delayList = s.delayList /\ r.waitList = s.waitList

\* ThreadListRemove of a thread that is in no list changes nothing.
LEMMA RemoveAbsent ==
  ASSUME NEW S, NEW q \in Seq(S), NEW t, t \notin ToSet(q)
  PROVE  RemoveFirst(q, t) = q
BY ToSetIs DEF RemoveFirst

\* A list without one of its members is a list.
LEMMA RemoveFirstIn ==
  ASSUME NEW S, NEW q \in Seq(S), NEW t
  PROVE  RemoveFirst(q, t) \in Seq(S)
<1>1. CASE t \in ToSet(q)
  <2> DEFINE I == {j \in 1..Len(q) : q[j] = t}
  <2>1. I # {} /\ I \in SUBSET Nat
    BY <1>1, ToSetIs
  <2>2. Min(I) \in 1..Len(q)
    BY <2>1, MinIs
  <2>3. RemoveFirst(q, t) = RemoveAt(q, Min(I))
    BY <2>1 DEF RemoveFirst, SelectInSeq
  <2> HIDE DEF I
  <2> QED
    BY <2>2, <2>3, RemoveAtIs
<1>2. CASE t \notin ToSet(q)
  BY <1>2, RemoveAbsent
<1> QED
  BY <1>1, <1>2

\* osRtxThreadListRemove
LEMMA ListRemoveGood ==
  ASSUME NEW s, NEW q, NEW X \in SUBSET Thread, Linked(s, q, X), NEW t \in Thread,
         NEW r, r = ThreadListRemove(s, t)
  PROVE  /\ t \in X \/ s.state[t] # "Ready" => Linked(r, q, X)
         /\ t \notin X /\ s.state[t] = "Ready" => Linked(r, q, X \cup {t})
         /\ Unlisted(s, r, t)
<1> DEFINE z == RemoveFirst(s.ready, t)
<1>1. /\ s \in Kernel /\ s.ready \in Seq(Thread) /\ NoDuplicates(s.ready)
      /\ SortedBy(s.ready, s.priority) /\ s.list \in [Object -> Seq(Thread)]
      /\ s.state \in [Thread -> ThreadState]
  BY Fields DEF Linked
<1>2. /\ z \in Seq(Thread) /\ NoDuplicates(z) /\ ToSet(z) = ToSet(s.ready) \ {t}
      /\ SortedBy(z, s.priority)
  BY <1>1, RemoveFirstList
<1>3. r = [s EXCEPT !.ready = z, !.list = [o \in Object |-> RemoveFirst(@[o], t)]]
  BY DEF ThreadListRemove
<1> HIDE DEF z
<1>4. /\ r.state = s.state /\ r.ready = z
      /\ r.priority = s.priority /\ r.delay = s.delay /\ r.delayList = s.delayList
      /\ r.waitList = s.waitList /\ r.next = s.next
  BY <1>1, <1>3 DEF Kernel
<1>7. Unlisted(s, r, t)
  BY <1>1, <1>3 DEF Kernel, Unlisted, Blocks
<1>8. r \in Kernel
  <2> DEFINE f == [o \in Object |-> RemoveFirst(s.list[o], t)]
  <2>1. r = [s EXCEPT !.ready = z, !.list = f]
    BY <1>1, <1>3 DEF Kernel
  <2>2. f \in [Object -> Seq(Thread)]
    BY <1>1, RemoveFirstIn
  <2> HIDE DEF f
  <2>3. s \in Kernel /\ z \in Seq(Thread)
    BY <1>1, <1>2
  <2>4. [s EXCEPT !.ready = z, !.list = f] \in Kernel
    BY <2>2, <2>3, WithLists
  <2> QED
    BY <2>1, <2>4
<1>9. \A u \in X : Nowhere(r, q, u)
  BY <1>2, <1>4 DEF Linked, Nowhere
<1>10. ASSUME t \in X \/ s.state[t] # "Ready" PROVE Linked(r, q, X)
  <2>1. ASSUME NEW u \in Thread \ X PROVE AtPlace(r, q, u)
    <3>1. AtPlace(s, q, u)
      BY DEF Linked
    <3>2. u = t => u \notin ToSet(s.ready)
      BY <1>10, <3>1 DEF AtPlace
    <3> QED
      BY <1>2, <1>4, <3>1, <3>2 DEF AtPlace, IsBlocked
  <2> QED
    BY <1>1, <1>2, <1>4, <1>8, <1>9, <2>1 DEF Linked
<1>11. ASSUME t \notin X, s.state[t] = "Ready" PROVE Linked(r, q, X \cup {t})
  <2>1. ASSUME NEW u \in Thread \ (X \cup {t}) PROVE AtPlace(r, q, u)
    <3>1. AtPlace(s, q, u) /\ u # t
      BY DEF Linked
    <3> QED
      BY <1>2, <1>4, <3>1 DEF AtPlace, IsBlocked
  <2>2. Nowhere(r, q, t)
    <3>1. AtPlace(s, q, t)
      BY <1>11 DEF Linked
    <3> QED
      BY <1>2, <1>4, <1>11, <3>1 DEF AtPlace, Nowhere, IsBlocked, Waiting
  <2> QED
    BY <1>1, <1>2, <1>4, <1>8, <1>9, <2>1, <2>2 DEF Linked
<1> QED
  BY <1>7, <1>10, <1>11

\* What else changes when t leaves the delay list or the wait list.
Undelayed(s, r, t) ==
  /\ Frame(s, r)
  /\ r.state = s.state /\ r.next = s.next /\ r.delay[t] = 0
  /\ r.waitList = s.waitList \ {t}

\* Taking a member out of a list without doubles takes its only place away.
LEMMA RemoveFirstAt ==
  ASSUME NEW S, NEW q \in Seq(S), NEW t \in ToSet(q)
  PROVE  \E i \in 1..Len(q) : q[i] = t /\ RemoveFirst(q, t) = RemoveAt(q, i)
<1> DEFINE I == {j \in 1..Len(q) : q[j] = t}
<1>1. I # {} /\ I \in SUBSET Nat
  BY ToSetIs
<1>2. Min(I) \in 1..Len(q) /\ q[Min(I)] = t
  BY <1>1, MinIs
<1>3. RemoveFirst(q, t) = RemoveAt(q, Min(I))
  BY <1>1 DEF RemoveFirst, SelectInSeq
<1> QED
  BY <1>2, <1>3

\* osRtxThreadDelayRemove
LEMMA DelayRemoveGood ==
  ASSUME NEW s, NEW X \in SUBSET Thread, Good(s, X), NEW t \in Thread \ X, IsBlocked(s, t),
         NEW r, r = ThreadDelayRemove(s, t)
  PROVE  Good(r, X \cup {t}) /\ Undelayed(s, r, t)
<1> DEFINE q == s.delayList
<1>1. /\ s \in Kernel /\ q \in Seq(Thread) /\ NoDuplicates(q)
      /\ s.ready \in Seq(Thread) /\ NoDuplicates(s.ready) /\ SortedBy(s.ready, s.priority)
      /\ s.delay \in [Thread -> Nat \cup {Forever}] /\ s.waitList \in SUBSET Thread
      /\ s.state \in [Thread -> ThreadState] /\ Forever \notin Nat
  BY Fields, KernelAssumption DEF Good, Linked
<1>2. AtPlace(s, q, t) /\ s.state[t] # "Ready"
  BY DEF Good, Linked, IsBlocked, Waiting
<1>3. CASE s.delay[t] = Forever
  <2>1. r = [s EXCEPT !.delay[t] = 0, !.waitList = s.waitList \ {t}]
    BY <1>3 DEF ThreadDelayRemove
  <2>2. /\ r.state = s.state /\ r.ready = s.ready
        /\ r.priority = s.priority /\ r.delayList = q /\ r.list = s.list
        /\ r.delay = [s.delay EXCEPT ![t] = 0]
        /\ r.waitList = s.waitList \ {t} /\ r.next = s.next
    BY <1>1, <2>1 DEF Kernel
  <2>3. Undelayed(s, r, t)
    BY <1>1, <2>1, <2>2 DEF Kernel, Undelayed, Frame
  <2>4. r \in Kernel
    <3>1. s.waitList \ {t} \in SUBSET Thread /\ 0 \in Nat \cup {Forever} /\ t \in Thread
      BY <1>1
    <3>2. [s EXCEPT !.delay[t] = 0, !.waitList = s.waitList \ {t}] \in Kernel
      BY ONLY <1>1, <3>1, WithDelayWait
    <3> QED
      BY ONLY <2>1, <3>2
  <2>5. ASSUME NEW u \in Thread \ (X \cup {t}) PROVE AtPlace(r, q, u)
    <3>1. AtPlace(s, q, u) /\ u # t
      BY DEF Good, Linked
    <3> QED
      BY <1>1, <2>2, <3>1 DEF AtPlace, IsBlocked
  <2>6. ASSUME NEW u \in X PROVE Nowhere(r, q, u)
    BY <1>1, <2>2 DEF Good, Linked, Nowhere
  <2>7. Nowhere(r, q, t)
    BY <1>1, <1>2, <1>3, <2>2 DEF AtPlace, Nowhere
  <2>8. NotDue(r)
    <3>1. SUFFICES ASSUME q # << >> PROVE r.delay[Head(q)] >= 1
      BY <2>2 DEF NotDue
    <3>2. Head(q) \in ToSet(q) /\ s.delay[Head(q)] >= 1
      BY <1>1, <3>1, TailList DEF Good, NotDue
    <3>3. Head(q) # t /\ Head(q) \in Thread
      BY <1>1, <1>2, <1>3, <3>1, <3>2, TailList DEF AtPlace
    <3> QED
      BY <1>1, <2>2, <3>2, <3>3
  <2> QED
    BY <1>1, <2>2, <2>3, <2>4, <2>5, <2>6, <2>7, <2>8 DEF Good, Linked
<1>4. CASE s.delay[t] # Forever
  <2> DEFINE After(u) == \E i \in 1..Len(q)-1 : q[i] = t /\ q[i+1] = u
             e == [u \in Thread |-> IF u = t THEN 0
                                    ELSE IF After(u) THEN s.delay[u] + s.delay[t]
                                    ELSE s.delay[u]]
             z == RemoveFirst(q, t)
  <2>1. r = [s EXCEPT !.delayList = z, !.delay = e]
    BY <1>4 DEF ThreadDelayRemove
  <2>2. t \in ToSet(q) /\ t \notin s.waitList /\ s.delay[t] \in Nat
    BY <1>1, <1>2, <1>4 DEF AtPlace
  <2>3. /\ z \in Seq(Thread) /\ NoDuplicates(z) /\ ToSet(z) = ToSet(q) \ {t}
    BY <1>1, RemoveFirstList
  <2>4. \A u \in Thread : After(u) => u \in ToSet(q)
    BY <1>1, ToSetIs
  <2>5. \A u \in Thread : u \in ToSet(q) => s.delay[u] \in Nat
    BY <1>1 DEF Good, Linked, AtPlace, Nowhere
  <2>6. e \in [Thread -> Nat \cup {Forever}]
    BY <1>1, <2>2, <2>4, <2>5
  <2>7. \A u \in Thread \ {t} : /\ u \notin ToSet(q) => e[u] = s.delay[u]
                                /\ u \in ToSet(q) => e[u] \in Nat /\ e[u] >= s.delay[u]
    BY <1>1, <2>2, <2>4, <2>5
  <2>8. z # << >> => e[Head(z)] >= 1
    <3>1. SUFFICES ASSUME z # << >> PROVE e[Head(z)] >= 1
      OBVIOUS
    <3>2. PICK i \in 1..Len(q) : q[i] = t /\ z = RemoveAt(q, i)
      BY <1>1, <2>2, RemoveFirstAt
    <3>3. Len(z) = Len(q) - 1 /\ \A j \in 1..Len(q)-1 : z[j] = IF j < i THEN q[j] ELSE q[j+1]
      <4>1. /\ Len(RemoveAt(q, i)) = Len(q) - 1
            /\ \A j \in 1..Len(q)-1 : RemoveAt(q, i)[j] = IF j < i THEN q[j] ELSE q[j+1]
        BY <1>1, RemoveAtIs
      <4> HIDE DEF z, q
      <4> QED
        BY <3>2, <4>1
    <3>4. Len(q) >= 2 /\ Len(q) \in Nat /\ Head(z) = z[1] /\ q # << >> /\ Head(q) = q[1]
      BY <1>1, <2>3, <3>1, <3>3
    <3>5. s.delay[q[1]] >= 1 /\ q[1] \in Thread /\ q[2] \in Thread
      BY <1>1, <3>4 DEF Good, NotDue
    <3>6. CASE i = 1
      <4>1. Head(z) = q[2] /\ q[2] # t
        BY <1>1, <3>2, <3>3, <3>4, <3>6 DEF NoDuplicates
      <4>2. After(q[2])
        <5>1. 1 \in 1..Len(q)-1 /\ q[1] = t /\ q[1+1] = q[2]
          BY <3>2, <3>4, <3>6
        <5> QED
          BY <5>1
      <4>3. s.delay[q[2]] \in Nat /\ e[q[2]] = s.delay[q[2]] + s.delay[t]
        BY <2>4, <2>5, <3>5, <4>1, <4>2
      <4>4. s.delay[t] \in Nat /\ s.delay[t] >= 1
        BY <2>2, <3>2, <3>5, <3>6
      <4> HIDE DEF e, z, q
      <4> QED
        BY <4>1, <4>3, <4>4
    <3>7. CASE i # 1
      <4>1. Head(z) = q[1] /\ q[1] # t
        <5>1. 1 \in 1..Len(q) /\ q[i] = t /\ 1 < i /\ z[1] = q[1]
          BY <3>2, <3>3, <3>4, <3>7
        <5>2. q[1] # q[i]
          BY <1>1, <3>2, <3>7, <5>1 DEF NoDuplicates
        <5> QED
          BY <3>4, <5>1, <5>2
      <4>2. q[1] \in ToSet(q) /\ s.delay[q[1]] \in Nat
        BY <1>1, <2>5, <3>4, <3>5, ToSetIs
      <4>3. e[q[1]] \in Nat /\ e[q[1]] >= s.delay[q[1]]
        BY <2>7, <3>5, <4>1, <4>2
      <4> QED
        BY <3>5, <4>1, <4>2, <4>3
    <3> QED
      BY <3>6, <3>7
  <2> HIDE DEF e, z, After
  <2>9. /\ r.state = s.state /\ r.ready = s.ready
        /\ r.priority = s.priority /\ r.delayList = z /\ r.list = s.list
        /\ r.delay = e /\ r.waitList = s.waitList /\ r.next = s.next
    BY <1>1, <2>1 DEF Kernel
  <2>10. Frame(s, r) /\ e[t] = 0
    BY <1>1, <2>1 DEF Kernel, Frame, e
  <2>11. Undelayed(s, r, t)
    BY <2>2, <2>9, <2>10 DEF Undelayed
  <2>12. r \in Kernel
    <3>1. [s EXCEPT !.delayList = z, !.delay = e] \in Kernel
      BY ONLY <1>1, <2>3, <2>6, WithDelayList
    <3> QED
      BY ONLY <2>1, <3>1
  <2>13. ASSUME NEW u \in Thread \ (X \cup {t}) PROVE AtPlace(r, z, u)
    <3>1. AtPlace(s, q, u) /\ u # t
      BY DEF Good, Linked
    <3>2. CASE u \in ToSet(q)
      BY <1>1, <2>3, <2>7, <2>9, <3>1, <3>2 DEF AtPlace, IsBlocked, Waiting
    <3>3. CASE u \notin ToSet(q)
      <4>1. r.delay[u] = s.delay[u] /\ r.state = s.state
        BY <2>7, <2>9, <3>1, <3>3
      <4> QED
        BY <2>3, <2>9, <3>1, <3>3, <4>1 DEF AtPlace, IsBlocked
    <3> QED
      BY <3>2, <3>3
  <2>14. ASSUME NEW u \in X PROVE Nowhere(r, z, u)
    BY <2>3, <2>9 DEF Good, Linked, Nowhere
  <2>15. Nowhere(r, z, t)
    BY <1>2, <2>2, <2>3, <2>9 DEF AtPlace, Nowhere
  <2>16. NotDue(r)
    BY <2>8, <2>9 DEF NotDue
  <2> QED
    BY <1>1, <2>3, <2>9, <2>11, <2>12, <2>13, <2>14, <2>15, <2>16 DEF Good, Linked
<1> QED
  BY <1>3, <1>4

-----------------------------------------------------------------------------
(* Joining the delay list. *)

\* The running sums along a list exist (no induction theorem can be applied to
\* a recursive definition here; a least counterexample does).
LEMMA SumsExist ==
  ASSUME NEW q, NEW D, NEW n \in Nat
  PROVE  \E f : f = [i \in 0..n |-> IF i = 0 THEN 0 ELSE f[i-1] + D[q[i]]]
<1> DEFINE Sums(m) == \E f : f = [i \in 0..m |-> IF i = 0 THEN 0 ELSE f[i-1] + D[q[i]]]
           T == {m \in Nat : ~Sums(m)}
<1>1. SUFFICES ASSUME T # {} PROVE FALSE
  OBVIOUS
<1>2. Min(T) \in Nat /\ ~Sums(Min(T)) /\ \A y \in T : Min(T) <= y
  <2>1. T \in SUBSET Nat
    OBVIOUS
  <2> QED
    BY <1>1, <2>1, MinIs
<1>3. PICK m : m = Min(T)
  OBVIOUS
<1>4. CASE m = 0
  <2>1. [i \in 0..m |-> 0] = [i \in 0..m |-> IF i = 0 THEN 0 ELSE [j \in 0..m |-> 0][i-1] + D[q[i]]]
    BY <1>4
  <2>2. Sums(m)
    BY <2>1
  <2> QED
    BY <1>2, <1>3, <2>2
<1>5. CASE m # 0
  <2>1. m \in Nat /\ m - 1 \in Nat /\ m - 1 \notin T
    <3>1. m \in Nat /\ \A y \in T : m <= y
      BY <1>2, <1>3
    <3>2. m - 1 \in Nat /\ ~(m <= m - 1)
      BY <1>5, <3>1
    <3> HIDE DEF T
    <3> QED
      BY <3>1, <3>2
  <2>2. PICK f : f = [i \in 0..m-1 |-> IF i = 0 THEN 0 ELSE f[i-1] + D[q[i]]]
    BY <2>1
  <2> DEFINE g == [i \in 0..m |-> IF i = m THEN f[m-1] + D[q[m]] ELSE f[i]]
  <2>3. g = [i \in 0..m |-> IF i = 0 THEN 0 ELSE g[i-1] + D[q[i]]]
    <3>1. ASSUME NEW i \in 0..m
          PROVE  g[i] = IF i = 0 THEN 0 ELSE g[i-1] + D[q[i]]
      <4>1. CASE i = m
        BY <1>5, <2>1, <4>1
      <4>2. CASE i # m
        <5>1. i \in 0..m-1 /\ (i # 0 => i - 1 \in 0..m-1 /\ i - 1 # m /\ i - 1 \in 0..m)
          BY <2>1, <4>2
        <5>2. f[i] = IF i = 0 THEN 0 ELSE f[i-1] + D[q[i]]
          BY ONLY <2>2, <5>1
        <5> QED
          BY <4>2, <5>1, <5>2
      <4> QED
        BY <4>1, <4>2
    <3> QED
      BY <3>1
  <2> HIDE DEF g
  <2>4. Sums(m)
    BY <2>3
  <2> QED
    BY <1>2, <1>3, <2>4
<1> QED
  BY <1>4, <1>5

\* The expiry times of a delay list with its delays in Nat.
LEMMA ExpiryIs ==
  ASSUME NEW s \in Kernel,
         \A i \in 1..Len(s.delayList) : s.delay[s.delayList[i]] \in Nat
  PROVE  /\ Expiry(s)[0] = 0
         /\ \A i \in 0..Len(s.delayList) : Expiry(s)[i] \in Nat
         /\ \A i \in 1..Len(s.delayList) :
              Expiry(s)[i] = Expiry(s)[i-1] + s.delay[s.delayList[i]]
<1> DEFINE n == Len(s.delayList)
           e == Expiry(s)
           T == {i \in 0..n : e[i] \notin Nat}
<1>1. n \in Nat
  BY Fields
<1>2. e = [i \in 0..n |-> IF i = 0 THEN 0 ELSE e[i-1] + s.delay[s.delayList[i]]]
  <2>1. \E f : f = [i \in 0..n |-> IF i = 0 THEN 0 ELSE f[i-1] + s.delay[s.delayList[i]]]
    BY <1>1, SumsExist, ZenonT(40)
  <2> QED
    BY <2>1 DEF Expiry
<1> HIDE DEF e, n
<1>3. e[0] = 0 /\ \A i \in 1..n : e[i] = e[i-1] + s.delay[s.delayList[i]]
  BY <1>1, <1>2
<1>4. ASSUME T # {} PROVE FALSE
  <2>1. T \in SUBSET Nat
    BY <1>1
  <2>2. PICK m : m = Min(T)
    OBVIOUS
  <2>3. m \in 0..n /\ e[m] \notin Nat /\ \A y \in T : m <= y
    BY <1>4, <2>1, <2>2, MinIs
  <2> HIDE DEF T
  <2>4. m # 0
    BY <1>3, <2>3
  <2>5. m \in 1..n /\ m - 1 \in 0..n /\ ~(m <= m - 1)
    BY <1>1, <2>3, <2>4
  <2>6. e[m-1] \in Nat
    BY <2>3, <2>5 DEF T
  <2>7. s.delay[s.delayList[m]] \in Nat
    BY <2>5 DEF n
  <2> QED
    BY <1>3, <2>3, <2>5, <2>6, <2>7
<1> QED
  BY <1>3, <1>4 DEF e, n

\* What else changes when t joins the delay list or the wait list.
Delaying(s, r, t) ==
  /\ Frame(s, r)
  /\ r.state = s.state /\ r.next = s.next
  /\ s.waitList \in SUBSET r.waitList

\* osRtxThreadDelayInsert
LEMMA DelayInsertGood ==
  ASSUME NEW s, NEW X \in SUBSET Thread, Good(s, X), NEW t \in X, IsBlocked(s, t),
         NEW d \in (Nat \ {0}) \cup {Forever},
         NEW r, r = ThreadDelayInsert(s, t, d)
  PROVE  /\ Good(r, X \ {t}) /\ Delaying(s, r, t)
         /\ d = Forever => t \in r.waitList
<1> DEFINE q == s.delayList
<1>1. /\ s \in Kernel /\ q \in Seq(Thread) /\ NoDuplicates(q)
      /\ s.ready \in Seq(Thread) /\ NoDuplicates(s.ready) /\ SortedBy(s.ready, s.priority)
      /\ t \in Thread
      /\ s.delay \in [Thread -> Nat \cup {Forever}] /\ s.waitList \in SUBSET Thread
      /\ s.state \in [Thread -> ThreadState] /\ Forever \notin Nat
  BY Fields, KernelAssumption DEF Good, Linked
<1>2. Nowhere(s, q, t) /\ s.state[t] \notin {"Ready", "Running"}
  BY DEF Good, Linked, IsBlocked, Waiting
<1>3. CASE d = Forever
  <2>1. r = [s EXCEPT !.delay[t] = Forever, !.waitList = s.waitList \cup {t}]
    BY <1>3 DEF ThreadDelayInsert
  <2>2. /\ r.state = s.state /\ r.ready = s.ready
        /\ r.priority = s.priority /\ r.delayList = q /\ r.list = s.list
        /\ r.delay = [s.delay EXCEPT ![t] = Forever]
        /\ r.waitList = s.waitList \cup {t} /\ r.next = s.next
    BY <1>1, <2>1 DEF Kernel
  <2>3. Delaying(s, r, t)
    BY <1>1, <2>1, <2>2 DEF Kernel, Delaying, Frame
  <2>4. r \in Kernel
    <3>1. s.waitList \cup {t} \in SUBSET Thread /\ Forever \in Nat \cup {Forever}
      BY <1>1
    <3>2. [s EXCEPT !.delay[t] = Forever, !.waitList = s.waitList \cup {t}] \in Kernel
      BY ONLY <1>1, <3>1, WithDelayWait
    <3> QED
      BY ONLY <2>1, <3>2
  <2>5. ASSUME NEW u \in Thread \ (X \ {t}) PROVE AtPlace(r, q, u)
    <3>1. CASE u = t
      BY <1>1, <1>2, <2>2, <3>1 DEF AtPlace, IsBlocked, Nowhere
    <3>2. CASE u # t
      <4>1. AtPlace(s, q, u)
        BY <3>2 DEF Good, Linked
      <4> QED
        BY <1>1, <2>2, <3>2, <4>1 DEF AtPlace, IsBlocked
    <3> QED
      BY <3>1, <3>2
  <2>6. ASSUME NEW u \in X \ {t} PROVE Nowhere(r, q, u)
    BY <1>1, <2>2 DEF Good, Linked, Nowhere
  <2>7. NotDue(r)
    <3>1. SUFFICES ASSUME q # << >> PROVE r.delay[Head(q)] >= 1
      BY <2>2 DEF NotDue
    <3>2. Head(q) \in Thread /\ Head(q) \in ToSet(q) /\ s.delay[Head(q)] >= 1
      BY <1>1, <3>1, TailList DEF Good, NotDue
    <3>3. Head(q) # t
      BY <1>2, <3>2 DEF Nowhere
    <3> QED
      BY <1>1, <2>2, <3>2, <3>3
  <2> QED
    BY <1>1, <2>2, <2>3, <2>4, <2>5, <2>6, <2>7 DEF Good, Linked
<1>4. CASE d # Forever
  <2> DEFINE e     == Expiry(s)
             later == {i \in 1..Len(q) : e[i] > d}
             pos   == IF later = {} THEN Len(q) + 1 ELSE Min(later)
             own   == d - e[pos-1]
             g     == [u \in Thread |-> IF u = t THEN own
                                        ELSE IF later # {} /\ u = q[pos]
                                        THEN s.delay[u] - own
                                        ELSE s.delay[u]]
             z     == InsertAt(q, pos, t)
  <2>1. r = [s EXCEPT !.delayList = z, !.delay = g]
    BY <1>4 DEF ThreadDelayInsert
  <2>2. d \in Nat /\ d >= 1 /\ Len(q) \in Nat
    BY <1>1, <1>4
  <2>3. t \notin ToSet(q) /\ t \notin s.waitList /\ t \notin ToSet(s.ready)
    BY <1>2 DEF Nowhere
  <2>4. \A u \in Thread : u \in ToSet(q) => s.delay[u] \in Nat
    BY <1>1 DEF Good, Linked, AtPlace, Nowhere
  <2>5. \A i \in 1..Len(q) : q[i] \in Thread /\ q[i] \in ToSet(q) /\ s.delay[q[i]] \in Nat
    BY <1>1, <2>4, ToSetIs
  <2>6. /\ e[0] = 0 /\ \A i \in 0..Len(q) : e[i] \in Nat
        /\ \A i \in 1..Len(q) : e[i] = e[i-1] + s.delay[q[i]]
    BY <1>1, <2>5, ExpiryIs
  <2> HIDE DEF e
  <2>7. /\ pos \in 1..Len(q)+1
        /\ later # {} => pos \in 1..Len(q) /\ e[pos] > d
        /\ pos - 1 # 0 => pos - 1 \in 1..Len(q) /\ ~(e[pos-1] > d)
    <3>1. CASE later = {}
      BY <2>2, <3>1
    <3>2. CASE later # {}
      <4>1. later \in SUBSET Nat
        BY <2>2
      <4>2. Min(later) \in later /\ \A y \in later : Min(later) <= y
        BY <3>2, <4>1, MinIs
      <4>3. PICK m : m = Min(later)
        OBVIOUS
      <4>4. pos = m /\ m \in 1..Len(q) /\ e[m] > d
        BY <3>2, <4>2, <4>3
      <4>5. m - 1 # 0 => m - 1 \in 1..Len(q) /\ m - 1 \notin later
        BY <2>2, <4>2, <4>3, <4>4
      <4>6. m - 1 # 0 => m - 1 \in 1..Len(q) /\ ~(e[m-1] > d)
        BY <4>5
      <4> HIDE DEF pos, later, q
      <4> QED
        BY <2>2, <4>4, <4>6
    <3> QED
      BY <3>1, <3>2
  <2> HIDE DEF pos, later
  <2>8. own \in Nat /\ (pos = 1 => own >= 1)
    <3>1. pos - 1 \in 0..Len(q) /\ e[pos-1] \in Nat
      BY <2>2, <2>6, <2>7
    <3>2. e[pos-1] <= d
      BY <2>2, <2>6, <2>7, <3>1
    <3>3. pos = 1 => e[pos-1] = 0
      BY <2>6
    <3> QED
      BY <2>2, <3>1, <3>2, <3>3
  <2>9. later # {} => s.delay[q[pos]] - own \in Nat /\ s.delay[q[pos]] - own >= 1
    <3>1. SUFFICES ASSUME later # {} PROVE s.delay[q[pos]] - own \in Nat /\ s.delay[q[pos]] - own >= 1
      OBVIOUS
    <3>2. pos \in 1..Len(q) /\ e[pos] > d
      BY <2>7, <3>1
    <3>3. e[pos] = e[pos-1] + s.delay[q[pos]] /\ pos - 1 \in 0..Len(q) /\ e[pos] \in Nat
      BY <2>2, <2>6, <3>2
    <3>4. e[pos-1] \in Nat /\ s.delay[q[pos]] \in Nat
      BY <2>5, <2>6, <3>2, <3>3
    <3> QED
      BY <2>2, <3>2, <3>3, <3>4
  <2>10. /\ z \in Seq(Thread) /\ NoDuplicates(z) /\ ToSet(z) = ToSet(q) \cup {t}
         /\ Len(z) = Len(q) + 1 /\ z[1] = IF 1 < pos THEN q[1] ELSE t
    <3>1. /\ InsertAt(q, pos, t) \in Seq(Thread) /\ NoDuplicates(InsertAt(q, pos, t))
          /\ ToSet(InsertAt(q, pos, t)) = ToSet(q) \cup {t}
      BY <1>1, <2>3, <2>7, InsertAtList
    <3>2. /\ InsertAt(q, pos, t) \in Seq(Thread) /\ Len(InsertAt(q, pos, t)) = Len(q) + 1
          /\ \A j \in 1..Len(q)+1 : InsertAt(q, pos, t)[j] =
                IF j < pos THEN q[j] ELSE IF j = pos THEN t ELSE q[j-1]
      <4>1. q \in Seq(Thread) /\ pos \in 1..Len(q)+1 /\ t \in Thread
        BY <1>1, <2>7
      <4> QED
        BY <4>1, InsertAtIs, SMTT(30)
    <3>3. InsertAt(q, pos, t)[1] = IF 1 < pos THEN q[1] ELSE t
      BY <2>2, <2>7, <3>2
    <3> QED
      BY <3>1, <3>2, <3>3
  <2> HIDE DEF own
  <2>11. /\ g \in [Thread -> Nat \cup {Forever}] /\ g[t] = own
         /\ \A u \in Thread \ {t} : u \notin ToSet(q) => g[u] = s.delay[u]
         /\ \A u \in Thread \ {t} : u \in ToSet(q) => g[u] \in Nat
    BY <1>1, <2>4, <2>5, <2>7, <2>8, <2>9
  <2>12. g[Head(z)] >= 1
    <3>1. Head(z) = z[1]
      BY <2>2, <2>10
    <3>2. CASE pos = 1
      BY <1>1, <2>8, <2>10, <2>11, <3>1, <3>2
    <3>3. CASE pos # 1
      <4>1. z[1] = q[1] /\ q # << >> /\ 1 \in 1..Len(q) /\ Head(q) = q[1]
        BY <1>1, <2>2, <2>7, <2>10, <3>3
      <4>2. s.delay[q[1]] >= 1 /\ q[1] \in Thread /\ q[1] # t
        BY <2>3, <2>5, <4>1 DEF Good, NotDue
      <4>3. later # {} => q[1] # q[pos]
        BY <1>1, <2>7, <3>3, <4>1 DEF NoDuplicates
      <4>4. g[q[1]] = s.delay[q[1]]
        BY <4>2, <4>3
      <4> QED
        BY <3>1, <4>1, <4>2, <4>4
    <3> QED
      BY <3>2, <3>3
  <2> HIDE DEF g, z
  <2>13. /\ r.state = s.state /\ r.ready = s.ready
         /\ r.priority = s.priority /\ r.delayList = z /\ r.list = s.list
         /\ r.delay = g /\ r.waitList = s.waitList /\ r.next = s.next
    BY <1>1, <2>1 DEF Kernel
  <2>14. Frame(s, r)
    BY <1>1, <2>1 DEF Kernel, Frame
  <2>15. r \in Kernel
    <3>1. [s EXCEPT !.delayList = z, !.delay = g] \in Kernel
      BY ONLY <1>1, <2>10, <2>11, WithDelayList
    <3> QED
      BY ONLY <2>1, <3>1
  <2>16. ASSUME NEW u \in Thread \ (X \ {t}) PROVE AtPlace(r, z, u)
    <3>1. CASE u = t
      <4>1. r.delay[t] \in Nat /\ r.delay[t] # Forever
        BY <1>1, <2>8, <2>11, <2>13
      <4> QED
        BY <1>2, <2>3, <2>10, <2>13, <3>1, <4>1 DEF AtPlace, IsBlocked
    <3>2. CASE u # t
      <4>1. AtPlace(s, q, u)
        BY <3>2 DEF Good, Linked
      <4>2. CASE u \in ToSet(q)
        <5>1. r.delay[u] \in Nat /\ r.delay[u] # Forever
          BY <1>1, <2>11, <2>13, <3>2, <4>2
        <5> QED
          BY <1>1, <2>10, <2>13, <3>2, <4>1, <4>2, <5>1 DEF AtPlace, IsBlocked, Waiting
      <4>3. CASE u \notin ToSet(q)
        <5>1. r.delay[u] = s.delay[u]
          BY <2>11, <2>13, <3>2, <4>3
        <5> QED
          BY <2>10, <2>13, <3>2, <4>1, <4>3, <5>1 DEF AtPlace, IsBlocked
      <4> QED
        BY <4>2, <4>3
    <3> QED
      BY <3>1, <3>2
  <2>17. ASSUME NEW u \in X \ {t} PROVE Nowhere(r, z, u)
    BY <2>10, <2>13 DEF Good, Linked, Nowhere
  <2>18. NotDue(r)
    BY <2>12, <2>13 DEF NotDue
  <2>19. Delaying(s, r, t)
    BY <2>13, <2>14 DEF Delaying
  <2> QED
    BY <1>1, <1>4, <2>10, <2>13, <2>15, <2>16, <2>17, <2>18, <2>19 DEF Good, Linked
<1> QED
  BY <1>3, <1>4

-----------------------------------------------------------------------------
(* Waiting. *)

\* osRtxThreadWaitExit without dispatch.
LEMMA WaitExitGood ==
  ASSUME NEW s, NEW X \in SUBSET Thread, Good(s, X), NEW t \in Thread \ X, IsBlocked(s, t),
         NEW r, r = ThreadWaitExit(s, t)
  PROVE  /\ Good(r, X) /\ Frame(s, r)
         /\ r.state = [s.state EXCEPT ![t] = "Ready"] /\ r.next = s.next
         /\ r.waitList = s.waitList \ {t} /\ r.ready # << >>
<1> DEFINE s1 == ThreadDelayRemove(s, t)
<1>1. Good(s1, X \cup {t}) /\ Undelayed(s, s1, t)
  BY DelayRemoveGood
<1>2. r = ThreadReadyPut(s1, t)
  BY DEF ThreadWaitExit
<1> HIDE DEF s1
<1>3. /\ X \cup {t} \in SUBSET Thread /\ t \in X \cup {t} /\ (X \cup {t}) \ {t} = X
      /\ s1.delay[t] \in 0..RobinTimeout /\ Linked(s1, s1.delayList, X \cup {t})
  BY <1>1, KernelAssumption DEF Undelayed, Good
<1>4. Linked(r, s1.delayList, (X \cup {t}) \ {t}) /\ Readied(s1, r, t)
  BY ONLY <1>2, <1>3, ReadyPutGood
<1>5. Good(r, X)
  BY <1>1, <1>3, <1>4 DEF Good, Readied, NotDue
<1> QED
  BY <1>1, <1>4, <1>5 DEF Undelayed, Readied, Frame

\* A thread on its way changes its state.
Marked(s, t, x) == [s EXCEPT !.state[t] = x]

MarkedOnly(s, r, t, x) ==
  /\ Frame(s, r)
  /\ r.state = [s.state EXCEPT ![t] = x] /\ r.next = s.next
  /\ r.delay = s.delay /\ r.delayList = s.delayList /\ r.waitList = s.waitList
  /\ r.ready = s.ready

\* A state that is no place for a thread in transit keeps it in transit.
LEMMA Restated ==
  ASSUME NEW s, NEW q, NEW X \in SUBSET Thread, Linked(s, q, X), NEW t \in X,
         NEW x \in ThreadState,
         NEW r, r = Marked(s, t, x)
  PROVE  Linked(r, q, X) /\ MarkedOnly(s, r, t, x)
<1>1. s \in Kernel /\ t \in Thread /\ s.state \in [Thread -> ThreadState]
  BY Fields DEF Linked
<1>2. /\ Frame(s, r) /\ r.list = s.list
      /\ r.state = [s.state EXCEPT ![t] = x] /\ r.next = s.next
      /\ r.delay = s.delay /\ r.delayList = s.delayList /\ r.waitList = s.waitList
      /\ r.ready = s.ready
  BY <1>1 DEF Kernel, Frame, Marked
<1>3. r \in Kernel
  BY <1>1, WithState DEF Marked
<1>4. ASSUME NEW u \in Thread \ X PROVE AtPlace(r, q, u)
  <2>1. AtPlace(s, q, u) /\ u # t
    BY DEF Linked
  <2> QED
    BY <1>1, <1>2, <2>1 DEF AtPlace, IsBlocked
<1> QED
  BY <1>2, <1>3, <1>4 DEF Linked, Nowhere, Frame, MarkedOnly

\* The running thread starts to wait in state x, and the best ready one runs.
Waited(s, r, x) ==
  /\ Frame(s, r) /\ Runs(r) /\ Highest(r, {})
  /\ r.next # s.run /\ s.state[r.next] = "Ready"
  /\ r.state = [[s.state EXCEPT ![s.run] = x] EXCEPT ![r.next] = "Running"]
  /\ s.waitList \in SUBSET r.waitList

\* osRtxThreadWaitEnter
LEMMA WaitEnterGood ==
  ASSUME NEW s, Good(s, {}), Runs(s), s.run = s.next, s.ready # << >>,
         NEW x \in Waiting, NEW d \in (Nat \ {0}) \cup {Forever},
         NEW r, r = ThreadWaitEnter(s, x, d)
  PROVE  /\ Good(r, {}) /\ Waited(s, r, x)
         /\ d = Forever => s.run \in r.waitList
<1> DEFINE c  == s.run
           s1 == Marked(s, c, x)
           s2 == ThreadDelayInsert(s1, c, d)
<1>1. c \in Thread /\ s.state[c] = "Running" /\ s.state \in [Thread -> ThreadState]
  BY Fields DEF Runs, Good, Linked
<1>2. r = ThreadSwitchToReady(s2)
  BY DEF ThreadWaitEnter, Marked
<1>3. Linked(s, s.delayList, {c})
  <2>1. {} \in SUBSET Thread /\ c \in Thread \ {} /\ {} \cup {c} = {c}
    BY <1>1
  <2>2. Linked(s, s.delayList, {} \cup {c})
    BY <1>1, <2>1, Leaves DEF Good
  <2> QED
    BY <2>1, <2>2
<1>4. {c} \in SUBSET Thread /\ c \in {c} /\ x \in ThreadState /\ {c} \ {c} = {}
  BY <1>1 DEF ThreadState
<1>5. /\ Linked(s1, s.delayList, {c}) /\ Frame(s, s1)
      /\ s1.state = [s.state EXCEPT ![c] = x] /\ s1.next = s.next
      /\ s1.delay = s.delay /\ s1.delayList = s.delayList /\ s1.waitList = s.waitList
      /\ s1.ready = s.ready
  BY <1>3, <1>4, Restated DEF MarkedOnly
<1> HIDE DEF s1, s2
<1>6. Good(s1, {c}) /\ IsBlocked(s1, c)
  BY <1>1, <1>5 DEF Good, NotDue, IsBlocked
<1>7. /\ Good(s2, {c} \ {c}) /\ Delaying(s1, s2, c)
      /\ d = Forever => c \in s2.waitList
  <2>1. s2 = ThreadDelayInsert(s1, c, d)
    BY DEF s2
  <2> QED
    BY <1>4, <1>6, <2>1, DelayInsertGood
<1>8. \E t \in Thread : s2.state[t] = "Ready"
  <2>1. Head(s.ready) \in Thread /\ s.state[Head(s.ready)] = "Ready"
    <3>1. {} \in SUBSET Thread
      OBVIOUS
    <3> QED
      BY <3>1, TakeReady DEF Good, Taken
  <2>2. Head(s.ready) # c
    BY <1>1, <2>1
  <2> QED
    BY <1>1, <1>5, <1>7, <2>1, <2>2 DEF Delaying
<1>9. s2.ready # << >> /\ Linked(s2, s2.delayList, {})
  BY <1>4, <1>7, <1>8 DEF Good, Linked, AtPlace, ToSet
<1>10. /\ Linked(r, s2.delayList, {}) /\ Frame(s2, r)
       /\ r.next \in Thread \ {} /\ s2.state[r.next] = "Ready"
       /\ r.state = [s2.state EXCEPT ![r.next] = "Running"]
       /\ r.delay = s2.delay /\ r.delayList = s2.delayList /\ r.waitList = s2.waitList
       /\ Highest(r, {})
  <2>1. {} \in SUBSET Thread
    OBVIOUS
  <2> QED
    <3>1. Linked(r, s2.delayList, {}) /\ Chosen(s2, r, {})
      BY ONLY <1>2, <1>9, <2>1, SwitchToReadyGood
    <3> QED
      BY <3>1 DEF Chosen
<1>11. Good(r, {})
  BY <1>7, <1>4, <1>10 DEF Good, NotDue
<1>12. Frame(s, r) /\ s2.state = s1.state /\ s1.waitList \in SUBSET s2.waitList
  BY <1>5, <1>7, <1>10 DEF Frame, Delaying
<1>13. r.next # c /\ s.state[r.next] = "Ready"
  <2>1. x # "Ready"
    BY DEF Waiting
  <2> QED
    BY <1>1, <1>5, <1>10, <1>12, <2>1
<1>14. r.state = [[s.state EXCEPT ![c] = x] EXCEPT ![r.next] = "Running"]
  BY <1>5, <1>10, <1>12
<1>15. Runs(r)
  <2>1. x # "Running"
    BY DEF Waiting
  <2> QED
    BY <1>1, <1>10, <1>13, <1>14, <2>1 DEF Runs, c
<1> QED
  BY <1>5, <1>7, <1>10, <1>11, <1>12, <1>13, <1>14, <1>15 DEF c, Waited

-----------------------------------------------------------------------------
(* Time slices. *)

Sliced(s, t, d) == [s EXCEPT !.robin = t, !.delay[t] = d]

SlicedOnly(s, r) ==
  /\ Frame(s, r)
  /\ r.state = s.state /\ r.next = s.next /\ r.ready = s.ready
  /\ r.waitList = s.waitList /\ r.delayList = s.delayList

\* Counting down or refilling a slice disturbs no list (osRtxTick_Handler).
LEMMA SliceGood ==
  ASSUME NEW s, Good(s, {}), NEW t \in Thread, s.state[t] = "Running",
         NEW d \in 0..RobinTimeout,
         NEW r, r = Sliced(s, t, d)
  PROVE  Good(r, {}) /\ SlicedOnly(s, r)
<1>1. /\ s \in Kernel /\ s.delay \in [Thread -> Nat \cup {Forever}] /\ d \in Nat
      /\ s.delayList \in Seq(Thread) /\ NoDuplicates(s.delayList)
  BY Fields, KernelAssumption DEF Good, Linked
<1>2. /\ Frame(s, r) /\ r.list = s.list
      /\ r.state = s.state /\ r.next = s.next /\ r.ready = s.ready
      /\ r.delayList = s.delayList /\ r.waitList = s.waitList
      /\ r.delay = [s.delay EXCEPT ![t] = d]
  BY <1>1 DEF Kernel, Frame, Sliced
<1>3. r \in Kernel
  BY <1>1 DEF Kernel, Sliced
<1>4. AtPlace(s, s.delayList, t) /\ t \notin ToSet(s.delayList)
  BY DEF Good, Linked, AtPlace, IsBlocked, Waiting
<1>5. ASSUME NEW u \in Thread \ {} PROVE AtPlace(r, s.delayList, u)
  <2>1. AtPlace(s, s.delayList, u)
    BY DEF Good, Linked
  <2>2. CASE u = t
    BY <1>1, <1>2, <1>4, <2>2 DEF AtPlace, IsBlocked, Waiting
  <2>3. CASE u # t
    BY <1>1, <1>2, <2>1, <2>3 DEF AtPlace, IsBlocked
  <2> QED
    BY <2>2, <2>3
<1>6. NotDue(r)
  <2>1. SUFFICES ASSUME s.delayList # << >> PROVE r.delay[Head(s.delayList)] >= 1
    BY <1>2 DEF NotDue
  <2>2. /\ Head(s.delayList) \in Thread /\ Head(s.delayList) \in ToSet(s.delayList)
        /\ s.delay[Head(s.delayList)] >= 1
    BY <1>1, <2>1, TailList DEF Good, NotDue
  <2>3. Head(s.delayList) # t
    BY <1>4, <2>2
  <2> QED
    BY <1>1, <1>2, <2>2, <2>3
<1> QED
  BY <1>2, <1>3, <1>5, <1>6 DEF Good, Linked, Frame, SlicedOnly

\* The running thread goes behind the ready threads of its priority, and the first
\* of them runs.
Rotated(s) ==
  ThreadSwitch(ThreadReadyPut(Popped(s), s.next), Head(s.ready))

\* A running thread whose slice is over goes behind its peers.
LEMMA RotatedGood ==
  ASSUME NEW s, Good(s, {}), Runs(s), s.ready # << >>,
         s.priority[Head(s.ready)] = s.priority[s.next],
         NEW r, r = Rotated(s)
  PROVE  /\ Good(r, {}) /\ Keeps(s, r, {}) /\ Runs(r)
         /\ r.waitList = s.waitList /\ r.next = Head(s.ready)
         /\ Highest(s, {}) => Highest(r, {})
<1> DEFINE t  == s.next
           h  == Head(s.ready)
           s1 == Popped(s)
           s2 == ThreadReadyPut(s1, t)
<1>1. /\ t \in Thread /\ s.state[t] = "Running" /\ s.state \in [Thread -> ThreadState]
      /\ s.delay[t] \in 0..RobinTimeout /\ s.priority \in [Thread -> Nat]
      /\ Linked(s, s.delayList, {}) /\ {} \in SUBSET Thread
  BY Fields DEF Runs, Good, Linked, AtPlace
<1>2. /\ h \in Thread /\ s.state[h] = "Ready"
      /\ s.delay[h] \in 0..RobinTimeout
      /\ Linked(s1, s.delayList, {} \cup {h}) /\ Frame(s, s1)
      /\ s1.state = s.state /\ s1.next = s.next /\ s1.delay = s.delay
      /\ s1.delayList = s.delayList /\ s1.waitList = s.waitList
  <2>1. Linked(s1, s.delayList, {} \cup {h}) /\ Taken(s, s1, {})
    BY <1>1, TakeReady
  <2> HIDE DEF s1
  <2> QED
    BY <2>1 DEF Taken
<1>3. s2 = ThreadReadyPut(s1, t) /\ r = ThreadSwitch(s2, h)
  BY DEF Rotated
<1> HIDE DEF s1, s2
<1>4. h # t /\ s.priority[h] = s.priority[t]
  BY <1>1, <1>2
<1> HIDE DEF h, t
<1>5. /\ {h} \in SUBSET Thread /\ {} \cup {h} = {h} /\ {h, t} \in SUBSET Thread
      /\ {h} \cup {t} = {h, t} /\ {h, t} \ {t} = {h} /\ {h} \ {h} = {}
      /\ t \in {h, t} /\ h \in {h} /\ t \in Thread \ {h}
  BY <1>1, <1>2, <1>4
<1>6. Linked(s1, s.delayList, {h} \cup {t})
  <2>1. Linked(s1, s.delayList, {h}) /\ s1.state[t] = "Running"
    BY <1>1, <1>2, <1>5
  <2> QED
    BY <1>5, <2>1, Leaves
<1>7. Linked(s2, s.delayList, {h, t} \ {t}) /\ Readied(s1, s2, t)
  <2>1. s1.delay[t] \in 0..RobinTimeout /\ Linked(s1, s.delayList, {h, t})
    BY <1>1, <1>2, <1>5, <1>6
  <2> QED
    BY ONLY <1>3, <1>5, <2>1, ReadyPutGood
<1>8. /\ Linked(r, s.delayList, {h} \ {h}) /\ Frame(s2, r)
      /\ r.state = [s2.state EXCEPT ![h] = "Running"]
      /\ r.next = h /\ r.delay = s2.delay /\ r.ready = s2.ready
      /\ r.delayList = s2.delayList /\ r.waitList = s2.waitList
  <2>1. s2.delay[h] \in 0..RobinTimeout /\ Linked(s2, s.delayList, {h})
    BY <1>2, <1>5, <1>7 DEF Readied
  <2> QED
    BY ONLY <1>3, <1>5, <2>1, SwitchTo
<1>9. /\ r.state = [[s.state EXCEPT ![t] = "Ready"] EXCEPT ![h] = "Running"]
      /\ r.delay = s.delay /\ r.delayList = s.delayList /\ r.waitList = s.waitList
  BY <1>2, <1>7, <1>8 DEF Readied
<1>10. Good(r, {})
  <2>1. Linked(r, r.delayList, {})
    BY <1>5, <1>8, <1>9
  <2> QED
    BY <1>9, <2>1 DEF Good, NotDue
<1>11. Frame(s, r)
  BY <1>2, <1>7, <1>8 DEF Readied, Frame
<1>12. Keeps(s, r, {})
  <2>1. \A u \in Thread : Life(r.state[u]) = Life(s.state[u])
    BY <1>1, <1>2, <1>4, <1>9 DEF Life, QueueStates
  <2> QED
    BY <1>9, <1>11, <2>1 DEF Keeps
<1>13. Runs(r)
  BY <1>1, <1>2, <1>4, <1>8, <1>9 DEF Runs, t
<1>14. ASSUME Highest(s, {}) PROVE Highest(r, {})
  <2>1. r.priority = s.priority
    BY <1>11 DEF Frame
  <2> QED
    BY <1>1, <1>2, <1>4, <1>8, <1>9, <1>14, <2>1 DEF Highest, t
<1> QED
  BY <1>8, <1>9, <1>10, <1>12, <1>13, <1>14 DEF h

\* The round-robin part of osRtxTick_Handler.
LEMMA RoundRobinGood ==
  ASSUME NEW s, Good(s, {}), Runs(s),
         NEW r, r = RoundRobin(s)
  PROVE  /\ Good(r, {}) /\ Keeps(s, r, {}) /\ Runs(r)
         /\ r.waitList = s.waitList
         /\ Highest(s, {}) => Highest(r, {})
<1> DEFINE t  == s.next
           d0 == IF t # s.robin /\ s.delay[t] = 0 THEN RobinTimeout ELSE s.delay[t]
           d  == IF d0 = 0 THEN 0 ELSE d0 - 1
           s1 == Sliced(s, t, d)
           h  == Head(s.ready)
           s2 == Rotated(s1)
<1>1. /\ t \in Thread /\ s.state[t] = "Running" /\ s.state \in [Thread -> ThreadState]
      /\ s.delay[t] \in 0..RobinTimeout /\ s.priority \in [Thread -> Nat]
  BY Fields DEF Runs, Good, Linked, AtPlace
<1>2. d \in 0..RobinTimeout
  BY <1>1, KernelAssumption
<1> HIDE DEF d0, d
<1>3. /\ Good(s1, {}) /\ Frame(s, s1)
      /\ s1.state = s.state /\ s1.next = s.next /\ s1.ready = s.ready
      /\ s1.waitList = s.waitList
  BY <1>1, <1>2, SliceGood DEF SlicedOnly
<1>4. s1.delay[t] = d
  BY <1>1, Fields DEF Good, Linked, Kernel, Sliced
<1>5. Keeps(s, s, {}) /\ Keeps(s, s1, {})
  BY <1>3 DEF Keeps, Frame
<1>6. CASE RobinTimeout = 0
  BY <1>5, <1>6 DEF RoundRobin
<1>7. CASE RobinTimeout # 0 /\ ~(/\ d = 0 /\ s.kernel = "Running" /\ s.ready # << >>
                                 /\ s.priority[h] = s.priority[t])
  <2>1. r = s1
    BY <1>7 DEF RoundRobin, d, d0, Sliced
  <2> HIDE DEF s1
  <2> QED
    BY <1>3, <1>5, <2>1 DEF Runs, Highest, Frame
<1>8. CASE RobinTimeout # 0 /\ /\ d = 0 /\ s.kernel = "Running" /\ s.ready # << >>
                               /\ s.priority[h] = s.priority[t]
  <2>1. r = Sliced(s2, h, RobinTimeout)
    BY <1>3, <1>8 DEF RoundRobin, d, d0, Popped, Sliced, Rotated
  <2>2. s1.ready # << >> /\ s1.priority[Head(s1.ready)] = s1.priority[s1.next] /\ Runs(s1)
    BY <1>3, <1>8 DEF Frame, Runs
  <2>3. s2 = Rotated(s1)
    OBVIOUS
  <2> HIDE DEF s1, s2, h
  <2>4. /\ Good(s2, {}) /\ Keeps(s1, s2, {}) /\ Runs(s2)
        /\ s2.waitList = s1.waitList /\ s2.next = Head(s1.ready)
        /\ Highest(s1, {}) => Highest(s2, {})
    BY <1>3, <2>2, <2>3, RotatedGood
  <2>5. /\ h = s2.next /\ h \in Thread /\ s2.state[h] = "Running"
        /\ RobinTimeout \in 0..RobinTimeout
    BY <1>3, <2>4, KernelAssumption DEF Runs, h
  <2>6. Good(r, {}) /\ SlicedOnly(s2, r)
    BY <2>1, <2>4, <2>5, SliceGood
  <2>7. Keeps(s, r, {})
    BY <1>3, <2>4, <2>6 DEF SlicedOnly, Keeps, Frame
  <2>8. Runs(r) /\ r.waitList = s.waitList
    BY <1>3, <2>4, <2>6 DEF SlicedOnly, Runs
  <2>9. ASSUME Highest(s, {}) PROVE Highest(r, {})
    <3>1. Highest(s1, {})
      BY <1>3, <2>9 DEF Highest, Frame
    <3> QED
      BY <2>4, <2>6, <3>1 DEF SlicedOnly, Highest, Frame
  <2> QED
    BY <2>6, <2>7, <2>8, <2>9
<1> QED
  BY <1>6, <1>7, <1>8

-----------------------------------------------------------------------------
(* The lists of the objects. *)

\* The states of the threads in the list of o.
WaitKind(o) == IF o \in Mutex THEN {"WaitingMutex"} ELSE QueueStates \ {"WaitingMutex"}

\* Every list is in the order of priorities and holds threads that wait for such
\* an object, each of them once and in no other list.
Queues(s) ==
  /\ \A o \in Object : /\ NoDuplicates(s.list[o]) /\ SortedBy(s.list[o], s.priority)
                       /\ \A t \in ToSet(s.list[o]) : s.state[t] \in WaitKind(o)
  /\ \A o, p \in Object : \A t : t \in ToSet(s.list[o]) /\ t \in ToSet(s.list[p]) => o = p

Unqueued(s, t) == \A o \in Object : t \notin ToSet(s.list[o])

\* A thread that waits for an object is in the list of one.
Queued(s, t) == s.state[t] \in QueueStates => \E o \in Object : t \in ToSet(s.list[o])

\* The lists of the objects hold threads that wait for one.
LEMMA QueuedWait ==
  ASSUME NEW s, Queues(s), NEW t, s.state[t] \notin QueueStates
  PROVE  Unqueued(s, t)
<1>1. \A o \in Object : WaitKind(o) \in SUBSET QueueStates
  BY DEF WaitKind, QueueStates
<1> QED
  BY <1>1 DEF Queues, Unqueued

\* The lists stay right when only threads outside them change.
LEMMA QueuesAlike ==
  ASSUME NEW s \in Kernel, Queues(s), NEW r, r.list = s.list,
         \A t \in Thread : \/ Unqueued(s, t)
                           \/ r.state[t] = s.state[t] /\ r.priority[t] = s.priority[t]
  PROVE  Queues(r)
<1>1. ASSUME NEW o \in Object, NEW t \in ToSet(s.list[o])
      PROVE  r.state[t] = s.state[t] /\ r.priority[t] = s.priority[t]
  <2>1. t \in Thread
    BY Fields, ToSetIs
  <2> QED
    BY <1>1, <2>1 DEF Unqueued
<1>2. ASSUME NEW o \in Object PROVE SortedBy(r.list[o], r.priority)
  <2>1. s.list[o] \in Seq(Thread) /\ SortedBy(s.list[o], s.priority)
    BY Fields DEF Queues
  <2>2. \A i \in 1..Len(s.list[o]) : s.list[o][i] \in ToSet(s.list[o])
    BY <2>1, ToSetIs
  <2> QED
    BY <1>1, <2>1, <2>2 DEF SortedBy
<1> QED
  BY <1>1, <1>2 DEF Queues

\* The lists stay right when only threads outside them change their states.
LEMMA QueuesKept ==
  ASSUME NEW s \in Kernel, Queues(s), NEW r, r.list = s.list, r.priority = s.priority,
         \A t \in Thread : Unqueued(s, t) \/ r.state[t] = s.state[t]
  PROVE  Queues(r)
BY QueuesAlike

\* Scheduling keeps the lists of the objects.
LEMMA KeepsQueues ==
  ASSUME NEW s \in Kernel, Queues(s), NEW r, NEW X \in SUBSET Thread, Keeps(s, r, X),
         \A t \in X : Unqueued(s, t)
  PROVE  /\ Queues(r)
         /\ \A t \in Thread \ X : Queued(s, t) => Queued(r, t)
<1>1. r.list = s.list /\ r.priority = s.priority
  BY DEF Keeps, Frame
<1>2. \A x, y : Life(x) = Life(y) /\ x \in QueueStates => x = y
  BY DEF Life, QueueStates
<1>3. ASSUME NEW t \in Thread PROVE Unqueued(s, t) \/ r.state[t] = s.state[t]
  <2>1. t \in X \/ Life(r.state[t]) = Life(s.state[t])
    BY DEF Keeps
  <2> QED
    BY <1>2, <2>1, QueuedWait
<1>4. Queues(r)
  BY <1>1, <1>3, QueuesKept
<1>5. ASSUME NEW t \in Thread \ X, Queued(s, t) PROVE Queued(r, t)
  <2>1. Life(r.state[t]) = Life(s.state[t])
    BY DEF Keeps
  <2> QED
    BY <1>1, <1>2, <1>5, <2>1 DEF Queued
<1> QED
  BY <1>4, <1>5

\* A thread is taken out of the list it is in.
LEMMA UnlistedQueues ==
  ASSUME NEW s \in Kernel, Queues(s), NEW t, NEW r, Unlisted(s, r, t)
  PROVE  /\ Queues(r) /\ Unqueued(r, t)
         /\ \A o \in Object : ToSet(r.list[o]) = ToSet(s.list[o]) \ {t}
<1>1. ASSUME NEW o \in Object
      PROVE  /\ NoDuplicates(r.list[o]) /\ SortedBy(r.list[o], s.priority)
             /\ ToSet(r.list[o]) = ToSet(s.list[o]) \ {t}
  <2>1. s.list[o] \in Seq(Thread) /\ NoDuplicates(s.list[o]) /\ SortedBy(s.list[o], s.priority)
    BY Fields DEF Queues
  <2>2. r.list[o] = RemoveFirst(s.list[o], t)
    BY DEF Unlisted
  <2> QED
    BY <2>1, <2>2, RemoveFirstList
<1>2. r.state = s.state /\ r.priority = s.priority
  BY DEF Unlisted
<1>3. Queues(r)
  BY <1>1, <1>2 DEF Queues
<1> QED
  BY <1>1, <1>3 DEF Unqueued

-----------------------------------------------------------------------------
(* Changes of priorities. *)

\* osRtxThreadListSort on one list, after the priority of t has changed.
Resort(q, prio, t) ==
  IF Contains(q, t) THEN InsertBelow(RemoveFirst(q, t), prio, prio[t], t) ELSE q

\* The list holds the same threads and is in the order of the new priorities.
LEMMA ResortList ==
  ASSUME NEW q \in Seq(Thread), NoDuplicates(q), NEW old, SortedBy(q, old),
         NEW t \in Thread, NEW prio \in [Thread -> Nat],
         \A u \in Thread \ {t} : prio[u] = old[u]
  PROVE  /\ Resort(q, prio, t) \in Seq(Thread) /\ NoDuplicates(Resort(q, prio, t))
         /\ ToSet(Resort(q, prio, t)) = ToSet(q)
         /\ SortedBy(Resort(q, prio, t), prio)
         /\ t \notin ToSet(q) => Resort(q, prio, t) = q
<1>1. Contains(q, t) <=> t \in ToSet(q)
  BY ToSetIs DEF Contains
<1>2. CASE t \in ToSet(q)
  <2> DEFINE y == RemoveFirst(q, t)
  <2>1. /\ y \in Seq(Thread) /\ NoDuplicates(y) /\ ToSet(y) = ToSet(q) \ {t}
        /\ SortedBy(y, old)
    BY RemoveFirstList
  <2> DEFINE x == prio[t]
  <2>2. Resort(q, prio, t) = InsertBelow(y, prio, x, t)
    BY <1>1, <1>2 DEF Resort
  <2>3. x \in {prio[t], prio[t] + 1}
    OBVIOUS
  <2> HIDE DEF x, y
  <2>4. SortedBy(y, prio)
    <3>1. \A i \in 1..Len(y) : y[i] \in Thread /\ y[i] # t
      BY <2>1, ToSetIs
    <3>2. \A i \in 1..Len(y) : prio[y[i]] = old[y[i]]
      BY <3>1
    <3> QED
      BY <2>1, <3>2 DEF SortedBy
  <2>5. t \notin ToSet(y)
    BY <2>1
  <2>6. /\ InsertBelow(y, prio, x, t) \in Seq(Thread)
        /\ NoDuplicates(InsertBelow(y, prio, x, t))
        /\ ToSet(InsertBelow(y, prio, x, t)) = ToSet(y) \cup {t}
        /\ SortedBy(InsertBelow(y, prio, x, t), prio)
    <3>1. t \in Thread /\ prio \in [Thread -> Nat]
      OBVIOUS
    <3> QED
      BY ONLY <2>1, <2>3, <2>4, <2>5, <3>1, InsertBelowList, SMTT(20)
  <2> QED
    BY <1>2, <2>1, <2>2, <2>6
<1>3. CASE t \notin ToSet(q)
  <2>1. Resort(q, prio, t) = q
    BY <1>1, <1>3 DEF Resort
  <2>2. \A i \in 1..Len(q) : q[i] \in Thread /\ q[i] # t
    BY <1>3, ToSetIs
  <2>3. \A i \in 1..Len(q) : prio[q[i]] = old[q[i]]
    BY <2>2
  <2>4. SortedBy(q, prio)
    BY <2>3 DEF SortedBy
  <2> QED
    BY <2>1, <2>4
<1> QED
  BY <1>2, <1>3

\* From s to r only the priority of t changes, and fields no list depends on.
Reranked(s, r, t) ==
  /\ \A u \in Thread \ {t} : r.priority[u] = s.priority[u]
  /\ r.list = s.list /\ r.ready = s.ready /\ r.state = s.state /\ r.delay = s.delay
  /\ r.waitList = s.waitList /\ r.delayList = s.delayList

\* From s to r the lists are sorted again; one without t stays as it is.
Resorted(s, r, t) ==
  /\ Blocks(s, r) /\ r.priority = s.priority
  /\ r.state = s.state /\ r.next = s.next /\ r.delay = s.delay
  /\ r.delayList = s.delayList /\ r.waitList = s.waitList
  /\ ToSet(r.ready) = ToSet(s.ready)
  /\ \A o \in Object : /\ ToSet(r.list[o]) = ToSet(s.list[o])
                       /\ t \notin ToSet(s.list[o]) => r.list[o] = s.list[o]

\* osRtxThreadListSort
LEMMA ListSortGood ==
  ASSUME NEW s, NEW q, NEW X \in SUBSET Thread, Linked(s, q, X), Queues(s),
         NEW t \in Thread, NEW s1 \in Kernel, Reranked(s, s1, t),
         NEW r, r = ThreadListSort(s1, t)
  PROVE  Linked(r, q, X) /\ Queues(r) /\ Resorted(s1, r, t)
<1> DEFINE p == s1.priority
           z == Resort(s1.ready, p, t)
           L == [o \in Object |-> Resort(s1.list[o], p, t)]
<1>1. /\ s \in Kernel /\ s.ready \in Seq(Thread) /\ NoDuplicates(s.ready)
      /\ SortedBy(s.ready, s.priority) /\ s.list \in [Object -> Seq(Thread)]
      /\ p \in [Thread -> Nat]
  BY Fields DEF Linked
<1>2. /\ \A u \in Thread \ {t} : p[u] = s.priority[u]
      /\ s1.list = s.list /\ s1.ready = s.ready /\ s1.state = s.state
      /\ s1.delay = s.delay /\ s1.waitList = s.waitList /\ s1.delayList = s.delayList
  BY DEF Reranked
<1>3. r = [s1 EXCEPT !.ready = z, !.list = L]
  BY DEF ThreadListSort, ThreadListPut, Resort
<1> HIDE DEF p
<1>4. /\ z \in Seq(Thread) /\ NoDuplicates(z) /\ ToSet(z) = ToSet(s.ready) /\ SortedBy(z, p)
  BY <1>1, <1>2, ResortList
<1>5. ASSUME NEW o \in Object
      PROVE  /\ L[o] \in Seq(Thread) /\ NoDuplicates(L[o]) /\ SortedBy(L[o], p)
             /\ ToSet(L[o]) = ToSet(s.list[o])
             /\ t \notin ToSet(s.list[o]) => L[o] = s.list[o]
  <2>1. /\ s.list[o] \in Seq(Thread) /\ NoDuplicates(s.list[o])
        /\ SortedBy(s.list[o], s.priority)
    BY <1>1 DEF Queues
  <2>2. L[o] = Resort(s.list[o], p, t)
    BY <1>2
  <2> HIDE DEF L
  <2>3. t \in Thread
    OBVIOUS
  <2>4. /\ Resort(s.list[o], p, t) \in Seq(Thread) /\ NoDuplicates(Resort(s.list[o], p, t))
        /\ ToSet(Resort(s.list[o], p, t)) = ToSet(s.list[o])
        /\ SortedBy(Resort(s.list[o], p, t), p)
        /\ t \notin ToSet(s.list[o]) => Resort(s.list[o], p, t) = s.list[o]
    BY ONLY <1>1, <1>2, <2>1, <2>3, ResortList
  <2> QED
    BY ONLY <2>2, <2>4
<1>6. L \in [Object -> Seq(Thread)]
  BY <1>5
<1> HIDE DEF z, L
<1>7. r \in Kernel
  <2>1. [s1 EXCEPT !.ready = z, !.list = L] \in Kernel
    BY ONLY <1>4, <1>6, s1 \in Kernel, WithLists
  <2> QED
    BY ONLY <1>3, <2>1
<1>8. /\ r.ready = z /\ r.list = L /\ r.priority = p /\ r.state = s.state
      /\ r.delay = s.delay /\ r.waitList = s.waitList /\ r.delayList = s.delayList
      /\ r.next = s1.next
  BY <1>2, <1>3 DEF Kernel, p
<1>9. Blocks(s1, r)
  BY <1>3 DEF Kernel, Blocks
<1>10. \A u \in Thread \ X : AtPlace(r, q, u)
  BY <1>4, <1>8 DEF Linked, AtPlace, IsBlocked
<1>11. \A u \in X : Nowhere(r, q, u)
  BY <1>4, <1>8 DEF Linked, Nowhere
<1>12. Linked(r, q, X)
  BY <1>4, <1>7, <1>8, <1>10, <1>11 DEF Linked
<1>13. Queues(r)
  BY <1>5, <1>8 DEF Queues
<1>14. Resorted(s1, r, t)
  BY <1>2, <1>4, <1>5, <1>8, <1>9 DEF Resorted, p
<1> QED
  BY <1>12, <1>13, <1>14

\* The numbers of a finite sequence have a bound.
LEMMA BoundIs ==
  ASSUME NEW n \in Nat, NEW f, \A i \in 1..n : f[i] \in Nat
  PROVE  \E b \in Nat : \A i \in 1..n : f[i] <= b
<1> DEFINE Bounded(m) == \E b \in Nat : \A i \in 1..m : f[i] <= b
           T == {m \in 0..n : ~Bounded(m)}
<1> HIDE DEF Bounded
<1>1. SUFFICES ASSUME T # {} PROVE FALSE
  <2>1. n \in 0..n
    OBVIOUS
  <2> QED
    BY <2>1 DEF Bounded
<1> USE DEF Bounded
<1>2. PICK m : m = Min(T)
  OBVIOUS
<1>3. m \in 0..n /\ ~Bounded(m) /\ \A y \in T : m <= y
  <2>1. T \in SUBSET Nat
    OBVIOUS
  <2> QED
    BY <1>1, <1>2, <2>1, MinIs
<1>4. m # 0
  <2>1. Bounded(0)
    <3>1. 0 \in Nat /\ \A i \in 1..0 : f[i] <= 0
      OBVIOUS
    <3> QED
      BY <3>1
  <2> QED
    BY <1>3, <2>1
<1>5. m - 1 \in 0..n /\ m \in 1..n /\ ~(m <= m - 1)
  BY <1>3, <1>4
<1>6. Bounded(m - 1)
  BY <1>3, <1>5
<1>7. PICK b \in Nat : \A i \in 1..m-1 : f[i] <= b
  BY <1>6
<1>8. f[m] \in Nat
  BY <1>5
<1>9. \A i \in 1..m : i \in 1..m-1 \/ i = m
  BY <1>5
<1>10. \A i \in 1..m : f[i] <= b + f[m]
  <2> SUFFICES ASSUME NEW i \in 1..m PROVE f[i] <= b + f[m]
    OBVIOUS
  <2>1. i \in 1..n /\ f[i] \in Nat
    BY <1>5
  <2> QED
    BY <1>7, <1>8, <1>9, <2>1
<1>11. Bounded(m)
  BY <1>7, <1>8, <1>10
<1> QED
  BY <1>3, <1>11

\* A set of natural numbers below a bound has a greatest member.
LEMMA MaxIs ==
  ASSUME NEW T \in SUBSET Nat, T # {}, NEW b \in Nat, \A y \in T : y <= b
  PROVE  Max(T) \in T /\ \A y \in T : Max(T) >= y
<1> DEFINE U == {x \in Nat : \A y \in T : y <= x}
<1>1. U \in SUBSET Nat /\ b \in U
  OBVIOUS
<1>2. PICK m : m = Min(U)
  OBVIOUS
<1>3. m \in Nat /\ (\A y \in T : y <= m) /\ \A x \in U : m <= x
  <2>1. Min(U) \in U /\ \A x \in U : Min(U) <= x
    <3> HIDE DEF U
    <3> QED
      BY <1>1, MinIs
  <2>2. m \in U /\ \A x \in U : m <= x
    BY ONLY <1>2, <2>1
  <2> QED
    BY <2>2
<1>4. m \in T
  <2>1. SUFFICES ASSUME m \notin T PROVE FALSE
    OBVIOUS
  <2>2. \A y \in T : y \in Nat /\ y <= m /\ y # m
    BY <1>3, <2>1
  <2>3. ASSUME NEW y \in T PROVE y <= m - 1
    BY ONLY <1>3, <2>2, y \in T
  <2>4. m - 1 \in Nat
    <3>1. PICK y \in T : TRUE
      OBVIOUS
    <3>2. y \in Nat /\ y <= m /\ y # m /\ m \in Nat
      BY <1>3, <2>2
    <3> QED
      BY ONLY <3>2
  <2>5. m - 1 \in U /\ ~(m <= m - 1)
    BY <1>3, <2>3, <2>4
  <2> QED
    BY <1>3, <2>5
<1>5. \E x \in T : \A y \in T : x >= y
  BY <1>3, <1>4
<1> QED
  BY <1>5 DEF Max

\* The priority of the first waiter for m, but for w.
FirstWaiter(s, m, w) == s.priority[Head(RemoveFirst(s.list[m], w))]

\* The priority that a thread is due is its own or that of a first waiter of an
\* inheriting mutex in its list, and none of these is higher.
LEMMA InheritedIs ==
  ASSUME NEW s \in Kernel, NEW t \in Thread, NEW w
  PROVE  /\ InheritedPriority(s, t, w) \in Priority
         /\ InheritedPriority(s, t, w) >= s.base[t]
         /\ \A m \in ToSet(s.owned[t]) \cap PrioInherit :
              RemoveFirst(s.list[m], w) # << >>
                => InheritedPriority(s, t, w) >= FirstWaiter(s, m, w)
         /\ \/ InheritedPriority(s, t, w) = s.base[t]
            \/ \E m \in ToSet(s.owned[t]) \cap PrioInherit :
                 /\ RemoveFirst(s.list[m], w) # << >>
                 /\ InheritedPriority(s, t, w) = FirstWaiter(s, m, w)
<1> DEFINE own == s.owned[t]
           M   == {m \in ToSet(own) \cap PrioInherit : RemoveFirst(s.list[m], w) # << >>}
           P   == {s.base[t]} \cup {FirstWaiter(s, m, w) : m \in M}
           n   == Len(own)
           f   == [i \in 1..n |-> IF own[i] \in M THEN FirstWaiter(s, own[i], w) ELSE 0]
<1>1. /\ own \in Seq(Mutex) /\ n \in Nat /\ s.base[t] \in Priority /\ s.base[t] \in Nat
      /\ s.priority \in [Thread -> Priority] /\ s.list \in [Object -> Seq(Thread)]
      /\ Priority \in SUBSET Nat /\ PrioInherit \in SUBSET Object
  BY Fields, KernelAssumption
<1>2. InheritedPriority(s, t, w) = Max(P)
  <2>1. {s.priority[Head(q)] : q \in {RemoveFirst(s.list[m], w) :
                                         m \in ToSet(own) \cap PrioInherit} \ {<< >>}}
          = {FirstWaiter(s, m, w) : m \in M}
    BY DEF FirstWaiter
  <2> QED
    BY <2>1 DEF InheritedPriority
<1>3. \A m \in M : FirstWaiter(s, m, w) \in Priority
  <2> SUFFICES ASSUME NEW m \in M PROVE FirstWaiter(s, m, w) \in Priority
    OBVIOUS
  <2>1. RemoveFirst(s.list[m], w) \in Seq(Thread) /\ RemoveFirst(s.list[m], w) # << >>
    BY <1>1, RemoveFirstIn
  <2>2. Head(RemoveFirst(s.list[m], w)) \in Thread
    BY ONLY <2>1
  <2> QED
    BY <1>1, <2>2 DEF FirstWaiter
<1>4. P \in SUBSET Priority /\ s.base[t] \in P
  BY <1>1, <1>3
<1>5. \A i \in 1..n : f[i] \in Nat
  BY <1>1, <1>3
<1>6. \A m \in M : \E i \in 1..n : f[i] = FirstWaiter(s, m, w)
  <2> SUFFICES ASSUME NEW m \in M PROVE \E i \in 1..n : f[i] = FirstWaiter(s, m, w)
    OBVIOUS
  <2>1. PICK i \in 1..n : own[i] = m
    BY <1>1, ToSetIs
  <2>2. f[i] = FirstWaiter(s, m, w)
    BY <2>1
  <2> QED
    BY <2>2
<1> HIDE DEF f, n, own, M
<1>7. PICK b \in Nat : \A i \in 1..n : f[i] <= b
  BY <1>1, <1>5, BoundIs
<1>8. \A y \in P : y <= s.base[t] + b
  <2> SUFFICES ASSUME NEW y \in P PROVE y <= s.base[t] + b
    OBVIOUS
  <2>1. y = s.base[t] \/ \E m \in M : y = FirstWaiter(s, m, w)
    OBVIOUS
  <2>2. y = s.base[t] \/ y <= b
    BY <1>6, <1>7, <2>1
  <2>3. y \in Nat /\ s.base[t] \in Nat
    BY <1>1, <1>4
  <2> HIDE DEF P
  <2> QED
    BY <2>2, <2>3
<1>9. P \in SUBSET Nat /\ P # {} /\ s.base[t] + b \in Nat
  <2>1. s.base[t] \in Nat /\ b \in Nat
    BY <1>1
  <2>2. P \in SUBSET Nat /\ P # {}
    <3> HIDE DEF P
    <3> QED
      BY <1>1, <1>4
  <2> QED
    BY <2>1, <2>2
<1>10. Max(P) \in P /\ \A y \in P : Max(P) >= y
  BY ONLY <1>8, <1>9, MaxIs
<1>11. \A m \in M : FirstWaiter(s, m, w) \in P
  OBVIOUS
<1>12. Max(P) = s.base[t] \/ \E m \in M : Max(P) = FirstWaiter(s, m, w)
  BY <1>10
<1> HIDE DEF P
<1> QED
  BY <1>2, <1>4, <1>10, <1>11, <1>12 DEF M, own

\* Nobody is boosted who owns no inheriting mutex.
LEMMA InheritedBase ==
  ASSUME NEW s \in Kernel, NEW t \in Thread, NEW w,
         ToSet(s.owned[t]) \cap PrioInherit = {}
  PROVE  InheritedPriority(s, t, w) = s.base[t]
<1> DEFINE p == InheritedPriority(s, t, w)
<1>1. \/ p = s.base[t]
      \/ \E m \in ToSet(s.owned[t]) \cap PrioInherit :
           RemoveFirst(s.list[m], w) # << >> /\ p = FirstWaiter(s, m, w)
  BY InheritedIs
<1> QED
  BY <1>1

\* From s to r owners of inheriting mutexes may get another priority.
Restored(s, r) ==
  /\ Blocks(s, r)
  /\ r.state = s.state /\ r.next = s.next /\ r.delay = s.delay
  /\ r.delayList = s.delayList /\ r.waitList = s.waitList
  /\ ToSet(r.ready) = ToSet(s.ready)
  /\ \A o \in Object : ToSet(r.list[o]) = ToSet(s.list[o])
  /\ \A u \in Thread : \/ r.priority[u] = s.priority[u]
                       \/ ToSet(s.owned[u]) \cap PrioInherit # {}

\* The owner of the inheriting mutex m gets the priority p.
LEMMA RepriceGood ==
  ASSUME NEW s, NEW q, NEW X \in SUBSET Thread, Linked(s, q, X), Queues(s),
         NEW m \in PrioInherit, NEW t \in Thread, m \in ToSet(s.owned[t]), NEW p \in Priority,
         NEW r, r = ThreadListSort([s EXCEPT !.priority[t] = p], t)
  PROVE  Linked(r, q, X) /\ Queues(r) /\ Restored(s, r)
<1> DEFINE s1 == [s EXCEPT !.priority[t] = p]
<1>1. s \in Kernel /\ s.priority \in [Thread -> Priority]
  BY Fields DEF Linked
<1>2. s1 \in Kernel /\ Reranked(s, s1, t)
  BY <1>1 DEF Kernel, Reranked
<1>3. Blocks(s, s1) /\ s1.next = s.next
  BY <1>1 DEF Kernel, Blocks
<1> HIDE DEF s1
<1>4. r = ThreadListSort(s1, t)
  BY DEF s1
<1>5. Linked(r, q, X) /\ Queues(r) /\ Resorted(s1, r, t)
  BY <1>2, <1>4, ListSortGood
<1>6. Restored(s, r)
  BY <1>2, <1>3, <1>5 DEF Reranked, Resorted, Restored, Blocks
<1> QED
  BY <1>5, <1>6

\* A mutex that threads wait for is in the list of its owner.
Owners(s) ==
  \A m \in Mutex : s.list[m] # << >>
    => s.owner[m] \in Thread /\ m \in ToSet(s.owned[s.owner[m]])

\* Nothing is changed.
LEMMA RestoredNot ==
  ASSUME NEW s
  PROVE  Restored(s, s)
BY DEF Restored, Blocks

\* osRtxMutexOwnerRestore
LEMMA OwnerRestoreGood ==
  ASSUME NEW s, NEW q, NEW X \in SUBSET Thread, Linked(s, q, X), Queues(s),
         NEW m \in Mutex, s.owner[m] \in Thread, m \in ToSet(s.owned[s.owner[m]]), NEW w,
         NEW r, r = MutexOwnerRestore(s, m, w)
  PROVE  Linked(r, q, X) /\ Queues(r) /\ Restored(s, r)
<1> DEFINE t == s.owner[m]
           p == InheritedPriority(s, t, w)
<1>1. t \in Thread /\ s \in Kernel
  BY DEF Linked
<1>2. p \in Priority
  BY <1>1, InheritedIs
<1>3. r = IF m \in PrioInherit /\ s.priority[t] # p
          THEN ThreadListSort([s EXCEPT !.priority[t] = p], t) ELSE s
  BY DEF MutexOwnerRestore
<1> HIDE DEF p, t
<1>4. CASE m \in PrioInherit /\ s.priority[t] # p
  <2>1. r = ThreadListSort([s EXCEPT !.priority[t] = p], t)
    BY <1>3, <1>4
  <2>2. m \in PrioInherit /\ m \in ToSet(s.owned[t])
    BY <1>4 DEF t
  <2> QED
    BY <1>1, <1>2, <2>1, <2>2, RepriceGood
<1>5. CASE ~(m \in PrioInherit /\ s.priority[t] # p)
  BY <1>3, <1>5, RestoredNot
<1> QED
  BY <1>4, <1>5

-----------------------------------------------------------------------------
(* The tick. *)

\* The lists of the objects agree with the threads and with the mutexes.
Listed(s) == Queues(s) /\ Owners(s) /\ \A t \in Thread : Queued(s, t)

\* The loop of osRtxThreadDelayTick started from w0 on the threads of q.
WokenFrom(w0, q, n, f) ==
  f = [i \in 0..n |-> IF i = 0 THEN w0 ELSE ThreadTimeout(f[i-1], q[i])]

\* The loop of the tick over the delay list is a recursive function: it exists.
LEMMA WokenExists ==
  ASSUME NEW q, NEW w0, NEW n \in Nat
  PROVE  \E f : WokenFrom(w0, q, n, f)
<1> DEFINE Ex(m) == \E f : WokenFrom(w0, q, m, f)
           T == {m \in Nat : ~Ex(m)}
<1>1. SUFFICES ASSUME T # {} PROVE FALSE
  OBVIOUS
<1>2. PICK m : m = Min(T)
  OBVIOUS
<1>3. m \in Nat /\ ~Ex(m) /\ \A y \in T : m <= y
  <2>1. T \in SUBSET Nat
    OBVIOUS
  <2> QED
    BY <1>1, <1>2, <2>1, MinIs
<1>4. CASE m = 0
  <2> DEFINE g == [i \in 0..m |-> w0]
  <2>1. g = [i \in 0..m |-> IF i = 0 THEN w0 ELSE ThreadTimeout(g[i-1], q[i])]
    BY <1>4
  <2> HIDE DEF g
  <2>2. Ex(m)
    BY <2>1 DEF WokenFrom
  <2> QED
    BY <1>3, <2>2
<1>5. CASE m # 0
  <2>1. m - 1 \in Nat /\ m - 1 \notin T
    <3>1. m - 1 \in Nat /\ ~(m <= m - 1)
      BY <1>3, <1>5
    <3> HIDE DEF T
    <3> QED
      BY <1>3, <3>1
  <2>2. PICK f : WokenFrom(w0, q, m - 1, f)
    BY <2>1
  <2> DEFINE g == [i \in 0..m |-> IF i = m THEN ThreadTimeout(f[m-1], q[m]) ELSE f[i]]
  <2>3. g = [i \in 0..m |-> IF i = 0 THEN w0 ELSE ThreadTimeout(g[i-1], q[i])]
    <3>1. ASSUME NEW i \in 0..m
          PROVE  g[i] = IF i = 0 THEN w0 ELSE ThreadTimeout(g[i-1], q[i])
      <4>1. CASE i = m
        <5>1. g[i] = ThreadTimeout(f[m-1], q[m]) /\ g[i-1] = f[m-1]
          BY <1>3, <1>5, <2>1, <4>1
        <5> QED
          BY <1>5, <4>1, <5>1
      <4>2. CASE i # m
        <5>1. i \in 0..m-1 /\ (i # 0 => i - 1 \in 0..m-1 /\ i - 1 # m /\ i - 1 \in 0..m)
          BY <1>3, <2>1, <4>2
        <5>2. f[i] = IF i = 0 THEN w0 ELSE ThreadTimeout(f[i-1], q[i])
          BY ONLY <2>2, <5>1 DEF WokenFrom
        <5> QED
          BY <4>2, <5>1, <5>2
      <4> QED
        BY <4>1, <4>2
    <3> QED
      BY <3>1
  <2> HIDE DEF g
  <2>4. Ex(m)
    BY <2>3 DEF WokenFrom
  <2> QED
    BY <1>3, <2>4
<1> QED
  BY <1>4, <1>5

\* The delay list without its head.
LEMMA TailIs ==
  ASSUME NEW S, NEW q \in Seq(S), Len(q) >= 1
  PROVE  /\ q # << >> /\ Head(q) = q[1]
         /\ Tail(q) \in Seq(S) /\ Len(Tail(q)) = Len(q) - 1
         /\ \A j \in 1..Len(q)-1 : Tail(q)[j] = q[j+1]
OBVIOUS

\* The first member of a list of delayed threads is taken out.
LEMMA PopDelayed ==
  ASSUME NEW s, NEW D, Linked(s, D, {}), D # << >>
  PROVE  /\ Head(D) \in Thread /\ IsBlocked(s, Head(D))
         /\ Linked(s, Tail(D), {Head(D)})
<1>1. /\ Head(D) \in Thread /\ Head(D) \in ToSet(D) /\ D \in Seq(Thread)
      /\ Tail(D) \in Seq(Thread) /\ NoDuplicates(Tail(D)) /\ ToSet(Tail(D)) = ToSet(D) \ {Head(D)}
  BY TailList DEF Linked
<1>2. AtPlace(s, D, Head(D)) /\ IsBlocked(s, Head(D))
  BY <1>1 DEF Linked, AtPlace
<1>3. Nowhere(s, Tail(D), Head(D))
  BY <1>1, <1>2 DEF AtPlace, Nowhere, IsBlocked, Waiting
<1>4. ASSUME NEW u \in Thread \ {Head(D)} PROVE AtPlace(s, Tail(D), u)
  BY <1>1 DEF Linked, AtPlace
<1> QED
  BY <1>1, <1>2, <1>3, <1>4 DEF Linked

\* What else changes when t times out.
TimedOut(s, r, t) ==
  /\ Blocks(s, r)
  /\ r.state = [s.state EXCEPT ![t] = "Ready"]
  /\ r.next = s.next /\ r.delay = s.delay /\ r.waitList = s.waitList
  /\ \A o \in Object : ToSet(r.list[o]) = ToSet(s.list[o]) \ {t}
  /\ \A u \in Thread : \/ r.priority[u] = s.priority[u]
                       \/ ToSet(s.owned[u]) \cap PrioInherit # {}

\* A thread that waits for a mutex is in the list of the one that is looked up.
LEMMA WaitedMutex ==
  ASSUME NEW s \in Kernel, Queues(s), Owners(s), NEW t \in Thread, Queued(s, t),
         s.state[t] = "WaitingMutex",
         NEW m, m = CHOOSE x \in Mutex : Contains(s.list[x], t)
  PROVE  /\ m \in Mutex /\ t \in ToSet(s.list[m])
         /\ s.owner[m] \in Thread /\ m \in ToSet(s.owned[s.owner[m]])
<1>1. ASSUME NEW o \in Object PROVE Contains(s.list[o], t) <=> t \in ToSet(s.list[o])
  <2>1. s.list[o] \in Seq(Thread)
    BY Fields
  <2> QED
    BY <2>1, ToSetIs DEF Contains
<1>2. \E x \in Mutex : Contains(s.list[x], t)
  <2>1. PICK o \in Object : t \in ToSet(s.list[o])
    BY DEF Queued, QueueStates
  <2>2. "WaitingMutex" \in WaitKind(o)
    BY <2>1 DEF Queues
  <2>3. o \in Mutex
    BY <2>2 DEF WaitKind
  <2> QED
    BY <1>1, <2>1, <2>3
<1>3. m \in Mutex /\ t \in ToSet(s.list[m])
  BY <1>1, <1>2, KernelAssumption
<1>4. s.list[m] # << >>
  BY <1>3 DEF ToSet
<1> QED
  BY <1>3, <1>4 DEF Owners

\* One round of the loop: t, the first member of D, times out.
LEMMA TimeoutGood ==
  ASSUME NEW s, NEW D, Linked(s, D, {}), D # << >>, NEW t, t = Head(D),
         s.delay[t] = 0, Queues(s), Owners(s), Queued(s, t),
         NEW r, r = ThreadTimeout(s, t)
  PROVE  Linked(r, Tail(D), {}) /\ Queues(r) /\ TimedOut(s, r, t)
<1> DEFINE m  == CHOOSE x \in Mutex : Contains(s.list[x], t)
           k1 == IF s.state[t] = "WaitingMutex" THEN MutexOwnerRestore(s, m, t) ELSE s
           k2 == ThreadListRemove(k1, t)
<1>1. t \in Thread /\ IsBlocked(s, t) /\ s \in Kernel
  BY PopDelayed DEF Linked
<1>2. r = ThreadReadyPut(k2, t)
  BY DEF ThreadTimeout
<1>3. {t} \in SUBSET Thread /\ t \in {t} /\ {t} \ {t} = {} /\ {} \in SUBSET Thread
  BY <1>1
<1>4. Linked(k1, D, {}) /\ Queues(k1) /\ Restored(s, k1)
  <2>1. CASE s.state[t] = "WaitingMutex"
    <3>1. k1 = MutexOwnerRestore(s, m, t)
      BY <2>1
    <3>2. m = CHOOSE x \in Mutex : Contains(s.list[x], t)
      OBVIOUS
    <3> HIDE DEF k1, k2, m
    <3>3. m \in Mutex /\ s.owner[m] \in Thread /\ m \in ToSet(s.owned[s.owner[m]])
      BY <1>1, <2>1, <3>2, WaitedMutex
    <3> QED
      BY <1>3, <3>1, <3>3, OwnerRestoreGood
  <2>2. CASE s.state[t] # "WaitingMutex"
    <3>1. k1 = s
      BY <2>2
    <3> QED
      BY <3>1, RestoredNot
  <2> QED
    BY <2>1, <2>2
<1>5. k2 = ThreadListRemove(k1, t)
  OBVIOUS
<1> HIDE DEF k1, k2, m
<1>6. Linked(k1, Tail(D), {t}) /\ k1 \in Kernel
  BY <1>4, PopDelayed DEF Linked
<1>7. Linked(k2, Tail(D), {t}) /\ Unlisted(k1, k2, t)
  BY <1>1, <1>3, <1>5, <1>6, ListRemoveGood
<1>8. k2.delay[t] \in 0..RobinTimeout
  BY <1>4, <1>7, KernelAssumption DEF Restored, Unlisted
<1>9. Linked(r, Tail(D), {t} \ {t}) /\ Readied(k2, r, t)
  BY ONLY <1>2, <1>3, <1>7, <1>8, ReadyPutGood
<1>10. /\ Queues(k2) /\ Unqueued(k2, t) /\ k2 \in Kernel
       /\ \A o \in Object : ToSet(k2.list[o]) = ToSet(k1.list[o]) \ {t}
  BY <1>4, <1>6, <1>7, UnlistedQueues DEF Linked
<1>11. Queues(r)
  <2>1. r.list = k2.list /\ r.priority = k2.priority
    BY <1>9 DEF Readied, Frame
  <2>2. k2.state \in [Thread -> ThreadState] /\ r.state = [k2.state EXCEPT ![t] = "Ready"]
    BY <1>9, <1>10, Fields DEF Readied
  <2>3. \A u \in Thread : Unqueued(k2, u) \/ r.state[u] = k2.state[u]
    BY <1>10, <2>2
  <2> QED
    BY <1>10, <2>1, <2>3, QueuesKept
<1>12. Blocks(s, r)
  BY <1>4, <1>7, <1>9 DEF Restored, Unlisted, Readied, Frame, Blocks
<1>13. TimedOut(s, r, t)
  <2>1. /\ r.state = [s.state EXCEPT ![t] = "Ready"]
        /\ r.next = s.next /\ r.delay = s.delay /\ r.waitList = s.waitList
    BY <1>4, <1>7, <1>9 DEF Restored, Unlisted, Readied
  <2>2. r.list = k2.list /\ r.priority = k1.priority
    BY <1>7, <1>9 DEF Unlisted, Readied, Frame
  <2>3. \A o \in Object : ToSet(r.list[o]) = ToSet(s.list[o]) \ {t}
    BY <1>4, <1>10, <2>2 DEF Restored
  <2>4. \A u \in Thread : \/ r.priority[u] = s.priority[u]
                          \/ ToSet(s.owned[u]) \cap PrioInherit # {}
    BY <1>4, <2>2 DEF Restored
  <2> QED
    BY <1>12, <2>1, <2>3, <2>4 DEF TimedOut
<1> QED
  BY <1>3, <1>9, <1>11, <1>13

\* The state after n rounds: D is what is left of the delay list.
LoopState(w0, w, q, D) ==
  /\ Linked(w, D, {}) /\ Queues(w) /\ Blocks(w0, w)
  /\ w.next = w0.next /\ w.delay = w0.delay /\ w.waitList = w0.waitList
  /\ \A u \in Thread : \/ w.state[u] = w0.state[u]
                       \/ w.state[u] = "Ready" /\ u \in ToSet(q)
  /\ \A o \in Object : \A u \in Thread :
       u \in ToSet(w.list[o]) <=> u \in ToSet(w0.list[o]) /\ w.state[u] = w0.state[u]
  /\ \A u \in Thread : \/ w.priority[u] = w0.priority[u]
                       \/ ToSet(w0.owned[u]) \cap PrioInherit # {}

\* Lists that lose members keep their owners.
LEMMA FewerOwners ==
  ASSUME NEW s \in Kernel, NEW r \in Kernel, Owners(s), Blocks(s, r),
         \A o \in Object : \A u \in Thread : u \in ToSet(r.list[o]) => u \in ToSet(s.list[o])
  PROVE  Owners(r)
<1> SUFFICES ASSUME NEW m \in Mutex, r.list[m] # << >>
             PROVE  r.owner[m] \in Thread /\ m \in ToSet(r.owned[r.owner[m]])
  BY DEF Owners
<1>1. m \in Object /\ r.list[m] \in Seq(Thread)
  BY Fields, KernelAssumption
<1>2. Head(r.list[m]) \in Thread /\ Head(r.list[m]) \in ToSet(r.list[m])
  <2>1. 1 \in 1..Len(r.list[m]) /\ r.list[m][1] = Head(r.list[m]) /\ Head(r.list[m]) \in Thread
    BY <1>1
  <2> QED
    BY <1>1, <2>1, ToSetIs
<1>3. s.list[m] # << >>
  BY <1>1, <1>2 DEF ToSet
<1> QED
  BY <1>3 DEF Owners, Blocks

\* Waking everything that is due keeps the lists (osRtxThreadDelayTick).
LEMMA WokenGood ==
  ASSUME NEW w0, NEW q, Linked(w0, q, {}), Listed(w0), NEW n \in 0..Len(q),
         \A j \in 1..n : w0.delay[q[j]] = 0,
         NEW f, WokenFrom(w0, q, n, f)
  PROVE  LoopState(w0, f[n], q, SubSeq(q, n + 1, Len(q)))
<1> DEFINE D(i) == SubSeq(q, i + 1, Len(q))
           T == {i \in 0..n : ~LoopState(w0, f[i], q, D(i))}
<1>1. n \in Nat /\ q \in Seq(Thread) /\ Len(q) \in Nat /\ n <= Len(q)
  BY DEF Linked
<1>2. f[0] = w0 /\ \A i \in 1..n : f[i] = ThreadTimeout(f[i-1], q[i])
  BY <1>1 DEF WokenFrom
<1>3. ASSUME T # {} PROVE FALSE
  <2>1. T \in SUBSET Nat
    BY <1>1
  <2>2. PICK m : m = Min(T)
    OBVIOUS
  <2>3. m \in T /\ \A y \in T : m <= y
    BY <1>3, <2>1, <2>2, MinIs
  <2>4. m \in 0..n /\ ~LoopState(w0, f[m], q, D(m))
    BY <2>3
  <2>5. CASE m = 0
    <3>1. D(0) = q
      BY <1>1
    <3>2. LoopState(w0, w0, q, q)
      BY DEF LoopState, Blocks, Listed
    <3> QED
      BY <1>2, <2>4, <2>5, <3>1, <3>2
  <2>6. CASE m # 0
    <3>1. m \in 1..n /\ m - 1 \in 0..n /\ ~(m <= m - 1)
      BY <1>1, <2>4, <2>6
    <3>2. LoopState(w0, f[m-1], q, D(m-1))
      BY <2>3, <3>1
    <3> DEFINE w == f[m-1]
               E == D(m-1)
               t == q[m]
    <3>3. E # << >> /\ Head(E) = t /\ Tail(E) = D(m) /\ t \in Thread /\ t \in ToSet(q)
      <4>1. /\ m \in Nat /\ m >= 1 /\ m <= Len(q) /\ E = SubSeq(q, m, Len(q))
            /\ D(m) = SubSeq(q, m + 1, Len(q))
        BY <1>1, <3>1
      <4>2. t \in Thread /\ t \in ToSet(q)
        BY <1>1, <4>1, ToSetIs
      <4>3. /\ E \in Seq(Thread) /\ Len(E) = Len(q) - m + 1 /\ Len(E) >= 1
            /\ \A j \in 1..Len(E) : E[j] = q[m + j - 1]
        BY <1>1, <4>1
      <4>4. /\ D(m) \in Seq(Thread) /\ Len(D(m)) = Len(q) - m
            /\ \A j \in 1..Len(q)-m : D(m)[j] = q[m + j]
        BY <1>1, <4>1
      <4> HIDE DEF E, D
      <4>5. Head(E) = q[m] /\ E # << >>
        <5>1. 1 \in 1..Len(E) /\ m + 1 - 1 = m
          BY <1>1, <4>1, <4>3
        <5>2. E[1] = q[m]
          BY <4>3, <5>1
        <5> QED
          BY ONLY <4>3, <5>2, TailIs
      <4>6. Tail(E) = D(m)
        <5>1. /\ Tail(E) \in Seq(Thread) /\ Len(Tail(E)) = Len(q) - m
              /\ \A j \in 1..Len(q)-m : Tail(E)[j] = E[j+1]
          <6>1. Len(E) - 1 = Len(q) - m
            BY <1>1, <4>1, <4>3
          <6> QED
            BY ONLY <4>3, <6>1, TailIs
        <5>2. \A j \in 1..Len(q)-m : j + 1 \in 1..Len(E) /\ m + (j + 1) - 1 = m + j
          BY <1>1, <4>1, <4>3
        <5>3. ASSUME NEW j \in 1..Len(q)-m PROVE Tail(E)[j] = D(m)[j]
          <6>1. Tail(E)[j] = E[j+1] /\ D(m)[j] = q[m + j]
            BY <4>4, <5>1
          <6>2. E[j+1] = q[m + (j + 1) - 1]
            BY <4>3, <5>2
          <6> QED
            BY <5>2, <6>1, <6>2
        <5> QED
          BY <4>4, <5>1, <5>3
      <4> QED
        BY <4>2, <4>5, <4>6
    <3>4. w.delay[t] = 0
      BY <3>1, <3>2 DEF LoopState
    <3>5. f[m] = ThreadTimeout(w, t)
      BY <1>2, <3>1
    <3> HIDE DEF w, E, t, D
    <3>6. Linked(w, E, {}) /\ w \in Kernel /\ w0 \in Kernel
      BY <3>2 DEF LoopState, Linked, w, E
    <3>7. IsBlocked(w, t)
      BY <3>3, <3>6, PopDelayed
    <3>8. w.state[t] = w0.state[t] /\ w.state[t] # "Ready"
      <4>1. w.state[t] # "Ready"
        BY <3>7 DEF IsBlocked, Waiting
      <4> QED
        BY <3>2, <3>3, <4>1 DEF LoopState, w
    <3>9. Owners(w) /\ Queued(w, t)
      <4>1. \A o \in Object : \A u \in Thread :
              u \in ToSet(w.list[o]) <=> u \in ToSet(w0.list[o]) /\ w.state[u] = w0.state[u]
        BY <3>2 DEF LoopState, w
      <4>2. Owners(w)
        BY <3>2, <3>6, <4>1, FewerOwners DEF LoopState, Listed, w
      <4>3. Queued(w, t)
        BY <3>3, <3>8, <4>1 DEF Listed, Queued
      <4> QED
        BY <4>2, <4>3
    <3>10. Linked(f[m], Tail(E), {}) /\ Queues(f[m]) /\ TimedOut(w, f[m], t)
      <4>1. Queues(w)
        BY <3>2 DEF LoopState, w
      <4> QED
        BY <3>3, <3>4, <3>5, <3>6, <3>9, <4>1, TimeoutGood
    <3>11. /\ w.state \in [Thread -> ThreadState]
           /\ f[m].state = [w.state EXCEPT ![t] = "Ready"]
      BY <3>6, <3>10, Fields DEF TimedOut
    <3>12. \A u \in Thread : \/ f[m].state[u] = w0.state[u]
                             \/ f[m].state[u] = "Ready" /\ u \in ToSet(q)
      <4>1. \A u \in Thread : \/ w.state[u] = w0.state[u]
                              \/ w.state[u] = "Ready" /\ u \in ToSet(q)
        BY <3>2 DEF LoopState, w
      <4> QED
        BY <3>3, <3>11, <4>1
    <3>13. ASSUME NEW o \in Object, NEW u \in Thread
           PROVE  u \in ToSet(f[m].list[o])
                    <=> u \in ToSet(w0.list[o]) /\ f[m].state[u] = w0.state[u]
      <4>1. u \in ToSet(w.list[o]) <=> u \in ToSet(w0.list[o]) /\ w.state[u] = w0.state[u]
        BY <3>2 DEF LoopState, w
      <4>2. u \in ToSet(f[m].list[o]) <=> u \in ToSet(w.list[o]) /\ u # t
        BY <3>10 DEF TimedOut
      <4> QED
        BY <3>3, <3>8, <3>11, <4>1, <4>2
    <3>14. \A u \in Thread : \/ f[m].priority[u] = w0.priority[u]
                             \/ ToSet(w0.owned[u]) \cap PrioInherit # {}
      <4>1. Blocks(w0, w) /\ \A u \in Thread : \/ w.priority[u] = w0.priority[u]
                                             \/ ToSet(w0.owned[u]) \cap PrioInherit # {}
        BY <3>2 DEF LoopState, w
      <4> QED
        BY <3>10, <4>1 DEF TimedOut, Blocks
    <3>15. /\ Blocks(w0, f[m]) /\ f[m].next = w0.next
           /\ f[m].delay = w0.delay /\ f[m].waitList = w0.waitList
      <4>1. /\ Blocks(w0, w) /\ w.next = w0.next
            /\ w.delay = w0.delay /\ w.waitList = w0.waitList
        BY <3>2 DEF LoopState, w
      <4> QED
        BY <3>10, <4>1 DEF TimedOut, Blocks
    <3>16. LoopState(w0, f[m], q, D(m))
      BY <3>3, <3>10, <3>12, <3>13, <3>14, <3>15 DEF LoopState
    <3> QED
      BY <2>4, <3>16 DEF D
  <2> QED
    BY <2>5, <2>6
<1> QED
  BY <1>1, <1>3

\* Some threads time out.
TickedOnly(s, r) ==
  /\ Blocks(s, r) /\ r.next = s.next /\ r.waitList = s.waitList
  /\ \A u \in Thread : \/ r.state[u] = s.state[u]
                       \/ r.state[u] = "Ready" /\ IsBlocked(s, u) /\ u \notin s.waitList
  /\ \A o \in Object : \A u \in Thread :
       u \in ToSet(r.list[o]) <=> u \in ToSet(s.list[o]) /\ r.state[u] = s.state[u]
  /\ \A u \in Thread : \/ r.priority[u] = s.priority[u]
                       \/ ToSet(s.owned[u]) \cap PrioInherit # {}

\* The lists of the objects agree with the threads after the tick as before.
LEMMA TickedListed ==
  ASSUME NEW s \in Kernel, Listed(s), NEW r \in Kernel, Queues(r), TickedOnly(s, r)
  PROVE  Listed(r)
<1>1. Owners(r)
  BY FewerOwners DEF Listed, TickedOnly
<1>2. ASSUME NEW t \in Thread PROVE Queued(r, t)
  <2>1. SUFFICES ASSUME r.state[t] \in QueueStates
                 PROVE  \E o \in Object : t \in ToSet(r.list[o])
    BY DEF Queued
  <2>2. r.state[t] = s.state[t]
    BY <2>1 DEF TickedOnly, QueueStates
  <2> QED
    BY <2>1, <2>2 DEF Listed, Queued, TickedOnly
<1> QED
  BY <1>1, <1>2 DEF Listed

\* The head of the delay list comes n ticks nearer, and those whose delay is used
\* up by then are gone from its front.
Advanced(s, r, n) ==
  /\ r.delay = [s.delay EXCEPT ![Head(s.delayList)] = @ - n]
  /\ \E m \in 0..Len(s.delayList) :
       /\ r.delayList = SubSeq(s.delayList, m + 1, Len(s.delayList))
       /\ \A j \in 1..m : r.delay[s.delayList[j]] = 0
       /\ m # Len(s.delayList) => r.delay[s.delayList[m+1]] # 0

\* osRtxThreadDelayTick
LEMMA DelayTickGood ==
  ASSUME NEW s, Good(s, {}), Listed(s),
         NEW r, r = ThreadDelayTick(s)
  PROVE  /\ Good(r, {}) /\ Listed(r) /\ TickedOnly(s, r)
         /\ IF s.delayList = << >> THEN r = s ELSE Advanced(s, r, 1)
<1>1. CASE s.delayList = << >>
  BY <1>1 DEF ThreadDelayTick, TickedOnly, Blocks
<1>2. CASE s.delayList # << >>
  <2> DEFINE q    == s.delayList
             h    == Head(q)
             w0   == [s EXCEPT !.delay[h] = @ - 1]
             I    == {i \in 1..Len(q) : w0.delay[q[i]] # 0}
             left == IF I # {} THEN Min(I) ELSE 0
             n    == IF left = 0 THEN Len(q) ELSE left - 1
             f    == CHOOSE g : WokenFrom(w0, q, n, g)
             D    == SubSeq(q, n + 1, Len(q))
  <2>1. /\ s \in Kernel /\ q \in Seq(Thread) /\ NoDuplicates(q)
        /\ s.delay \in [Thread -> Nat \cup {Forever}] /\ Forever \notin Nat
        /\ s.state \in [Thread -> ThreadState]
    BY Fields, KernelAssumption DEF Good, Linked
  <2>2. h \in Thread /\ h \in ToSet(q) /\ s.delay[h] \in Nat /\ s.delay[h] >= 1
    <3>1. h \in Thread /\ h \in ToSet(q) /\ s.delay[h] >= 1
      BY <1>2, <2>1, TailList DEF Good, NotDue
    <3>2. AtPlace(s, q, h)
      BY <3>1 DEF Good, Linked
    <3> QED
      BY <2>1, <3>1, <3>2 DEF AtPlace
  <2>3. r = [f[n] EXCEPT !.delayList = D]
    BY <1>2 DEF ThreadDelayTick, SelectInSeq, WokenFrom
  <2>4. /\ Frame(s, w0) /\ w0.list = s.list /\ w0.ready = s.ready
        /\ w0.state = s.state /\ w0.next = s.next
        /\ w0.delayList = q /\ w0.waitList = s.waitList
        /\ w0.delay = [s.delay EXCEPT ![h] = s.delay[h] - 1]
    BY <2>1, <2>2 DEF Kernel, Frame
  <2>5. w0 \in Kernel
    <3>1. s.delay[h] - 1 \in Nat \cup {Forever}
      BY <2>2
    <3> QED
      BY <2>1, <2>2, <3>1 DEF Kernel
  <2> HIDE DEF w0
  <2>6. Linked(w0, q, {})
    <3>1. ASSUME NEW u \in Thread \ {} PROVE AtPlace(w0, q, u)
      <4>1. AtPlace(s, q, u)
        BY DEF Good, Linked
      <4>2. CASE u = h
        <5>1. w0.delay[u] \in Nat /\ w0.delay[u] # Forever
          BY <2>1, <2>2, <2>4, <4>2
        <5> QED
          BY <2>1, <2>2, <2>4, <4>1, <4>2, <5>1 DEF AtPlace, IsBlocked, Waiting
      <4>3. CASE u # h
        BY <2>1, <2>4, <4>1, <4>3 DEF AtPlace, IsBlocked
      <4> QED
        BY <4>2, <4>3
    <3> QED
      BY <2>4, <2>5, <3>1 DEF Good, Linked, Frame
  <2>7. Listed(w0)
    <3>1. Queues(w0)
      BY <2>1, <2>4, QueuesKept DEF Listed, Frame
    <3> QED
      BY <2>4, <3>1 DEF Listed, Owners, Queued, Frame
  <2>8. /\ n \in 0..Len(q) /\ Len(q) \in Nat
        /\ \A j \in 1..n : w0.delay[q[j]] = 0
        /\ n # Len(q) => n + 1 \in 1..Len(q) /\ w0.delay[q[n+1]] # 0
    <3>1. Len(q) \in Nat /\ I \in SUBSET Nat
      BY <2>1
    <3>2. CASE I = {}
      <4>1. n = Len(q)
        BY <3>2
      <4>2. \A j \in 1..Len(q) : w0.delay[q[j]] = 0
        BY <3>2
      <4> HIDE DEF n, I, left
      <4> QED
        BY <3>1, <4>1, <4>2
    <3>3. CASE I # {}
      <4>1. PICK m : m = Min(I)
        OBVIOUS
      <4>2. m \in I /\ \A y \in I : m <= y
        BY <3>1, <3>3, <4>1, MinIs
      <4>3. m \in 1..Len(q) /\ w0.delay[q[m]] # 0
        BY <4>2
      <4>4. n = m - 1
        <5>1. m # 0 /\ m \in Nat
          BY <4>3
        <5> HIDE DEF I
        <5>2. left = m
          BY <3>3, <4>1
        <5> HIDE DEF left
        <5> QED
          BY <5>1, <5>2
      <4>5. \A j \in 1..m-1 : j \in 1..Len(q) /\ ~(m <= j)
        BY <3>1, <4>3
      <4>6. \A j \in 1..m-1 : w0.delay[q[j]] = 0
        BY <4>2, <4>5
      <4> HIDE DEF n, I, left
      <4> QED
        BY <3>1, <4>3, <4>4, <4>6
    <3> QED
      BY <3>2, <3>3
  <2> HIDE DEF n, I, left
  <2>9. WokenFrom(w0, q, n, f)
    <3>1. n \in Nat
      BY <2>8
    <3>2. \E g : WokenFrom(w0, q, n, g)
      BY <3>1, WokenExists
    <3> QED
      BY <3>2
  <2> HIDE DEF f
  <2>10. LoopState(w0, f[n], q, D)
    BY <2>6, <2>7, <2>8, <2>9, WokenGood
  <2>11. /\ Len(D) = Len(q) - n
         /\ D # << >> => n # Len(q) /\ Head(D) = q[n+1]
    BY <2>1, <2>8
  <2> HIDE DEF D
  <2> DEFINE w == f[n]
  <2>12. Linked(w, D, {}) /\ w \in Kernel /\ D \in Seq(Thread)
    BY <2>10 DEF LoopState, Linked
  <2>13. /\ Frame(w, r) /\ r.list = w.list /\ r.ready = w.ready
         /\ r.state = w.state /\ r.next = w.next
         /\ r.delayList = D /\ r.waitList = w.waitList /\ r.delay = w.delay
    BY <2>3, <2>12 DEF Kernel, Frame
  <2>14. r \in Kernel
    BY <2>3, <2>12 DEF Kernel
  <2> HIDE DEF w
  <2>15. Linked(r, D, {})
    BY <2>12, <2>13, <2>14 DEF Linked, AtPlace, IsBlocked, Frame
  <2>16. NotDue(r)
    <3>1. SUFFICES ASSUME D # << >> PROVE r.delay[Head(D)] >= 1
      BY <2>13 DEF NotDue
    <3>2. Head(D) = q[n+1] /\ w0.delay[q[n+1]] # 0 /\ Head(D) \in Thread
      BY <2>8, <2>11, <2>12, <3>1
    <3>3. r.delay[Head(D)] = w0.delay[Head(D)]
      BY <2>10, <2>13 DEF LoopState, w
    <3>4. w0.delay[Head(D)] \in Nat
      <4>1. IsBlocked(w, Head(D)) /\ AtPlace(w, D, Head(D)) /\ Head(D) \in ToSet(D)
        BY <2>12, <3>1, TailList DEF Linked, AtPlace
      <4>2. r.delay[Head(D)] # Forever
        BY <2>13, <4>1 DEF AtPlace
      <4> QED
        BY <2>6, <3>2, <3>3, <4>2, Fields DEF Linked
    <3> QED
      BY <3>2, <3>3, <3>4
  <2>17. TickedOnly(s, r)
    <3>1. Blocks(s, r) /\ r.next = s.next /\ r.waitList = s.waitList
      BY <2>4, <2>10, <2>13 DEF LoopState, Frame, Blocks, w
    <3>2. \A u \in Thread : u \in ToSet(q) => IsBlocked(s, u) /\ u \notin s.waitList
      BY DEF Good, Linked, AtPlace
    <3>3. \A u \in Thread : \/ r.state[u] = s.state[u]
                            \/ r.state[u] = "Ready" /\ u \in ToSet(q)
      BY <2>4, <2>10, <2>13 DEF LoopState, w
    <3>4. \A o \in Object : \A u \in Thread :
            u \in ToSet(r.list[o]) <=> u \in ToSet(s.list[o]) /\ r.state[u] = s.state[u]
      BY <2>4, <2>10, <2>13 DEF LoopState, Frame, w
    <3>5. \A u \in Thread : \/ r.priority[u] = s.priority[u]
                            \/ ToSet(s.owned[u]) \cap PrioInherit # {}
      BY <2>4, <2>10, <2>13 DEF LoopState, Frame, w
    <3> QED
      BY <3>1, <3>2, <3>3, <3>4, <3>5 DEF TickedOnly
  <2>18. Advanced(s, r, 1)
    <3>1. r.delay = w0.delay
      BY <2>10, <2>13 DEF LoopState, w
    <3>2. /\ r.delay = [s.delay EXCEPT ![h] = s.delay[h] - 1]
          /\ n \in 0..Len(q) /\ r.delayList = SubSeq(q, n + 1, Len(q))
          /\ \A j \in 1..n : r.delay[q[j]] = 0
          /\ n # Len(q) => r.delay[q[n+1]] # 0
      BY <2>4, <2>8, <2>13, <3>1 DEF D
    <3> QED
      BY <3>2 DEF Advanced
  <2>19. Queues(r)
    <3>1. Queues(w)
      BY <2>10 DEF LoopState, w
    <3> QED
      BY <2>12, <2>13, <3>1, QueuesKept DEF Frame
  <2>20. Listed(r)
    BY <2>1, <2>14, <2>17, <2>19, TickedListed
  <2> QED
    BY <1>2, <2>13, <2>15, <2>16, <2>17, <2>18, <2>20 DEF Good
<1> QED
  BY <1>1, <1>2

-----------------------------------------------------------------------------
(* Changes of control blocks. *)

\* Whether the lists are right depends on these fields only.
SameLinks(s, r) ==
  /\ r.list = s.list /\ r.ready = s.ready /\ r.priority = s.priority
  /\ r.state = s.state /\ r.delay = s.delay /\ r.waitList = s.waitList
  /\ r.delayList = s.delayList

\* The lists of the objects apart.
SamePlaces(s, r) ==
  /\ r.ready = s.ready /\ r.priority = s.priority
  /\ r.state = s.state /\ r.delay = s.delay /\ r.waitList = s.waitList
  /\ r.delayList = s.delayList

\* The threads are linked as before when the lists of objects change.
LEMMA PlacesKept ==
  ASSUME NEW s, NEW X \in SUBSET Thread, Good(s, X),
         NEW r \in Kernel, SamePlaces(s, r)
  PROVE  Good(r, X)
<1>1. \A t : AtPlace(s, s.delayList, t) <=> AtPlace(r, r.delayList, t)
  BY DEF SamePlaces, AtPlace, IsBlocked
<1>2. \A t : Nowhere(s, s.delayList, t) <=> Nowhere(r, r.delayList, t)
  BY DEF SamePlaces, Nowhere
<1> QED
  BY <1>1, <1>2 DEF Good, NotDue, Linked, SamePlaces

\* A record that differs in no field of the lists is linked as before.
LEMMA LinksKept ==
  ASSUME NEW s, NEW X \in SUBSET Thread, Good(s, X),
         NEW r \in Kernel, SameLinks(s, r)
  PROVE  Good(r, X)
BY PlacesKept DEF SameLinks, SamePlaces

\* A thread on its way that has ended is where it belongs.
LEMMA Arrives ==
  ASSUME NEW s, NEW X \in SUBSET Thread, Good(s, X), NEW t \in X,
         s.state[t] \in {"Inactive", "Terminated"}
  PROVE  Good(s, X \ {t})
<1>1. AtPlace(s, s.delayList, t)
  BY DEF Good, Linked, Nowhere, AtPlace, IsBlocked, Waiting
<1> QED
  BY <1>1 DEF Good, Linked

\* A thread that owns no mutex releases none.
LEMMA NothingToRelease ==
  ASSUME NEW s, NEW t, s.owned[t] = << >>
  PROVE  MutexOwnerRelease(s, t) = s
<1> DEFINE Free(x, m) ==
             IF m \notin Robust THEN x
             ELSE IF x.list[m] = << >> THEN [x EXCEPT !.lock[m] = 0]
             ELSE MutexHandOver([x EXCEPT !.lock[m] = 0], m)
           Done(f) == f = [i \in 0..Len(s.owned[t]) |->
                             IF i = 0 THEN s ELSE Free(f[i-1], s.owned[t][i])]
           done == CHOOSE f : Done(f)
<1>1. MutexOwnerRelease(s, t) = done[Len(s.owned[t])]
  BY DEF MutexOwnerRelease
<1>2. Len(s.owned[t]) = 0
  OBVIOUS
<1> HIDE DEF Free
<1>3. Done([i \in 0..0 |-> s])
  BY <1>2
<1>4. Done(done)
  BY <1>3
<1> HIDE DEF done
<1>5. done[0] = s
  BY <1>2, <1>4
<1> QED
  BY <1>1, <1>2, <1>5

\* The priority of t becomes p and the list it is in is sorted again.
Reprioritized(s, t, p) ==
  ThreadListSort([s EXCEPT !.priority[t] = p, !.base[t] = p], t)

ReprioritizedOnly(s, r, t, p) ==
  /\ r.joinable = s.joinable /\ r.joiner = s.joiner /\ r.target = s.target
  /\ r.owned = s.owned /\ r.run = s.run /\ r.kernel = s.kernel
  /\ r.mutex = s.mutex /\ r.owner = s.owner /\ r.lock = s.lock
  /\ r.priority = [s.priority EXCEPT ![t] = p] /\ r.base = [s.base EXCEPT ![t] = p]
  /\ r.state = s.state /\ r.next = s.next /\ r.waitList = s.waitList
  /\ \A o \in Object : ToSet(r.list[o]) = ToSet(s.list[o])

\* A thread whose priority is changed moves in the list it is in
\* (osRtxThreadListSort).
LEMMA ReprioritizedGood ==
  ASSUME NEW s, Good(s, {}), Queues(s), NEW t \in Thread, NEW p \in Priority,
         NEW r, r = Reprioritized(s, t, p)
  PROVE  Good(r, {}) /\ Queues(r) /\ ReprioritizedOnly(s, r, t, p)
<1> DEFINE s1 == [s EXCEPT !.priority[t] = p, !.base[t] = p]
<1>1. s \in Kernel /\ s.priority \in [Thread -> Priority] /\ s.base \in [Thread -> Priority]
  BY Fields DEF Good, Linked
<1>2. s1 \in Kernel /\ Reranked(s, s1, t)
  BY <1>1 DEF Kernel, Reranked
<1>3. /\ s1.joinable = s.joinable /\ s1.joiner = s.joiner /\ s1.target = s.target
      /\ s1.owned = s.owned /\ s1.run = s.run /\ s1.kernel = s.kernel
      /\ s1.mutex = s.mutex /\ s1.owner = s.owner /\ s1.lock = s.lock
      /\ s1.priority = [s.priority EXCEPT ![t] = p] /\ s1.base = [s.base EXCEPT ![t] = p]
      /\ s1.next = s.next
  BY <1>1 DEF Kernel
<1>4. r = ThreadListSort(s1, t)
  BY DEF Reprioritized
<1> HIDE DEF s1
<1>5. Linked(s, s.delayList, {}) /\ NotDue(s) /\ {} \in SUBSET Thread
  BY DEF Good
<1>6. Linked(r, s.delayList, {}) /\ Queues(r) /\ Resorted(s1, r, t)
  BY <1>2, <1>4, <1>5, ListSortGood
<1>7. r.delayList = s.delayList /\ r.delay = s.delay
  BY <1>2, <1>6 DEF Reranked, Resorted
<1>8. Good(r, {})
  BY <1>5, <1>6, <1>7 DEF Good, NotDue
<1>9. ReprioritizedOnly(s, r, t, p)
  BY <1>2, <1>3, <1>6 DEF Reranked, Resorted, Blocks, ReprioritizedOnly
<1> QED
  BY <1>6, <1>8, <1>9

-----------------------------------------------------------------------------
(* Handing a mutex over. *)

LEMMA WithList ==
  ASSUME NEW s \in Kernel, NEW o \in Object, NEW q \in Seq(Thread)
  PROVE  [s EXCEPT !.list[o] = q] \in Kernel
BY DEF Kernel

LEMMA WithOwner ==
  ASSUME NEW s \in Kernel, NEW m \in Mutex, NEW t \in Thread, NEW n \in Nat,
         NEW q \in Seq(Mutex)
  PROVE  [s EXCEPT !.owner[m] = t, !.lock[m] = n, !.owned[t] = q] \in Kernel
<1>1. /\ [s.owner EXCEPT ![m] = t] \in [Mutex -> Thread \cup {NoThread}]
      /\ [s.lock EXCEPT ![m] = n] \in [Mutex -> Nat]
      /\ [s.owned EXCEPT ![t] = q] \in [Thread -> Seq(Mutex)]
  BY DEF Kernel
<1> QED
  BY <1>1 DEF Kernel

\* t takes the mutex m.
TakenOnly(s, r, m, t) ==
  /\ r.joinable = s.joinable /\ r.joiner = s.joiner /\ r.target = s.target
  /\ r.run = s.run /\ r.kernel = s.kernel /\ r.base = s.base /\ r.mutex = s.mutex
  /\ r.next = s.next /\ r.list = s.list /\ SamePlaces(s, r)
  /\ r.owner = [s.owner EXCEPT ![m] = t] /\ r.lock = [s.lock EXCEPT ![m] = 1]
  /\ r.owned = [s.owned EXCEPT ![t] = << m >> \o s.owned[t]]

\* A thread that takes a mutex stays where it is.
LEMMA TakeGood ==
  ASSUME NEW s, NEW X \in SUBSET Thread, Good(s, X), NEW m \in Mutex, NEW t \in Thread,
         NEW r, r = MutexTake(s, m, t)
  PROVE  Good(r, X) /\ TakenOnly(s, r, m, t)
<1>1. s \in Kernel /\ s.owned \in [Thread -> Seq(Mutex)]
  BY Fields DEF Good, Linked
<1>2. << m >> \o s.owned[t] \in Seq(Mutex) /\ 1 \in Nat
  BY <1>1
<1>3. r = [s EXCEPT !.owner[m] = t, !.lock[m] = 1, !.owned[t] = << m >> \o s.owned[t]]
  BY <1>1 DEF MutexTake, Kernel
<1>4. r \in Kernel
  <2> DEFINE q == << m >> \o s.owned[t]
  <2>1. r = [s EXCEPT !.owner[m] = t, !.lock[m] = 1, !.owned[t] = q] /\ q \in Seq(Mutex)
    BY <1>2, <1>3
  <2> HIDE DEF q
  <2>2. m \in Mutex /\ t \in Thread
    OBVIOUS
  <2>3. [s EXCEPT !.owner[m] = t, !.lock[m] = 1, !.owned[t] = q] \in Kernel
    BY ONLY <1>1, <1>2, <2>1, <2>2, WithOwner
  <2> QED
    BY <2>1, <2>3
<1>5. TakenOnly(s, r, m, t)
  BY <1>1, <1>3 DEF Kernel, TakenOnly, SamePlaces
<1> QED
  BY <1>4, <1>5, PlacesKept DEF TakenOnly

\* The first waiter of m is ready and owns it.
HandedOver(s, r, m, w) ==
  /\ w \in Thread /\ w \in ToSet(s.list[m]) /\ s.state[w] = "WaitingMutex"
  /\ r.joinable = s.joinable /\ r.joiner = s.joiner /\ r.target = s.target
  /\ r.run = s.run /\ r.kernel = s.kernel /\ r.base = s.base /\ r.mutex = s.mutex
  /\ r.next = s.next /\ r.priority = s.priority
  /\ r.state = [s.state EXCEPT ![w] = "Ready"]
  /\ r.waitList = s.waitList \ {w} /\ r.ready # << >>
  /\ r.list = [s.list EXCEPT ![m] = Tail(s.list[m])]
  /\ ToSet(r.list[m]) = ToSet(s.list[m]) \ {w}
  /\ r.owner = [s.owner EXCEPT ![m] = w] /\ r.lock = [s.lock EXCEPT ![m] = 1]
  /\ r.owned = [s.owned EXCEPT ![w] = << m >> \o s.owned[w]]

\* w is in the list of o, and the others are left there.
FirstOf(s, r, o, w) ==
  /\ w \in Thread /\ w \in ToSet(s.list[o]) /\ s.state[w] \in WaitKind(o)
  /\ ToSet(r.list[o]) = ToSet(s.list[o]) \ {w}

\* The lists when one of them loses its first member w, which stops waiting.
LEMMA HeadQueues ==
  ASSUME NEW s \in Kernel, Queues(s), NEW o \in Object, s.list[o] # << >>,
         NEW w, w = Head(s.list[o]),
         NEW r, r.list = [s.list EXCEPT ![o] = Tail(s.list[o])], r.priority = s.priority,
         \A t \in Thread \ {w} : r.state[t] = s.state[t]
  PROVE  Queues(r) /\ FirstOf(s, r, o, w)
<1>1. s.list \in [Object -> Seq(Thread)]
  BY Fields
<1>2. /\ s.list[o] \in Seq(Thread) /\ NoDuplicates(s.list[o])
      /\ SortedBy(s.list[o], s.priority)
      /\ \A t \in ToSet(s.list[o]) : s.state[t] \in WaitKind(o)
      /\ \A x, y \in Object : \A t : t \in ToSet(s.list[x]) /\ t \in ToSet(s.list[y]) => x = y
  BY <1>1 DEF Queues
<1>3. /\ w \in Thread /\ w \in ToSet(s.list[o]) /\ NoDuplicates(Tail(s.list[o]))
      /\ ToSet(Tail(s.list[o])) = ToSet(s.list[o]) \ {w}
      /\ SortedBy(Tail(s.list[o]), s.priority)
  BY <1>2, TailList
<1>4. ASSUME NEW p \in Object
      PROVE  /\ NoDuplicates(r.list[p]) /\ SortedBy(r.list[p], r.priority)
             /\ ToSet(r.list[p]) = ToSet(s.list[p]) \ {w}
             /\ ToSet(s.list[p]) \in SUBSET Thread
  <2>1. CASE p = o
    BY <1>1, <1>2, <1>3, <2>1, ToSetIs
  <2>2. CASE p # o
    <3>1. r.list[p] = s.list[p] /\ w \notin ToSet(s.list[p])
      BY <1>1, <1>2, <1>3, <2>2
    <3>2. s.list[p] \in Seq(Thread)
      BY <1>1
    <3> QED
      BY <3>1, <3>2, ToSetIs DEF Queues
  <2> QED
    BY <2>1, <2>2
<1>5. ASSUME NEW p \in Object, NEW t \in ToSet(r.list[p]) PROVE r.state[t] \in WaitKind(p)
  BY <1>4, <1>5 DEF Queues
<1>6. Queues(r)
  BY <1>2, <1>4, <1>5 DEF Queues
<1> QED
  BY <1>1, <1>2, <1>3, <1>6 DEF FirstOf

\* The hand-over of a mutex to its first waiter (svcRtxMutexRelease,
\* osRtxMutexOwnerRelease).
LEMMA HandOverGood ==
  ASSUME NEW s, NEW X \in SUBSET Thread, Good(s, X), Queues(s),
         \A t \in X : Unqueued(s, t),
         NEW m \in Mutex, s.list[m] # << >>, NEW w, w = Head(s.list[m]),
         NEW r, r = MutexHandOver(s, m)
  PROVE  Good(r, X) /\ Queues(r) /\ HandedOver(s, r, m, w)
<1> DEFINE s1 == [s EXCEPT !.list[m] = Tail(@)]
           s2 == ThreadWaitExit(s1, w)
<1>1. /\ s \in Kernel /\ m \in Object /\ s.list \in [Object -> Seq(Thread)]
      /\ s.list[m] \in Seq(Thread) /\ s.state \in [Thread -> ThreadState]
  BY Fields, KernelAssumption DEF Good, Linked
<1>2. r = MutexTake(s2, m, w)
  BY DEF MutexHandOver
<1>3. s1 \in Kernel
  <2>1. Tail(s.list[m]) \in Seq(Thread) /\ s1 = [s EXCEPT !.list[m] = Tail(s.list[m])]
    BY <1>1
  <2>2. [s EXCEPT !.list[m] = Tail(s.list[m])] \in Kernel
    BY ONLY <1>1, <2>1, WithList
  <2> QED
    BY <2>1, <2>2
<1>4. /\ SamePlaces(s, s1) /\ s1.list = [s.list EXCEPT ![m] = Tail(s.list[m])]
      /\ s1.joinable = s.joinable /\ s1.joiner = s.joiner /\ s1.target = s.target
      /\ s1.run = s.run /\ s1.kernel = s.kernel /\ s1.base = s.base
      /\ s1.mutex = s.mutex /\ s1.next = s.next
      /\ s1.owner = s.owner /\ s1.lock = s.lock /\ s1.owned = s.owned
  BY <1>1 DEF Kernel, SamePlaces
<1>5. s2 = ThreadWaitExit(s1, w)
  OBVIOUS
<1> HIDE DEF s1, s2
<1>6. Good(s1, X)
  BY <1>3, <1>4, PlacesKept
<1>7. /\ w \in Thread /\ w \in ToSet(s.list[m]) /\ s.state[w] = "WaitingMutex"
      /\ ToSet(s1.list[m]) = ToSet(s.list[m]) \ {w}
  <2>1. s1.list = [s.list EXCEPT ![m] = Tail(s.list[m])] /\ s1.priority = s.priority
        /\ \A t \in Thread \ {w} : s1.state[t] = s.state[t]
    BY <1>4 DEF SamePlaces
  <2>2. Queues(s) /\ s.list[m] # << >> /\ w = Head(s.list[m])
    OBVIOUS
  <2>3. FirstOf(s, s1, m, w)
    BY ONLY <1>1, <2>1, <2>2, HeadQueues
  <2> QED
    BY <2>3 DEF FirstOf, WaitKind
<1>8. w \in Thread \ X /\ IsBlocked(s1, w)
  BY <1>1, <1>4, <1>7 DEF Unqueued, SamePlaces, IsBlocked, Waiting
<1>9. /\ Good(s2, X) /\ Frame(s1, s2)
      /\ s2.state = [s1.state EXCEPT ![w] = "Ready"] /\ s2.next = s1.next
      /\ s2.waitList = s1.waitList \ {w} /\ s2.ready # << >>
  BY ONLY X \in SUBSET Thread, <1>5, <1>6, <1>8, WaitExitGood
<1>10. Good(r, X) /\ TakenOnly(s2, r, m, w)
  BY <1>2, <1>7, <1>9, TakeGood
<1>11. HandedOver(s, r, m, w)
  BY <1>4, <1>7, <1>9, <1>10, SMTT(20) DEF HandedOver, TakenOnly, Frame, SamePlaces
<1>12. Queues(r)
  <2>1. r.list = [s.list EXCEPT ![m] = Tail(s.list[m])] /\ r.priority = s.priority
        /\ \A t \in Thread \ {w} : r.state[t] = s.state[t]
    BY <1>1, <1>11 DEF HandedOver
  <2>2. Queues(s) /\ s.list[m] # << >> /\ w = Head(s.list[m])
    OBVIOUS
  <2> QED
    BY ONLY <1>1, <2>1, <2>2, HeadQueues
<1> QED
  BY <1>10, <1>11, <1>12
=============================================================================
