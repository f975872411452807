---------------------------- MODULE TaskPagesProofs ----------------------------
(***************************************************************************)
(* What TaskPages promises a client that walks through a task list, for    *)
(* any number of tasks, any page length and any number of changes.         *)
(***************************************************************************)
EXTENDS TaskPages, FiniteSetTheorems, SequenceTheorems, TLAPS

-------------------------------------------------------------------------------
(***************************************************************************)
(* The list operators.                                                     *)
(***************************************************************************)
\* The least of two numbers.
LEMMA MinOfTwo ==
    ASSUME NEW a \in Int, NEW b \in Int
    PROVE  Min({a, b}) = IF a <= b THEN a ELSE b
<1>1. \E m \in {a, b} : \A y \in {a, b} : m <= y
  OBVIOUS
<1>2. Min({a, b}) \in {a, b} /\ \A y \in {a, b} : Min({a, b}) <= y
  BY <1>1 DEF Min
<1> QED
  BY <1>2

\* Inserting shifts what comes after to the right.
LEMMA Inserted ==
    ASSUME NEW S, NEW s \in Seq(S), NEW i \in 1 .. Len(s) + 1, NEW e \in S
    PROVE  /\ InsertAt(s, i, e) \in Seq(S)
           /\ Len(InsertAt(s, i, e)) = Len(s) + 1
           /\ \A j \in 1 .. Len(s) + 1 :
                 InsertAt(s, i, e)[j] = IF j < i THEN s[j]
                                        ELSE IF j = i THEN e ELSE s[j - 1]
<1> DEFINE a == SubSeq(s, 1, i - 1)
           b == <<e>>
           c == SubSeq(s, i, Len(s))
<1>0. Len(s) \in Nat /\ \A j \in 1 .. Len(s) : s[j] \in S
  BY LenProperties, ElementOfSeq
<1>1. /\ a \in Seq(S) /\ Len(a) = i - 1
      /\ \A j \in 1 .. i - 1 : a[j] = s[j]
  BY <1>0, SubSeqProperties
<1>2. b \in Seq(S) /\ Len(b) = 1 /\ b[1] = e
  OBVIOUS
<1>3. /\ c \in Seq(S) /\ Len(c) = Len(s) - i + 1
      /\ \A j \in 1 .. Len(s) - i + 1 : c[j] = s[i + j - 1]
  BY <1>0, SubSeqProperties
<1>4. InsertAt(s, i, e) = (a \o b) \o c
  BY DEF InsertAt
<1> HIDE DEF a, b, c
<1>5. /\ a \o b \in Seq(S) /\ Len(a \o b) = i
      /\ \A j \in 1 .. i : (a \o b)[j] = IF j < i THEN s[j] ELSE e
  <2>1. /\ a \o b \in Seq(S) /\ Len(a \o b) = Len(a) + Len(b)
        /\ \A j \in 1 .. Len(a) + Len(b) :
              (a \o b)[j] = IF j <= Len(a) THEN a[j] ELSE b[j - Len(a)]
    BY <1>1, <1>2, ConcatProperties
  <2>2. \A j \in 1 .. i : (a \o b)[j] = IF j < i THEN s[j] ELSE e
    BY <1>0, <1>1, <1>2, <2>1
  <2> QED
    BY <1>0, <1>1, <1>2, <2>1, <2>2
<1>6. /\ (a \o b) \o c \in Seq(S) /\ Len((a \o b) \o c) = Len(s) + 1
      /\ \A j \in 1 .. Len(s) + 1 :
            ((a \o b) \o c)[j] = IF j <= i THEN (a \o b)[j] ELSE c[j - i]
  <2> DEFINE d == a \o b
  <2>1. d \in Seq(S) /\ Len(d) = i
    BY <1>5
  <2> HIDE DEF d
  <2>2. /\ d \o c \in Seq(S) /\ Len(d \o c) = Len(d) + Len(c)
        /\ \A j \in 1 .. Len(d) + Len(c) :
              (d \o c)[j] = IF j <= Len(d) THEN d[j] ELSE c[j - Len(d)]
    BY <1>3, <2>1, ConcatProperties
  <2>3. Len(d) + Len(c) = Len(s) + 1
    BY <1>0, <1>3, <2>1
  <2>4. /\ d \o c \in Seq(S) /\ Len(d \o c) = Len(s) + 1
        /\ \A j \in 1 .. Len(s) + 1 :
              (d \o c)[j] = IF j <= i THEN d[j] ELSE c[j - i]
    BY <2>1, <2>2, <2>3
  <2> QED
    BY <2>4 DEF d
<1>7. ASSUME NEW j \in 1 .. Len(s) + 1, j > i PROVE c[j - i] = s[j - 1]
  BY <1>0, <1>3, <1>7
<1> QED
  BY <1>4, <1>5, <1>6, <1>7

\* Removing shifts what comes after to the left.
LEMMA Removed ==
    ASSUME NEW S, NEW s \in Seq(S), NEW i \in 1 .. Len(s)
    PROVE  /\ RemoveAt(s, i) \in Seq(S)
           /\ Len(RemoveAt(s, i)) = Len(s) - 1
           /\ \A j \in 1 .. Len(s) - 1 :
                 RemoveAt(s, i)[j] = IF j < i THEN s[j] ELSE s[j + 1]
<1> DEFINE a == SubSeq(s, 1, i - 1)
           c == SubSeq(s, i + 1, Len(s))
<1>0. Len(s) \in Nat /\ \A j \in 1 .. Len(s) : s[j] \in S
  BY LenProperties, ElementOfSeq
<1>1. /\ a \in Seq(S) /\ Len(a) = i - 1
      /\ \A j \in 1 .. i - 1 : a[j] = s[j]
  BY <1>0, SubSeqProperties
<1>2. /\ c \in Seq(S) /\ Len(c) = Len(s) - i
      /\ \A j \in 1 .. Len(s) - i : c[j] = s[i + j]
  BY <1>0, SubSeqProperties
<1>3. RemoveAt(s, i) = a \o c
  BY DEF RemoveAt
<1> HIDE DEF a, c
<1>4. /\ a \o c \in Seq(S) /\ Len(a \o c) = Len(s) - 1
      /\ \A j \in 1 .. Len(s) - 1 :
            (a \o c)[j] = IF j < i THEN a[j] ELSE c[j - i + 1]
  <2>1. /\ a \o c \in Seq(S) /\ Len(a \o c) = Len(a) + Len(c)
        /\ \A j \in 1 .. Len(a) + Len(c) :
              (a \o c)[j] = IF j <= Len(a) THEN a[j] ELSE c[j - Len(a)]
    BY <1>1, <1>2, ConcatProperties
  <2> QED
    BY <1>0, <1>1, <1>2, <2>1
<1>5. ASSUME NEW j \in 1 .. Len(s) - 1, j >= i PROVE c[j - i + 1] = s[j + 1]
  BY <1>0, <1>2, <1>5
<1> QED
  BY <1>1, <1>3, <1>4, <1>5

\* A page holds the entries from skip + 1 to skip + n, as far as there are any.
LEMMA PageHolds ==
    ASSUME NEW S, NEW s \in Seq(S), NEW skip \in Nat, NEW n \in Nat
    PROVE  /\ Page(s, skip, n) \in Seq(S)
           /\ Len(Page(s, skip, n)) <= n
           /\ Len(Page(s, skip, n)) < n => Len(s) < skip + n
           /\ ToSet(Page(s, skip, n)) =
                 {s[j] : j \in {j \in 1 .. Len(s) : skip < j /\ j <= skip + n}}
<1> DEFINE top == Min({skip + n, Len(s)})
           p == Page(s, skip, n)
<1>0. Len(s) \in Nat /\ \A j \in 1 .. Len(s) : s[j] \in S
  BY LenProperties, ElementOfSeq
<1>1. top = IF skip + n <= Len(s) THEN skip + n ELSE Len(s)
  BY <1>0, MinOfTwo
<1>2. p = SubSeq(s, skip + 1, top)
  BY DEF Page
<1> HIDE DEF top, p
<1>3. top \in Nat /\ \A j \in skip + 1 .. top : s[j] \in S
  BY <1>0, <1>1
<1>4. /\ p \in Seq(S)
      /\ Len(p) = IF skip + 1 <= top THEN top - skip ELSE 0
      /\ \A j \in 1 .. top - skip : p[j] = s[skip + j]
  <2>1. /\ SubSeq(s, skip + 1, top) \in Seq(S)
        /\ Len(SubSeq(s, skip + 1, top)) =
              IF skip + 1 <= top THEN top - (skip + 1) + 1 ELSE 0
        /\ \A j \in 1 .. top - (skip + 1) + 1 :
              SubSeq(s, skip + 1, top)[j] = s[skip + 1 + j - 1]
    BY <1>3, SubSeqProperties
  <2> QED
    BY <1>2, <1>3, <2>1
<1>5. Len(p) <= n /\ (Len(p) < n => Len(s) < skip + n)
  BY <1>0, <1>1, <1>4
<1>6. DOMAIN p = 1 .. Len(p)
  BY <1>4, LenProperties
<1>7. ToSet(p) = {s[j] : j \in {j \in 1 .. Len(s) : skip < j /\ j <= skip + n}}
  <2>1. ASSUME NEW k \in DOMAIN p
        PROVE  \E j \in 1 .. Len(s) : /\ skip < j /\ j <= skip + n
                                      /\ p[k] = s[j]
    <3>1. skip + k \in 1 .. Len(s) /\ skip < skip + k /\ skip + k <= skip + n
      BY <1>0, <1>1, <1>4, <1>6, <2>1
    <3>2. p[k] = s[skip + k]
      BY <1>3, <1>4, <1>6, <2>1
    <3> QED
      BY <3>1, <3>2
  <2>2. ASSUME NEW j \in 1 .. Len(s), skip < j, j <= skip + n
        PROVE  \E k \in DOMAIN p : p[k] = s[j]
    <3>1. j - skip \in 1 .. top - skip /\ skip + (j - skip) = j
      BY <1>0, <1>1, <2>2
    <3>2. j - skip \in DOMAIN p /\ p[j - skip] = s[j]
      BY <1>3, <1>4, <1>6, <3>1
    <3> QED
      BY <3>2
  <2> QED
    BY <2>1, <2>2 DEF ToSet
<1> QED
  BY <1>4, <1>5, <1>7 DEF p

-------------------------------------------------------------------------------
(***************************************************************************)
(* What is still ahead of the client.                                      *)
(***************************************************************************)
\* The tasks of list s after position c.
Beyond(s, c) == {s[j] : j \in {j \in DOMAIN s : j > c}}

\* No task is twice in the list.
NoTwice(s) == \A i, j \in DOMAIN s : s[i] = s[j] => i = j

\* What enters hides nothing that was ahead, and brings one task at most there:
\* itself, or the one it pushes back over the end of the last page.
LEMMA InsertAhead ==
    ASSUME NEW S, NEW s \in Seq(S), NEW i \in 1 .. Len(s) + 1, NEW e \in S,
           NEW c \in Nat
    PROVE  /\ Beyond(s, c) \subseteq Beyond(InsertAt(s, i, e), c)
           /\ \E x : Beyond(InsertAt(s, i, e), c) \subseteq Beyond(s, c) \cup {x}
<1> DEFINE t == InsertAt(s, i, e)
<1>1. /\ Len(s) \in Nat /\ DOMAIN s = 1 .. Len(s)
      /\ DOMAIN t = 1 .. Len(s) + 1
      /\ \A j \in 1 .. Len(s) + 1 :
            t[j] = IF j < i THEN s[j] ELSE IF j = i THEN e ELSE s[j - 1]
  <2>1. Len(s) \in Nat /\ DOMAIN s = 1 .. Len(s)
    BY LenProperties
  <2>2. t \in Seq(S) /\ Len(t) = Len(s) + 1
    BY Inserted
  <2>3. ASSUME NEW j \in 1 .. Len(s) + 1
        PROVE  t[j] = IF j < i THEN s[j] ELSE IF j = i THEN e ELSE s[j - 1]
    BY Inserted
  <2> HIDE DEF t
  <2>4. DOMAIN t = 1 .. Len(s) + 1
    BY <2>2, LenProperties
  <2> QED
    BY <2>1, <2>3, <2>4
<1> HIDE DEF t
<1>2. ASSUME NEW j \in DOMAIN s, j > c PROVE s[j] \in Beyond(t, c)
  <2>1. CASE j < i
    BY <1>1, <1>2, <2>1 DEF Beyond
  <2>2. CASE j >= i
    <3>1. j + 1 \in DOMAIN t /\ j + 1 > c /\ t[j + 1] = s[j]
      BY <1>1, <1>2, <2>2
    <3> QED
      BY <3>1 DEF Beyond
  <2> QED
    BY <1>1, <2>1, <2>2
<1>3. CASE i <= c
  <2>1. ASSUME NEW j \in DOMAIN t, j > c, j # c + 1
        PROVE  t[j] \in Beyond(s, c)
    <3>1. j - 1 \in DOMAIN s /\ j - 1 > c /\ t[j] = s[j - 1]
      BY <1>1, <1>3, <2>1
    <3> QED
      BY <3>1 DEF Beyond
  <2>2. Beyond(t, c) \subseteq Beyond(s, c) \cup {t[c + 1]}
    BY <2>1 DEF Beyond
  <2> QED
    BY <1>2, <2>2 DEF Beyond, t
<1>4. CASE i > c
  <2>1. ASSUME NEW j \in DOMAIN t, j > c, t[j] # e
        PROVE  t[j] \in Beyond(s, c)
    <3>1. CASE j < i
      BY <1>1, <2>1, <3>1 DEF Beyond
    <3>2. CASE j > i
      <4>1. j - 1 \in DOMAIN s /\ j - 1 > c /\ t[j] = s[j - 1]
        BY <1>1, <1>4, <2>1, <3>2
      <4> QED
        BY <4>1 DEF Beyond
    <3> QED
      BY <1>1, <2>1, <3>1, <3>2
  <2>2. Beyond(t, c) \subseteq Beyond(s, c) \cup {e}
    BY <2>1 DEF Beyond
  <2> QED
    BY <1>2, <2>2 DEF Beyond, t
<1>5. i <= c \/ i > c
  BY <1>1
<1> QED
  BY <1>3, <1>4, <1>5

\* What leaves brings nothing ahead, and takes one task at most from there:
\* itself, or the one that moves up to a page the client has had.
LEMMA RemoveAhead ==
    ASSUME NEW S, NEW s \in Seq(S), NEW i \in 1 .. Len(s), NEW c \in Nat
    PROVE  /\ Beyond(RemoveAt(s, i), c) \subseteq Beyond(s, c)
           /\ \E x : Beyond(s, c) \subseteq Beyond(RemoveAt(s, i), c) \cup {x}
<1> DEFINE t == RemoveAt(s, i)
<1>1. /\ Len(s) \in Nat /\ DOMAIN s = 1 .. Len(s)
      /\ DOMAIN t = 1 .. Len(s) - 1
      /\ \A j \in 1 .. Len(s) - 1 : t[j] = IF j < i THEN s[j] ELSE s[j + 1]
  BY Removed, LenProperties
<1> HIDE DEF t
<1>2. ASSUME NEW j \in DOMAIN t, j > c PROVE t[j] \in Beyond(s, c)
  <2>1. CASE j < i
    BY <1>1, <1>2, <2>1 DEF Beyond
  <2>2. CASE j >= i
    <3>1. j + 1 \in DOMAIN s /\ j + 1 > c /\ t[j] = s[j + 1]
      BY <1>1, <1>2, <2>2
    <3> QED
      BY <3>1 DEF Beyond
  <2> QED
    BY <1>1, <2>1, <2>2
<1>3. CASE i <= c
  <2>1. ASSUME NEW j \in DOMAIN s, j > c, j # c + 1
        PROVE  s[j] \in Beyond(t, c)
    <3>1. j - 1 \in DOMAIN t /\ j - 1 > c /\ t[j - 1] = s[j]
      BY <1>1, <1>3, <2>1
    <3> QED
      BY <3>1 DEF Beyond
  <2>2. Beyond(s, c) \subseteq Beyond(t, c) \cup {s[c + 1]}
    BY <2>1 DEF Beyond
  <2> QED
    BY <1>2, <2>2 DEF Beyond, t
<1>4. CASE i > c
  <2>1. ASSUME NEW j \in DOMAIN s, j > c, j # i
        PROVE  s[j] \in Beyond(t, c)
    <3>1. CASE j < i
      BY <1>1, <2>1, <3>1 DEF Beyond
    <3>2. CASE j > i
      <4>1. j - 1 \in DOMAIN t /\ j - 1 > c /\ t[j - 1] = s[j]
        BY <1>1, <1>4, <2>1, <3>2
      <4> QED
        BY <4>1 DEF Beyond
    <3> QED
      BY <1>1, <2>1, <3>1, <3>2
  <2>2. Beyond(s, c) \subseteq Beyond(t, c) \cup {s[i]}
    BY <2>1 DEF Beyond
  <2> QED
    BY <1>2, <2>2 DEF Beyond, t
<1>5. i <= c \/ i > c
  BY <1>1
<1> QED
  BY <1>3, <1>4, <1>5

\* A page parts what was ahead: what it shows, and what is ahead of it.
LEMMA PageAhead ==
    ASSUME NEW S, NEW s \in Seq(S), NEW c \in Nat, NEW n \in Nat
    PROVE  /\ Beyond(s, c) = ToSet(Page(s, c, n)) \cup Beyond(s, c + n)
           /\ NoTwice(s) => ToSet(Page(s, c, n)) \cap Beyond(s, c + n) = {}
           /\ Len(Page(s, c, n)) < n => Beyond(s, c + n) = {}
<1>1. Len(s) \in Nat /\ DOMAIN s = 1 .. Len(s)
  BY LenProperties
<1>2. /\ ToSet(Page(s, c, n)) =
            {s[j] : j \in {j \in 1 .. Len(s) : c < j /\ j <= c + n}}
      /\ Len(Page(s, c, n)) < n => Len(s) < c + n
  BY PageHolds
<1>3. Beyond(s, c) = {s[j] : j \in {j \in 1 .. Len(s) : c < j}}
  BY <1>1 DEF Beyond
<1>4. Beyond(s, c + n) = {s[j] : j \in {j \in 1 .. Len(s) : c + n < j}}
  BY <1>1 DEF Beyond
<1>5. \A j \in 1 .. Len(s) : c < j <=> (c < j /\ j <= c + n) \/ c + n < j
  BY <1>1
<1>6. Beyond(s, c) = ToSet(Page(s, c, n)) \cup Beyond(s, c + n)
  BY <1>2, <1>3, <1>4, <1>5
<1>7. ASSUME NoTwice(s)
      PROVE  ToSet(Page(s, c, n)) \cap Beyond(s, c + n) = {}
  <2>1. \A j, k \in 1 .. Len(s) : j <= c + n /\ c + n < k => s[j] # s[k]
    BY <1>1, <1>7 DEF NoTwice
  <2> QED
    BY <1>2, <1>4, <2>1
<1>8. ASSUME Len(Page(s, c, n)) < n PROVE Beyond(s, c + n) = {}
  BY <1>1, <1>2, <1>4, <1>8
<1> QED
  BY <1>6, <1>7, <1>8

-------------------------------------------------------------------------------
(***************************************************************************)
(* Type correctness, and the number of pages.                              *)
(***************************************************************************)
\* Quotient and remainder.
LEMMA Quotient ==
    ASSUME NEW x \in Nat, NEW n \in Nat \ {0}
    PROVE  /\ x \div n \in Nat
           /\ n * (x \div n) <= x
           /\ x < n * (x \div n) + n
<1>1. x \div n \in Int /\ x \div n >= 0
  OBVIOUS
<1>2. n * (x \div n) <= x /\ x < n * (x \div n) + n
  OBVIOUS
<1> QED
  BY <1>1, <1>2

\* The pages hold the total, and one page less does not.
LEMMA PagesHold ==
    ASSUME NEW count \in Nat, NEW n \in Nat \ {0}
    PROVE  /\ total_pages(count, n) \in Nat
           /\ total_pages(count, n) * n >= count
           /\ total_pages(count, n) > 0 => (total_pages(count, n) - 1) * n < count
<1> DEFINE q == (count + n - 1) \div n
<1>1. count + n - 1 \in Nat
  OBVIOUS
<1>2. q \in Nat /\ n * q <= count + n - 1 /\ count + n - 1 < n * q + n
  BY <1>1, Quotient
<1>3. total_pages(count, n) = q
  BY DEF total_pages
<1> HIDE DEF q
<1>4. q * n = n * q /\ (q - 1) * n = n * q - n /\ n * q \in Nat
  BY <1>2
<1>5. q * n >= count /\ (q - 1) * n < count
  BY <1>2, <1>4
<1> QED
  BY <1>2, <1>3, <1>5

\* Where the client is in the list.
LEMMA Offsets ==
    ASSUME NEW p \in Nat \ {0}, NEW n \in Nat \ {0}
    PROVE  /\ offset(p, n) \in Nat
           /\ offset(p + 1, n) = offset(p, n) + n
           /\ offset(1, n) = 0
  BY DEF offset

\* A list at the beginning is a sequence of tasks, none of them twice.
LEMMA Permutation ==
    ASSUME NEW s \in SetToAllKPermutations(Tasks)
    PROVE  s \in Seq(Tasks) /\ NoTwice(s)
<1>1. PICK T \in SUBSET Tasks : s \in SetToSeqs(T)
  BY DEF SetToAllKPermutations
<1>2. Cardinality(T) \in Nat
  BY ConstantsOK, FS_Subset, FS_CardinalityType
<1>3. /\ s \in [1 .. Cardinality(T) -> T]
      /\ \A i, j \in 1 .. Cardinality(T) : i # j => s[i] # s[j]
  BY <1>1 DEF SetToSeqs
<1>4. s \in [1 .. Cardinality(T) -> Tasks]
  BY <1>3
<1>5. s \in Seq(Tasks)
  BY <1>2, <1>4, SeqDef
<1> QED
  BY <1>3, <1>5 DEF NoTwice

LEMMA InitTyped == Init => TypeOK
<1> SUFFICES ASSUME Init PROVE TypeOK
  OBVIOUS
<1>1. list \in Seq(Tasks)
  BY Permutation DEF Init
<1>2. first \subseteq Tasks
  BY <1>1, LenProperties, ElementOfSeq DEF Init, ToSet
<1>3. limit \in Nat \ {0}
  BY ConstantsOK DEF Init
<1>4. answer \in [items : Seq(Tasks), total : Nat, pages : Nat]
  BY EmptySeq DEF Init
<1>5. Len(answer.items) <= limit
  BY <1>3, EmptySeq DEF Init
<1>6. /\ limit \in Limits /\ page \in Nat \ {0} /\ total \in Nat \cup {Null}
      /\ seen \subseteq Tasks /\ repeated \subseteq seen
      /\ entered \in Nat /\ left \in Nat
  BY DEF Init
<1>7. done \in BOOLEAN
  BY DEF Init
<1> QED
  BY <1>1, <1>2, <1>4, <1>5, <1>6, <1>7 DEF TypeOK

\* The page that is selected.
LEMMA SelectedPage ==
    ASSUME TypeOK, SelectTasks
    PROVE  \E items \in Seq(Tasks) :
              /\ items = Page(list, offset(page, limit), limit)
              /\ Len(items) <= limit
              /\ ToSet(items) \subseteq Tasks
              /\ answer' = [items |-> items, total |-> total,
                            pages |-> total_pages(total, limit)]
              /\ done' = (Len(items) < limit)
              /\ seen' = seen \cup ToSet(items)
              /\ repeated' = repeated \cup (seen \cap ToSet(items))
              /\ total \in Nat
<1> DEFINE items == Page(list, offset(page, limit), limit)
<1>1. limit \in Nat \ {0} /\ page \in Nat \ {0} /\ list \in Seq(Tasks)
  BY ConstantsOK DEF TypeOK
<1>2. items \in Seq(Tasks) /\ Len(items) <= limit
  BY <1>1, Offsets, PageHolds
<1>3. ToSet(items) \subseteq Tasks
  BY <1>2, LenProperties, ElementOfSeq DEF ToSet
<1>4. total \in Nat
  BY DEF TypeOK, SelectTasks
<1> QED
  BY <1>2, <1>3, <1>4 DEF SelectTasks

LEMMA StepTyped == TypeOK /\ [Next]_vars => TypeOK'
<1> SUFFICES ASSUME TypeOK, [Next]_vars PROVE TypeOK'
  OBVIOUS
<1>0. /\ list \in Seq(Tasks) /\ limit \in Nat \ {0} /\ page \in Nat \ {0}
      /\ entered \in Nat /\ left \in Nat
  BY ConstantsOK DEF TypeOK
<1>1. CASE CountTasks
  <2>1. Len(list) \in Nat
    BY <1>0, LenProperties
  <2> QED
    BY <1>1, <2>1 DEF CountTasks, TypeOK, history
<1>2. CASE SelectTasks
  <2>1. PICK items \in Seq(Tasks) :
              /\ Len(items) <= limit
              /\ ToSet(items) \subseteq Tasks
              /\ answer' = [items |-> items, total |-> total,
                            pages |-> total_pages(total, limit)]
              /\ done' = (Len(items) < limit)
              /\ seen' = seen \cup ToSet(items)
              /\ repeated' = repeated \cup (seen \cap ToSet(items))
              /\ total \in Nat
    BY <1>2, SelectedPage
  <2>2. total_pages(total, limit) \in Nat
    BY <1>0, <2>1, PagesHold
  <2>3. /\ answer' \in [items : Seq(Tasks), total : Nat, pages : Nat]
        /\ answer'.items = items
    BY <2>1, <2>2
  <2>4. page' \in Nat \ {0} /\ total' = Null
    BY <1>0, <1>2 DEF SelectTasks
  <2>5. UNCHANGED <<list, limit, first, entered, left>>
    BY <1>2 DEF SelectTasks
  <2>6. seen' \subseteq Tasks /\ repeated' \subseteq seen'
    BY <2>1 DEF TypeOK
  <2> QED
    BY <2>1, <2>3, <2>4, <2>5, <2>6 DEF TypeOK
<1>3. CASE Enter
  <2>1. list' \in Seq(Tasks)
    BY <1>0, <1>3, Inserted DEF Enter
  <2> QED
    BY <1>0, <1>3, <2>1 DEF Enter, TypeOK, query, history
<1>4. CASE Leave
  <2>1. list' \in Seq(Tasks)
    BY <1>0, <1>4, Removed, LenProperties DEF Leave
  <2> QED
    BY <1>0, <1>4, <2>1 DEF Leave, TypeOK, query, history
<1>5. CASE UNCHANGED vars
  BY <1>5 DEF vars, query, history, TypeOK
<1> QED
  BY <1>1, <1>2, <1>3, <1>4, <1>5 DEF Next

\* Every reachable state has its type, and no page is longer than was asked.
THEOREM PagesTypeCorrect == Spec => []TypeOK
  BY InitTyped, StepTyped, PTL DEF Spec

\* The answered number of pages is the least that has room for the total.
THEOREM PagesCounted == Spec => []PagesHoldTotal
<1>1. Init => PagesHoldTotal
  <2> SUFFICES ASSUME Init PROVE PagesHoldTotal
    OBVIOUS
  <2>1. limit \in Nat
    BY ConstantsOK DEF Init
  <2>2. answer.pages = 0 /\ answer.total = 0
    BY DEF Init
  <2> QED
    BY <2>1, <2>2 DEF PagesHoldTotal
<1>2. TypeOK /\ PagesHoldTotal /\ [Next]_vars => PagesHoldTotal'
  <2> SUFFICES ASSUME TypeOK, PagesHoldTotal, [Next]_vars PROVE PagesHoldTotal'
    OBVIOUS
  <2>1. CASE SelectTasks
    <3>1. /\ answer'.total = total
          /\ answer'.pages = total_pages(total, limit)
          /\ limit' = limit /\ limit \in Nat \ {0} /\ total \in Nat
      BY <2>1, ConstantsOK, SelectedPage DEF SelectTasks, TypeOK
    <3> QED
      BY <3>1, PagesHold DEF PagesHoldTotal
  <2>2. CASE ~SelectTasks
    <3>1. UNCHANGED <<answer, limit>>
      BY <2>2 DEF Next, CountTasks, Enter, Leave, vars, query
    <3> QED
      BY <3>1 DEF PagesHoldTotal
  <2> QED
    BY <2>1, <2>2
<1> QED
  BY <1>1, <1>2, PagesTypeCorrect, PTL DEF Spec

-------------------------------------------------------------------------------
(***************************************************************************)
(* The walk.                                                               *)
(***************************************************************************)
\* The tasks that are still ahead of the client; those it will not see though
\* they were selected at the beginning; those it has seen or will see twice.
Ahead == Beyond(list, offset(page, limit))
Hidden == (first \ seen) \ Ahead
Twice == repeated \cup (Ahead \cap seen)

\* What makes the walk's two promises inductive: they are kept at every page,
\* counting what is ahead, and a client that is done has nothing ahead.
WalkInv ==
    /\ NoTwice(list)
    /\ done => total = Null /\ Ahead = {}
    /\ Cardinality(Hidden) <= left
    /\ Cardinality(Twice) <= entered

\* The sets that are counted are finite.
LEMMA Countable ==
    ASSUME NEW A, NEW B, A \subseteq Tasks
    PROVE  /\ IsFiniteSet(A) /\ Cardinality(A) \in Nat
           /\ B \subseteq A => Cardinality(B) <= Cardinality(A)
           /\ (\E x : B \subseteq A \cup {x}) => Cardinality(B) <= Cardinality(A) + 1
<1>1. IsFiniteSet(A) /\ Cardinality(A) \in Nat
  BY ConstantsOK, FS_Subset, FS_CardinalityType
<1>2. ASSUME B \subseteq A PROVE Cardinality(B) <= Cardinality(A)
  BY <1>1, <1>2, FS_Subset
<1>3. ASSUME NEW x, B \subseteq A \cup {x}
      PROVE  Cardinality(B) <= Cardinality(A) + 1
  <2>1. IsFiniteSet(A \cup {x}) /\ Cardinality(A \cup {x}) <= Cardinality(A) + 1
    <3>1. /\ IsFiniteSet(A \cup {x})
          /\ Cardinality(A \cup {x}) =
                IF x \in A THEN Cardinality(A) ELSE Cardinality(A) + 1
      BY <1>1, FS_AddElement
    <3> QED
      BY <1>1, <3>1
  <2>2. Cardinality(B) <= Cardinality(A \cup {x})
    BY <1>3, <2>1, FS_Subset
  <2>3. Cardinality(B) \in Nat /\ Cardinality(A \cup {x}) \in Nat
    BY <1>3, <2>1, FS_Subset, FS_CardinalityType
  <2> QED
    BY <1>1, <2>1, <2>2, <2>3
<1> QED
  BY <1>1, <1>2, <1>3

LEMMA AheadTyped ==
    ASSUME TypeOK
    PROVE  /\ Ahead \subseteq Tasks /\ Hidden \subseteq Tasks
           /\ Twice \subseteq Tasks
           /\ offset(page, limit) \in Nat
<1>1. list \in Seq(Tasks) /\ page \in Nat \ {0} /\ limit \in Nat \ {0}
  BY ConstantsOK DEF TypeOK
<1>2. Ahead \subseteq Tasks
  BY <1>1, LenProperties, ElementOfSeq DEF Ahead, Beyond
<1> QED
  BY <1>1, <1>2, Offsets DEF Hidden, Twice, TypeOK

LEMMA InitWalk == Init => WalkInv
<1> SUFFICES ASSUME Init PROVE WalkInv
  OBVIOUS
<1>1. list \in Seq(Tasks) /\ NoTwice(list)
  BY Permutation DEF Init
<1>2. limit \in Nat \ {0} /\ page = 1
  BY ConstantsOK DEF Init
<1>3. offset(page, limit) = 0
  BY <1>2, Offsets
<1>4. Ahead = first
  BY <1>1, <1>3, LenProperties DEF Init, Ahead, Beyond, ToSet
<1>5. Hidden = {} /\ Twice = {} /\ ~done /\ entered = 0 /\ left = 0
  BY <1>4 DEF Init, Hidden, Twice
<1> QED
  BY <1>1, <1>5, FS_EmptySet DEF WalkInv

\* A page moves what it shows from ahead to seen.
LEMMA SelectWalks ==
    ASSUME TypeOK, WalkInv, SelectTasks PROVE WalkInv'
<1> DEFINE c == offset(page, limit)
<1>1. /\ list \in Seq(Tasks) /\ page \in Nat \ {0} /\ limit \in Nat \ {0}
      /\ c \in Nat
  BY ConstantsOK, AheadTyped DEF TypeOK
<1>2. PICK items \in Seq(Tasks) :
         /\ items = Page(list, c, limit)
         /\ done' = (Len(items) < limit)
         /\ seen' = seen \cup ToSet(items)
         /\ repeated' = repeated \cup (seen \cap ToSet(items))
  BY SelectedPage
<1>3. page' = page + 1 /\ total' = Null /\ UNCHANGED <<list, limit, first, entered, left>>
  BY DEF SelectTasks
<1>4. offset(page, limit)' = c + limit
  BY <1>1, <1>3, Offsets
<1>5. Ahead' = Beyond(list, c + limit)
  BY <1>3, <1>4 DEF Ahead
<1> HIDE DEF c
<1>6. /\ Ahead = ToSet(items) \cup Ahead'
      /\ ToSet(items) \cap Ahead' = {}
      /\ Len(items) < limit => Ahead' = {}
  BY <1>1, <1>2, <1>5, PageAhead DEF WalkInv, Ahead, c
<1>7. Hidden' \subseteq Hidden
  BY <1>2, <1>3, <1>6 DEF Hidden
<1>8. Twice' \subseteq Twice
  BY <1>2, <1>6 DEF Twice
<1>9. /\ Cardinality(Hidden') <= Cardinality(Hidden) /\ Cardinality(Hidden') \in Nat
      /\ Cardinality(Twice') <= Cardinality(Twice) /\ Cardinality(Twice') \in Nat
      /\ Cardinality(Hidden) \in Nat /\ Cardinality(Twice) \in Nat
  BY <1>7, <1>8, AheadTyped, Countable
<1>10. Cardinality(Hidden') <= left' /\ Cardinality(Twice') <= entered'
  BY <1>3, <1>9 DEF WalkInv, TypeOK
<1>11. done' => total' = Null /\ Ahead' = {}
  BY <1>2, <1>3, <1>6
<1>12. NoTwice(list)'
  BY <1>3 DEF WalkInv
<1> QED
  BY <1>10, <1>11, <1>12 DEF WalkInv

\* Shifting the entries keeps them distinct.
LEMMA InsertNoTwice ==
    ASSUME NEW S, NEW s \in Seq(S), NEW i \in 1 .. Len(s) + 1,
           NEW e \in S \ ToSet(s), NoTwice(s)
    PROVE  NoTwice(InsertAt(s, i, e))
<1> DEFINE t == InsertAt(s, i, e)
<1>1. /\ Len(s) \in Nat /\ DOMAIN s = 1 .. Len(s)
      /\ DOMAIN t = 1 .. Len(s) + 1
      /\ \A j \in 1 .. Len(s) + 1 :
            t[j] = IF j < i THEN s[j] ELSE IF j = i THEN e ELSE s[j - 1]
  <2>1. Len(s) \in Nat /\ DOMAIN s = 1 .. Len(s)
    BY LenProperties
  <2>2. t \in Seq(S) /\ Len(t) = Len(s) + 1
    BY Inserted
  <2>3. ASSUME NEW j \in 1 .. Len(s) + 1
        PROVE  t[j] = IF j < i THEN s[j] ELSE IF j = i THEN e ELSE s[j - 1]
    BY Inserted
  <2> HIDE DEF t
  <2>4. DOMAIN t = 1 .. Len(s) + 1
    BY <2>2, LenProperties
  <2> QED
    BY <2>1, <2>3, <2>4
<1>2. \A j \in 1 .. Len(s) : s[j] # e
  BY <1>1 DEF ToSet
<1>3. \A j, k \in 1 .. Len(s) : s[j] = s[k] => j = k
  BY <1>1 DEF NoTwice
<1> HIDE DEF t
<1>4. ASSUME NEW j \in 1 .. Len(s) + 1, NEW k \in 1 .. Len(s) + 1, t[j] = t[k]
      PROVE  j = k
  <2>1. CASE j = i \/ k = i
    BY <1>1, <1>2, <1>4, <2>1
  <2>2. CASE j < i /\ k < i
    BY <1>1, <1>3, <1>4, <2>2
  <2>3. CASE j > i /\ k > i
    BY <1>1, <1>3, <1>4, <2>3
  <2>4. CASE (j < i /\ k > i) \/ (j > i /\ k < i)
    BY <1>1, <1>3, <1>4, <2>4
  <2> QED
    BY <1>1, <2>1, <2>2, <2>3, <2>4
<1> QED
  BY <1>1, <1>4 DEF NoTwice, t

LEMMA RemoveNoTwice ==
    ASSUME NEW S, NEW s \in Seq(S), NEW i \in 1 .. Len(s), NoTwice(s)
    PROVE  NoTwice(RemoveAt(s, i))
<1> DEFINE t == RemoveAt(s, i)
<1>1. /\ Len(s) \in Nat /\ DOMAIN s = 1 .. Len(s)
      /\ DOMAIN t = 1 .. Len(s) - 1
      /\ \A j \in 1 .. Len(s) - 1 : t[j] = IF j < i THEN s[j] ELSE s[j + 1]
  BY Removed, LenProperties
<1>2. \A j, k \in 1 .. Len(s) : s[j] = s[k] => j = k
  BY <1>1 DEF NoTwice
<1> HIDE DEF t
<1>3. ASSUME NEW j \in 1 .. Len(s) - 1, NEW k \in 1 .. Len(s) - 1, t[j] = t[k]
      PROVE  j = k
  BY <1>1, <1>2, <1>3
<1> QED
  BY <1>1, <1>3 DEF NoTwice, t

\* What enters hides nothing, and may let the client see one task twice.
LEMMA EnterWalks ==
    ASSUME TypeOK, WalkInv, Enter PROVE WalkInv'
<1> DEFINE c == offset(page, limit)
<1>1. /\ list \in Seq(Tasks) /\ c \in Nat /\ entered \in Nat /\ left \in Nat
  BY AheadTyped DEF TypeOK
<1>2. PICK t \in Tasks \ ToSet(list), i \in 1 .. Len(list) + 1 :
         list' = InsertAt(list, i, t)
  BY DEF Enter
<1>3. /\ ~done /\ done' = done /\ entered' = entered + 1
      /\ UNCHANGED <<page, limit, first, seen, repeated, left>>
  BY DEF Enter, query, history
<1>4. Ahead' = Beyond(InsertAt(list, i, t), c)
  BY <1>2, <1>3 DEF Ahead, offset
<1> HIDE DEF c
<1>5. /\ Ahead \subseteq Ahead'
      /\ \E x : Ahead' \subseteq Ahead \cup {x}
  <2>1. t \in Tasks
    OBVIOUS
  <2>2. /\ Beyond(list, c) \subseteq Beyond(InsertAt(list, i, t), c)
        /\ \E x : Beyond(InsertAt(list, i, t), c) \subseteq Beyond(list, c) \cup {x}
    BY <1>1, <2>1, InsertAhead
  <2> QED
    BY <1>4, <2>2 DEF Ahead, c
<1>6. Hidden' \subseteq Hidden
  BY <1>3, <1>5 DEF Hidden
<1>7. \E x : Twice' \subseteq Twice \cup {x}
  BY <1>3, <1>5 DEF Twice
<1>8. Cardinality(Hidden') <= Cardinality(Hidden)
  BY <1>6, AheadTyped, Countable
<1>9. Cardinality(Twice') <= Cardinality(Twice) + 1
  BY <1>7, AheadTyped, Countable
<1>10. NoTwice(list)'
  BY <1>1, <1>2, InsertNoTwice DEF WalkInv
<1>11. Cardinality(Hidden) \in Nat /\ Cardinality(Twice) \in Nat
  BY AheadTyped, Countable
<1>12. Hidden' \subseteq Tasks /\ \A x \in Twice' : x \in seen \/ x \in repeated
  BY <1>3, <1>6, AheadTyped DEF Twice
<1>13. Cardinality(Hidden') \in Nat /\ Cardinality(Twice') \in Nat
  BY <1>12, Countable DEF TypeOK
<1>14. Cardinality(Hidden') <= left' /\ Cardinality(Twice') <= entered'
  BY <1>1, <1>3, <1>8, <1>9, <1>11, <1>13 DEF WalkInv
<1> QED
  BY <1>3, <1>10, <1>14 DEF WalkInv

\* What leaves lets the client see nothing twice, and may hide one task.
LEMMA LeaveWalks ==
    ASSUME TypeOK, WalkInv, Leave PROVE WalkInv'
<1> DEFINE c == offset(page, limit)
<1>1. /\ list \in Seq(Tasks) /\ c \in Nat /\ entered \in Nat /\ left \in Nat
  BY AheadTyped DEF TypeOK
<1>2. PICK i \in 1 .. Len(list) : list' = RemoveAt(list, i)
  BY <1>1, LenProperties DEF Leave
<1>3. /\ ~done /\ done' = done /\ left' = left + 1
      /\ UNCHANGED <<page, limit, first, seen, repeated, entered>>
  BY DEF Leave, query, history
<1>4. Ahead' = Beyond(RemoveAt(list, i), c)
  BY <1>2, <1>3 DEF Ahead, offset
<1> HIDE DEF c
<1>5. /\ Ahead' \subseteq Ahead
      /\ \E x : Ahead \subseteq Ahead' \cup {x}
  <2>1. /\ Beyond(RemoveAt(list, i), c) \subseteq Beyond(list, c)
        /\ \E x : Beyond(list, c) \subseteq Beyond(RemoveAt(list, i), c) \cup {x}
    BY <1>1, RemoveAhead
  <2> QED
    BY <1>4, <2>1 DEF Ahead, c
<1>6. \E x : Hidden' \subseteq Hidden \cup {x}
  BY <1>3, <1>5 DEF Hidden
<1>7. Twice' \subseteq Twice
  BY <1>3, <1>5 DEF Twice
<1>8. Cardinality(Hidden') <= Cardinality(Hidden) + 1
  BY <1>6, AheadTyped, Countable
<1>9. Cardinality(Twice') <= Cardinality(Twice)
  BY <1>7, AheadTyped, Countable
<1>10. NoTwice(list)'
  BY <1>1, <1>2, RemoveNoTwice DEF WalkInv
<1>11. Cardinality(Hidden) \in Nat /\ Cardinality(Twice) \in Nat
  BY AheadTyped, Countable
<1>12. Twice' \subseteq Tasks /\ Hidden' \subseteq first
  BY <1>3, <1>7, AheadTyped DEF Hidden
<1>13. Cardinality(Hidden') \in Nat /\ Cardinality(Twice') \in Nat
  BY <1>12, Countable DEF TypeOK
<1>14. Cardinality(Hidden') <= left' /\ Cardinality(Twice') <= entered'
  BY <1>1, <1>3, <1>8, <1>9, <1>11, <1>13 DEF WalkInv
<1> QED
  BY <1>3, <1>10, <1>14 DEF WalkInv

LEMMA StepWalks == TypeOK /\ WalkInv /\ [Next]_vars => WalkInv'
<1> SUFFICES ASSUME TypeOK, WalkInv, [Next]_vars PROVE WalkInv'
  OBVIOUS
<1>1. CASE CountTasks
  <2>1. ~done' /\ UNCHANGED <<list, page, limit, history, entered, left>>
    BY <1>1 DEF CountTasks
  <2>2. Hidden' = Hidden /\ Twice' = Twice
    BY <2>1 DEF Hidden, Twice, Ahead, history
  <2> QED
    BY <2>1, <2>2 DEF WalkInv
<1>2. CASE UNCHANGED vars
  <2>1. Hidden' = Hidden /\ Twice' = Twice /\ Ahead' = Ahead
    BY <1>2 DEF vars, query, history, Hidden, Twice, Ahead
  <2> QED
    BY <1>2, <2>1 DEF WalkInv, vars, query
<1> QED
  BY <1>1, <1>2, SelectWalks, EnterWalks, LeaveWalks DEF Next

LEMMA Walks == Spec => []WalkInv
  BY InitWalk, StepWalks, PagesTypeCorrect, PTL DEF Spec

\* A client that has walked through the list has seen every task that was in it
\* from the beginning to the end, but for one at most for each that left.
THEOREM LeavingHides == Spec => []OnlyLeavingHides
<1>1. TypeOK /\ WalkInv => OnlyLeavingHides
  <2> SUFFICES ASSUME TypeOK, WalkInv, done
               PROVE  Cardinality((first \cap ToSet(list)) \ seen) <= left
    BY DEF OnlyLeavingHides
  <2>1. Hidden = first \ seen
    BY DEF WalkInv, Hidden
  <2>2. (first \cap ToSet(list)) \ seen \subseteq Hidden
    BY <2>1
  <2>3. /\ Cardinality((first \cap ToSet(list)) \ seen) <= Cardinality(Hidden)
        /\ Cardinality((first \cap ToSet(list)) \ seen) \in Nat
        /\ Cardinality(Hidden) \in Nat
    BY <2>2, AheadTyped, Countable
  <2> QED
    BY <2>3 DEF WalkInv, TypeOK
<1> QED
  BY <1>1, Walks, PagesTypeCorrect, PTL

\* A task is shown twice only when another has entered, once for each at most.
THEOREM EnteringRepeats == Spec => []OnlyEnteringRepeats
<1>1. TypeOK /\ WalkInv => OnlyEnteringRepeats
  <2> SUFFICES ASSUME TypeOK, WalkInv PROVE OnlyEnteringRepeats
    OBVIOUS
  <2>1. repeated \subseteq Twice
    BY DEF Twice
  <2>2. /\ Cardinality(repeated) <= Cardinality(Twice)
        /\ Cardinality(repeated) \in Nat /\ Cardinality(Twice) \in Nat
    BY <2>1, AheadTyped, Countable
  <2> QED
    BY <2>2 DEF WalkInv, OnlyEnteringRepeats, TypeOK
<1> QED
  BY <1>1, Walks, PagesTypeCorrect, PTL
================================================================================
