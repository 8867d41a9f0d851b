-------------------------- MODULE TenantApiProofs ---------------------------
(***************************************************************************)
(* Theorems about TenantApi, for any tenants, users, roles, contacts,      *)
(* tags, tasks, accounts, rows and page sizes that the assumptions of its  *)
(* parts allow.                                                            *)
(*                                                                         *)
(* First the two parts that have no module of proofs of their own, Paging  *)
(* and ContactTags, then their composition with Rbac and ChatSend: a       *)
(* behaviour of the API is one of each part (PartsRunAlone), and so keeps  *)
(* what each part promises.                                                *)
(***************************************************************************)
EXTENDS TenantApi, RbacProofs, ChatSendProofs, FiniteSetTheorems, FunctionTheorems, TLAPS

-----------------------------------------------------------------------------
(***************************************************************************)
(* Lists read page by page.  A row that has not moved, ties with none and  *)
(* has not been seen yet has at least as many rows ahead of it as the      *)
(* pages so far have skipped: rows that come in ahead of it only make them *)
(* more, and a page that ends before the row is full.                      *)
(***************************************************************************)
RowsAhead(i) ==
  {j \in present : IF list = "history" THEN stamp[j] < stamp[i] ELSE stamp[i] < stamp[j]}

ReaderRecord ==
  [at : {"idle", "reading", "done"}, asked : Nat, page : Nat \ {0}, seen : SUBSET Rows]

PageTypes ==
  /\ list \in Lists /\ present \subseteq Rows /\ stamp \in [Rows -> 0 .. MaxStamp]
  /\ reader \in ReaderRecord
  /\ there \subseteq present
  /\ reader.at = "idle" => there = {}

TiesExcused == reader.at = "reading" => Tied(present, stamp) \subseteq excused

UnseenAhead ==
  reader.at = "reading" /\ calm =>
    \A i \in there \ (reader.seen \cup excused) : Offset <= Cardinality(RowsAhead(i))

PageInv == PageTypes /\ TiesExcused /\ UnseenAhead /\ PagesComplete

LEMMA PageNumbers ==
  ASSUME PageTypes
  PROVE  /\ Limit \in Nat /\ Offset \in Nat
         /\ reader.asked \in Nat /\ reader.page \in Nat \ {0} /\ reader.seen \subseteq Rows
         /\ IsFiniteSet(present) /\ Cardinality(present) \in Nat
         /\ \A i : IsFiniteSet(RowsAhead(i)) /\ Cardinality(RowsAhead(i)) \in Nat
<1>1. /\ reader.asked \in Nat /\ reader.page \in Nat \ {0} /\ reader.seen \subseteq Rows
  BY DEF PageTypes, ReaderRecord
<1>2. Limit \in Nat
  BY <1>1, PagingAssumption DEF Limit
<1>3. ASSUME NEW a \in Nat, NEW b \in Nat PROVE a * b \in Nat
  BY <1>3
<1>4. Offset \in Nat
  <2>1. reader.page - 1 \in Nat
    BY <1>1
  <2>2. QED
    BY <1>2, <1>3, <2>1 DEF Offset
<1>5. IsFiniteSet(present) /\ Cardinality(present) \in Nat
  BY PagingAssumption, FS_Subset, FS_CardinalityType DEF PageTypes
<1>6. ASSUME NEW i PROVE IsFiniteSet(RowsAhead(i)) /\ Cardinality(RowsAhead(i)) \in Nat
  <2>1. RowsAhead(i) \in SUBSET present
    BY DEF RowsAhead
  <2>2. QED
    BY <1>5, <2>1, FS_Subset, FS_CardinalityType
<1>7. QED
  BY <1>1, <1>2, <1>4, <1>5, <1>6

\* What a query may answer: every row once, in the order of the list.
Orders == IF list = "history" THEN OldestFirst ELSE LatestFirst

LEMMA ListingIsComplete ==
  ASSUME PageTypes, NEW s \in Listings
  PROVE  /\ s \in [1 .. Cardinality(present) -> present]
         /\ \A m, n \in 1 .. Cardinality(present) : s[m] = s[n] => m = n
         /\ \A i \in present : \E n \in 1 .. Cardinality(present) : s[n] = i
<1> DEFINE N == Cardinality(present)
<1>1. N \in Nat /\ IsFiniteSet(present)
  BY PageNumbers
<1>2. s \in [1 .. N -> present] /\ \A m, n \in 1 .. N : s[m] = s[n] => m = n
  BY DEF Listings
<1>3. s \in Injection(1 .. N, present)
  BY <1>2, Fun_IsInj
<1>4. Cardinality(1 .. N) = N
  BY <1>1, FS_Interval
<1>5. s \in Surjection(1 .. N, present)
  BY <1>1, <1>3, <1>4, FS_Injection
<1>6. QED
  BY <1>2, <1>5 DEF Surjection

\* The rows of a listing behind place a, up to place b: as many as the places.
Stretch(s, a, b) == {s[m] : m \in a + 1 .. b}

LEMMA StretchCounted ==
  ASSUME PageTypes, NEW s \in Listings,
         NEW a \in Nat, NEW b \in Nat, a <= b, b <= Cardinality(present)
  PROVE  /\ Cardinality(Stretch(s, a, b)) = b - a
         /\ Stretch(s, a, b) \subseteq present /\ IsFiniteSet(Stretch(s, a, b))
<1> DEFINE I == a + 1 .. b
           T == Stretch(s, a, b)
           f == [m \in I |-> s[m]]
<1>1. \A m \in I : m \in 1 .. Cardinality(present)
  BY PageNumbers
<1>2. \A m, n \in I : s[m] = s[n] => m = n
  BY <1>1, ListingIsComplete
<1>3. f \in [I -> T] /\ \A t \in T : \E m \in I : f[m] = t
  BY DEF Stretch
<1>4. f \in Injection(I, T) /\ f \in Surjection(I, T)
  <2>1. \A m, n \in I : f[m] = f[n] => m = n
    BY <1>2
  <2>2. QED
    BY <1>3, <2>1, Fun_IsInj, Fun_IsSurj
<1>5. ExistsBijection(I, T)
  BY <1>4 DEF ExistsBijection, Bijection
<1>6. IsFiniteSet(I) /\ Cardinality(I) = b - a
  <2>1. a + 1 \in Int /\ b \in Int
    OBVIOUS
  <2>2. IsFiniteSet(I) /\ Cardinality(I) = IF a + 1 > b THEN 0 ELSE b - (a + 1) + 1
    BY <2>1, FS_Interval
  <2>3. QED
    BY <2>2
<1>7. T \subseteq present
  <2>1. s \in [1 .. Cardinality(present) -> present]
    BY ListingIsComplete
  <2>2. QED
    BY <1>1, <2>1 DEF Stretch
<1>8. QED
  BY <1>5, <1>6, <1>7, FS_Bijection

\* A row has behind it in a listing no row that is ahead of it in the order,
\* and, if it ties with none, before it only such rows.
LEMMA PlaceInListing ==
  ASSUME PageTypes, NEW s \in Orders, NEW n \in 1 .. Cardinality(present)
  PROVE  /\ Cardinality(RowsAhead(s[n])) <= n - 1
         /\ s[n] \notin Tied(present, stamp) => Cardinality(RowsAhead(s[n])) = n - 1
<1> DEFINE N == Cardinality(present)
           B == Stretch(s, 0, n - 1)
<1>1. N \in Nat /\ n - 1 \in Nat /\ n - 1 <= N /\ n \in 1 .. N
  BY PageNumbers
<1>2. s \in Listings
  BY DEF Orders, OldestFirst, LatestFirst
<1>3. s \in [1 .. N -> present] /\ s[n] \in present
  BY <1>1, <1>2, ListingIsComplete
<1>4. Cardinality(B) = n - 1 /\ IsFiniteSet(B)
  BY <1>1, <1>2, StretchCounted
<1>5. \A i \in present : stamp[i] \in Nat
  BY DEF PageTypes
<1>6. \A m, k \in 1 .. N : m < k =>
        IF list = "history" THEN stamp[s[m]] <= stamp[s[k]] ELSE stamp[s[m]] >= stamp[s[k]]
  BY <1>3 DEF Orders, OldestFirst, LatestFirst
<1>7. RowsAhead(s[n]) \subseteq B
  <2>1. ASSUME NEW j \in RowsAhead(s[n]) PROVE j \in B
    <3>1. j \in present
      BY DEF RowsAhead
    <3>2. PICK m \in 1 .. N : s[m] = j
      BY <1>2, <3>1, ListingIsComplete
    <3>3. m < n
      <4>1. IF list = "history" THEN stamp[s[m]] < stamp[s[n]] ELSE stamp[s[n]] < stamp[s[m]]
        BY <3>2 DEF RowsAhead
      <4>2. m # n /\ ~(n < m)
        BY <1>1, <1>3, <1>5, <1>6, <4>1
      <4>3. QED
        BY <1>1, <4>2
    <3>4. m \in 0 + 1 .. n - 1
      BY <1>1, <3>3
    <3>5. QED
      BY <3>2, <3>4 DEF Stretch
  <2>2. QED
    BY <2>1
<1>8. Cardinality(RowsAhead(s[n])) <= n - 1
  BY <1>1, <1>4, <1>7, FS_Subset
<1>9. ASSUME s[n] \notin Tied(present, stamp) PROVE Cardinality(RowsAhead(s[n])) = n - 1
  <2>1. ASSUME NEW m \in 0 + 1 .. n - 1 PROVE s[m] \in RowsAhead(s[n])
    <3>1. m \in 1 .. N /\ m < n /\ s[m] \in present
      BY <1>1, <1>3
    <3>2. s[m] # s[n]
      BY <1>1, <1>2, <3>1, ListingIsComplete
    <3>3. stamp[s[m]] # stamp[s[n]]
      BY <1>3, <1>9, <3>1, <3>2 DEF Tied
    <3>4. QED
      BY <1>1, <1>3, <1>5, <1>6, <3>1, <3>3 DEF RowsAhead
  <2>2. RowsAhead(s[n]) = B
    BY <1>7, <2>1 DEF Stretch
  <2>3. QED
    BY <1>4, <2>2
<1>10. QED
  BY <1>8, <1>9

-----------------------------------------------------------------------------
LEMMA PageInit == ASSUME PInit PROVE PageInv
<1>1. PageTypes
  BY DEF PInit, PageTypes, IdleReader, ReaderRecord
<1>2. reader.at = "idle"
  BY DEF PInit, IdleReader
<1>3. QED
  BY <1>1, <1>2 DEF PageInv, TiesExcused, UnseenAhead, PagesComplete

\* A change of the rows leaves the reader alone, excuses the rows that moved or
\* tie now, and, while it is calm, keeps ahead of each row those that were.
LEMMA EditKinds ==
  ASSUME PageInv, Insert \/ Date \/ CleanUp
  PROVE  /\ Reading /\ UNCHANGED <<list, reader>>
         /\ PageTypes'
         /\ excused \cup Tied(present', stamp') \subseteq excused'
         /\ there' \subseteq there
         /\ calm' => /\ calm /\ present \subseteq present'
                     /\ \A i \in present \ excused' : stamp'[i] = stamp[i]
                     /\ \A j \in present :
                          \/ stamp'[j] = stamp[j]
                          \/ list # "history" /\ stamp'[j] >= stamp[j]
<1> USE DEF PageInv, PageTypes, Reading
<1>1. CASE Insert
  <2>1. PICK i \in Rows \ present, t \in 0 .. MaxStamp :
          present' = present \cup {i} /\ stamp' = [stamp EXCEPT ![i] = t]
    BY <1>1 DEF Insert
  <2>2. \A j \in present : stamp'[j] = stamp[j]
    BY <2>1
  <2>3. stamp' \in [Rows -> 0 .. MaxStamp] /\ present' \subseteq Rows /\ present \subseteq present'
    BY <2>1
  <2>4. Reading /\ UNCHANGED <<list, reader>> /\ there' = there \cap present' /\ (calm' => calm)
        /\ excused' = excused \cup Tied(present', stamp')
    <3>1. Reading /\ UNCHANGED <<list, reader>> /\ Note({}, TRUE)
      BY <1>1 DEF Insert, Edit
    <3>2. QED
      BY <3>1 DEF Note
  <2>5. QED
    BY <2>2, <2>3, <2>4
<1>2. CASE Date
  <2>1. PICK i \in present, t \in 1 .. MaxStamp :
          stamp' = [stamp EXCEPT ![i] = t] /\ present' = present /\ Note({i}, t >= stamp[i])
    BY <1>2 DEF Date
  <2>2. /\ excused' = excused \cup {i} \cup Tied(present', stamp') /\ there' = there \cap present'
        /\ calm' => (calm /\ t >= stamp[i])
    BY <2>1 DEF Note
  <2>3. \A j \in present : j # i => stamp'[j] = stamp[j]
    BY <2>1
  <2>4. stamp'[i] = t /\ stamp' \in [Rows -> 0 .. MaxStamp]
    BY <2>1
  <2>5. Reading /\ UNCHANGED <<list, reader>> /\ list = "conversations"
    BY <1>2 DEF Date, Edit
  <2>6. QED
    BY <2>1, <2>2, <2>3, <2>4, <2>5
<1>3. CASE CleanUp
  <2>1. PICK i \in present : present' = present \ {i} /\ stamp' = [stamp EXCEPT ![i] = 0]
    BY <1>3 DEF CleanUp
  <2>2. stamp' \in [Rows -> 0 .. MaxStamp] /\ present' \subseteq Rows
    BY <2>1, PagingAssumption
  <2>3. Reading /\ UNCHANGED <<list, reader>> /\ there' = there \cap present' /\ ~calm'
        /\ excused' = excused \cup Tied(present', stamp')
    BY <1>3 DEF CleanUp, Edit, Note
  <2>4. QED
    BY <2>2, <2>3
<1>4. QED
  BY <1>1, <1>2, <1>3

LEMMA EditKeeps == ASSUME PageInv, Insert \/ Date \/ CleanUp PROVE PageInv'
<1>1. PageTypes /\ PageTypes'
  BY EditKinds DEF PageInv
<1>2. TiesExcused' /\ PagesComplete'
  BY EditKinds DEF TiesExcused, PagesComplete, Reading
<1>3. Offset' = Offset
  BY EditKinds DEF Offset, Limit
<1>4. ASSUME calm', NEW i \in there' \ (reader'.seen \cup excused')
      PROVE  Offset' <= Cardinality(RowsAhead(i))'
  <2>1. i \in there /\ i \notin reader.seen \cup excused /\ calm /\ reader.at = "reading"
    BY <1>4, EditKinds DEF Reading
  <2>2. Offset <= Cardinality(RowsAhead(i))
    BY <2>1 DEF PageInv, UnseenAhead
  <2>3. i \in present /\ stamp'[i] = stamp[i]
    BY <1>1, <1>4, <2>1, EditKinds DEF PageTypes
  <2>4. \A j \in present : stamp[j] \in Nat /\ stamp'[j] \in Nat
    BY <1>1 DEF PageTypes
  <2>5. RowsAhead(i) \subseteq RowsAhead(i)'
    <3>1. ASSUME NEW j \in RowsAhead(i) PROVE j \in RowsAhead(i)'
      <4>1. j \in present /\ j \in present'
        BY <1>4, EditKinds DEF RowsAhead
      <4>2. stamp'[j] = stamp[j] \/ (list # "history" /\ stamp'[j] >= stamp[j])
        BY <1>4, <4>1, EditKinds
      <4>3. IF list = "history" THEN stamp'[j] < stamp'[i] ELSE stamp'[i] < stamp'[j]
        BY <2>3, <2>4, <4>1, <4>2 DEF RowsAhead
      <4>4. list' = list
        BY EditKinds
      <4>5. QED
        BY <4>1, <4>3, <4>4 DEF RowsAhead
    <3>2. QED
      BY <3>1
  <2>6. IsFiniteSet(RowsAhead(i)') /\ Cardinality(RowsAhead(i)') \in Nat
    <3>1. IsFiniteSet(present') /\ RowsAhead(i)' \in SUBSET present'
      BY <1>1, PagingAssumption, FS_Subset DEF PageTypes, RowsAhead
    <3>2. QED
      BY <3>1, FS_Subset, FS_CardinalityType
  <2>7. Cardinality(RowsAhead(i)) <= Cardinality(RowsAhead(i)') /\ Cardinality(RowsAhead(i)) \in Nat
    BY <1>1, <2>5, <2>6, FS_Subset, PageNumbers
  <2>8. QED
    BY <1>1, <1>3, <2>2, <2>6, <2>7, PageNumbers
<1>5. UnseenAhead'
  BY <1>4 DEF UnseenAhead
<1>6. QED
  BY <1>1, <1>2, <1>5 DEF PageInv

LEMMA BeginKeeps == ASSUME PageInv, StartReading PROVE PageInv'
<1>1. PICK n \in Asked : reader' = [IdleReader EXCEPT !.at = "reading", !.asked = n]
  BY DEF StartReading
<1>2. reader' = [at |-> "reading", asked |-> n, page |-> 1, seen |-> {}]
  BY <1>1 DEF IdleReader
<1>3. n \in Nat
  BY PagingAssumption
<1>4. UNCHANGED <<list, present, stamp>> /\ there' = present /\ excused' = Tied(present, stamp)
  BY DEF StartReading
<1>5. PageTypes'
  BY <1>2, <1>3, <1>4 DEF PageInv, PageTypes, ReaderRecord
<1>6. Offset' = 0
  <2>1. Limit' \in Nat
    BY <1>2, <1>3, PagingAssumption DEF Limit
  <2>2. Offset' = 0 * Limit'
    BY <1>2 DEF Offset
  <2>3. ASSUME NEW a \in Nat PROVE 0 * a = 0
    OBVIOUS
  <2>4. QED
    BY <2>1, <2>2, <2>3
<1>7. ASSUME NEW i PROVE 0 <= Cardinality(RowsAhead(i))'
  <2>1. IsFiniteSet(present') /\ RowsAhead(i)' \in SUBSET present'
    BY <1>5, PagingAssumption, FS_Subset DEF PageTypes, RowsAhead
  <2>2. Cardinality(RowsAhead(i)') \in Nat
    BY <2>1, FS_Subset, FS_CardinalityType
  <2>3. QED
    BY <2>2
<1>8. TiesExcused' /\ UnseenAhead' /\ PagesComplete'
  BY <1>2, <1>4, <1>6, <1>7 DEF TiesExcused, UnseenAhead, PagesComplete
<1>9. QED
  BY <1>5, <1>8 DEF PageInv

-----------------------------------------------------------------------------
LEMMA NextPageOffset ==
  ASSUME NEW p \in Nat \ {0}, NEW l \in Nat, NEW q, q = p + 1
  PROVE  (q - 1) * l = (p - 1) * l + l
<1>1. ASSUME NEW r \in Nat PROVE (r + 1) * l = r * l + l
  OBVIOUS
<1>2. p - 1 \in Nat /\ q - 1 = (p - 1) + 1
  OBVIOUS
<1>3. QED
  BY <1>1, <1>2

\* The page a query answers: a stretch of a listing, from the offset on.
LEMMA PageOfListing ==
  ASSUME PageTypes, NEW s \in Orders, NEW i \in present
  PROVE  LET rows == {s[n] : n \in {m \in DOMAIN s : Offset < m /\ m <= Offset + Limit}}
         IN  /\ rows \subseteq present
             /\ \/ i \in rows
                \/ i \in Tied(present, stamp)
                \/ Cardinality(RowsAhead(i)) < Offset
                \/ /\ Offset + Limit <= Cardinality(RowsAhead(i))
                   /\ Cardinality(rows) = Limit
<1> DEFINE N == Cardinality(present)
           rows == {s[n] : n \in {m \in DOMAIN s : Offset < m /\ m <= Offset + Limit}}
<1>1. N \in Nat /\ Offset \in Nat /\ Limit \in Nat
  BY PageNumbers
<1>2. s \in Listings
  BY DEF Orders, OldestFirst, LatestFirst
<1>3. s \in [1 .. N -> present] /\ \E n \in 1 .. N : s[n] = i
  BY <1>2, ListingIsComplete
<1>4. rows \subseteq present
  BY <1>3
<1>5. PICK n \in 1 .. N : s[n] = i
  BY <1>3
<1>6. SUFFICES ASSUME i \notin rows, i \notin Tied(present, stamp)
               PROVE  \/ Cardinality(RowsAhead(i)) < Offset
                      \/ /\ Offset + Limit <= Cardinality(RowsAhead(i))
                         /\ Cardinality(rows) = Limit
  BY <1>4
<1>7. Cardinality(RowsAhead(i)) = n - 1
  BY <1>5, <1>6, PlaceInListing
<1>8. ~(Offset < n /\ n <= Offset + Limit)
  BY <1>3, <1>5, <1>6
<1>9. CASE n <= Offset
  BY <1>1, <1>7, <1>9
<1>10. CASE Offset + Limit < n
  <2>1. rows = Stretch(s, Offset, Offset + Limit)
    <3>1. \A m : (m \in DOMAIN s /\ Offset < m /\ m <= Offset + Limit)
                   <=> m \in Offset + 1 .. Offset + Limit
      BY <1>1, <1>3, <1>10
    <3>2. QED
      BY <3>1 DEF Stretch
  <2>2. Offset + Limit \in Nat /\ Offset <= Offset + Limit /\ Offset + Limit <= N
    BY <1>1, <1>10
  <2>3. Cardinality(Stretch(s, Offset, Offset + Limit)) = Offset + Limit - Offset
    BY <1>1, <1>2, <2>2, StretchCounted
  <2>4. Cardinality(rows) = Limit
    <3>1. \A a, b \in Nat : a + b - a = b
      OBVIOUS
    <3>2. QED
      BY <1>1, <2>1, <2>3, <3>1
  <2>5. Offset + Limit <= Cardinality(RowsAhead(i))
    BY <1>1, <1>7, <1>10
  <2>6. QED
    BY <2>4, <2>5
<1>11. QED
  BY <1>1, <1>8, <1>9, <1>10

LEMMA PageReadKeeps ==
  ASSUME PageInv, Reading, NEW s \in Orders,
         Receive({s[n] : n \in {m \in DOMAIN s : Offset < m /\ m <= Offset + Limit}})
  PROVE  PageInv'
<1> DEFINE rows == {s[n] : n \in {m \in DOMAIN s : Offset < m /\ m <= Offset + Limit}}
<1>1. PageTypes /\ reader \in ReaderRecord
  BY DEF PageInv, PageTypes
<1>2. rows \subseteq present
  <2>1. s \in Listings
    BY DEF Orders, OldestFirst, LatestFirst
  <2>2. s \in [1 .. Cardinality(present) -> present]
    BY <1>1, <2>1, ListingIsComplete
  <2>3. QED
    BY <2>2
<1> HIDE DEF rows
<1>3. /\ reader' = [reader EXCEPT !.seen = @ \cup rows, !.page = @ + 1,
                       !.at = IF Cardinality(rows) < Limit THEN "done" ELSE "reading"]
      /\ UNCHANGED <<list, present, stamp, there, excused, calm>>
  BY DEF Receive, rows
<1>4. /\ reader'.asked = reader.asked /\ reader'.page = reader.page + 1
      /\ reader'.seen = reader.seen \cup rows
      /\ reader'.at = IF Cardinality(rows) < Limit THEN "done" ELSE "reading"
      /\ reader' \in ReaderRecord
  <2>1. rows \in SUBSET Rows
    BY <1>1, <1>2 DEF PageTypes
  <2>2. reader.page + 1 \in Nat \ {0}
    BY <1>1, PageNumbers
  <2> DEFINE a == IF Cardinality(rows) < Limit THEN "done" ELSE "reading"
  <2>3. a \in {"idle", "reading", "done"}
    OBVIOUS
  <2>4. reader' = [reader EXCEPT !.seen = @ \cup rows, !.page = reader.page + 1, !.at = a]
    BY <1>3
  <2> HIDE DEF a
  <2>5. /\ reader'.asked = reader.asked /\ reader'.page = reader.page + 1
        /\ reader'.seen = reader.seen \cup rows /\ reader'.at = a
        /\ reader' \in ReaderRecord
    <3>1. ASSUME NEW r, r = [reader EXCEPT !.seen = @ \cup rows, !.page = reader.page + 1, !.at = a]
          PROVE  /\ r.asked = reader.asked /\ r.page = reader.page + 1
                 /\ r.seen = reader.seen \cup rows /\ r.at = a
                 /\ r \in ReaderRecord
      <4>1. reader.seen \cup rows \in SUBSET Rows
        BY <1>1, <2>1 DEF ReaderRecord
      <4>2. QED
        BY <1>1, <2>2, <2>3, <3>1, <4>1, Zenon DEF ReaderRecord
    <3>2. QED
      BY <2>4, <3>1, Zenon
  <2>6. QED
    BY <2>5 DEF a
<1>5. PageTypes' /\ TiesExcused'
  BY <1>1, <1>3, <1>4 DEF PageInv, PageTypes, TiesExcused, Reading
<1>6. Limit' = Limit /\ Offset' = Offset + Limit
  <2>1. reader'.asked = reader.asked /\ reader'.page = reader.page + 1
    BY <1>4
  <2>2. Limit' = Limit
    BY <2>1 DEF Limit
  <2>3. Offset' = (reader'.page - 1) * Limit' /\ Offset = (reader.page - 1) * Limit
    BY Zenon DEF Offset
  <2>4. reader.page \in Nat \ {0} /\ Limit \in Nat
    BY <1>1, PageNumbers
  <2>5. (reader'.page - 1) * Limit = (reader.page - 1) * Limit + Limit
    BY <2>1, <2>4, NextPageOffset, Zenon
  <2>6. QED
    BY <2>2, <2>3, <2>5, Zenon
<1>7. ASSUME calm, NEW i \in there \ (reader'.seen \cup excused)
      PROVE  /\ reader'.at = "reading"
             /\ Offset' <= Cardinality(RowsAhead(i))'
  <2>1. i \in present /\ i \notin reader.seen /\ i \notin rows
    BY <1>1, <1>4, <1>7 DEF PageTypes
  <2>2. Offset <= Cardinality(RowsAhead(i)) /\ i \notin Tied(present, stamp)
    BY <1>7, <2>1 DEF PageInv, UnseenAhead, TiesExcused, Reading
  <2>3. Offset + Limit <= Cardinality(RowsAhead(i)) /\ Cardinality(rows) = Limit
    BY <1>1, <2>1, <2>2, PageOfListing, PageNumbers DEF rows
  <2>4. ~(Cardinality(rows) < Limit)
    BY <1>1, <2>3, PageNumbers
  <2>5. RowsAhead(i)' = RowsAhead(i)
    BY <1>3 DEF RowsAhead
  <2>6. QED
    BY <1>4, <1>6, <2>3, <2>4, <2>5
<1>8. UnseenAhead' /\ PagesComplete'
  BY <1>3, <1>4, <1>7 DEF UnseenAhead, PagesComplete
<1>9. QED
  BY <1>5, <1>8 DEF PageInv

LEMMA PageStep == ASSUME PageInv, [PNext]_pvars PROVE PageInv'
<1>1. CASE Insert \/ Date \/ CleanUp
  BY <1>1, EditKeeps
<1>2. CASE StartReading
  BY <1>2, BeginKeeps
<1>3. CASE ReadConversations
  <2>1. PICK p \in ListConversations : Receive(p)
    BY <1>3 DEF ReadConversations
  <2>2. PICK s \in LatestFirst :
          p = {s[n] : n \in {m \in DOMAIN s : Offset < m /\ m <= Offset + Limit}}
    BY <2>1 DEF ListConversations, Pages
  <2>3. s \in Orders /\ Reading
    BY <1>3 DEF ReadConversations, Orders
  <2>4. QED
    BY <2>1, <2>2, <2>3, PageReadKeeps
<1>4. CASE ReadHistory
  <2>1. PICK p \in GetMessagesByPhone : Receive(p)
    BY <1>4 DEF ReadHistory
  <2>2. PICK s \in OldestFirst :
          p = {s[n] : n \in {m \in DOMAIN s : Offset < m /\ m <= Offset + Limit}}
    BY <2>1 DEF GetMessagesByPhone, Pages
  <2>3. s \in Orders /\ Reading
    BY <1>4 DEF ReadHistory, Orders
  <2>4. QED
    BY <2>1, <2>2, <2>3, PageReadKeeps
<1>5. CASE ReadSearch
  <2>1. PICK p \in SearchMessages : Receive(p)
    BY <1>5 DEF ReadSearch
  <2>2. PICK s \in LatestFirst :
          p = {s[n] : n \in {m \in DOMAIN s : Offset < m /\ m <= Offset + Limit}}
    BY <2>1 DEF SearchMessages, Pages
  <2>3. s \in Orders /\ Reading
    BY <1>5 DEF ReadSearch, Orders
  <2>4. QED
    BY <2>1, <2>2, <2>3, PageReadKeeps
<1>6. CASE UNCHANGED pvars
  <2>1. UNCHANGED <<list, present, stamp, reader, there, excused, calm>>
    BY <1>6 DEF pvars
  <2>2. QED
    BY <2>1 DEF PageInv, PageTypes, TiesExcused, UnseenAhead, PagesComplete, Offset, Limit, RowsAhead
<1>7. QED
  BY <1>1, <1>2, <1>3, <1>4, <1>5, <1>6 DEF PNext

\* The numbers of rows ahead, with what they rest on, hold all the time.
THEOREM PagesInductive == PSpec => []PageInv
<1>1. PInit => PageInv
  BY PageInit
<1>2. PageInv /\ [PNext]_pvars => PageInv'
  BY PageStep
<1>3. QED
  BY <1>1, <1>2, PTL DEF PSpec

\* The lists, their rows and stamps, and what the reader has seen of them, are
\* what the queries of chat_use_cases.rs can hold and answer.
THEOREM PagingTypes == PSpec => []PTypeOK
<1>1. PageInv => PTypeOK
  BY DEF PageInv, PageTypes, ReaderRecord, PTypeOK
<1>2. QED
  BY <1>1, PagesInductive, PTL

\* list_conversations, get_messages_by_phone and search_messages, read page by
\* page with whatever per_page: a client that comes to a page that is not full
\* has seen every row that stayed where it was and shares its stamp with none.
THEOREM PagesAreComplete == PSpec => []PagesComplete
<1>1. PageInv => PagesComplete
  BY DEF PageInv
<1>2. QED
  BY <1>1, PagesInductive, PTL

-----------------------------------------------------------------------------
(***************************************************************************)
(* Contacts and tags.  Tags are never deleted, so that a tag a request has *)
(* found is there when it links it: that is RequestOK, which no step of    *)
(* another request disturbs (TagsGrow).  The rest of the invariant is      *)
(* about rows alone.                                                       *)
(***************************************************************************)
TagRow  == [tenant : CTenants, name : TagNames]
Column  == Owners \cup {NoOwner} \cup Values
Request ==
  [at : {"idle", "resolve", "create_tag", "check_link", "link", "detach_tag", "detach", "patch"},
   t : CTenants \cup {NoTag}, c : Contacts \cup {NoTag}, tag : TagIds \cup {0},
   name : TagNames \cup {NoTag}, given : SUBSET Columns, owner : Owners \cup {NoOwner},
   row : [Columns -> Column] \cup {NoTag}]

\* What a request knows of its contact and its tag.
OfOwnContact(k) == ctask[k].c \in Contacts /\ ctask[k].t = ContactTenant[ctask[k].c]

RequestOK(k) ==
  /\ ctask[k].at \in {"resolve", "detach_tag"} => OfOwnContact(k)
  /\ ctask[k].at = "create_tag" =>
       /\ ctask[k].t \in CTenants /\ ctask[k].name \in TagNames
       /\ ctask[k].c # NoTag => OfOwnContact(k)
  /\ ctask[k].at \in {"check_link", "link", "detach"} =>
       /\ ctask[k].c \in Contacts /\ ctask[k].tag \in TagIds
       /\ OwnTag(ContactTenant[ctask[k].c], ctask[k].tag)
  /\ ctask[k].at = "patch" =>
       /\ ctask[k].c \in Contacts /\ ctask[k].owner \in Owners
       /\ "owner" \in ctask[k].given => OwnerTenant[ctask[k].owner] = ContactTenant[ctask[k].c]

RequestsInv == ctask \in [CTasks -> Request] /\ \A k \in CTasks : RequestOK(k)

TagsInv ==
  /\ tags \in [TagIds -> TagRow \cup {NoTag}]
  /\ \A i, j \in TagIds : tags[i] = tags[j] => i = j \/ tags[i] = NoTag

LinksInv ==
  /\ links \subseteq Contacts \X TagIds /\ promised \subseteq links
  /\ \A l \in links : OwnTag(ContactTenant[l[1]], l[2])

ContactsInv ==
  /\ contact \in [Contacts -> [Columns -> Column]] /\ contact = last
  /\ \A c \in Contacts, f \in Columns : contact[c][f] \in ColumnType(f)
  /\ \A c \in Contacts : contact[c]["owner"] # NoOwner =>
       OwnerTenant[contact[c]["owner"]] = ContactTenant[c]

CInv == RequestsInv /\ TagsInv /\ LinksInv /\ ContactsInv

-----------------------------------------------------------------------------
USE TagAssumption

LEMMA IdleRequestType == IdleRequest \in Request
BY DEF IdleRequest, Request

\* No step takes a tag away.
TagsGrow == \A i \in TagIds : tags[i] # NoTag => tags'[i] = tags[i]

\* A step that replaces the locals of k by good ones, and takes no tag away,
\* leaves those of the others good.
LEMMA ReplaceRequest ==
  ASSUME CInv, TagsGrow, NEW k \in CTasks, NEW r \in Request,
         ctask' = [ctask EXCEPT ![k] = r], RequestOK(k)'
  PROVE  RequestsInv'
<1>1. ctask' \in [CTasks -> Request]
  BY DEF CInv, RequestsInv
<1>2. ASSUME NEW j \in CTasks, j # k PROVE RequestOK(j)'
  <2>1. ctask'[j] = ctask[j]
    BY <1>2 DEF CInv, RequestsInv
  <2>2. RequestOK(j)
    BY DEF CInv, RequestsInv
  <2>3. QED
    BY <2>1, <2>2 DEF RequestOK, OfOwnContact, OwnTag, TagsGrow
<1>3. QED
  BY <1>1, <1>2 DEF RequestsInv

\* A request that ends.
LEMMA DoneRequest ==
  ASSUME CInv, TagsGrow, NEW k \in CTasks, CDone(k)
  PROVE  RequestsInv'
<1>1. ctask' = [ctask EXCEPT ![k] = IdleRequest]
  BY DEF CDone, CBecomes
<1>2. ctask'[k] = IdleRequest
  BY <1>1 DEF CInv, RequestsInv
<1>3. RequestOK(k)'
  BY <1>2 DEF RequestOK, IdleRequest
<1>4. QED
  BY <1>1, <1>3, IdleRequestType, ReplaceRequest

\* Steps that write no row.
Looks(k) ==
  \/ AttachTag(k) \/ DetachTag(k) \/ ResolveTag(k) \/ ResolveRefused(k) \/ NewTag(k)
  \/ CreateTagConflict(k) \/ LinkMissing(k) \/ LinkConflict(k) \/ FindTag(k)
  \/ FindTagRefused(k) \/ PatchContact(k) \/ CAbort(k)

LEMMA OfContactKeeps ==
  ASSUME CInv, NEW k \in CTasks, NEW c \in Contacts, NEW p \in {"resolve", "detach_tag"},
         OfContact(k, c, p), UNCHANGED tags
  PROVE  RequestsInv'
<1> DEFINE r == [IdleRequest EXCEPT !.at = p, !.t = ContactTenant[c], !.c = c]
<1>1. ctask' = [ctask EXCEPT ![k] = r]
  BY DEF OfContact, CBecomes
<1>2. r \in Request
  BY DEF IdleRequest, Request, CTenants
<1>3. r.at = p /\ r.t = ContactTenant[c] /\ r.c = c
  BY DEF IdleRequest
<1> HIDE DEF r
<1>4. ctask'[k] = r
  BY <1>1 DEF CInv, RequestsInv
<1>5. RequestOK(k)'
  BY <1>3, <1>4 DEF RequestOK, OfOwnContact
<1>6. QED
  BY <1>1, <1>2, <1>5, ReplaceRequest DEF TagsGrow

LEMMA LooksKeepTasks ==
  ASSUME CInv, NEW k \in CTasks, Looks(k)
  PROVE  RequestsInv'
<1> USE DEF tagTables
<1>0. TagsGrow
  BY DEF Looks, TagsGrow, AttachTag, DetachTag, ResolveTag, ResolveRefused, NewTag,
         CreateTagConflict, LinkMissing, LinkConflict, FindTag, FindTagRefused,
         PatchContact, CAbort
<1>a. ctask[k] \in Request /\ RequestOK(k)
  BY DEF CInv, RequestsInv
<1>1. CASE AttachTag(k)
  BY <1>1, OfContactKeeps DEF AttachTag
<1>2. CASE DetachTag(k)
  BY <1>2, OfContactKeeps DEF DetachTag
<1>3. CASE ResolveTag(k)
  <2>1. OfOwnContact(k)
    BY <1>a, <1>3 DEF ResolveTag, RequestOK, CAt
  <2>2. CASE \E i \in TagIds :
               /\ OwnTag(ctask[k].t, i)
               /\ CBecomes(k, [ctask[k] EXCEPT !.at = "check_link", !.tag = i])
    <3>1. PICK i \in TagIds :
               /\ OwnTag(ctask[k].t, i)
               /\ CBecomes(k, [ctask[k] EXCEPT !.at = "check_link", !.tag = i])
      BY <2>2
    <3> DEFINE r == [ctask[k] EXCEPT !.at = "check_link", !.tag = i]
    <3>2. ctask' = [ctask EXCEPT ![k] = r]
      BY <3>1 DEF CBecomes
    <3>3. r \in Request /\ r.at = "check_link" /\ r.tag = i /\ r.c = ctask[k].c
      BY <1>a DEF Request
    <3> HIDE DEF r
    <3>4. ctask'[k] = r
      BY <3>2 DEF CInv, RequestsInv
    <3>5. tags'[i] # NoTag /\ tags'[i].tenant = ContactTenant[ctask[k].c]
      BY <3>1, <3>3, <2>1, <1>3 DEF OfOwnContact, OwnTag, ResolveTag
    <3>6. RequestOK(k)'
      BY <3>3, <3>4, <3>5, <2>1 DEF RequestOK, OfOwnContact, OwnTag
    <3>7. QED
      BY <1>0, <3>2, <3>3, <3>6, ReplaceRequest
  <2>3. CASE \E name \in TagNames :
               CBecomes(k, [ctask[k] EXCEPT !.at = "create_tag", !.name = name])
    <3>1. PICK name \in TagNames :
               CBecomes(k, [ctask[k] EXCEPT !.at = "create_tag", !.name = name])
      BY <2>3
    <3> DEFINE r == [ctask[k] EXCEPT !.at = "create_tag", !.name = name]
    <3>2. ctask' = [ctask EXCEPT ![k] = r]
      BY <3>1 DEF CBecomes
    <3>3. /\ r \in Request /\ r.at = "create_tag" /\ r.name = name
          /\ r.c = ctask[k].c /\ r.t = ctask[k].t
      BY <1>a DEF Request
    <3> HIDE DEF r
    <3>4. ctask'[k] = r
      BY <3>2 DEF CInv, RequestsInv
    <3>5. RequestOK(k)'
      BY <3>3, <3>4, <2>1 DEF RequestOK, OfOwnContact, CTenants
    <3>6. QED
      BY <1>0, <3>2, <3>3, <3>5, ReplaceRequest
  <2>4. QED
    BY <1>3, <2>2, <2>3 DEF ResolveTag
<1>4. CASE NewTag(k)
  <2>1. PICK t \in CTenants, name \in TagNames :
          CBecomes(k, [IdleRequest EXCEPT !.at = "create_tag", !.t = t, !.name = name])
    BY <1>4 DEF NewTag
  <2> DEFINE r == [IdleRequest EXCEPT !.at = "create_tag", !.t = t, !.name = name]
  <2>2. ctask' = [ctask EXCEPT ![k] = r]
    BY <2>1 DEF CBecomes
  <2>3. r \in Request /\ r.at = "create_tag" /\ r.t = t /\ r.name = name /\ r.c = NoTag
    BY DEF IdleRequest, Request
  <2> HIDE DEF r
  <2>4. ctask'[k] = r
    BY <2>2 DEF CInv, RequestsInv
  <2>5. RequestOK(k)'
    BY <2>3, <2>4 DEF RequestOK
  <2>6. QED
    BY <1>0, <2>2, <2>3, <2>5, ReplaceRequest
<1>5. CASE LinkMissing(k)
  <2> DEFINE r == [ctask[k] EXCEPT !.at = "link"]
  <2>1. ctask' = [ctask EXCEPT ![k] = r]
    BY <1>5 DEF LinkMissing, CBecomes
  <2>2. r \in Request /\ r.at = "link" /\ r.c = ctask[k].c /\ r.tag = ctask[k].tag
    BY <1>a DEF Request
  <2> HIDE DEF r
  <2>3. ctask'[k] = r
    BY <2>1 DEF CInv, RequestsInv
  <2>4. RequestOK(k)'
    BY <1>a, <1>5, <2>2, <2>3 DEF RequestOK, LinkMissing, CAt, OwnTag
  <2>5. QED
    BY <1>0, <2>1, <2>2, <2>4, ReplaceRequest
<1>6. CASE FindTag(k)
  <2>1. PICK i \in TagIds :
          /\ OwnTag(ctask[k].t, i)
          /\ CBecomes(k, [ctask[k] EXCEPT !.at = "detach", !.tag = i])
    BY <1>6 DEF FindTag
  <2> DEFINE r == [ctask[k] EXCEPT !.at = "detach", !.tag = i]
  <2>2. ctask' = [ctask EXCEPT ![k] = r]
    BY <2>1 DEF CBecomes
  <2>3. r \in Request /\ r.at = "detach" /\ r.tag = i /\ r.c = ctask[k].c
    BY <1>a DEF Request
  <2> HIDE DEF r
  <2>4. ctask'[k] = r
    BY <2>2 DEF CInv, RequestsInv
  <2>5. OfOwnContact(k)
    BY <1>a, <1>6 DEF FindTag, RequestOK, CAt
  <2>6. RequestOK(k)'
    BY <1>6, <2>1, <2>3, <2>4, <2>5 DEF RequestOK, OfOwnContact, OwnTag, FindTag
  <2>7. QED
    BY <1>0, <2>2, <2>3, <2>6, ReplaceRequest
<1>7. CASE PatchContact(k)
  <2>1. PICK c \in Contacts, given \in SUBSET Columns, u \in Owners :
          /\ "owner" \in given => OwnerTenant[u] = ContactTenant[c]
          /\ CBecomes(k, [IdleRequest EXCEPT !.at = "patch", !.t = ContactTenant[c],
                             !.c = c, !.given = given, !.owner = u, !.row = contact[c]])
    BY <1>7 DEF PatchContact
  <2> DEFINE r == [IdleRequest EXCEPT !.at = "patch", !.t = ContactTenant[c],
                     !.c = c, !.given = given, !.owner = u, !.row = contact[c]]
  <2>2. ctask' = [ctask EXCEPT ![k] = r]
    BY <2>1 DEF CBecomes
  <2>3. r \in Request /\ r.at = "patch" /\ r.c = c /\ r.given = given /\ r.owner = u
    BY DEF IdleRequest, Request, CTenants, CInv, ContactsInv
  <2> HIDE DEF r
  <2>4. ctask'[k] = r
    BY <2>2 DEF CInv, RequestsInv
  <2>5. RequestOK(k)'
    BY <2>1, <2>3, <2>4 DEF RequestOK
  <2>6. QED
    BY <1>0, <2>2, <2>3, <2>5, ReplaceRequest
<1>8. CASE \/ ResolveRefused(k) \/ CreateTagConflict(k) \/ LinkConflict(k)
           \/ FindTagRefused(k) \/ CAbort(k)
  <2>1. CDone(k)
    BY <1>8 DEF ResolveRefused, CreateTagConflict, LinkConflict, FindTagRefused, CAbort
  <2>2. QED
    BY <1>0, <2>1, DoneRequest
<1>9. QED
  BY <1>1, <1>2, <1>3, <1>4, <1>5, <1>6, <1>7, <1>8 DEF Looks

LEMMA LooksKeepRows ==
  ASSUME CInv, NEW k \in CTasks, Looks(k)
  PROVE  TagsInv' /\ LinksInv' /\ ContactsInv'
<1>1. UNCHANGED <<tags, links, contact, promised, last>>
  BY DEF Looks, tagTables, AttachTag, DetachTag, ResolveTag, ResolveRefused, NewTag,
         CreateTagConflict, LinkMissing, LinkConflict, FindTag, FindTagRefused,
         PatchContact, CAbort
<1>2. QED
  BY <1>1 DEF CInv, TagsInv, LinksInv, ContactsInv, OwnTag

-----------------------------------------------------------------------------
(* The steps that write rows.                                              *)

LEMMA CreateTagKeeps ==
  ASSUME CInv, NEW k \in CTasks, CreateTag(k)
  PROVE  CInv'
<1> DEFINE row == [tenant |-> ctask[k].t, name |-> ctask[k].name]
<1>a. ctask[k] \in Request /\ RequestOK(k)
  BY DEF CInv, RequestsInv
<1>b. /\ ctask[k].at = "create_tag" /\ ctask[k].t \in CTenants /\ ctask[k].name \in TagNames
      /\ ctask[k].c # NoTag => OfOwnContact(k)
  BY <1>a DEF CreateTag, CAt, RequestOK
<1>c. PICK i \in TagIds :
        /\ NextTag(i)
        /\ tags' = [tags EXCEPT ![i] = row]
        /\ IF ctask[k].c = NoTag THEN CDone(k)
           ELSE CBecomes(k, [ctask[k] EXCEPT !.at = "check_link", !.tag = i])
  BY DEF CreateTag
<1>d. row \in TagRow /\ row # NoTag /\ row.tenant = ctask[k].t
  BY <1>b DEF TagRow
<1>e. \A j \in TagIds : tags[j] # row
  BY <1>d DEF CreateTag, TagOf
<1> HIDE DEF row
<1>f. tags \in [TagIds -> TagRow \cup {NoTag}] /\ tags[i] = NoTag
  BY <1>c DEF CInv, TagsInv, NextTag
<1>g. tags'[i] = row /\ \A j \in TagIds \ {i} : tags'[j] = tags[j]
  BY <1>c, <1>f
<1>0. TagsGrow
  BY <1>f, <1>g DEF TagsGrow
<1>1. TagsInv'
  <2>1. tags' \in [TagIds -> TagRow \cup {NoTag}]
    BY <1>c, <1>d, <1>f
  <2>2. ASSUME NEW j \in TagIds, NEW l \in TagIds, tags'[j] = tags'[l] PROVE j = l \/ tags'[j] = NoTag
    BY <1>e, <1>g, <2>2 DEF CInv, TagsInv
  <2>3. QED
    BY <2>1, <2>2 DEF TagsInv
<1>2. LinksInv'
  BY <1>0 DEF CInv, LinksInv, OwnTag, TagsGrow, CreateTag
<1>3. ContactsInv'
  BY DEF CInv, ContactsInv, CreateTag
<1>4. RequestsInv'
  <2>1. CASE ctask[k].c = NoTag
    BY <1>0, <1>c, <2>1, DoneRequest
  <2>2. CASE ctask[k].c # NoTag
    <3> DEFINE r == [ctask[k] EXCEPT !.at = "check_link", !.tag = i]
    <3>1. ctask' = [ctask EXCEPT ![k] = r]
      BY <1>c, <2>2 DEF CBecomes
    <3>2. r \in Request /\ r.at = "check_link" /\ r.tag = i /\ r.c = ctask[k].c
      BY <1>a DEF Request
    <3> HIDE DEF r
    <3>3. ctask'[k] = r
      BY <3>1 DEF CInv, RequestsInv
    <3>4. tags'[i] # NoTag /\ tags'[i].tenant = ContactTenant[ctask[k].c]
      BY <1>b, <1>d, <1>g, <2>2, <3>2 DEF OfOwnContact, OwnTag
    <3>5. RequestOK(k)'
      BY <1>b, <2>2, <3>2, <3>3, <3>4 DEF RequestOK, OfOwnContact, OwnTag
    <3>6. QED
      BY <1>0, <3>1, <3>2, <3>5, ReplaceRequest
  <2>3. QED
    BY <2>1, <2>2
<1>5. QED
  BY <1>1, <1>2, <1>3, <1>4 DEF CInv

LEMMA LinksKeep ==
  ASSUME CInv, NEW k \in CTasks,
         LinkThere(k) \/ Link(k) \/ LinkAnswerLost(k) \/ Detach(k)
  PROVE  CInv'
<1>a. RequestOK(k)
  BY DEF CInv, RequestsInv
<1>b. /\ ctask[k].c \in Contacts /\ ctask[k].tag \in TagIds
      /\ OwnTag(ContactTenant[ctask[k].c], ctask[k].tag)
  BY <1>a DEF LinkThere, Link, LinkAnswerLost, Detach, CAt, RequestOK
<1>0. UNCHANGED <<tags, contact, last>> /\ CDone(k)
  BY DEF LinkThere, Link, LinkAnswerLost, Detach, tagTables
<1>1. TagsInv' /\ ContactsInv'
  BY <1>0 DEF CInv, TagsInv, ContactsInv
<1>2. RequestsInv'
  BY <1>0, DoneRequest DEF TagsGrow
<1>3. LinksInv'
  <2>1. LinkOf(k) = <<ctask[k].c, ctask[k].tag>>
    BY DEF LinkOf
  <2>2. CASE LinkThere(k) \/ Link(k) \/ LinkAnswerLost(k)
    <3>1. links' \subseteq links \cup {LinkOf(k)} /\ promised' \subseteq links'
      BY <2>2 DEF LinkThere, Link, LinkAnswerLost, tagTables, CInv, LinksInv
    <3>2. QED
      BY <1>0, <1>b, <2>1, <3>1 DEF CInv, LinksInv, OwnTag
  <2>3. CASE Detach(k)
    <3>1. links' = links \ Detached(k) /\ promised' = promised \ {LinkOf(k)}
      BY <2>3 DEF Detach
    <3>2. promised' \subseteq links'
      BY <2>1, <3>1 DEF CInv, LinksInv, Detached
    <3>3. QED
      BY <1>0, <3>1, <3>2 DEF CInv, LinksInv, OwnTag
  <2>4. QED
    BY <2>2, <2>3
<1>4. QED
  BY <1>1, <1>2, <1>3 DEF CInv

LEMMA UpdateKeeps ==
  ASSUME CInv, NEW k \in CTasks, Update(k)
  PROVE  CInv'
<1> DEFINE c == ctask[k].c
           new == [f \in Columns |-> IF f \in ctask[k].given THEN Given(k, f) ELSE contact[c][f]]
<1>a. ctask[k] \in Request /\ RequestOK(k)
  BY DEF CInv, RequestsInv
<1>b. /\ c \in Contacts /\ ctask[k].owner \in Owners
      /\ "owner" \in ctask[k].given => OwnerTenant[ctask[k].owner] = ContactTenant[c]
  BY <1>a DEF Update, CAt, RequestOK
<1>c. contact \in [Contacts -> [Columns -> Column]] /\ contact = last
  BY DEF CInv, ContactsInv
<1>1. contact' = [contact EXCEPT ![c] = new] /\ last' = [last EXCEPT ![c] = new]
  BY <1>c, <1>b DEF Update, SetGiven
<1>2. \A f \in Columns : new[f] \in ColumnType(f)
  BY <1>b DEF CInv, ContactsInv, ColumnType, Given, Values
<1>3. new["owner"] # NoOwner => OwnerTenant[new["owner"]] = ContactTenant[c]
  BY <1>b DEF CInv, ContactsInv, Given, Columns
<1>4. new \in [Columns -> Column]
  BY <1>2 DEF ColumnType, Column
<1> HIDE DEF new, c
<1>5. ContactsInv'
  <2>1. contact' \in [Contacts -> [Columns -> Column]] /\ contact' = last'
    BY <1>1, <1>4, <1>c
  <2>2. contact'[c] = new /\ \A d \in Contacts \ {c} : contact'[d] = contact[d]
    BY <1>1, <1>b, <1>c
  <2>3. QED
    BY <1>2, <1>3, <2>1, <2>2 DEF CInv, ContactsInv
<1>6. TagsInv' /\ LinksInv'
  BY DEF Update, CInv, TagsInv, LinksInv, OwnTag
<1>7. RequestsInv'
  BY DoneRequest DEF Update, TagsGrow
<1>8. QED
  BY <1>5, <1>6, <1>7 DEF CInv

-----------------------------------------------------------------------------
LEMMA CInitInv == CInit => CInv
<1> SUFFICES ASSUME CInit PROVE CInv
  OBVIOUS
<1> USE DEF CInit
<1>1. RequestsInv
  BY IdleRequestType DEF RequestsInv, RequestOK, IdleRequest
<1>2. TagsInv /\ LinksInv
  BY DEF TagsInv, LinksInv
<1>3. ContactsInv
  BY DEF ContactsInv, Column, ColumnType, Values, Columns
<1>4. QED
  BY <1>1, <1>2, <1>3 DEF CInv

LEMMA CNextInv == CInv /\ [CNext]_cvars => CInv'
<1> SUFFICES ASSUME CInv, [CNext]_cvars PROVE CInv'
  OBVIOUS
<1>1. CASE UNCHANGED cvars
  BY <1>1 DEF cvars, tagTables, CInv, RequestsInv, RequestOK, OfOwnContact, TagsInv, LinksInv,
              ContactsInv, OwnTag
<1>2. ASSUME NEW k \in CTasks, CStep(k) PROVE CInv'
  <2>1. CASE Looks(k)
    BY <2>1, LooksKeepTasks, LooksKeepRows DEF CInv
  <2>2. CASE CreateTag(k)
    BY <2>2, CreateTagKeeps
  <2>3. CASE LinkThere(k) \/ Link(k) \/ LinkAnswerLost(k) \/ Detach(k)
    BY <2>3, LinksKeep
  <2>4. CASE Update(k)
    BY <2>4, UpdateKeeps
  <2>5. QED
    BY <1>2, <2>1, <2>2, <2>3, <2>4 DEF CStep, Looks
<1>3. QED
  BY <1>1, <1>2 DEF CNext

\* CInv is an inductive invariant of the requests about contacts and tags.
THEOREM TagsInductive == CSpec => []CInv
<1>1. QED
  BY CInitInv, CNextInv, PTL DEF CSpec

\* Rows and requests of contacts.rs keep their types, a tenant has a tag of a
\* name once, a link joins a contact and a tag of one tenant, and the tag a
\* request has found stays there, its contact's tenant's, until it is linked or
\* taken off.
THEOREM TagsTypeCorrect == CSpec => []CTypeOK
<1>1. CInv => CTypeOK
  BY DEF CInv, RequestsInv, RequestOK, Request, TagsInv, TagRow, LinksInv, ContactsInv,
         CTypeOK, LinksOfOneTenant
<1>2. QED
  BY <1>1, TagsInductive, PTL

\* A contact keeps the tags its users were told it has, until they take them
\* off, and has none of another tenant: for any number of requests.
THEOREM TagsAreKept == CSpec => []TagsKept
<1>1. CInv => TagsKept
  BY DEF CInv, LinksInv, TagsKept, LinksOfOneTenant
<1>2. QED
  BY <1>1, TagsInductive, PTL

\* Concurrent changes of a contact undo nothing of each other, and give it no
\* owner of another tenant.
THEOREM PatchesAreKept == CSpec => []PatchesKept
<1>1. CInv => PatchesKept
  BY DEF CInv, ContactsInv, PatchesKept
<1>2. QED
  BY <1>1, TagsInductive, PTL

-----------------------------------------------------------------------------
(***************************************************************************)
(* The composition.                                                        *)
(***************************************************************************)
LEMMA ApiInitOfParts == ASSUME ApiInit PROVE RInit /\ CInit /\ SInit /\ PInit
BY DEF ApiInit

LEMMA ApiStepOfParts ==
  ASSUME [ApiNext]_apivars
  PROVE  [RNext]_rvars /\ [CNext]_cvars /\ [SNext]_svars /\ [PNext]_pvars
<1>1. CASE part = "admin" /\ RNext /\ UNCHANGED <<cvars, svars, pvars>>
  BY <1>1
<1>2. CASE part = "contacts" /\ CNext /\ UNCHANGED <<rvars, svars, pvars>>
  BY <1>2
<1>3. CASE part = "sending" /\ SNext /\ UNCHANGED <<rvars, cvars, pvars>>
  BY <1>3
<1>4. CASE part = "reading" /\ PNext /\ UNCHANGED <<rvars, cvars, svars>>
  BY <1>4
<1>5. CASE UNCHANGED apivars
  BY <1>5 DEF apivars
<1>6. QED
  BY <1>1, <1>2, <1>3, <1>4, <1>5 DEF ApiNext

\* The composition is put together so that each part moves as its own module
\* says and the others stand still; this only carries the invariants over.
LEMMA PartsRunAlone == ApiSpec => RSpec /\ CSpec /\ SSpec /\ PSpec
<1>1. ApiInit => RInit /\ CInit /\ SInit /\ PInit
  BY ApiInitOfParts
<1>2. [ApiNext]_apivars => [RNext]_rvars /\ [CNext]_cvars /\ [SNext]_svars /\ [PNext]_pvars
  BY ApiStepOfParts
<1>3. QED
  BY <1>1, <1>2, PTL DEF ApiSpec, RSpec, CSpec, SSpec, PSpec

\* The tables of the API keep the types of their columns; names of roles and of
\* tags stay unique in a tenant, and phone number ids everywhere; and neither a
\* link, nor a request about to write, refers to a user, a role, a tag or a
\* message that is not there.
THEOREM ApiTypesCorrect == ApiSpec => []ApiTypeOK
<1>1. RTypeOK /\ CTypeOK /\ STypeOK /\ PTypeOK => ApiTypeOK
  BY DEF ApiTypeOK
<1>2. QED
  BY <1>1, PartsRunAlone, RbacTypesCorrect, TagsTypeCorrect, SendTypesCorrect, PagingTypes, PTL

\* What the four parts promise holds of the API as a whole: roles and their
\* permissions, contacts and their tags, messages and their jobs, and lists.
THEOREM ApiKeepsItsPromises ==
  ApiSpec => /\ []RolesStayInTenant /\ []PermissionsAsAsked /\ []SystemRolesIntact
             /\ TenantIsolation
             /\ []TagsKept /\ []PatchesKept
             /\ []JobIsWhole /\ []AnswersTrue
             /\ []PagesComplete
BY PartsRunAlone, RolesAreOfTenant, CodesAreAsAsked, SystemRolesStay, TenantsAreIsolated,
   TagsAreKept, PatchesAreKept, JobsAreWhole, AnswersAreTrue, PagesAreComplete, PTL

=============================================================================
