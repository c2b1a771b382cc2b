-------------------------- MODULE ListPagingProofs --------------------------
(* Theorems about ListPaging for every value of its constants. *)
EXTENDS ListPaging, FiniteSetTheorems, SequenceTheorems, TLAPS

Most == Cardinality(ProxyId)

\* A page read at offset o has a steady proxy only at its place in the list ...
Sound(o, page) ==
    /\ Len(page) <= Limit
    /\ \A k \in DOMAIN page : page[k] \in steady =>
          o + k \in DOMAIN rows /\ rows[o + k] = page[k]

\* ... and misses none whose place is in its window.
Full(o, page) ==
    \A i \in DOMAIN rows : rows[i] \in steady /\ o < i /\ i <= o + Limit =>
        i - o \in DOMAIN page /\ page[i - o] = rows[i]

Reached(o) == o < reader.offset \/ (reader.pc = "done" /\ o = reader.offset)

Reader == [pc : {"count", "page", "answered", "done"}, offset : Offsets,
           total : 0..Most, items : Seq(ProxyId)]

WalkTyped ==
    /\ rows \in Lists
    /\ reader \in Reader
    /\ shown \in [Offsets -> Seq(ProxyId)]
    /\ steady \subseteq Listed(rows)

\* The invariant of a walk without a text query.  The last conjunct says that
\* the pages before the one in hand leave no place out.
WalkInv ==
    /\ WalkTyped
    /\ \A o \in Offsets : Sound(o, shown[o])
    /\ \A o \in Offsets : Reached(o) => Full(o, shown[o])
    /\ reader.pc = "answered" => Sound(reader.offset, reader.items) /\ Full(reader.offset, reader.items)
    /\ reader.pc \in {"page", "answered"} =>
          \A i \in DOMAIN rows : rows[i] \in steady => i <= reader.total
    /\ reader.pc = "done" =>
          \A i \in DOMAIN rows : rows[i] \in steady => i <= reader.offset + Limit
    /\ \A i \in 1..reader.offset : \E o \in Offsets :
          o < reader.offset /\ o < i /\ i <= o + Limit

-----------------------------------------------------------------------------
(* Lists and offsets *)

LEMMA MostNat == Most \in Nat /\ Limit \in Nat /\ Limit > 0
  BY PagingAssumption, FS_CardinalityType DEF Most

\* A list has no more rows than there are proxies, and no row twice.
LEMMA ListShape ==
    ASSUME NEW list \in Lists
    PROVE  /\ list \in Seq(ProxyId)
           /\ Len(list) \in 0..Most
           /\ DOMAIN list = 1..Len(list)
           /\ \A i \in DOMAIN list : list[i] \in ProxyId
           /\ \A i, j \in DOMAIN list : list[i] = list[j] => i = j
<1>1. PICK S \in SUBSET ProxyId : list \in Orders(S)
  BY DEF Lists
<1>2. IsFiniteSet(S) /\ Cardinality(S) <= Most
  BY PagingAssumption, FS_Subset DEF Most
<1>3. Cardinality(S) \in Nat
  BY <1>2, FS_CardinalityType
<1>4. /\ list \in [1..Cardinality(S) -> S]
      /\ \A i, j \in DOMAIN list : list[i] = list[j] => i = j
  BY <1>1 DEF Orders
<1> DEFINE n == Cardinality(S)
<1> HIDE DEF n
<1>5. n \in Nat /\ n <= Most /\ list \in [1..n -> S]
  BY <1>2, <1>3, <1>4 DEF n
<1>6. list \in Seq(ProxyId) /\ Len(list) = n
  BY <1>5
<1> QED
  BY <1>4, <1>5, <1>6, MostNat

LEMMA OffsetShape ==
    /\ 0 \in Offsets
    /\ \A o \in Offsets :
          /\ o \in Nat
          /\ o > 0 => o - Limit \in Offsets
          /\ o + Limit < Most => o + Limit \in Offsets
          /\ \A q \in Offsets : o < q => o + Limit <= q
<1>1. 0 \in Offsets
  BY MostNat DEF Offsets, Most
<1>2. ASSUME NEW o \in Offsets
      PROVE  /\ o \in Nat
             /\ o > 0 => o - Limit \in Offsets
             /\ o + Limit < Most => o + Limit \in Offsets
             /\ \A q \in Offsets : o < q => o + Limit <= q
  <2>1. PICK a \in 0..Most : o = Limit * a
    BY DEF Offsets, Most
  <2>2. a \in Nat /\ o \in Nat
    BY <2>1, MostNat
  <2>3. ASSUME o > 0
        PROVE  o - Limit \in Offsets
    <3>1. a > 0
      BY <2>1, <2>2, <2>3, MostNat
    <3>2. a - 1 \in 0..Most /\ o - Limit = Limit * (a - 1)
      BY <2>1, <2>2, <3>1, MostNat
    <3> QED
      BY <3>2 DEF Offsets, Most
  <2>4. ASSUME o + Limit < Most
        PROVE  o + Limit \in Offsets
    <3>1. o + Limit = Limit * (a + 1)
      BY <2>1, <2>2, MostNat
    <3>2. a + 1 <= Limit * (a + 1)
      BY <2>2, MostNat
    <3>3. a + 1 \in 0..Most
      BY <2>2, <2>4, <3>1, <3>2, MostNat
    <3> QED
      BY <3>1, <3>3 DEF Offsets, Most
  <2>5. ASSUME NEW q \in Offsets, o < q
        PROVE  o + Limit <= q
    <3>1. PICK b \in 0..Most : q = Limit * b
      BY DEF Offsets, Most
    <3>2. b \in Nat
      BY <3>1, MostNat
    <3>3. a < b
      <4> SUFFICES ASSUME b <= a
                   PROVE  FALSE
        BY <2>2, <3>2
      <4>1. Limit * b <= Limit * a
        BY <2>2, <3>2, MostNat
      <4> QED
        BY <2>1, <2>2, <2>5, <3>1, <4>1, MostNat
    <3>4. Limit * (a + 1) <= Limit * b
      BY <2>2, <3>2, <3>3, MostNat
    <3>5. Limit * (a + 1) = o + Limit
      BY <2>1, <2>2, MostNat
    <3> QED
      BY <3>1, <3>4, <3>5
  <2> QED
    BY <2>2, <2>3, <2>4, <2>5
<1> QED
  BY <1>1, <1>2

\* One page of a list: the rows from offset o on, Limit of them at most.
LEMMA WindowShape ==
    ASSUME NEW list \in Lists, NEW o \in Offsets
    PROVE  LET page == Window(o, list)
           IN  /\ page \in Seq(ProxyId)
               /\ Len(page) <= Limit
               /\ \A k \in DOMAIN page : o + k \in DOMAIN list /\ page[k] = list[o + k]
               /\ \A i \in DOMAIN list : o < i /\ i <= o + Limit =>
                     i - o \in DOMAIN page /\ page[i - o] = list[i]
<1> DEFINE n == Len(list)
           last == IF o + Limit < n THEN o + Limit ELSE n
           page == SubSeq(list, o + 1, last)
<1>1. o \in Nat /\ n \in Nat /\ Limit \in Nat /\ DOMAIN list = 1..n
  BY ListShape, OffsetShape, MostNat
<1>2. last \in Int /\ last <= n /\ last <= o + Limit
  BY <1>1
<1>3. \A i \in (o + 1)..last : list[i] \in ProxyId
  BY <1>1, <1>2, ListShape
<1> HIDE DEF n, last
<1>4. /\ page \in Seq(ProxyId)
      /\ Len(page) = IF o + 1 <= last THEN last - (o + 1) + 1 ELSE 0
      /\ \A k \in 1..(last - (o + 1) + 1) : page[k] = list[(o + 1) + k - 1]
  <2>1. o + 1 \in Int
    BY <1>1
  <2> QED
    BY <1>2, <1>3, <2>1, SubSeqProperties
<1> HIDE DEF page
<1>5. Len(page) = (IF o + 1 <= last THEN last - o ELSE 0) /\ DOMAIN page = 1..Len(page)
  BY <1>1, <1>2, <1>4
<1>6. Len(page) <= Limit
  BY <1>1, <1>2, <1>5
<1>7. ASSUME NEW k \in DOMAIN page
      PROVE  o + k \in DOMAIN list /\ page[k] = list[o + k]
  <2>1. k \in 1..(last - o)
    BY <1>1, <1>2, <1>5
  <2>2. (o + 1) + k - 1 = o + k /\ k \in 1..(last - (o + 1) + 1) /\ o + k \in 1..n
    BY <1>1, <1>2, <2>1
  <2> QED
    BY <1>1, <1>4, <2>2
<1>8. ASSUME NEW i \in DOMAIN list, o < i, i <= o + Limit
      PROVE  i - o \in DOMAIN page /\ page[i - o] = list[i]
  <2>1. i <= last
    BY <1>1, <1>8 DEF last
  <2>2. i - o \in DOMAIN page
    BY <1>1, <1>2, <1>5, <1>8, <2>1
  <2>3. o + (i - o) = i
    BY <1>1, <1>8
  <2> QED
    BY <1>7, <2>2, <2>3
<1>9. Window(o, list) = page
  BY DEF Window, page, last, n
<1> QED
  BY <1>4, <1>6, <1>7, <1>8, <1>9

-----------------------------------------------------------------------------
(* The steps of the reader and of the table *)

\* Without a text query the page is the window.
LEMMA NoQuery ==
    ASSUME ~Query, NEW list
    PROVE  Matching(list) = list
  BY DEF Matching

LEMMA CountStep == ~Query /\ WalkInv /\ Count => WalkInv'
<1> SUFFICES ASSUME ~Query, WalkInv, Count PROVE WalkInv'
  OBVIOUS
<1> USE DEF WalkInv, WalkTyped
<1>1. /\ reader' = [reader EXCEPT !.pc = "page", !.total = Len(rows)]
      /\ UNCHANGED <<rows, shown, steady>>
      /\ reader.pc = "count"
  BY DEF Count
<1>2. reader' \in Reader
  BY <1>1, ListShape DEF Reader
<1>3. reader'.pc = "page" /\ reader'.total = Len(rows) /\ reader'.offset = reader.offset
  BY <1>1 DEF Reader
<1>4. \A i \in DOMAIN rows : i <= reader'.total
  BY <1>3, ListShape
<1>5. \A o \in Offsets : Reached(o)' => Reached(o)
  BY <1>3 DEF Reached
<1>6. \A o \in Offsets : \A page :
          (Sound(o, page) => Sound(o, page)') /\ (Full(o, page) => Full(o, page)')
  BY <1>1 DEF Sound, Full
<1> QED
  BY <1>1, <1>2, <1>3, <1>4, <1>5, <1>6

LEMMA PageStep == ~Query /\ WalkInv /\ Page => WalkInv'
<1> SUFFICES ASSUME ~Query, WalkInv, Page PROVE WalkInv'
  OBVIOUS
<1> USE DEF WalkInv, WalkTyped
<1>1. PICK at \in Offsets : at = reader.offset
  BY DEF Reader
<1>2. PICK page : page = Window(at, rows)
  OBVIOUS
<1>3. /\ reader.pc = "page"
      /\ reader' = [reader EXCEPT !.pc = "answered", !.items = page, !.total = reader.total]
      /\ UNCHANGED <<rows, shown, steady>>
  BY <1>1, <1>2, NoQuery DEF Page
<1>4. /\ page \in Seq(ProxyId)
      /\ Len(page) <= Limit
      /\ \A k \in DOMAIN page : at + k \in DOMAIN rows /\ page[k] = rows[at + k]
      /\ \A i \in DOMAIN rows : at < i /\ i <= at + Limit =>
            i - at \in DOMAIN page /\ page[i - at] = rows[i]
  BY <1>1, <1>2, WindowShape
<1>5. reader' \in Reader
  BY <1>3, <1>4 DEF Reader
<1>6. /\ reader'.pc = "answered" /\ reader'.total = reader.total
      /\ reader'.offset = at /\ reader'.items = page
  BY <1>1, <1>3 DEF Reader
<1>7. (Sound(reader.offset, reader.items) /\ Full(reader.offset, reader.items))'
  BY <1>3, <1>4, <1>6 DEF Sound, Full
<1>8. \A o \in Offsets : Reached(o)' => Reached(o)
  BY <1>1, <1>6 DEF Reached
<1>9. /\ \A o \in Offsets : Sound(o, shown[o])'
      /\ \A o \in Offsets : Reached(o)' => Full(o, shown[o])'
  BY <1>3, <1>8 DEF Sound, Full
<1>10. \A i \in 1..reader'.offset : \E o \in Offsets :
          o < reader'.offset /\ o < i /\ i <= o + Limit
  BY <1>1, <1>6
<1>11. \A i \in DOMAIN rows' : rows'[i] \in steady' => i <= reader'.total
  BY <1>3, <1>6
<1> QED
  BY <1>3, <1>5, <1>6, <1>7, <1>9, <1>10, <1>11

LEMMA StepBackStep == ~Query /\ WalkInv /\ StepBack => WalkInv'
<1> SUFFICES ASSUME ~Query, WalkInv, StepBack PROVE WalkInv'
  OBVIOUS
<1> USE DEF WalkInv, WalkTyped
<1> DEFINE back == reader.offset - Limit
<1>1. /\ reader.pc = "answered" /\ reader.offset > 0
      /\ reader' = [reader EXCEPT !.pc = "count", !.offset = back, !.items = <<>>]
      /\ UNCHANGED <<rows, shown, steady>>
  BY DEF StepBack, BeyondEnd, GoTo
<1>2. reader.offset \in Offsets
  BY DEF Reader
<1>3. back \in Offsets /\ back \in Nat /\ back < reader.offset
  BY <1>1, <1>2, OffsetShape, MostNat
<1>4. <<>> \in Seq(ProxyId)
  OBVIOUS
<1>5. reader' \in Reader
  BY <1>1, <1>3, <1>4 DEF Reader
<1>6. reader'.pc = "count" /\ reader'.offset = back
  BY <1>1 DEF Reader
<1>7. ASSUME NEW o \in Offsets, Reached(o)'
      PROVE  Reached(o)
  <2>1. o \in Nat /\ reader.offset \in Nat
    BY <1>2, OffsetShape
  <2>2. o < back
    BY <1>6, <1>7 DEF Reached
  <2> HIDE DEF back
  <2> QED
    BY <1>3, <2>1, <2>2 DEF Reached
<1>8. \A o \in Offsets : \A page :
          (Sound(o, page) => Sound(o, page)') /\ (Full(o, page) => Full(o, page)')
  BY <1>1 DEF Sound, Full
<1>9. ASSUME NEW i \in 1..back
      PROVE  \E o \in Offsets : o < back /\ o < i /\ i <= o + Limit
  <2>1. i \in 1..reader.offset
    BY <1>2, <1>3, OffsetShape
  <2>2. PICK o \in Offsets : o < reader.offset /\ o < i /\ i <= o + Limit
    BY <2>1
  <2>3. o < back
    BY <1>3, <2>2, OffsetShape
  <2> QED
    BY <2>2, <2>3
<1> QED
  BY <1>1, <1>5, <1>6, <1>7, <1>8, <1>9

LEMMA TurnStep == ~Query /\ WalkInv /\ Turn => WalkInv'
<1> SUFFICES ASSUME ~Query, WalkInv, Turn PROVE WalkInv'
  OBVIOUS
<1> USE DEF WalkInv, WalkTyped
<1>a. PICK at \in Offsets : at = reader.offset
  BY DEF Reader
<1>b. PICK page \in Seq(ProxyId) : page = reader.items
  BY DEF Reader
<1> DEFINE next == at + Limit
<1>1. /\ reader.pc = "answered"
      /\ shown' = [shown EXCEPT ![at] = page]
      /\ UNCHANGED <<rows, steady>>
  BY <1>a, <1>b DEF Turn
<1>2. at \in Nat /\ reader.total \in 0..Most
  BY OffsetShape DEF Reader
<1>3. shown' \in [Offsets -> Seq(ProxyId)]
  BY <1>1
<1>5. \A o \in Offsets : shown'[o] = IF o = at THEN page ELSE shown[o]
  BY <1>1
<1>6. Sound(at, page) /\ Full(at, page)
  BY <1>a, <1>b, <1>1
<1>7. \A o \in Offsets : Sound(o, shown[o])'
  <2> SUFFICES ASSUME NEW o \in Offsets PROVE Sound(o, shown[o])'
    OBVIOUS
  <2>1. CASE o = at
    BY <1>1, <1>5, <1>6, <2>1 DEF Sound
  <2>2. CASE o # at
    BY <1>1, <1>5, <2>2 DEF Sound
  <2> QED
    BY <2>1, <2>2
<1>8. \A o \in Offsets : o < at \/ o = at => Full(o, shown[o])'
  <2> SUFFICES ASSUME NEW o \in Offsets, o < at \/ o = at PROVE Full(o, shown[o])'
    OBVIOUS
  <2>1. CASE o = at
    BY <1>1, <1>5, <1>6, <2>1 DEF Full
  <2>2. CASE o < at
    <3>1. Full(o, shown[o]) /\ shown'[o] = shown[o]
      BY <1>a, <1>2, <1>5, <2>2, OffsetShape DEF Reached
    <3> QED
      BY <1>1, <3>1 DEF Full
  <2> QED
    BY <2>1, <2>2
<1>9. CASE next < reader.total
  <2>1. reader' = [reader EXCEPT !.pc = "count", !.offset = next, !.items = <<>>]
    BY <1>a, <1>9 DEF Turn, GoTo
  <2>2. next \in Offsets /\ next \in Nat /\ at < next
    BY <1>2, <1>9, OffsetShape, MostNat
  <2>3. <<>> \in Seq(ProxyId)
    OBVIOUS
  <2>4. reader' \in Reader
    BY <2>1, <2>2, <2>3 DEF Reader
  <2>5. reader'.pc = "count" /\ reader'.offset = next
    BY <2>1 DEF Reader
  <2>6. \A o \in Offsets : Reached(o)' => o < at \/ o = at
    <3> HIDE DEF next
    <3> SUFFICES ASSUME NEW o \in Offsets, o < next, ~(o < at), o # at PROVE FALSE
      BY <2>5 DEF Reached
    <3> USE DEF next
    <3>1. at < o /\ o \in Nat
      BY <1>2, OffsetShape
    <3>2. next <= o
      BY <1>2, <3>1, OffsetShape
    <3> QED
      BY <2>2, <3>1, <3>2
  <2>7. ASSUME NEW i \in 1..next
        PROVE  \E o \in Offsets : o < next /\ o < i /\ i <= o + Limit
    <3>1. CASE i <= at
      <4>1. i \in 1..at
        BY <1>2, <2>2, <3>1
      <4>2. PICK o \in Offsets : o < at /\ o < i /\ i <= o + Limit
        BY <1>a, <4>1
      <4> QED
        BY <2>2, <1>2, <4>2, OffsetShape
    <3>2. CASE ~(i <= at)
      BY <1>2, <2>2, <3>2
    <3> QED
      BY <3>1, <3>2
  <2> QED
    BY <1>1, <1>3, <1>7, <1>8, <2>4, <2>5, <2>6, <2>7
<1>10. CASE ~(next < reader.total)
  <2>1. reader' = [reader EXCEPT !.pc = "done", !.items = <<>>]
    BY <1>a, <1>10 DEF Turn
  <2>2. <<>> \in Seq(ProxyId)
    OBVIOUS
  <2>3. reader' \in Reader
    BY <2>1, <2>2 DEF Reader
  <2>4. reader'.pc = "done" /\ reader'.offset = at
    BY <1>a, <2>1 DEF Reader
  <2>5. \A i \in DOMAIN rows : rows[i] \in steady => i <= next
    BY <1>1, <1>2, <1>10, ListShape, MostNat
  <2>6. \A o \in Offsets : Reached(o)' => o < at \/ o = at
    BY <2>4 DEF Reached
  <2>7. \A i \in DOMAIN rows' : rows'[i] \in steady' => i <= reader'.offset + Limit
    BY <1>1, <2>4, <2>5
  <2>8. \A i \in 1..reader'.offset : \E o \in Offsets :
           o < reader'.offset /\ o < i /\ i <= o + Limit
    BY <1>a, <2>4
  <2> HIDE DEF next
  <2> QED
    BY <1>1, <1>3, <1>7, <1>8, <2>3, <2>4, <2>6, <2>7, <2>8
<1> QED
  BY <1>9, <1>10

\* A proxy that is still steady keeps its place in the new list, the only one
\* it has in either.
LEMMA ChangeStep == ~Query /\ WalkInv /\ Change => WalkInv'
<1> SUFFICES ASSUME ~Query, WalkInv, Change PROVE WalkInv'
  OBVIOUS
<1> USE DEF WalkInv, WalkTyped
<1>1. /\ rows' \in Lists
      /\ steady' = {p \in steady : \E i \in DOMAIN rows \cap DOMAIN rows' : rows[i] = p /\ rows'[i] = p}
      /\ UNCHANGED <<reader, shown>>
      /\ reader.pc # "done"
  BY DEF Change
<1>2. steady' \subseteq steady /\ steady' \subseteq Listed(rows')
  BY <1>1 DEF Listed
<1>3. ASSUME NEW i \in DOMAIN rows, rows[i] \in steady'
      PROVE  i \in DOMAIN rows' /\ rows'[i] = rows[i]
  BY <1>1, <1>3, ListShape
<1>4. ASSUME NEW i \in DOMAIN rows', rows'[i] \in steady'
      PROVE  i \in DOMAIN rows /\ rows[i] = rows'[i]
  BY <1>1, <1>4, ListShape
<1>5. \A o \in Offsets : \A page : Sound(o, page) => Sound(o, page)'
  BY <1>2, <1>3 DEF Sound
<1>6. \A o \in Offsets : \A page : Full(o, page) => Full(o, page)'
  BY <1>2, <1>4 DEF Full
<1>7. \A o \in Offsets : Reached(o)' => Reached(o)
  BY <1>1 DEF Reached
<1>8. /\ \A o \in Offsets : Sound(o, shown[o])'
      /\ \A o \in Offsets : Reached(o)' => Full(o, shown[o])'
  BY <1>1, <1>5, <1>6, <1>7 DEF Sound, Full
<1>9. reader.pc = "answered" => Sound(reader.offset, reader.items)' /\ Full(reader.offset, reader.items)'
  <2> SUFFICES ASSUME reader.pc = "answered"
               PROVE  Sound(reader.offset, reader.items)' /\ Full(reader.offset, reader.items)'
    OBVIOUS
  <2>1. reader.offset \in Offsets /\ Sound(reader.offset, reader.items) /\ Full(reader.offset, reader.items)
    BY DEF Reader
  <2> QED
    BY <1>1, <1>5, <1>6, <2>1 DEF Sound, Full
<1>10. reader.pc \in {"page", "answered"} =>
          \A i \in DOMAIN rows' : rows'[i] \in steady' => i <= reader.total
  BY <1>2, <1>4
<1> QED
  BY <1>1, <1>2, <1>8, <1>9, <1>10 DEF Listed

LEMMA WalkStep == ~Query /\ WalkInv /\ [Next]_vars => WalkInv'
<1> SUFFICES ASSUME ~Query, WalkInv, [Next]_vars PROVE WalkInv'
  OBVIOUS
<1>1. CASE UNCHANGED vars
  BY <1>1 DEF vars, WalkInv, WalkTyped, Sound, Full, Reached, Listed
<1> QED
  BY <1>1, CountStep, PageStep, StepBackStep, TurnStep, ChangeStep DEF Next

-----------------------------------------------------------------------------
\* Without a text query a walk shows every proxy that kept its place exactly
\* once, however long the list, whatever the page size and whatever happens to
\* the other proxies between the statements of the calls and between the calls
\* (list_filtered_proxies counts and reads in two statements; ProxiesPage turns
\* the pages by the last total).
THEOREM SteadyIsShownOnce == Spec => []SteadyShownOnce
<1>1. CASE Query
  <2>1. SteadyShownOnce /\ SteadyShownOnce'
    BY <1>1 DEF SteadyShownOnce
  <2> QED
    BY <2>1, PTL DEF Spec
<1>2. CASE ~Query
  <2>1. Init => WalkInv
    <3> SUFFICES ASSUME Init PROVE WalkInv
      OBVIOUS
    <3>1. /\ reader = [pc |-> "count", offset |-> 0, total |-> 0, items |-> <<>>]
          /\ shown = [o \in Offsets |-> <<>>]
          /\ rows \in Lists
          /\ steady = Listed(rows)
      BY DEF Init
    <3>2. reader \in Reader /\ shown \in [Offsets -> Seq(ProxyId)]
      BY <3>1, OffsetShape, MostNat DEF Reader
    <3>3. \A o \in Offsets : Sound(o, shown[o])
      BY <3>1, MostNat DEF Sound
    <3>4. \A o \in Offsets : ~Reached(o)
      BY <3>1, OffsetShape DEF Reached
    <3> QED
      BY <3>1, <3>2, <3>3, <3>4 DEF WalkInv, WalkTyped
  <2>2. WalkInv => SteadyShownOnce
    <3> SUFFICES ASSUME WalkInv, reader.pc = "done", NEW p \in steady
                 PROVE  \E o \in Offsets :
                           /\ Cardinality({k \in DOMAIN shown[o] : shown[o][k] = p}) = 1
                           /\ \A other \in Offsets \ {o} : p \notin Listed(shown[other])
      BY DEF SteadyShownOnce
    <3> USE DEF WalkInv, WalkTyped
    <3>1. PICK i \in DOMAIN rows : rows[i] = p
      BY DEF Listed
    <3>2. i \in Nat /\ i > 0 /\ \A j \in DOMAIN rows : rows[j] = p => j = i
      BY <3>1, ListShape
    <3>3. reader.offset \in Offsets /\ reader.offset \in Nat /\ i <= reader.offset + Limit
      BY <3>1, OffsetShape DEF Reader
    <3>4. PICK o \in Offsets : Reached(o) /\ o < i /\ i <= o + Limit
      <4>1. CASE i <= reader.offset
        <5>1. i \in 1..reader.offset
          BY <3>2, <3>3, <4>1
        <5> QED
          BY <5>1 DEF Reached
      <4>2. CASE ~(i <= reader.offset)
        BY <3>2, <3>3, <4>2 DEF Reached
      <4> QED
        BY <4>1, <4>2
    <3>5. o \in Nat /\ Limit \in Nat
      BY OffsetShape, MostNat
    <3>6. i - o \in DOMAIN shown[o] /\ shown[o][i - o] = p
      BY <3>1, <3>4 DEF Full
    <3>7. ASSUME NEW q \in Offsets, NEW k \in DOMAIN shown[q], shown[q][k] = p
          PROVE  k \in Nat /\ k > 0 /\ k <= Limit /\ q + k = i
      <4>1. shown[q] \in Seq(ProxyId) /\ Sound(q, shown[q])
        OBVIOUS
      <4>2. k \in 1..Len(shown[q]) /\ Len(shown[q]) \in Nat
        BY <4>1
      <4>3. Len(shown[q]) <= Limit /\ q + k \in DOMAIN rows /\ rows[q + k] = p
        BY <3>7, <4>1 DEF Sound
      <4> QED
        BY <3>2, <3>5, <4>2, <4>3
    <3>8. {k \in DOMAIN shown[o] : shown[o][k] = p} = {i - o}
      <4>1. \A k \in DOMAIN shown[o] : shown[o][k] = p => k = i - o
        BY <3>2, <3>5, <3>7
      <4> QED
        BY <3>6, <4>1
    <3>9. Cardinality({i - o}) = 1
      BY FS_Singleton
    <3>10. ASSUME NEW other \in Offsets \ {o}, p \in Listed(shown[other])
           PROVE  FALSE
      <4>1. PICK k \in DOMAIN shown[other] : shown[other][k] = p
        BY <3>10 DEF Listed
      <4>2. k \in Nat /\ k > 0 /\ k <= Limit /\ other + k = i
        BY <3>7, <4>1
      <4>3. other \in Nat /\ other # o
        BY OffsetShape
      <4>4. other < i /\ i <= other + Limit
        BY <3>5, <4>2, <4>3
      <4>5. CASE o < other
        BY <3>2, <3>4, <3>5, <4>3, <4>4, <4>5, OffsetShape
      <4>6. CASE other < o
        BY <3>2, <3>4, <3>5, <4>3, <4>4, <4>6, OffsetShape
      <4> QED
        BY <3>5, <4>3, <4>5, <4>6
    <3> QED
      BY <3>8, <3>9, <3>10
  <2>3. WalkInv /\ [Next]_vars => WalkInv'
    BY <1>2, WalkStep
  <2> QED
    BY <2>1, <2>2, <2>3, PTL DEF Spec
<1> QED
  BY <1>1, <1>2
=============================================================================
