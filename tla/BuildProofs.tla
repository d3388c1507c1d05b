---------------------------- MODULE BuildProofs -----------------------------
(***************************************************************************)
(* What the build scripts can be relied upon for: that partition_layout    *)
(* never lets partitions overlap, that a Thread dataset is accepted just   *)
(* when it is one, and that what is flashed or released is the complete    *)
(* and faultless outcome of one run.                                       *)
(***************************************************************************)
EXTENDS Preparation, ThreadDataset, Extrema, FiniteSetTheorems, TLAPS


-----------------------------------------------------------------------------
(***************************************************************************)
(* The inductive invariant.  Partitions apart is not enough: that the next *)
(* one fits needs that all of them end where the cursor is, or before.     *)
(***************************************************************************)
LayoutTypeOK ==
    /\ table \in Seq(Row \cup {ShortRow})
    /\ row \in Nat \ {0}
    /\ cursor \in Nat

BehindTable == cursor >= TableOffset + TableSize

PlacedBefore(n) ==
    /\ layout[n].start \in Nat
    /\ layout[n].size \in Nat
    /\ layout[n].start >= TableOffset + TableSize
    /\ End(layout[n]) <= cursor

LayoutInv ==
    /\ LayoutTypeOK
    /\ BehindTable
    /\ \A n \in DOMAIN layout : PlacedBefore(n)
    /\ PartitionsApart

-----------------------------------------------------------------------------
\* A size is a natural number, whatever its suffix (_parse_size).
LEMMA SizeIsNatural ==
    ASSUME NEW r \in Row
    PROVE  ParseSize(r) \in Nat
<1>1. \A a, b \in Nat : a * b \in Nat
  BY SMT
<1>2. Kilo \in Nat /\ Kilo * Kilo \in Nat
  BY <1>1, LayoutAssumption
<1>3. r.number \in Nat /\ r.suffix \in {"none", "K", "M"}
  BY DEF Row
<1>4. r.number * Kilo \in Nat /\ r.number * (Kilo * Kilo) \in Nat
  BY <1>1, <1>2, <1>3
<1> QED
  BY <1>3, <1>4 DEF ParseSize

\* A partition that is accepted starts at a natural number (_align).
LEMMA OffsetIsInteger ==
    ASSUME NEW r \in Row, cursor \in Nat
    PROVE  OffsetOf(r) \in Int
<1>1. Alignment(r) \in Nat \ {0}
  BY LayoutAssumption DEF Alignment
<1>2. \A a \in Int : \A b \in Nat \ {0} : (a \div b) \in Int
  BY SMT
<1>3. \A a, b \in Int : a * b \in Int
  BY SMT
<1>4. cursor + Alignment(r) - 1 \in Int
  BY <1>1
<1>5. Align(cursor, Alignment(r)) \in Int
  BY <1>1, <1>2, <1>3, <1>4 DEF Align
<1> QED
  BY <1>5 DEF OffsetOf, Row

-----------------------------------------------------------------------------
\* The scan begins with nothing placed and the cursor behind the table.
LEMMA LayoutInitInv == LayoutInit => LayoutInv
<1> SUFFICES ASSUME LayoutInit PROVE LayoutInv
  OBVIOUS
<1>1. PICK t \in Tables : /\ table = t /\ row = 1 /\ cursor = TableOffset + TableSize
                          /\ layout = <<>>
  BY DEF LayoutInit, Begun
<1>2. DOMAIN layout = {}
  BY <1>1
<1>3. LayoutTypeOK /\ BehindTable
  BY <1>1, LayoutAssumption DEF LayoutTypeOK, BehindTable
<1> QED
  BY <1>2, <1>3 DEF LayoutInv, PartitionsApart

\* A row that is taken goes behind everything placed before it, also when its
\* name comes a second time.
LEMMA RowKeepsInv ==
    ASSUME LayoutInv, ResolveRow
    PROVE  LayoutInv'
<1> DEFINE r == table[row]
<1>1. r \in Row \cup {ShortRow}
  BY DEF LayoutInv, LayoutTypeOK, ResolveRow
<1>2. CASE r = ShortRow \/ Placed(r).start < cursor
  BY <1>2 DEF ResolveRow, LayoutInv, LayoutTypeOK, BehindTable, PlacedBefore, PartitionsApart, End
<1>3. CASE ~(r = ShortRow \/ Placed(r).start < cursor)
  <2> DEFINE p == Placed(r)
  <2>1. /\ layout' = With(layout, r.name, p)
        /\ cursor' = End(p) /\ row' = row + 1 /\ table' = table
    BY <1>3 DEF ResolveRow
  <2>2. r \in Row
    BY <1>1, <1>3
  <2>3. p.size \in Nat /\ p.start \in Int
    BY <2>2, SizeIsNatural, OffsetIsInteger DEF Placed, LayoutInv, LayoutTypeOK
  <2>4. p.start \in Nat /\ p.start >= cursor /\ End(p) \in Nat /\ End(p) >= p.start
    BY <1>3, <2>3 DEF End, LayoutInv, LayoutTypeOK
  <2>5. /\ DOMAIN layout' = DOMAIN layout \cup {r.name}
        /\ layout'[r.name] = p
        /\ \A n \in DOMAIN layout \ {r.name} : layout'[n] = layout[n]
    BY <2>1 DEF With
  <2> HIDE DEF p, r
  <2>6. LayoutTypeOK' /\ BehindTable'
    BY <2>1, <2>4, LayoutAssumption DEF LayoutInv, LayoutTypeOK, BehindTable
  <2>7. \A n \in DOMAIN layout \ {r.name} :
            /\ layout[n].start \in Nat /\ layout[n].size \in Nat
            /\ layout[n].start >= TableOffset + TableSize
            /\ layout[n].start + layout[n].size <= cursor
    BY DEF LayoutInv, PlacedBefore, End
  <2>8. \A n \in DOMAIN layout' : PlacedBefore(n)'
    <3> SUFFICES ASSUME NEW n \in DOMAIN layout' PROVE PlacedBefore(n)'
      OBVIOUS
    <3>1. CASE n = r.name
      BY <3>1, <2>1, <2>3, <2>4, <2>5, LayoutAssumption
      DEF PlacedBefore, LayoutInv, LayoutTypeOK, BehindTable
    <3>2. CASE n # r.name
      BY <3>2, <2>1, <2>4, <2>5, <2>7 DEF PlacedBefore, End, LayoutInv, LayoutTypeOK
    <3> QED
      BY <3>1, <3>2
  <2>9. PartitionsApart'
    <3> SUFFICES ASSUME NEW m \in DOMAIN layout'
                 PROVE  /\ layout'[m].start >= TableOffset + TableSize
                        /\ \A n \in DOMAIN layout' \ {m} :
                              \/ End(layout'[m]) <= layout'[n].start
                              \/ End(layout'[n]) <= layout'[m].start
      BY DEF PartitionsApart, End
    <3>1. layout'[m].start >= TableOffset + TableSize
      BY <2>8 DEF PlacedBefore
    <3>2. ASSUME NEW n \in DOMAIN layout' \ {m}
          PROVE  End(layout'[m]) <= layout'[n].start \/ End(layout'[n]) <= layout'[m].start
      <4>1. CASE m # r.name /\ n # r.name
        BY <4>1, <2>5 DEF LayoutInv, PartitionsApart
      <4>2. CASE m = r.name
        BY <4>2, <2>4, <2>5, <2>7 DEF End, LayoutInv, LayoutTypeOK
      <4>3. CASE n = r.name
        BY <4>3, <2>4, <2>5, <2>7 DEF End, LayoutInv, LayoutTypeOK
      <4> QED
        BY <4>1, <4>2, <4>3
    <3> QED
      BY <3>1, <3>2
  <2> QED
    BY <2>6, <2>8, <2>9 DEF LayoutInv
<1> QED
  BY <1>2, <1>3

\* So every step keeps it.
LEMMA LayoutInvInductive == LayoutInv /\ [LayoutNext]_layoutVars => LayoutInv'
<1> SUFFICES ASSUME LayoutInv, [LayoutNext]_layoutVars PROVE LayoutInv'
  OBVIOUS
<1>1. CASE ResolveRow
  BY <1>1, RowKeepsInv
<1>2. CASE FinishLayout \/ UNCHANGED layoutVars
  BY <1>2 DEF FinishLayout, layoutVars, LayoutInv, LayoutTypeOK, BehindTable, PlacedBefore,
              PartitionsApart, End
<1> QED
  BY <1>1, <1>2 DEF LayoutNext

-----------------------------------------------------------------------------
\* However long the table and whatever its offsets, sizes and names: the
\* partitions of the layout that partition_layout works out lie behind the
\* partition table and apart from one another.
THEOREM LayoutIsApart == LayoutSpec => []PartitionsApart
<1>1. LayoutInv => PartitionsApart
  BY DEF LayoutInv
<1> QED
  BY <1>1, LayoutInitInv, LayoutInvInductive, PTL DEF LayoutSpec

-----------------------------------------------------------------------------
(***************************************************************************)
(* Rows without an offset.  That a place found for one stays as it was     *)
(* needs that it is remembered under the row's name.                       *)
(***************************************************************************)
NamesPlaced == \A i \in 1 .. row - 1 : table[i].name \in DOMAIN layout

FitInv == LayoutInv /\ NamesPlaced /\ ImplicitRowsFit

\* _align rounds up, to a multiple.
LEMMA AlignRoundsUp ==
    ASSUME NEW v \in Nat, NEW a \in Nat \ {0}
    PROVE  Align(v, a) >= v /\ Align(v, a) % a = 0
<1>1. ((v + a - 1) \div a) * a >= v
  BY SMT
<1>2. \A q \in Int : (q * a) % a = 0
  BY SMT
<1>3. (v + a - 1) \div a \in Int
  BY SMT
<1> QED
  BY <1>1, <1>2, <1>3 DEF Align

\* So a row without an offset always fits behind its predecessors.
LEMMA ImplicitPlace ==
    ASSUME NEW r \in Row, cursor \in Nat, r.offset = Implicit
    PROVE  Placed(r).start >= cursor /\ Placed(r).start % Alignment(r) = 0
<1>1. Alignment(r) \in Nat \ {0}
  BY LayoutAssumption DEF Alignment
<1>2. Placed(r).start = Align(cursor, Alignment(r))
  BY DEF Placed, OffsetOf
<1> QED
  BY <1>1, <1>2, AlignRoundsUp

\* Before the first row every offset fits.
LEMMA FitInitInv == LayoutInit => FitInv
<1> SUFFICES ASSUME LayoutInit PROVE FitInv
  OBVIOUS
<1>1. PICK t \in Tables : table = t /\ row = 1 /\ scan = "running"
  BY DEF LayoutInit, Begun
<1> QED
  BY <1>1, LayoutInitInv DEF FitInv, NamesPlaced, ImplicitRowsFit

\* A row that is read: it may be the last of its name, an earlier one of its
\* name no longer is, and the others keep their place.
LEMMA RowKeepsFit ==
    ASSUME FitInv, ResolveRow
    PROVE  NamesPlaced' /\ ImplicitRowsFit'
<1> DEFINE r == table[row]
<1>1. r \in Row \cup {ShortRow} /\ cursor \in Nat /\ row \in Nat \ {0} /\ scan = "running"
  BY DEF FitInv, LayoutInv, LayoutTypeOK, ResolveRow
<1>2. CASE r = ShortRow \/ Placed(r).start < cursor
  <2>1. scan' = "rejected" /\ UNCHANGED <<table, row, cursor, layout>>
    BY <1>2 DEF ResolveRow
  <2>2. r = ShortRow \/ r.offset # Implicit
    <3>1. r \in Row /\ r.offset = Implicit => Placed(r).start >= cursor
      BY <1>1, ImplicitPlace
    <3>2. r \in Row => Placed(r).start \in Int
      BY <1>1, OffsetIsInteger DEF Placed
    <3> HIDE DEF r
    <3> QED
      BY <1>1, <1>2, <3>1, <3>2
  <2> QED
    BY <2>1, <2>2 DEF FitInv, NamesPlaced, ImplicitRowsFit
<1>3. CASE ~(r = ShortRow \/ Placed(r).start < cursor)
  <2>1. /\ layout' = With(layout, r.name, Placed(r))
        /\ row' = row + 1 /\ table' = table /\ scan' = scan
    BY <1>3 DEF ResolveRow
  <2>2. r \in Row
    BY <1>1, <1>3
  <2>3. /\ DOMAIN layout' = DOMAIN layout \cup {r.name}
        /\ layout'[r.name] = Placed(r)
        /\ \A n \in DOMAIN layout \ {r.name} : layout'[n] = layout[n]
    BY <2>1 DEF With
  <2>4. r.offset = Implicit => Placed(r).start % Alignment(r) = 0
    BY <1>1, <2>2, ImplicitPlace
  <2>5. NamesPlaced'
    BY <1>1, <2>1, <2>3 DEF FitInv, NamesPlaced
  <2>6. ASSUME NEW i \in 1 .. row' - 1, table'[i].offset = Implicit,
               \A j \in i + 1 .. row' - 1 : table'[j].name # table'[i].name
        PROVE  layout'[table'[i].name].start % Alignment(table'[i]) = 0
    <3>1. CASE i = row
      BY <3>1, <2>1, <2>3, <2>4, <2>6
    <3>2. CASE i # row
      <4>1. i \in 1 .. row - 1 /\ row \in i + 1 .. row' - 1
        BY <3>2, <1>1, <2>1
      <4>2. table[i].name # r.name
        BY <4>1, <2>1, <2>6
      <4>3. table[i].name \in DOMAIN layout
        BY <4>1 DEF FitInv, NamesPlaced
      <4>4. \A j \in i + 1 .. row - 1 : table[j].name # table[i].name
        BY <4>1, <1>1, <2>1, <2>6
      <4>5. layout[table[i].name].start % Alignment(table[i]) = 0
        BY <4>1, <4>4, <2>1, <2>6 DEF FitInv, ImplicitRowsFit
      <4> QED
        BY <4>2, <4>3, <4>5, <2>1, <2>3
    <3> QED
      BY <3>1, <3>2
  <2>7. scan' # "rejected"
    BY <1>1, <2>1
  <2> QED
    BY <2>5, <2>6, <2>7 DEF ImplicitRowsFit
<1> QED
  BY <1>2, <1>3

\* The rows parsed so far, and the offset after them, fit.
LEMMA FitInvInductive == FitInv /\ [LayoutNext]_layoutVars => FitInv'
<1> SUFFICES ASSUME FitInv, [LayoutNext]_layoutVars PROVE FitInv'
  OBVIOUS
<1>1. LayoutInv'
  BY LayoutInvInductive DEF FitInv
<1>2. CASE ResolveRow
  BY <1>1, <1>2, RowKeepsFit DEF FitInv
<1>3. CASE FinishLayout \/ UNCHANGED layoutVars
  BY <1>1, <1>3 DEF FinishLayout, layoutVars, FitInv, NamesPlaced, ImplicitRowsFit
<1> QED
  BY <1>2, <1>3 DEF LayoutNext

\* Whatever alignments and sizes there are, a row whose offset is left out is
\* never the reason why a table is refused, and lies where the ESP-IDF puts it,
\* on a multiple of its alignment.
THEOREM ImplicitRowsAlwaysFit == LayoutSpec => []ImplicitRowsFit
<1>1. FitInv => ImplicitRowsFit
  BY DEF FitInv
<1> QED
  BY <1>1, FitInitInv, FitInvInductive, PTL DEF LayoutSpec

-----------------------------------------------------------------------------
(***************************************************************************)
(* The check of a Thread dataset.  While it runs, the headers read so far  *)
(* lead from the first byte to the cursor, and every decomposition of the  *)
(* bytes begins with them: that it is the only one is what makes reading   *)
(* in one pass the same as asking for any decomposition.                   *)
(***************************************************************************)
After(h) == h + 2 + raw[h + 2]

ReadSoFar(headers) ==
    /\ headers \subseteq 0 .. Len(raw) - 1
    /\ \A h \in headers : h + 2 <= Len(raw) /\ After(h) <= at /\ After(h) \in headers \cup {at}
    /\ \A h \in headers : h = 0 \/ \E g \in headers : After(g) = h
    /\ at # 0 => 0 \in headers /\ \E g \in headers : After(g) = at
    /\ \A g, h \in headers : raw[g + 1] = raw[h + 1] => g = h
    /\ DOMAIN found = {raw[h + 1] : h \in headers}
    /\ \A h \in headers : found[raw[h + 1]] = raw[h + 2]

BeginsAll(headers) ==
    \A all \in SUBSET (0 .. Len(raw) - 1) :
        Decomposes(all) => headers \subseteq all /\ at \in all \cup {Len(raw)}

WellFormed ==
    /\ raw # NotHex /\ Len(raw) <= Limit
    /\ \E headers \in SUBSET (0 .. Len(raw) - 1) :
          /\ Decomposes(headers)
          /\ \A g, h \in headers : raw[g + 1] = raw[h + 1] => g = h
          /\ Required \subseteq {raw[h + 1] : h \in headers}
          /\ \A h \in headers : LengthAllowed(raw[h + 1], raw[h + 2])

DatasetInv ==
    /\ raw = NotHex \/ raw \in Seq(Bytes)
    /\ checking \in {"idle", "running", "accepted", "rejected"}
    /\ checking = "idle" => at = 0 /\ found = <<>>
    /\ checking = "running" =>
          /\ raw \in Seq(Bytes) /\ raw # NotHex /\ Len(raw) <= Limit
          /\ at \in 0 .. Len(raw)
          /\ \E headers \in SUBSET (0 .. Len(raw) - 1) : ReadSoFar(headers) /\ BeginsAll(headers)
    /\ checking = "accepted" => WellFormed
    /\ checking = "rejected" => ~WellFormed

\* The cursor moves forward.
LEMMA ByteIsNatural ==
    ASSUME raw \in Seq(Bytes), NEW h \in 0 .. Len(raw) - 1, h + 2 <= Len(raw)
    PROVE  raw[h + 2] \in Nat /\ After(h) \in Nat /\ After(h) >= h + 2
<1>1. h + 2 \in 1 .. Len(raw)
  OBVIOUS
<1>2. \A i \in 1 .. Len(raw) : raw[i] \in Bytes
  OBVIOUS
<1>3. raw[h + 2] \in Nat
  BY <1>1, <1>2, DatasetAssumption
<1> QED
  BY <1>1, <1>3 DEF After

\* At first nothing is read.
LEMMA DatasetInitInv == DatasetInit => DatasetInv
  BY DatasetAssumption DEF DatasetInit, DatasetInv

\* The first header of any decomposition is at the first byte.
LEMMA BeginKeepsInv ==
    ASSUME DatasetInv, BeginCheck
    PROVE  DatasetInv'
<1>1. /\ raw' = raw /\ at' = 0 /\ found' = <<>> /\ at = 0 /\ found = <<>>
      /\ raw = NotHex \/ raw \in Seq(Bytes)
  BY DEF DatasetInv, BeginCheck, Reject
<1>2. CASE raw = NotHex \/ Len(raw) > Limit
  <2>1. checking' = "rejected"
    BY <1>2 DEF BeginCheck, Reject
  <2>2. ~WellFormed'
    <3>1. raw # NotHex => Len(raw) \in Nat
      BY <1>1
    <3> QED
      BY <1>1, <1>2, <3>1, DatasetAssumption DEF WellFormed
  <2> QED
    BY <1>1, <2>1, <2>2 DEF DatasetInv
<1>3. CASE ~(raw = NotHex \/ Len(raw) > Limit)
  <2>1. checking' = "running" /\ raw \in Seq(Bytes) /\ Len(raw) \in Nat /\ Len(raw) <= Limit
    BY <1>1, <1>3, DatasetAssumption DEF BeginCheck
  <2>2. ReadSoFar({})'
    <3>1. DOMAIN found' = {}
      BY <1>1
    <3> QED
      BY <1>1, <3>1 DEF ReadSoFar
  <2>3. BeginsAll({})'
    <3> SUFFICES ASSUME NEW all \in SUBSET (0 .. Len(raw) - 1), Decomposes(all)'
                 PROVE  0 \in all \cup {Len(raw)}
      BY <1>1 DEF BeginsAll
    <3>1. raw # <<>> => 0 \in all
      BY <1>1 DEF Decomposes
    <3>2. raw = <<>> => Len(raw) = 0
      OBVIOUS
    <3> QED
      BY <3>1, <3>2
  <2> QED
    BY <1>1, <1>3, <2>1, <2>2, <2>3 DEF DatasetInv
<1> QED
  BY <1>2, <1>3

\* A header that is read is one of any decomposition, and one that is refused
\* is of none.
LEMMA ReadKeepsInv ==
    ASSUME DatasetInv, ReadTlv
    PROVE  DatasetInv'
<1>1. /\ raw \in Seq(Bytes) /\ raw # NotHex /\ Len(raw) \in Nat /\ Len(raw) <= Limit
      /\ at \in 0 .. Len(raw) /\ at < Len(raw) /\ checking = "running" /\ raw' = raw
  BY DEF DatasetInv, ReadTlv, Reject
<1>2. PICK headers \in SUBSET (0 .. Len(raw) - 1) : ReadSoFar(headers) /\ BeginsAll(headers)
  BY <1>1 DEF DatasetInv
<1> DEFINE bad == \/ at + 2 > Len(raw)
                  \/ at + 2 + raw[at + 2] > Len(raw)
                  \/ raw[at + 1] \in DOMAIN found
<1>3. \A h \in headers : h \in Nat /\ h < at
  <2> SUFFICES ASSUME NEW h \in headers PROVE h \in Nat /\ h < at
    OBVIOUS
  <2>1. h + 2 <= Len(raw) /\ After(h) <= at
    BY <1>2 DEF ReadSoFar
  <2>2. After(h) \in Nat /\ After(h) >= h + 2
    BY <1>1, <2>1, ByteIsNatural
  <2> QED
    BY <1>1, <2>1, <2>2
<1>4. CASE bad
  <2>1. checking' = "rejected"
    BY <1>4 DEF ReadTlv, Reject
  <2>2. ASSUME WellFormed PROVE FALSE
    <3>1. PICK all \in SUBSET (0 .. Len(raw) - 1) :
             Decomposes(all) /\ \A g, h \in all : raw[g + 1] = raw[h + 1] => g = h
      BY <2>2 DEF WellFormed
    <3>2. headers \subseteq all /\ at \in all
      BY <1>1, <1>2, <3>1 DEF BeginsAll
    <3>3. at + 2 <= Len(raw) /\ After(at) \in all \cup {Len(raw)}
      BY <3>1, <3>2 DEF Decomposes, After
    <3>4. After(at) <= Len(raw)
      <4>1. \A h \in all \cup {Len(raw)} : h <= Len(raw)
        BY <1>1
      <4> QED
        BY <3>3, <4>1
    <3>5. raw[at + 2] \in Nat
      BY <1>1, <3>3, ByteIsNatural
    <3>6. raw[at + 1] \in DOMAIN found
      BY <1>1, <1>4, <3>3, <3>4, <3>5 DEF After
    <3>7. PICK h \in headers : raw[h + 1] = raw[at + 1]
      BY <1>2, <3>6 DEF ReadSoFar
    <3> QED
      BY <1>3, <3>1, <3>2, <3>7, <1>1
  <2>3. ~WellFormed'
    BY <2>2, <1>1 DEF WellFormed, Decomposes
  <2> QED
    BY <1>1, <2>1, <2>3 DEF DatasetInv
<1>5. CASE ~bad
  <2>1. /\ checking' = "running" /\ at' = After(at)
        /\ found' = [type \in DOMAIN found \cup {raw[at + 1]} |->
                        IF type = raw[at + 1] THEN raw[at + 2] ELSE found[type]]
    BY <1>1, <1>5 DEF ReadTlv, After
  <2>2. raw[at + 2] \in Nat /\ at + 2 <= Len(raw) /\ After(at) \in Nat /\ After(at) >= at + 2
    <3>1. at + 2 <= Len(raw)
      BY <1>1, <1>5
    <3> QED
      BY <1>1, <3>1, ByteIsNatural
  <2>3. at' \in 0 .. Len(raw)
    BY <1>1, <1>5, <2>1, <2>2 DEF After
  <2>4. PICK more \in SUBSET (0 .. Len(raw) - 1) : more = headers \cup {at}
    <3>1. headers \cup {at} \in SUBSET (0 .. Len(raw) - 1)
      BY <1>1
    <3> QED
      BY <3>1
  <2>5. raw[at + 1] \notin DOMAIN found
    BY <1>5
  <2>6. ReadSoFar(more)'
    <3>1. \A h \in more : /\ h + 2 <= Len(raw) /\ After(h) <= at'
                          /\ After(h) \in more \cup {at'}
      <4>1. \A h \in headers : /\ h + 2 <= Len(raw) /\ After(h) <= at
                               /\ After(h) \in headers \cup {at}
        BY <1>2 DEF ReadSoFar
      <4>2. \A h \in headers : After(h) \in Nat
        <5> SUFFICES ASSUME NEW h \in headers PROVE After(h) \in Nat
          OBVIOUS
        <5>1. h \in 0 .. Len(raw) - 1 /\ h + 2 <= Len(raw)
          BY <4>1
        <5> QED
          BY <1>1, <5>1, ByteIsNatural
      <4> QED
        BY <1>1, <2>1, <2>2, <2>4, <4>1, <4>2
    <3>2. \A h \in more : h = 0 \/ \E g \in more : After(g) = h
      BY <1>2, <2>4 DEF ReadSoFar
    <3>3. at' # 0 => 0 \in more /\ \E g \in more : After(g) = at'
      BY <1>2, <2>1, <2>4 DEF ReadSoFar
    <3>4. \A g, h \in more : raw[g + 1] = raw[h + 1] => g = h
      BY <1>2, <2>4, <2>5 DEF ReadSoFar
    <3>5. DOMAIN found' = {raw[h + 1] : h \in more}
      BY <1>2, <2>1, <2>4 DEF ReadSoFar
    <3>6. \A h \in more : found'[raw[h + 1]] = raw[h + 2]
      BY <1>2, <2>1, <2>4, <2>5 DEF ReadSoFar
    <3>7. \A h : After(h)' = After(h)
      BY <1>1 DEF After
    <3> QED
      BY <1>1, <2>4, <3>1, <3>2, <3>3, <3>4, <3>5, <3>6, <3>7 DEF ReadSoFar
  <2>7. BeginsAll(more)'
    <3>1. ASSUME NEW all \in SUBSET (0 .. Len(raw) - 1), Decomposes(all)
          PROVE  more \subseteq all /\ After(at) \in all \cup {Len(raw)}
      <4>1. headers \subseteq all /\ at \in all
        BY <1>1, <1>2, <3>1 DEF BeginsAll
      <4> QED
        BY <2>4, <3>1, <4>1 DEF Decomposes, After
    <3>2. ASSUME NEW all PROVE Decomposes(all)' <=> Decomposes(all)
      BY <1>1 DEF Decomposes
    <3> QED
      BY <1>1, <2>1, <3>1, <3>2 DEF BeginsAll
  <2>8. \E h \in SUBSET (0 .. Len(raw') - 1) : ReadSoFar(h)' /\ BeginsAll(h)'
    <3> QED
      BY <1>1, <2>4, <2>6, <2>7
  <2> QED
    BY <1>1, <2>1, <2>3, <2>8 DEF DatasetInv
<1> QED
  BY <1>4, <1>5

\* At the end the headers read are the decomposition, and no other is one.
LEMMA HeadersAreOneWay ==
    ASSUME raw \in Seq(Bytes), at = Len(raw),
           NEW headers \in SUBSET (0 .. Len(raw) - 1), ReadSoFar(headers), BeginsAll(headers)
    PROVE  /\ Decomposes(headers)
           /\ \A all \in SUBSET (0 .. Len(raw) - 1) : Decomposes(all) => all = headers
<1>1. Decomposes(headers)
  <2>1. Len(raw) = 0 => raw = <<>>
    OBVIOUS
  <2>2. raw # <<>> => 0 \in headers
    BY <2>1 DEF ReadSoFar
  <2> QED
    BY <2>2 DEF ReadSoFar, Decomposes, After
<1>2. ASSUME NEW all \in SUBSET (0 .. Len(raw) - 1), Decomposes(all)
      PROVE  all \subseteq headers
  <2> SUFFICES ASSUME all \ headers # {} PROVE FALSE
    OBVIOUS
  <2>1. PICK m \in all \ headers : \A y \in all \ headers : m <= y
    <3>1. all \ headers \in SUBSET Nat
      OBVIOUS
    <3> QED
      BY <3>1, MinInSet
  <2>2. raw # <<>> /\ m \in 0 .. Len(raw) - 1
    BY <2>1
  <2>3. m # 0
    BY <1>1, <1>2, <2>1, <2>2 DEF Decomposes
  <2>4. PICK g \in all : After(g) = m
    BY <1>2, <2>1, <2>3 DEF Decomposes, After
  <2>5. g \in Nat /\ g < m
    <3>1. g \in 0 .. Len(raw) - 1 /\ g + 2 <= Len(raw)
      BY <1>2, <2>4 DEF Decomposes
    <3> QED
      BY <2>4, <3>1, ByteIsNatural
  <2>6. g \in headers
    BY <2>1, <2>2, <2>4, <2>5
  <2>7. m \in headers \cup {at}
    BY <2>4, <2>6 DEF ReadSoFar
  <2> QED
    BY <2>1, <2>2, <2>7
<1>3. \A all \in SUBSET (0 .. Len(raw) - 1) : Decomposes(all) => headers \subseteq all
  BY DEF BeginsAll
<1> QED
  BY <1>1, <1>2, <1>3

\* So the verdict is about the one decomposition there can be.
LEMMA ConcludeKeepsInv ==
    ASSUME DatasetInv, Conclude
    PROVE  DatasetInv'
<1>1. /\ raw \in Seq(Bytes) /\ raw # NotHex /\ Len(raw) <= Limit
      /\ at = Len(raw) /\ raw' = raw
  BY DEF DatasetInv, Conclude
<1>2. PICK headers \in SUBSET (0 .. Len(raw) - 1) : ReadSoFar(headers) /\ BeginsAll(headers)
  BY DEF DatasetInv, Conclude
<1>3. /\ Decomposes(headers)
      /\ \A all \in SUBSET (0 .. Len(raw) - 1) : Decomposes(all) => all = headers
  BY <1>1, <1>2, HeadersAreOneWay
<1> DEFINE good == /\ Required \subseteq DOMAIN found
                   /\ \A type \in DOMAIN found : LengthAllowed(type, found[type])
<1>4. checking' = IF good THEN "accepted" ELSE "rejected"
  BY DEF Conclude
<1>5. good <=> /\ Required \subseteq {raw[h + 1] : h \in headers}
               /\ \A h \in headers : LengthAllowed(raw[h + 1], raw[h + 2])
  <2>1. DOMAIN found = {raw[h + 1] : h \in headers}
    BY <1>2 DEF ReadSoFar
  <2>2. \A h \in headers : found[raw[h + 1]] = raw[h + 2]
    BY <1>2 DEF ReadSoFar
  <2>3. (\A type \in DOMAIN found : LengthAllowed(type, found[type]))
            <=> \A h \in headers : LengthAllowed(raw[h + 1], raw[h + 2])
    BY <2>1, <2>2, Zenon
  <2> QED
    BY <2>1, <2>3
<1>6. good <=> WellFormed
  <2> HIDE DEF good
  <2>1. good => WellFormed
    BY <1>1, <1>2, <1>3, <1>5 DEF WellFormed, ReadSoFar
  <2>2. ASSUME WellFormed PROVE good
    <3>1. PICK all \in SUBSET (0 .. Len(raw) - 1) :
             /\ Decomposes(all)
             /\ Required \subseteq {raw[h + 1] : h \in all}
             /\ \A h \in all : LengthAllowed(raw[h + 1], raw[h + 2])
      BY <2>2 DEF WellFormed
    <3>2. all = headers
      BY <1>3, <3>1
    <3> QED
      BY <1>5, <3>1, <3>2
  <2> QED
    BY <2>1, <2>2
<1>7. WellFormed' <=> WellFormed
  BY <1>1 DEF WellFormed, Decomposes
<1> HIDE DEF good
<1> QED
  BY <1>1, <1>4, <1>6, <1>7 DEF DatasetInv

\* Whatever the bytes, the types, their lengths and the limit: the check
\* accepts a dataset if and only if it can be decomposed into one header after
\* the other, to its last byte, as the Thread specification has it.
THEOREM ChecksDatasets == DatasetSpec => []AcceptsWellFormed
<1>1. DatasetInv => AcceptsWellFormed
  BY DEF DatasetInv, AcceptsWellFormed, WellFormed
<1>2. DatasetInv /\ [DatasetNext]_datasetVars => DatasetInv'
  <2>1. DatasetInv /\ UNCHANGED datasetVars => DatasetInv'
    <3> SUFFICES ASSUME DatasetInv, UNCHANGED datasetVars PROVE DatasetInv'
      OBVIOUS
    <3>1. raw' = raw /\ at' = at /\ found' = found /\ checking' = checking
      BY DEF datasetVars
    <3>2. \A h : (ReadSoFar(h)' <=> ReadSoFar(h)) /\ (BeginsAll(h)' <=> BeginsAll(h))
      BY <3>1 DEF ReadSoFar, BeginsAll, Decomposes, After
    <3>3. WellFormed' <=> WellFormed
      BY <3>1 DEF WellFormed, Decomposes
    <3> QED
      BY <3>1, <3>2, <3>3 DEF DatasetInv
  <2> QED
    BY <2>1, BeginKeepsInv, ReadKeepsInv, ConcludeKeepsInv DEF DatasetNext
<1> QED
  BY <1>1, <1>2, DatasetInitInv, PTL DEF DatasetSpec

-----------------------------------------------------------------------------
\* Whatever a build sets or lacks that it should not, it is an option that is
\* checked.
LEMMA LostSettingIsSeen ==
    ASSUME NEW p \in Profiles, NEW o \in DOMAIN ConfiguredSettings(p)
    PROVE  o \in DOMAIN RequiredSettings(p) /\ RequiredSettings(p)[o] # "n"
  BY DEF Profiles, ConfiguredSettings, RequiredSettings, CommonSettings, OpenSettings,
         LockedSettings, Merged

\* Nor is one that must be off.
LEMMA WeakSettingIsSeen ==
    ASSUME NEW p \in Profiles, NEW o \in WeakSettings(p)
    PROVE  o \in DOMAIN RequiredSettings(p) /\ RequiredSettings(p)[o] = "n"
  BY DEF Profiles, WeakSettings, RequiredSettings, CommonSettings, OpenSettings,
         LockedSettings, Merged

\* A fault is of a kind, with what is wrong.
LEMMA FaultForm ==
    ASSUME NEW f \in Faults
    PROVE  /\ f.profile \in Profiles /\ f.kind \in FaultKinds
           /\ f.what \in Whats(f.profile, f.kind)
<1>1. PICK p \in Profiles : f \in FaultsOf(p)
  BY Zenon DEF Faults
<1>2. PICK k \in FaultKinds : f \in [profile : {p}, kind : {k}, what : Whats(p, k)]
  BY <1>1, Zenon DEF FaultsOf
<1> QED
  BY <1>2

\* A build that ESPHome leaves when nothing is wrong, and one with a fault.
LEMMA BuiltForm ==
    ASSUME NEW p, NEW run, NEW version, NEW t, NEW size
    PROVE  LET b == Built(p, run, version, t, size) IN
           /\ b.profile = p /\ b.version = version /\ b.table = t /\ b.fault = NoFault
           /\ b.ota = run /\ b.application = run
           /\ b.factory.application = run
  BY DEF Built

\* A fault leaves the rest of a build as it was.
LEMMA SpoiltForm ==
    ASSUME NEW p, NEW run, NEW version, NEW t, NEW size, NEW f \in Faults
    PROVE  LET b == Spoilt(Built(p, run, version, t, size), f) IN
           b.profile = p /\ b.version = version /\ b.table = t
  BY FaultForm DEF Built, Spoilt, FaultKinds

\* verify_build sees every fault, whatever the layout.
LEMMA FaultsAreSeen ==
    ASSUME NEW f \in Faults, NEW run \in Nat \ {0}, NEW version, NEW t, NEW size, NEW lay
    PROVE  ~VerifiesBuild(f.profile, Spoilt(Built(f.profile, run, version, t, size), f), lay)
<1> DEFINE p == f.profile
           good == Built(p, run, version, t, size)
           bad == Spoilt(good, f)
<1> SUFFICES ASSUME VerifiesBuild(p, bad, lay) PROVE FALSE
  OBVIOUS
<1>1. p \in Profiles /\ f.kind \in FaultKinds /\ f.what \in Whats(p, f.kind)
  BY FaultForm
<1>2. CASE f.kind = "lost setting"
  <2>1. f.what \in DOMAIN ConfiguredSettings(p)
    BY <1>1, <1>2 DEF Whats
  <2>2. bad.sdkconfig = [o \in DOMAIN ConfiguredSettings(p) \ {f.what} |-> ConfiguredSettings(p)[o]]
    BY <1>2 DEF Spoilt, Built
  <2>3. Setting(bad.sdkconfig, f.what) = "n"
    BY <2>2 DEF Setting
  <2>4. CheckSdkconfig(p, bad.sdkconfig)
    BY DEF VerifiesBuild
  <2> HIDE DEF bad
  <2> QED
    BY <1>1, <2>1, <2>3, <2>4, LostSettingIsSeen DEF CheckSdkconfig
<1>3. CASE f.kind = "weak setting"
  <2>1. f.what \in WeakSettings(p)
    BY <1>1, <1>3 DEF Whats
  <2>2. bad.sdkconfig = [o \in DOMAIN ConfiguredSettings(p) \cup {f.what} |->
                            IF o = f.what THEN "y" ELSE ConfiguredSettings(p)[o]]
    BY <1>3 DEF Spoilt, Built
  <2>3. Setting(bad.sdkconfig, f.what) = "y"
    BY <2>2 DEF Setting
  <2>4. CheckSdkconfig(p, bad.sdkconfig)
    BY DEF VerifiesBuild
  <2> HIDE DEF bad
  <2> QED
    BY <1>1, <2>1, <2>3, <2>4, WeakSettingIsSeen DEF CheckSdkconfig
<1>4. CASE f.kind = "lost marker"
  <2>1. f.what \in RequiredMarkers(p) /\ bad.markers = good.markers \ {f.what}
    BY <1>1, <1>4 DEF Whats, Spoilt, Built
  <2> QED
    BY <2>1 DEF VerifiesBuild
<1>5. CASE f.kind = "leaked marker"
  <2>1. f.what \in ForbiddenMarkers(p) /\ bad.markers = good.markers \cup {f.what}
    BY <1>1, <1>5 DEF Whats, Spoilt, Built
  <2> QED
    BY <2>1 DEF VerifiesBuild
<1>6. CASE f.kind = "unsigned"
  <2>1. bad.signed = good.signed \ {f.what}
    BY <1>6 DEF Spoilt, Built
  <2>2. f.what = "ota" \/ (p # "bootstrap" /\ f.what = "bootloader")
    BY <1>1, <1>6 DEF Whats
  <2> QED
    BY <2>1, <2>2 DEF VerifiesBuild
<1>7. CASE f.kind \in {"missing file", "no flash map"}
  BY <1>7 DEF VerifiesBuild, Spoilt, Built
<1>8. CASE f.kind = "stale ota"
  BY <1>8 DEF VerifiesBuild, Spoilt, Built
<1>9. CASE f.kind = "stale factory"
  <2>1. f.what \in {"bootloader", "partitions", "application"}
    BY <1>1, <1>9 DEF Whats
  <2>2. bad.factory[f.what] = 0 /\ bad.bootloader = run /\ bad.partitions = run
        /\ bad.application = run
    BY <1>9, <2>1 DEF Spoilt, Built
  <2>3. bad.factory.bootloader = bad.bootloader /\ bad.factory.partitions = bad.partitions
        /\ bad.factory.application = bad.application
    BY DEF VerifiesBuild
  <2> QED
    BY <2>1, <2>2, <2>3
<1> QED
  BY <1>1, <1>2, <1>3, <1>4, <1>5, <1>6, <1>7, <1>8, <1>9 DEF FaultKinds

-----------------------------------------------------------------------------
(***************************************************************************)
(* The scripts.  What they verified they know only as paths, so the        *)
(* invariant is about the build directories: those of the profiles that    *)
(* are verified are good, of this run, and stay as they are until the last *)
(* copy is made, because a run compiles each profile once, in a directory  *)
(* of its own.                                                             *)
(***************************************************************************)
Building == {"compile", "verify", "layout"}

LayingOut == {"remove", "copy", "manifest"}

Running(name) == script.name = name

HostForm ==
    /\ runs \in Nat
    /\ DOMAIN tree = Profiles
    /\ pages = [images |-> pages.images, manifest |-> pages.manifest]
    /\ downloads = [images |-> downloads.images, manifest |-> downloads.manifest]

ScriptForm ==
    \/ Running("none") /\ script.stage \in {"idle", "failed", "prepared", "released"}
    \/ /\ Running("provisioning") \/ Running("release")
       /\ script = [name |-> script.name, stage |-> script.stage, version |-> script.version,
                    api_key |-> script.api_key, builds |-> script.builds]
       /\ script.stage \in Building \cup LayingOut
       /\ runs # 0
       /\ Running("provisioning") => script.api_key = "32 bytes"
       /\ Running("release") => script.version >= MinimumVersion

\* A compiled build, if it passes, is a good one of this run.
Fresh(build, profile) ==
    /\ build.profile = profile /\ build.version = script.version /\ build.table \in Tables
    /\ \A lay : VerifiesBuild(profile, build, lay) => build.fault = NoFault /\ build.ota = runs

\* A build that passed, as it is in its directory.
Good(build, nvsOffset) ==
    /\ build.version = script.version /\ build.fault = NoFault
    /\ build.ota = runs /\ build.factory.application = runs
    /\ build.factory.end <= nvsOffset

BuildsAreGood ==
    \A b \in script.builds :
        /\ b.profile \in Profiles /\ tree[b.profile].profile = b.profile
        /\ b.nvs_offset \in Nat
        /\ Good(tree[b.profile], b.nvs_offset)

Verified == {b.profile : b \in script.builds}

ProvisioningOrder ==
    /\ IsFiniteSet(script.builds)
    /\ \E n \in 0 .. 3 :
          /\ Cardinality(script.builds) = n
          /\ Verified = {Order[i] : i \in 1 .. n}
          /\ n = 3 <=> script.stage \in LayingOut

ReleaseOrder ==
    IF script.stage \in LayingOut THEN Verified = {"production"} ELSE script.builds = {}

BuildInv ==
    /\ ~Running("none") => BuildsAreGood
    /\ Running("provisioning") => ProvisioningOrder
    /\ Running("release") => ReleaseOrder
    /\ At("verify") \/ At("layout") => Fresh(tree[TreeOf(Current)], Current)
    /\ At("layout") => LayoutInv

SetInv ==
    Running("provisioning") /\ script.stage \in {"copy", "manifest"} =>
        /\ AssertMatchingPartitions(script.builds)
        /\ \A file \in DOMAIN artifacts : artifacts[file] = ImageOf(file[1], file[2])
        /\ At("manifest") => DOMAIN artifacts = Profiles \X Kinds

\* The images that a manifest lists.
ManifestInv ==
    manifest \notin {NoFile, Torn} =>
        \A profile \in Profiles, kind \in Kinds :
            LET image == manifest.files[<<profile, kind>>] IN
            /\ image.profile = profile /\ image.kind = kind
            /\ image.run = manifest.run /\ image.version = manifest.version
            /\ image.fault = NoFault
            /\ image.end <= manifest.nvs_offset

ReleaseInv ==
    Running("release") /\ script.stage \in {"copy", "manifest"} =>
        /\ \A kind \in DOMAIN downloads.images :
              /\ downloads.images[kind] = ImageOf("production", kind)
              /\ <<script.version, kind>> \in DOMAIN pages.images
              /\ pages.images[<<script.version, kind>>] = ImageOf("production", kind)
        /\ At("manifest") => DOMAIN downloads.images = Kinds

PreparationInv ==
    /\ HostForm
    /\ ScriptForm
    /\ BuildInv
    /\ SetInv
    /\ ManifestInv
    /\ ReleaseInv
    /\ ReleaseIsSound

-----------------------------------------------------------------------------
\* Nothing is built, laid out or verified at first.
LEMMA PreparationInitInv == PreparationInit /\ LayoutAtRest => PreparationInv
  BY DEF PreparationInit, PreparationInv, HostForm, ScriptForm, Running, Idle, BuildInv, SetInv,
         ManifestInv, ReleaseInv, ReleaseIsSound, At

\* A script that ends, well or not, leaves only its files.
LEMMA EndKeepsInv ==
    ASSUME HostForm', ManifestInv', NEW result \in {"failed", "prepared", "released"}, Ends(result),
           result = "released" => ReleaseIsSound'
    PROVE  PreparationInv'
<1>1. script'.name = "none" /\ script'.stage = result
  BY DEF Ends, Idle
<1> QED
  BY <1>1 DEF PreparationInv, ScriptForm, Running, BuildInv, SetInv, ReleaseInv, ReleaseIsSound, At

\* The directory that is compiled into is not one of a verified build.
LEMMA CurrentIsNext ==
    ASSUME PreparationInv, script.stage \in Building
    PROVE  /\ Current \in Profiles /\ Current \notin Verified
           /\ Running("provisioning") \/ Running("release")
           /\ Running("release") => Current = "production"
<1>1. Running("provisioning") \/ Running("release")
  BY DEF PreparationInv, ScriptForm, Building
<1>2. CASE Running("release")
  <2>1. script.builds = {}
    BY <1>2 DEF PreparationInv, BuildInv, ReleaseOrder, Building, LayingOut
  <2> QED
    BY <1>2, <2>1 DEF Running, Current, Verified, Profiles
<1>3. CASE Running("provisioning")
  <2>1. PICK n \in 0 .. 3 : /\ Cardinality(script.builds) = n
                            /\ Verified = {Order[i] : i \in 1 .. n}
                            /\ n = 3 <=> script.stage \in LayingOut
    BY <1>3 DEF PreparationInv, BuildInv, ProvisioningOrder
  <2>2. n \in 0 .. 2
    BY <2>1 DEF Building, LayingOut
  <2>3. Current = Order[n + 1]
    BY <1>3, <2>1 DEF Current, Running
  <2>4. \A i, j \in 1 .. 3 : Order[i] \in Profiles /\ (Order[i] = Order[j] => i = j)
    BY DEF Order, Profiles
  <2>5. Current \notin Verified
    BY <2>1, <2>2, <2>3, <2>4
  <2> QED
    BY <1>3, <2>2, <2>3, <2>4, <2>5 DEF Running
<1> QED
  BY <1>1, <1>2, <1>3

\* What a step of a script that goes on leaves of it.
LEMMA StepsOn ==
    ASSUME ScriptForm, ~Running("none"), NEW stage, GoesTo(stage)
    PROVE  /\ script'.name = script.name /\ script'.version = script.version
           /\ script'.api_key = script.api_key /\ script'.builds = script.builds
           /\ script'.stage = stage
           /\ script' = [name |-> script.name, stage |-> stage, version |-> script.version,
                         api_key |-> script.api_key, builds |-> script.builds]
           /\ Current' = Current
  BY DEF ScriptForm, Running, GoesTo, Current

-----------------------------------------------------------------------------
\* A script starts with nothing verified.
LEMMA StartKeepsInv ==
    ASSUME PreparationInv, Start
    PROVE  PreparationInv'
<1>1. PICK version \in Versions, inputs \in Inputs :
          StartProvisioning(version, inputs) \/ StartRelease(version, inputs)
  BY DEF Start
<1>2. PICK name \in {"provisioning", "release"} :
          \E key : /\ StartScript(name, version, key)
                   /\ name = "provisioning" => key = "32 bytes"
                   /\ name = "release" => version >= MinimumVersion
  BY <1>1 DEF StartProvisioning, StartRelease, ValidatesPrivateInputs, ValidInputs
<1>3. PICK key : /\ StartScript(name, version, key)
                 /\ name = "provisioning" => key = "32 bytes"
                 /\ name = "release" => version >= MinimumVersion
  BY <1>2
<1>4. /\ script' = [name |-> name, stage |-> "compile", version |-> version, api_key |-> key,
                    builds |-> {}]
      /\ runs' = runs + 1
      /\ UNCHANGED <<tree, artifacts, manifest, pages, downloads>>
  BY <1>3 DEF StartScript
<1>5. HostForm'
  BY <1>4 DEF PreparationInv, HostForm
<1>6. ScriptForm'
  <2>1. /\ script'.name = name /\ script'.stage = "compile" /\ script'.version = version
        /\ script'.api_key = key /\ script'.builds = {}
    BY <1>4
  <2>2. script' = [name |-> script'.name, stage |-> script'.stage, version |-> script'.version,
                   api_key |-> script'.api_key, builds |-> script'.builds]
    BY <1>4, <2>1
  <2>3. runs' # 0
    BY <1>4 DEF PreparationInv, HostForm
  <2> QED
    BY <1>3, <2>1, <2>2, <2>3 DEF ScriptForm, Running, Building
<1>7. BuildInv'
  <2>1. ProvisioningOrder'
    <3>1. script'.builds = {} /\ script'.stage = "compile"
      BY <1>4
    <3>2. IsFiniteSet(script'.builds) /\ Cardinality(script'.builds) = 0
      BY <3>1, FS_EmptySet
    <3> QED
      BY <3>1, <3>2 DEF ProvisioningOrder, Verified, LayingOut
  <2> QED
    BY <1>4, <2>1 DEF BuildInv, BuildsAreGood, ReleaseOrder, LayingOut, At
<1> QED
  BY <1>4, <1>5, <1>6, <1>7
  DEF PreparationInv, SetInv, ManifestInv, ReleaseInv, ReleaseIsSound, At

\* What a compilation leaves, whatever was wrong, is fresh.
LEMMA CompiledIsFresh ==
    ASSUME PreparationInv, At("compile"), NEW variant \in Variants, Compile(variant)
    PROVE  \E build : tree' = [tree EXCEPT ![TreeOf(Current)] = build] /\ Fresh(build, Current)
<1> DEFINE p == Current
           plain == Built(p, runs, script.version, variant.table, variant.size)
           built == Keyed(Overlaid(plain))
<1>1. /\ p \in Profiles /\ (Running("provisioning") \/ Running("release"))
      /\ Running("release") => p = "production"
  BY CurrentIsNext DEF At, Building
<1>2. /\ plain.profile = p /\ plain.version = script.version /\ plain.table = variant.table
      /\ plain.fault = NoFault /\ plain.ota = runs
  BY BuiltForm
<1>3. variant.table \in Tables /\ variant.fault \in Faults \cup {NoFault}
  BY PreparationAssumption
<1>4. runs \in Nat \ {0} /\ (Running("provisioning") => script.api_key = "32 bytes")
  BY <1>1 DEF PreparationInv, HostForm, ScriptForm, Running
<1>5. Overlaid(plain).profile = p
  BY <1>2 DEF Overlaid, Built
<1>6. built = Overlaid(plain)
  BY <1>1, <1>4, <1>5 DEF Keyed, Running
<1>7. \/ built = plain
      \/ /\ built.fault # NoFault /\ ~built.complete
         /\ built.profile = p /\ built.version = script.version /\ built.table = variant.table
  <2>1. FaultIn(plain, "api source gone") # NoFault
    <3>1. FaultIn(plain, "api source gone") \in [profile : Profiles, kind : InputFaults, what : {"any"}]
      <4> HIDE DEF plain, p
      <4>1. plain.profile \in Profiles
        BY <1>1, <1>2
      <4> QED
        BY <4>1 DEF FaultIn, InputFaults
    <3> QED
      BY <3>1, PreparationAssumption
  <2>2. DOMAIN plain = {"profile", "version", "fault", "complete", "sdkconfig", "markers", "signed",
                        "flashMap", "size", "application", "ota", "bootloader", "partitions", "table",
                        "factory"}
    BY DEF Built
  <2>3. \/ Overlaid(plain) = plain
        \/ \E left : Overlaid(plain) = [plain EXCEPT !.complete = FALSE, !.markers = left,
                                                     !.fault = FaultIn(plain, "api source gone")]
    <3> HIDE DEF plain
    <3> QED
      BY Zenon DEF Overlaid
  <2> HIDE DEF plain
  <2> QED
    BY <1>2, <1>6, <2>1, <2>2, <2>3
<1>8. Fresh(built, p)
  BY <1>2, <1>3, <1>7 DEF Fresh, VerifiesBuild
<1>9. CASE variant.fault = NoFault /\ tree' = [tree EXCEPT ![TreeOf(p)] = built]
  BY <1>8, <1>9
<1>10. CASE /\ variant.fault # NoFault /\ variant.fault.profile = p
            /\ built.fault = NoFault
            /\ tree' = [tree EXCEPT ![TreeOf(p)] = Spoilt(built, variant.fault)]
  <2>1. built = plain /\ variant.fault \in Faults
    BY <1>3, <1>7, <1>10
  <2>2. \A lay : ~VerifiesBuild(p, Spoilt(plain, variant.fault), lay)
    BY <1>4, <1>10, <2>1, FaultsAreSeen
  <2>3. /\ Spoilt(plain, variant.fault).profile = p
        /\ Spoilt(plain, variant.fault).version = script.version
        /\ Spoilt(plain, variant.fault).table = variant.table
    BY <2>1, SpoiltForm
  <2>4. Fresh(Spoilt(plain, variant.fault), p)
    BY <1>3, <2>2, <2>3 DEF Fresh
  <2> QED
    BY <1>10, <2>1, <2>4
<1> QED
  BY <1>9, <1>10 DEF Compile

\* It changes the directory of one profile, which no verified build is in.
LEMMA CompileKeepsInv ==
    ASSUME PreparationInv, NEW variant \in Variants, Compile(variant)
    PROVE  PreparationInv'
<1>1. At("compile") /\ GoesTo("verify") /\ UNCHANGED <<runs, artifacts, manifest, pages, downloads>>
  BY DEF Compile
<1>2. PICK build : tree' = [tree EXCEPT ![TreeOf(Current)] = build] /\ Fresh(build, Current)
  BY <1>1, CompiledIsFresh
<1>3. /\ Current \in Profiles /\ Current \notin Verified /\ ~Running("none") /\ TreeOf(Current) = Current
  BY <1>1, CurrentIsNext DEF At, Building, Running, TreeOf
<1>4. /\ script'.name = script.name /\ script'.version = script.version
      /\ script'.api_key = script.api_key /\ script'.builds = script.builds
      /\ script'.stage = "verify"
      /\ script' = [name |-> script.name, stage |-> "verify", version |-> script.version,
                    api_key |-> script.api_key, builds |-> script.builds]
      /\ Current' = Current
  BY <1>1, <1>3, StepsOn DEF PreparationInv
<1>5. /\ DOMAIN tree = Profiles /\ DOMAIN tree' = Profiles /\ tree'[Current] = build
      /\ \A p \in Profiles : p # Current => tree'[p] = tree[p]
  BY <1>2, <1>3 DEF PreparationInv, HostForm
<1>6. HostForm' /\ ScriptForm'
  <2>1. HostForm'
    BY <1>1, <1>5 DEF PreparationInv, HostForm
  <2>2. ScriptForm'
    BY <1>1, <1>3, <1>4 DEF PreparationInv, ScriptForm, Running, Building
  <2> QED
    BY <2>1, <2>2
<1>7. BuildsAreGood'
  BY <1>1, <1>3, <1>4, <1>5 DEF PreparationInv, BuildInv, BuildsAreGood, Good, Verified
<1>8. Running("provisioning") => ProvisioningOrder'
  BY <1>1, <1>4 DEF PreparationInv, BuildInv, ProvisioningOrder, Verified, LayingOut, At
<1>9. Running("release") => ReleaseOrder'
  BY <1>1, <1>4 DEF PreparationInv, BuildInv, ReleaseOrder, LayingOut, At
<1>10. Fresh(tree[TreeOf(Current)], Current)'
  BY <1>1, <1>2, <1>3, <1>4, <1>5 DEF Fresh, TreeOf
<1>11. BuildInv'
  BY <1>4, <1>7, <1>8, <1>9, <1>10 DEF BuildInv, Running, At
<1> QED
  BY <1>1, <1>4, <1>6, <1>11
  DEF PreparationInv, SetInv, ManifestInv, ReleaseInv, ReleaseIsSound, At

-----------------------------------------------------------------------------
\* The table of a fresh build is read from its first row, ...
LEMMA BeginKeepsScripts ==
    ASSUME PreparationInv, BeginVerify
    PROVE  PreparationInv'
<1>1. /\ At("verify") /\ GoesTo("layout")
      /\ UNCHANGED <<runs, tree, artifacts, manifest, pages, downloads>>
  BY DEF BeginVerify
<1>2. ~Running("none")
  BY <1>1, CurrentIsNext DEF At, Building, Running
<1>3. /\ script'.name = script.name /\ script'.version = script.version
      /\ script'.api_key = script.api_key /\ script'.builds = script.builds
      /\ script'.stage = "layout" /\ Current' = Current
      /\ script' = [name |-> script.name, stage |-> "layout", version |-> script.version,
                    api_key |-> script.api_key, builds |-> script.builds]
  BY <1>1, <1>2, StepsOn DEF PreparationInv
<1>4. Fresh(tree[TreeOf(Current)], Current)
  BY <1>1 DEF PreparationInv, BuildInv
<1>5. LayoutInv'
  <2>1. PICK t \in Tables : t = tree[TreeOf(Current)].table
    BY <1>4 DEF Fresh
  <2>2. /\ table' = t /\ row' = 1 /\ cursor' = TableOffset + TableSize /\ layout' = <<>>
    BY <2>1 DEF BeginVerify, Begun
  <2>3. DOMAIN layout' = {}
    BY <2>2
  <2>4. LayoutTypeOK' /\ BehindTable'
    BY <2>2, LayoutAssumption DEF LayoutTypeOK, BehindTable
  <2> QED
    BY <2>3, <2>4 DEF LayoutInv, PartitionsApart
<1>6. ScriptForm'
  BY <1>1, <1>2, <1>3 DEF PreparationInv, ScriptForm, Running, Building
<1>7. Fresh(tree[TreeOf(Current)], Current)'
  BY <1>1, <1>3, <1>4 DEF Fresh, TreeOf
<1>8. BuildInv'
  BY <1>1, <1>3, <1>5, <1>7
  DEF PreparationInv, BuildInv, BuildsAreGood, Good, ProvisioningOrder, ReleaseOrder, Verified,
      LayingOut, Running, At
<1> QED
  BY <1>1, <1>3, <1>6, <1>8
  DEF PreparationInv, HostForm, SetInv, ManifestInv, ReleaseInv, ReleaseIsSound, At

\* ... row by row, ...
LEMMA ReadKeepsScripts ==
    ASSUME PreparationInv, ReadLayout
    PROVE  PreparationInv'
<1>1. At("layout") /\ LayoutNext /\ UNCHANGED hostVars
  BY DEF ReadLayout
<1>2. LayoutInv'
  BY <1>1, LayoutInvInductive DEF PreparationInv, BuildInv
<1>3. /\ runs' = runs /\ script' = script /\ tree' = tree /\ artifacts' = artifacts
      /\ manifest' = manifest /\ pages' = pages /\ downloads' = downloads
  BY <1>1 DEF hostVars
<1>4. Current' = Current
  BY <1>3 DEF Current
<1>5. BuildInv'
  BY <1>2, <1>3, <1>4
  DEF PreparationInv, BuildInv, BuildsAreGood, Good, ProvisioningOrder, ReleaseOrder, Verified,
      Running, At, Fresh, TreeOf
<1>6. script.stage = "layout" /\ script'.stage = "layout"
  BY <1>1, <1>3 DEF At
<1>7. HostForm' /\ ScriptForm' /\ ManifestInv'
  BY <1>3 DEF PreparationInv, HostForm, ScriptForm, Running, ManifestInv
<1>8. SetInv' /\ ReleaseInv' /\ ReleaseIsSound'
  BY <1>6 DEF SetInv, ReleaseInv, ReleaseIsSound, At
<1> QED
  BY <1>5, <1>7, <1>8 DEF PreparationInv

\* ... and then a build that passes is one more that is good.
LEMMA PassedIsGood ==
    ASSUME PreparationInv, At("layout"), VerifiesBuild(Current, tree[TreeOf(Current)], layout)
    PROVE  LET b == VerifiedBuild(Current, tree[TreeOf(Current)], layout) IN
           /\ b.profile = Current /\ tree[Current].profile = Current
           /\ b.nvs_offset \in Nat
           /\ Good(tree[Current], b.nvs_offset)
<1>1. Fresh(tree[Current], Current) /\ LayoutInv
  BY DEF PreparationInv, BuildInv, TreeOf
<1>2. "nvs" \in DOMAIN layout /\ layout["nvs"].start \in Nat
  BY <1>1 DEF VerifiesBuild, LayoutInv, PlacedBefore
<1>3. /\ tree[Current].factory.end <= layout["nvs"].start
      /\ tree[Current].factory.application = tree[Current].application
      /\ tree[Current].application = tree[Current].ota
  BY DEF VerifiesBuild, TreeOf
<1>4. tree[Current].fault = NoFault /\ tree[Current].ota = runs
  BY <1>1 DEF Fresh, TreeOf
<1> QED
  BY <1>1, <1>2, <1>3, <1>4 DEF VerifiedBuild, Good, Fresh

\* What a command leaves behind does not change the two scripts.
LEMMA FinishKeepsScripts ==
    ASSUME PreparationInv, FinishVerify
    PROVE  PreparationInv'
<1>1. At("layout") /\ UNCHANGED <<runs, tree, artifacts, manifest, pages, downloads>>
  BY DEF FinishVerify
<1>2. HostForm' /\ ManifestInv'
  BY <1>1 DEF PreparationInv, HostForm, ManifestInv
<1>3. CASE Ends("failed")
  BY <1>2, <1>3, EndKeepsInv
<1>4. CASE ~Ends("failed")
  <2> DEFINE passed == VerifiedBuild(Current, tree[TreeOf(Current)], layout)
             more == script.builds \cup {passed}
             last == Running("release") \/ Cardinality(more) = 3
  <2>1. /\ VerifiesBuild(Current, tree[TreeOf(Current)], layout)
        /\ script' = [script EXCEPT !.builds = more,
                                    !.stage = IF last THEN "remove" ELSE "compile"]
    BY <1>4 DEF FinishVerify, Running
  <2>2. /\ Current \in Profiles /\ Current \notin Verified
        /\ Running("provisioning") \/ Running("release")
        /\ Running("release") => Current = "production"
    BY <1>1, CurrentIsNext DEF At, Building
  <2>3. PICK b : /\ b = passed /\ b.profile = Current /\ tree[Current].profile = Current
                 /\ b.nvs_offset \in Nat /\ Good(tree[Current], b.nvs_offset)
    BY <1>1, <2>1, PassedIsGood
  <2>4. PICK stage \in {"remove", "compile"} :
          /\ stage = "remove" <=> last
          /\ script'.name = script.name /\ script'.version = script.version
          /\ script'.api_key = script.api_key /\ script'.builds = more
          /\ script'.stage = stage
          /\ script' = [name |-> script.name, stage |-> stage, version |-> script.version,
                        api_key |-> script.api_key, builds |-> more]
    <3> HIDE DEF more, last
    <3> QED
      BY <2>1, <2>2 DEF PreparationInv, ScriptForm, Running
  <2>5. ScriptForm'
    BY <1>1, <2>2, <2>4 DEF PreparationInv, ScriptForm, Running, Building, LayingOut
  <2>6. BuildsAreGood'
    <3>1. BuildsAreGood
      BY <2>2 DEF PreparationInv, BuildInv, Running
    <3> QED
      BY <1>1, <2>2, <2>3, <2>4, <3>1 DEF BuildsAreGood, Good
  <2>7. Running("provisioning") => ProvisioningOrder'
    <3> SUFFICES ASSUME Running("provisioning") PROVE ProvisioningOrder'
      OBVIOUS
    <3>1. PICK n \in 0 .. 3 : /\ IsFiniteSet(script.builds) /\ Cardinality(script.builds) = n
                              /\ Verified = {Order[i] : i \in 1 .. n}
                              /\ n = 3 <=> script.stage \in LayingOut
      BY DEF PreparationInv, BuildInv, ProvisioningOrder
    <3>2. n \in 0 .. 2 /\ Current = Order[n + 1]
      BY <1>1, <3>1 DEF At, LayingOut, Current, Running
    <3>3. b \notin script.builds
      BY <2>2, <2>3 DEF Verified
    <3>4. IsFiniteSet(more) /\ Cardinality(more) = n + 1
      BY <2>3, <3>1, <3>3, FS_AddElement
    <3>5. Verified' = Verified \cup {Current}
      BY <2>3, <2>4 DEF Verified
    <3>6. Verified' = {Order[i] : i \in 1 .. n + 1}
      BY <3>1, <3>2, <3>5
    <3>7. n + 1 = 3 <=> stage \in LayingOut
      BY <2>4, <3>2, <3>4 DEF Running, LayingOut
    <3> QED
      BY <2>4, <3>2, <3>4, <3>6, <3>7 DEF ProvisioningOrder
  <2>8. Running("release") => ReleaseOrder'
    <3> SUFFICES ASSUME Running("release") PROVE ReleaseOrder'
      OBVIOUS
    <3>1. script.builds = {} /\ stage = "remove"
      BY <1>1, <2>4 DEF PreparationInv, BuildInv, ReleaseOrder, At, LayingOut
    <3> QED
      BY <2>2, <2>3, <2>4, <3>1 DEF ReleaseOrder, Verified, LayingOut
  <2>9. BuildInv'
    BY <2>4, <2>6, <2>7, <2>8 DEF BuildInv, Running, At
  <2> QED
    BY <1>1, <1>2, <2>4, <2>5, <2>9 DEF PreparationInv, SetInv, ReleaseInv, ReleaseIsSound, At
<1> QED
  BY <1>3, <1>4

-----------------------------------------------------------------------------
\* What a script lays out leaves the build directories as they are, so what was
\* verified, and each copy made so far, stays what is in them.
LEMMA LayingOutKeepsBuilds ==
    ASSUME PreparationInv, script.stage \in LayingOut, NEW stage \in LayingOut, GoesTo(stage),
           UNCHANGED <<runs, tree>>
    PROVE  /\ ScriptForm' /\ BuildInv'
           /\ \A profile, kind : ImageOf(profile, kind)' = ImageOf(profile, kind)
           /\ script'.name = script.name /\ script'.version = script.version
           /\ script'.builds = script.builds /\ script'.stage = stage
<1>1. ~Running("none")
  BY DEF PreparationInv, ScriptForm, Running, LayingOut
<1>2. /\ script'.name = script.name /\ script'.version = script.version
      /\ script'.api_key = script.api_key /\ script'.builds = script.builds
      /\ script'.stage = stage
      /\ script' = [name |-> script.name, stage |-> stage, version |-> script.version,
                    api_key |-> script.api_key, builds |-> script.builds]
  BY <1>1, StepsOn DEF PreparationInv
<1>3. ScriptForm'
  BY <1>1, <1>2 DEF PreparationInv, ScriptForm, Running, LayingOut
<1>4. BuildInv'
  BY <1>1, <1>2
  DEF PreparationInv, BuildInv, BuildsAreGood, Good, ProvisioningOrder, ReleaseOrder, Verified,
      LayingOut, Running, At
<1>5. \A profile, kind : ImageOf(profile, kind)' = ImageOf(profile, kind)
  BY DEF ImageOf, TreeOf
<1> QED
  BY <1>2, <1>3, <1>4, <1>5

\* The old set is gone, whole, before the first copy; and partitions match.
LEMMA RemoveArtifactsKeepsInv ==
    ASSUME PreparationInv, NEW kept, NEW keptManifest, RemoveArtifacts(kept, keptManifest)
    PROVE  PreparationInv'
<1>1. At("remove") /\ Running("provisioning") /\ UNCHANGED <<runs, tree, pages, downloads>>
  BY DEF RemoveArtifacts, Running
<1>2. HostForm' /\ ManifestInv'
  BY <1>1 DEF PreparationInv, HostForm, ManifestInv, RemoveArtifacts
<1>3. CASE Ends("failed")
  BY <1>2, <1>3, EndKeepsInv
<1>4. CASE ~Ends("failed")
  <2>1. /\ GoesTo("copy") /\ kept = {} /\ AssertMatchingPartitions(script.builds)
        /\ artifacts' = [file \in kept |-> artifacts[file]]
    BY <1>4 DEF RemoveArtifacts
  <2>2. /\ ScriptForm' /\ BuildInv'
        /\ script'.name = script.name /\ script'.builds = script.builds /\ script'.stage = "copy"
    BY <1>1, <2>1, LayingOutKeepsBuilds DEF At, LayingOut
  <2>3. SetInv'
    BY <2>1, <2>2 DEF SetInv, At
  <2>4. ReleaseInv' /\ ReleaseIsSound'
    BY <1>1, <2>2 DEF ReleaseInv, ReleaseIsSound, Running, At
  <2> QED
    BY <1>2, <2>2, <2>3, <2>4 DEF PreparationInv
<1> QED
  BY <1>3, <1>4

\* A copy that is not torn is the image in the build directory.
LEMMA CopyArtifactKeepsInv ==
    ASSUME PreparationInv, CopyArtifact
    PROVE  PreparationInv'
<1>1. /\ At("copy") /\ Running("provisioning")
      /\ UNCHANGED <<runs, tree, manifest, pages, downloads>>
  BY DEF CopyArtifact, Running
<1>2. HostForm' /\ ManifestInv'
  BY <1>1 DEF PreparationInv, HostForm, ManifestInv
<1>3. PICK next, copy :
          /\ copy \in CopyOf(next[1], next[2])
          /\ artifacts' = With(artifacts, next, copy)
          /\ IF copy = Torn THEN Ends("failed")
             ELSE GoesTo(IF DOMAIN artifacts' = Profiles \X Kinds THEN "manifest" ELSE "copy")
  BY DEF CopyArtifact
<1>4. CASE Ends("failed")
  BY <1>2, <1>4, EndKeepsInv
<1>5. CASE ~Ends("failed")
  <2>1. PICK stage \in {"manifest", "copy"} :
            /\ GoesTo(stage) /\ copy = ImageOf(next[1], next[2])
            /\ stage = "manifest" => DOMAIN artifacts' = Profiles \X Kinds
    BY <1>3, <1>5 DEF CopyOf
  <2>2. /\ ScriptForm' /\ BuildInv'
        /\ \A profile, kind : ImageOf(profile, kind)' = ImageOf(profile, kind)
        /\ script'.name = script.name /\ script'.builds = script.builds /\ script'.stage = stage
    BY <1>1, <2>1, LayingOutKeepsBuilds DEF At, LayingOut
  <2>3. \A file \in DOMAIN artifacts' : artifacts'[file] = ImageOf(file[1], file[2])
    BY <1>1, <1>3, <2>1 DEF PreparationInv, SetInv, At, With
  <2>4. AssertMatchingPartitions(script.builds)
    BY <1>1 DEF PreparationInv, SetInv, At
  <2>5. SetInv'
    BY <2>1, <2>2, <2>3, <2>4 DEF SetInv, At
  <2>6. ReleaseInv' /\ ReleaseIsSound'
    BY <1>1, <2>2 DEF ReleaseInv, ReleaseIsSound, Running, At
  <2> QED
    BY <1>2, <2>2, <2>5, <2>6 DEF PreparationInv
<1> QED
  BY <1>4, <1>5

\* Every profile is verified when the manifest is written, and its image is of
\* the good build there.
LEMMA ImagesAreGood ==
    ASSUME PreparationInv, ~Running("none"), NEW b \in script.builds, NEW kind \in Kinds
    PROVE  LET image == ImageOf(b.profile, kind) IN
           /\ image.profile = b.profile /\ image.kind = kind
           /\ image.run = runs /\ image.version = script.version
           /\ image.fault = NoFault
           /\ image.end <= b.nvs_offset
  BY DEF PreparationInv, BuildInv, BuildsAreGood, Good, ImageOf, TreeOf, Kinds

\* So what the manifest lists is good.
LEMMA WriteManifestKeepsInv ==
    ASSUME PreparationInv, WriteManifest
    PROVE  PreparationInv'
<1>1. /\ At("manifest") /\ Running("provisioning") /\ ~Running("none")
      /\ UNCHANGED <<runs, tree, artifacts, pages, downloads>>
  BY DEF WriteManifest, Running
<1>2. HostForm'
  BY <1>1 DEF PreparationInv, HostForm
<1>3. PICK result \in {"prepared", "failed"} : Ends(result)
  BY DEF WriteManifest
<1>4. CASE manifest' = Torn
  BY <1>2, <1>3, <1>4, EndKeepsInv DEF ManifestInv
<1>5. CASE manifest' = [version |-> script.version, run |-> runs, files |-> artifacts,
                        nvs_offset |-> (CHOOSE b \in script.builds : TRUE).nvs_offset]
  <2>1. Verified = {Order[i] : i \in 1 .. 3}
    BY <1>1 DEF PreparationInv, BuildInv, ProvisioningOrder, LayingOut, At
  <2>2. \A p \in Profiles : \E b \in script.builds : b.profile = p
    <3>1. \A p \in Profiles : \E i \in 1 .. 3 : Order[i] = p
      BY DEF Profiles, Order
    <3>2. \A p \in Profiles : p \in Verified
      BY <2>1, <3>1
    <3> QED
      BY <3>2 DEF Verified
  <2>3. \A b \in script.builds : b.nvs_offset = manifest'.nvs_offset
    <3>1. AssertMatchingPartitions(script.builds)
      BY <1>1 DEF PreparationInv, SetInv, At
    <3>2. manifest'.nvs_offset = (CHOOSE b \in script.builds : TRUE).nvs_offset
      BY <1>5
    <3> QED
      BY <3>1, <3>2 DEF AssertMatchingPartitions
  <2>4. /\ manifest'.version = script.version /\ manifest'.run = runs
        /\ manifest'.files = artifacts
    BY <1>5
  <2>5. \A profile \in Profiles, kind \in Kinds :
            artifacts[<<profile, kind>>] = ImageOf(profile, kind)
    BY <1>1 DEF PreparationInv, SetInv, At
  <2>6. ManifestInv'
    <3>1. ASSUME NEW profile \in Profiles, NEW kind \in Kinds
          PROVE  LET image == manifest'.files[<<profile, kind>>] IN
                 /\ image.profile = profile /\ image.kind = kind
                 /\ image.run = manifest'.run /\ image.version = manifest'.version
                 /\ image.fault = NoFault
                 /\ image.end <= manifest'.nvs_offset
      <4>1. PICK b \in script.builds : b.profile = profile
        BY <2>2
      <4>2. manifest'.files[<<profile, kind>>] = ImageOf(b.profile, kind)
        BY <2>4, <2>5, <4>1
      <4>3. LET image == ImageOf(b.profile, kind) IN
            /\ image.profile = b.profile /\ image.kind = kind
            /\ image.run = runs /\ image.version = script.version
            /\ image.fault = NoFault
            /\ image.end <= b.nvs_offset
        BY <1>1, ImagesAreGood
      <4> QED
        BY <2>3, <2>4, <4>1, <4>2, <4>3
    <3> QED
      BY <3>1, Zenon DEF ManifestInv
  <2> QED
    BY <1>2, <1>3, <2>6, EndKeepsInv
<1> QED
  BY <1>4, <1>5 DEF WriteManifest

-----------------------------------------------------------------------------
\* A release goes to a version without images and to empty downloads, ...
LEMMA RemoveReleaseKeepsInv ==
    ASSUME PreparationInv, NEW kept, NEW keptManifest, NEW keptDownloads,
           RemoveRelease(kept, keptManifest, keptDownloads)
    PROVE  PreparationInv'
<1>1. At("remove") /\ Running("release") /\ UNCHANGED <<runs, tree, artifacts, manifest>>
  BY DEF RemoveRelease, Running
<1>2. HostForm' /\ ManifestInv'
  <2>1. downloads' = [images |-> downloads'.images, manifest |-> downloads'.manifest]
    BY DEF PreparationInv, HostForm, RemoveRelease
  <2>2. pages' = [images |-> pages'.images, manifest |-> pages'.manifest]
    BY DEF RemoveRelease
  <2> QED
    BY <1>1, <2>1, <2>2 DEF PreparationInv, HostForm, ManifestInv
<1>3. CASE Ends("failed")
  BY <1>2, <1>3, EndKeepsInv
<1>4. CASE ~Ends("failed")
  <2>1. GoesTo("copy") /\ downloads'.images = <<>>
    BY <1>4 DEF RemoveRelease
  <2>2. /\ ScriptForm' /\ BuildInv'
        /\ script'.name = script.name /\ script'.stage = "copy"
    BY <1>1, <2>1, LayingOutKeepsBuilds DEF At, LayingOut
  <2>3. ReleaseInv'
    BY <2>1, <2>2 DEF ReleaseInv, At
  <2>4. SetInv' /\ ReleaseIsSound'
    BY <1>1, <2>2 DEF SetInv, ReleaseIsSound, Running, At
  <2> QED
    BY <1>2, <2>2, <2>3, <2>4 DEF PreparationInv
<1> QED
  BY <1>3, <1>4

\* ... an image to both places, ...
LEMMA CopyReleaseKeepsInv ==
    ASSUME PreparationInv, CopyRelease
    PROVE  PreparationInv'
<1>1. At("copy") /\ Running("release") /\ UNCHANGED <<runs, tree, artifacts, manifest>>
  BY DEF CopyRelease, Running
<1>2. PICK kind, page, copy :
          /\ page \in CopyOf("production", kind) /\ copy \in CopyOf("production", kind)
          /\ pages' = [pages EXCEPT !.images = With(@, <<script.version, kind>>, page)]
          /\ downloads' = IF page = Torn THEN downloads
                          ELSE [downloads EXCEPT !.images = With(@, kind, copy)]
          /\ IF Torn \in {page, copy} THEN Ends("failed")
             ELSE GoesTo(IF DOMAIN downloads'.images = Kinds THEN "manifest" ELSE "copy")
  BY DEF CopyRelease
<1>3. /\ pages = [images |-> pages.images, manifest |-> pages.manifest]
      /\ downloads = [images |-> downloads.images, manifest |-> downloads.manifest]
  BY DEF PreparationInv, HostForm
<1>4. HostForm' /\ ManifestInv'
  <2>1. pages' = [images |-> pages'.images, manifest |-> pages'.manifest]
    BY <1>2, <1>3
  <2>2. downloads' = [images |-> downloads'.images, manifest |-> downloads'.manifest]
    BY <1>2, <1>3
  <2> QED
    BY <1>1, <2>1, <2>2 DEF PreparationInv, HostForm, ManifestInv
<1>5. CASE Ends("failed")
  BY <1>4, <1>5, EndKeepsInv
<1>6. CASE ~Ends("failed")
  <2>1. PICK stage \in {"manifest", "copy"} :
            /\ GoesTo(stage) /\ page = ImageOf("production", kind) /\ copy = page /\ page # Torn
            /\ stage = "manifest" => DOMAIN downloads'.images = Kinds
    BY <1>2, <1>6 DEF CopyOf
  <2>2. /\ ScriptForm' /\ BuildInv'
        /\ \A p, k : ImageOf(p, k)' = ImageOf(p, k)
        /\ script'.name = script.name /\ script'.version = script.version
        /\ script'.stage = stage
    BY <1>1, <2>1, LayingOutKeepsBuilds DEF At, LayingOut
  <2>3. /\ pages'.images = With(pages.images, <<script.version, kind>>, page)
        /\ downloads'.images = With(downloads.images, kind, page)
    BY <1>2, <1>3, <2>1
  <2>4. ASSUME NEW k \in DOMAIN downloads'.images
        PROVE  /\ downloads'.images[k] = ImageOf("production", k)
               /\ <<script.version, k>> \in DOMAIN pages'.images
               /\ pages'.images[<<script.version, k>>] = ImageOf("production", k)
    <3>1. CASE k = kind
      BY <2>1, <2>3, <3>1 DEF With
    <3>2. CASE k # kind
      <4>1. k \in DOMAIN downloads.images
        BY <2>3, <2>4, <3>2 DEF With
      <4>2. /\ downloads.images[k] = ImageOf("production", k)
            /\ <<script.version, k>> \in DOMAIN pages.images
            /\ pages.images[<<script.version, k>>] = ImageOf("production", k)
        BY <1>1, <4>1 DEF PreparationInv, ReleaseInv, At
      <4>3. <<script.version, k>> # <<script.version, kind>>
        BY <3>2
      <4> QED
        BY <2>3, <3>2, <4>1, <4>2, <4>3 DEF With
    <3> QED
      BY <3>1, <3>2
  <2>5. ReleaseInv'
    BY <2>1, <2>2, <2>4 DEF ReleaseInv, At
  <2>6. SetInv' /\ ReleaseIsSound'
    BY <1>1, <2>2 DEF SetInv, ReleaseIsSound, Running, At
  <2> QED
    BY <1>4, <2>2, <2>5, <2>6 DEF PreparationInv
<1> QED
  BY <1>5, <1>6

\* ... and the manifests, with the digest of what is there.
LEMMA WriteReleaseKeepsInv ==
    ASSUME PreparationInv, WriteRelease
    PROVE  PreparationInv'
<1>1. At("manifest") /\ Running("release") /\ UNCHANGED <<runs, tree, artifacts, manifest>>
  BY DEF WriteRelease, Running
<1> DEFINE text == [version |-> script.version, ota |-> ImageOf("production", "ota")]
<1>2. PICK page, copy \in {text, Torn} :
          /\ pages' = [pages EXCEPT !.manifest = page]
          /\ downloads' = IF page = Torn THEN downloads ELSE [downloads EXCEPT !.manifest = copy]
          /\ Ends(IF Torn \in {page, copy} THEN "failed" ELSE "released")
  BY DEF WriteRelease
<1>3. /\ pages = [images |-> pages.images, manifest |-> pages.manifest]
      /\ downloads = [images |-> downloads.images, manifest |-> downloads.manifest]
  BY DEF PreparationInv, HostForm
<1> HIDE DEF text
<1>4. HostForm' /\ ManifestInv'
  <2>1. pages' = [images |-> pages'.images, manifest |-> pages'.manifest]
    BY <1>2, <1>3
  <2>2. downloads' = [images |-> downloads'.images, manifest |-> downloads'.manifest]
    BY <1>2, <1>3
  <2> QED
    BY <1>1, <2>1, <2>2 DEF PreparationInv, HostForm, ManifestInv
<1>5. CASE Torn \in {page, copy}
  BY <1>2, <1>4, <1>5, EndKeepsInv
<1>6. CASE Torn \notin {page, copy}
  <2>1. Ends("released") /\ page = text /\ copy = text
    BY <1>2, <1>6
  <2>2. /\ pages'.manifest = text /\ pages'.images = pages.images
        /\ downloads'.manifest = text /\ downloads'.images = downloads.images
    BY <1>2, <1>3, <1>6, <2>1
  <2>3. /\ text.version = script.version /\ text.version >= MinimumVersion
        /\ text.ota = ImageOf("production", "ota")
    BY <1>1 DEF text, PreparationInv, ScriptForm, Running
  <2>4. \A kind \in Kinds : /\ downloads.images[kind] = ImageOf("production", kind)
                            /\ pages.images[<<script.version, kind>>] = ImageOf("production", kind)
    BY <1>1 DEF PreparationInv, ReleaseInv, At
  <2>5. PICK b \in script.builds : b.profile = "production"
    <3>1. Verified = {"production"}
      BY <1>1 DEF PreparationInv, BuildInv, ReleaseOrder, LayingOut, At
    <3> QED
      BY <3>1 DEF Verified
  <2>6. \A kind \in Kinds :
            LET image == ImageOf("production", kind) IN
            /\ image.profile = "production" /\ image.fault = NoFault /\ image.kind = kind
            /\ image.version = script.version /\ image.run = runs
    BY <1>1, <2>5, ImagesAreGood DEF Running
  <2>7. ReleaseIsSound'
    BY <2>2, <2>3, <2>4, <2>6 DEF ReleaseIsSound, Kinds
  <2> QED
    BY <1>4, <2>1, <2>7, EndKeepsInv
<1> QED
  BY <1>5, <1>6

-----------------------------------------------------------------------------
\* A failure, and another ESPHome.
LEMMA RestKeepsInv ==
    ASSUME PreparationInv, Fail \/ (\E sources \in Upstreams : Upgrade(sources))
                                \/ UNCHANGED preparationVars
    PROVE  PreparationInv'
<1>1. CASE Fail
  <2>1. Ends("failed") /\ HostForm' /\ ManifestInv'
    BY <1>1 DEF Fail, PreparationInv, HostForm, ManifestInv
  <2> QED
    BY <2>1, EndKeepsInv
<1>2. CASE UNCHANGED <<runs, script, tree, artifacts, manifest, pages, downloads, layoutVars>>
  <2>1. HostForm' /\ ScriptForm' /\ ManifestInv'
    BY <1>2 DEF PreparationInv, HostForm, ScriptForm, Running, ManifestInv
  <2>2. ReleaseIsSound'
    BY <1>2 DEF PreparationInv, ReleaseIsSound, At
  <2>3. BuildInv'
    BY <1>2 DEF PreparationInv, BuildInv, BuildsAreGood, Good, ProvisioningOrder, ReleaseOrder, Verified,
                Running, At, Fresh, TreeOf, Current, LayoutInv, LayoutTypeOK, BehindTable, PlacedBefore,
                PartitionsApart, End, layoutVars
  <2>4. SetInv' /\ ReleaseInv'
    BY <1>2 DEF PreparationInv, SetInv, ReleaseInv, Running, At, ImageOf, TreeOf
  <2> QED
    BY <2>1, <2>2, <2>3, <2>4 DEF PreparationInv
<1> QED
  BY <1>1, <1>2 DEF Upgrade, preparationVars, hostVars

\* So every step keeps it.
LEMMA PreparationInvInductive ==
    PreparationInv /\ [PreparationNext]_preparationVars => PreparationInv'
<1> SUFFICES ASSUME PreparationInv, [PreparationNext]_preparationVars PROVE PreparationInv'
  OBVIOUS
<1>1. CASE Start
  BY <1>1, StartKeepsInv
<1>2. CASE Build
  BY <1>2, CompileKeepsInv, BeginKeepsScripts, ReadKeepsScripts, FinishKeepsScripts DEF Build
<1>3. CASE LayOut
  BY <1>3, RemoveArtifactsKeepsInv, CopyArtifactKeepsInv, WriteManifestKeepsInv,
     RemoveReleaseKeepsInv, CopyReleaseKeepsInv, WriteReleaseKeepsInv DEF LayOut
<1>4. CASE Fail \/ (\E sources \in Upstreams : Upgrade(sources)) \/ UNCHANGED preparationVars
  BY <1>4, RestKeepsInv
<1> QED
  BY <1>1, <1>2, <1>3, <1>4 DEF PreparationNext

\* Whatever the builds, the versions, the inputs and the number of runs, and
\* wherever a script fails: a provisioning set that load_manifest accepts is
\* complete, of one run, and of builds without any of the faults there are.
THEOREM ProvisioningSetsAreSound == PreparationSpec => []AcceptedSetIsSound
<1>1. PreparationInv => AcceptedSetIsSound
  <2> SUFFICES ASSUME PreparationInv, LoadsManifest,
                      NEW profile \in Profiles, NEW kind \in Kinds
               PROVE  LET image == artifacts[<<profile, kind>>] IN
                      /\ image.profile = profile /\ image.kind = kind
                      /\ image.run = manifest.run /\ image.version = manifest.version
                      /\ image.fault = NoFault
                      /\ image.end <= manifest.nvs_offset
    BY Zenon DEF AcceptedSetIsSound
  <2>1. artifacts[<<profile, kind>>] = manifest.files[<<profile, kind>>]
    BY DEF LoadsManifest
  <2>2. manifest \notin {NoFile, Torn}
    BY DEF LoadsManifest
  <2>3. LET image == manifest.files[<<profile, kind>>] IN
        /\ image.profile = profile /\ image.kind = kind
        /\ image.run = manifest.run /\ image.version = manifest.version
        /\ image.fault = NoFault
        /\ image.end <= manifest.nvs_offset
    BY <2>2, Zenon DEF PreparationInv, ManifestInv
  <2> QED
    BY <2>1, <2>3
<1> QED
  BY <1>1, PreparationInitInv, PreparationInvInductive, PTL DEF PreparationSpec

\* And what prepare_release.py has released is, in both places, the image of one
\* faultless production build, no older than MINIMUM_RELEASE_VERSION.
THEOREM ReleasesAreSound == PreparationSpec => []ReleaseIsSound
<1>1. PreparationInv => ReleaseIsSound
  BY DEF PreparationInv
<1> QED
  BY <1>1, PreparationInitInv, PreparationInvInductive, PTL DEF PreparationSpec
=============================================================================
