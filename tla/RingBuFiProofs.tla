--------------------------- MODULE RingBuFiProofs ---------------------------
(***************************************************************************)
(* Proofs about RingBuFi, for any number of records and any size of the    *)
(* file.                                                                   *)
(*                                                                         *)
(* Records of one length lie in slots, and the file is the FIFO of         *)
(* CacheFifo at every step of a put or a pop and across crashes.  The      *)
(* invariant, RingInv, says which slots hold which records of the abstract *)
(* cache, and what the metadata in memory and in the file say of them.     *)
(*                                                                         *)
(* Records of any lengths lie in chains, each record beginning where the   *)
(* one before it ends.  The invariant, MixedInv, says which chain the      *)
(* metadata describe at each step.  Types hold even after metadata and     *)
(* records have parted.                                                    *)
(***************************************************************************)
EXTENDS RingBuFi, TLAPS, WellFoundedInduction, SequenceTheorems

(* The hypothesis of the theorems about slots: all records have one        *)
(* length, and the file has room for one.                                  *)
Uniform ==
  /\ \A q, r \in Record : RecordLen[q] = RecordLen[r]
  /\ MetaLen + SlotLen <= SizeLimit

Address(i) == MetaLen + i * SlotLen   \* where slot i begins

L == SlotLen - 1                      \* the length of every record

LEMMA Least ==
  ASSUME NEW S \in SUBSET Nat, S # {}
  PROVE  \E x \in S : \A y \in S : x <= y
  <1> DEFINE R == {pair \in Nat \X Nat : pair[1] < pair[2]}
  <1>1. IsWellFoundedOn(R, Nat)
    BY NatLessThanWellFounded DEF OpToRel
  <1>2. PICK x \in S : \A y \in S : ~ (<<y, x>> \in R)
    <2> HIDE DEF R
    <2> QED
      BY <1>1, WFMin, Zenon
  <1>3. \A y \in S : ~ (y < x)
    BY <1>2
  <1> QED
    BY <1>3

(* SlotLen is the length of a shortest record, with its length field.      *)
LEMMA SlotLenIs ==
  \E c \in Record : SlotLen = 1 + RecordLen[c] /\ RecordLen[c] \in Nat \ {0}
  <1> DEFINE shortest(r) == \A q \in Record : RecordLen[r] <= RecordLen[q]
             c == CHOOSE r \in Record : shortest(r)
  <1>1. \E r \in Record : shortest(r)
    <2> DEFINE S == {RecordLen[r] : r \in Record}
    <2>1. S \in SUBSET Nat /\ S # {}
      BY RingAssumption
    <2> HIDE DEF S
    <2>2. PICK x \in S : \A y \in S : x <= y
      BY <2>1, Least
    <2> QED
      BY <2>2 DEF S
  <1>2. c \in Record
    BY <1>1, Zenon
  <1>3. SlotLen = 1 + RecordLen[c]
    BY DEF SlotLen, Space
  <1> HIDE DEF c
  <1> QED
    BY <1>2, <1>3, RingAssumption

LEMMA LengthFacts ==
  ASSUME Uniform
  PROVE  /\ SlotLen \in Nat /\ SlotLen >= 2 /\ L \in Nat /\ L >= 1
         /\ \A r \in Record : RecordLen[r] = L /\ Space(r) = SlotLen
  <1>1. PICK c \in Record : SlotLen = 1 + RecordLen[c] /\ RecordLen[c] \in Nat \ {0}
    BY SlotLenIs
  <1>2. \A r \in Record : RecordLen[r] = RecordLen[c]
    BY DEF Uniform
  <1> QED
    BY <1>1, <1>2 DEF L, Space

LEMMA SlotsFacts ==
  ASSUME Uniform
  PROVE  Slots \in Nat /\ Slots >= 1
         /\ Slots * SlotLen <= SizeLimit - MetaLen
         /\ SizeLimit - MetaLen < Slots * SlotLen + SlotLen
  <1> DEFINE x == SizeLimit - MetaLen
  <1>1. x \in Nat /\ SlotLen \in Nat /\ SlotLen >= 2 /\ x >= SlotLen
    BY LengthFacts, RingAssumption DEF Uniform, MetaLen
  <1>2. Slots = x \div SlotLen
    BY DEF Slots
  <1> HIDE DEF x
  <1>3. \A y, d \in Nat :
          d >= 2 => y \div d \in Nat /\ (y \div d) * d <= y /\ y < (y \div d) * d + d
    OBVIOUS
  <1>4. Slots \in Nat /\ Slots * SlotLen <= x /\ x < Slots * SlotLen + SlotLen
    BY <1>1, <1>2, <1>3
  <1>5. Slots # 0
    BY <1>4, <1>1
  <1> QED
    BY <1>4, <1>5, <1>1 DEF x

LEMMA AddressFacts ==
  ASSUME Uniform
  PROVE  /\ Address(0) = MetaLen
         /\ \A i \in Nat : /\ Address(i) \in Nat /\ Address(i) >= MetaLen
                           /\ Address(i + 1) = Address(i) + SlotLen
         /\ \A i, j \in Nat : i < j => Address(i) + SlotLen <= Address(j)
         /\ \A i \in Nat : (Address(i) - MetaLen) \div SlotLen = i
         /\ Address(Slots) <= SizeLimit /\ Address(Slots) + SlotLen > SizeLimit
  <1>1. SlotLen \in Nat /\ SlotLen >= 2
    BY LengthFacts
  <1>2. Address(0) = MetaLen
    BY <1>1 DEF Address, MetaLen
  <1>3. \A i \in Nat : /\ Address(i) \in Nat /\ Address(i) >= MetaLen
                       /\ Address(i + 1) = Address(i) + SlotLen
    BY <1>1 DEF Address, MetaLen
  <1>4. \A i, j, d \in Nat : i < j => i * d + d <= j * d
    OBVIOUS
  <1>5. \A i, j \in Nat : i < j => Address(i) + SlotLen <= Address(j)
    BY <1>1, <1>4 DEF Address, MetaLen
  <1>6. \A i, d \in Nat : d >= 1 => (i * d) \div d = i
    OBVIOUS
  <1>7. \A i \in Nat : (Address(i) - MetaLen) \div SlotLen = i
    BY <1>1, <1>6 DEF Address, MetaLen
  <1>8. Address(Slots) <= SizeLimit /\ Address(Slots) + SlotLen > SizeLimit
    BY <1>1, SlotsFacts, RingAssumption DEF Address, MetaLen
  <1> QED
    BY <1>2, <1>3, <1>5, <1>7, <1>8
-----------------------------------------------------------------------------
(***************************************************************************)
(* The offsets that successive pops would read: Offsets is recursive, and  *)
(* a function that satisfies its equation is the one it defines.           *)
(***************************************************************************)
NextOffset(f, m, at, k) ==
  IF k = 1 THEN m.head
  ELSE IF Readable(f, at[k - 1]) THEN WrapHead(m, EndOf(f, at[k - 1]))
  ELSE FileEnd

LEMMA OffsetsRecursion ==
  ASSUME NEW f, NEW m, NEW g,
         g = [k \in 1 .. m.blockCnt |-> NextOffset(f, m, g, k)]
  PROVE  Offsets(f, m) = [k \in 1 .. m.blockCnt |-> NextOffset(f, m, Offsets(f, m), k)]
  <1>1. Offsets(f, m) =
          CHOOSE at : at = [k \in 1 .. m.blockCnt |-> NextOffset(f, m, at, k)]
    BY Zenon DEF Offsets, NextOffset
  <1>2. \E at : at = [k \in 1 .. m.blockCnt |-> NextOffset(f, m, at, k)]
    OBVIOUS
  <1> QED
    BY <1>1, <1>2, Zenon

LEMMA OffsetsAre ==
  ASSUME NEW f, NEW m, NEW g, m.blockCnt \in Nat,
         g = [k \in 1 .. m.blockCnt |-> NextOffset(f, m, g, k)]
  PROVE  Offsets(f, m) = g
  <1> DEFINE o == Offsets(f, m)
             D == 1 .. m.blockCnt
             Bad == {k \in D : o[k] # g[k]}
  <1>1. o = [k \in D |-> NextOffset(f, m, o, k)]
    BY OffsetsRecursion
  <1> HIDE DEF o
  <1>2. Bad = {}
    <2> SUFFICES ASSUME Bad # {} PROVE FALSE
      OBVIOUS
    <2>1. PICK k \in Bad : \A j \in Bad : ~(j < k)
      <3> DEFINE R == {pair \in Nat \X Nat : pair[1] < pair[2]}
      <3>1. IsWellFoundedOn(R, Nat)
        BY NatLessThanWellFounded DEF OpToRel
      <3>2. Bad \in SUBSET Nat
        OBVIOUS
      <3>3. PICK x \in Bad : \A y \in Bad : ~ (<<y, x>> \in R)
        <4> HIDE DEF R, Bad
        <4> QED
          BY <3>1, <3>2, WFMin, Zenon
      <3> QED
        BY <3>2, <3>3
    <2>2. k \in D /\ o[k] # g[k]
      OBVIOUS
    <2>3. CASE k = 1
      BY <1>1, <2>2, <2>3 DEF NextOffset
    <2>4. CASE k # 1
      <3>1. k - 1 \in D /\ k - 1 < k
        BY <2>2, <2>4
      <3>2. o[k - 1] = g[k - 1]
        BY <3>1, <2>1
      <3>3. NextOffset(f, m, o, k) = NextOffset(f, m, g, k)
        BY <3>2, <2>4, Zenon DEF NextOffset
      <3>4. o[k] = NextOffset(f, m, o, k) /\ g[k] = NextOffset(f, m, g, k)
        BY <2>2, <1>1
      <3> QED
        BY <2>2, <3>3, <3>4
    <2> QED
      BY <2>3, <2>4
  <1>3. o = [k \in D |-> o[k]] /\ g = [k \in D |-> g[k]]
    BY <1>1
  <1>4. \A k \in D : o[k] = g[k]
    BY <1>2
  <1> HIDE DEF D
  <1>5. o = g
    BY <1>3, <1>4
  <1> QED
    BY <1>5 DEF o
-----------------------------------------------------------------------------
(***************************************************************************)
(* The invariant.                                                          *)
(***************************************************************************)
(* Record k of a cache whose oldest record is in slot h lies in slot       *)
(* Order(h, k); c records end before slot End(h, c).                       *)
Order(h, k) == IF h + k <= Slots THEN h + k - 1 ELSE h + k - 1 - Slots

End(h, c) == IF h + c <= Slots THEN h + c ELSE h + c - Slots

Metadata == [head : Nat, next : Nat, nomanland : Nat, blockCnt : Nat]

(* The metadata m of an idle buffer with c records from slot h on.         *)
Describes(m, h, c) ==
  /\ m \in Metadata
  /\ h \in 0 .. Slots - 1 /\ c \in 0 .. Slots /\ (c = 0 => h = 0)
  /\ m.head = Address(h) /\ m.next = Address(End(h, c)) /\ m.blockCnt = c
  /\ \/ m.nomanland = Address(Slots)
     \/ h + c <= Slots /\ m.nomanland = Address(h + c)

(* Slot i of the file f holds the record r, length and payload.            *)
Whole(f, i, r) ==
  /\ f[Address(i)] = LenCell(L)
  /\ \A o \in Address(i) + 1 .. Address(i) + L : f[o] = DataCell(r)

Holds(f, v) ==
  \A k \in 1 .. Len(v.recs) : Whole(f, Order(v.slot, k), v.recs[k])

(* When a put takes which branch; the last three are never taken.          *)
BranchFits(b, h, c) ==
  \/ b = "empty" /\ c = 0
  \/ b = "append" /\ c > 0 /\ h + c < Slots
  \/ b = "wrap" /\ c > 0 /\ h + c = Slots
  \/ b = "gap" /\ c < Slots /\ h + c > Slots
  \/ b = "reuse" /\ c = Slots /\ h + c > Slots

Oldest == view.slot
Count == Len(view.recs)
Target == Order(Oldest, Count + 1)    \* the slot a put writes to

(* The metadata in memory once a put into a full buffer has erased the     *)
(* oldest record, and when it starts to write.                             *)
Dropped(head) == [saved EXCEPT !.head = head, !.blockCnt = Count - 1]

BeforeWrite ==
  IF Count = Slots
  THEN Dropped(IF op.branch = "reuse" /\ Oldest + 1 = Slots
               THEN MetaLen ELSE Address(Oldest + 1))
  ELSE saved

Putting ==
  /\ op = [step |-> op.step, branch |-> op.branch, rec |-> op.rec,
           freed |-> op.freed, need |-> op.need]
  /\ op.rec \in Record
  /\ BranchFits(op.branch, Oldest, Count)

(* What holds between operations and at each step of one.  The view is the *)
(* cache before the operation: saved describes it throughout.              *)
IdleOK == op = Idle /\ meta = saved /\ Holds(file, view)

PopOK ==
  /\ op = [step |-> "save", branch |-> "pop"]
  /\ Count > 0
  /\ meta = AfterPop(saved, L)
  /\ IF Count = 1 THEN file[Address(Oldest)] = Zero ELSE Holds(file, view)

EraseOK ==
  /\ Putting /\ op.step = "erase" /\ op.branch \in {"wrap", "reuse"}
  /\ op.need = SlotLen
  /\ Holds(file, view)
  /\ \/ /\ meta = saved
        /\ op.freed = IF op.branch = "wrap" THEN Address(Oldest) - MetaLen ELSE 0
     \/ /\ Count = Slots /\ op.freed = SlotLen
        /\ meta = Dropped(Address(Oldest + 1))

LengthOK ==
  /\ Putting /\ op.step = "length"
  /\ meta = BeforeWrite
  /\ Holds(file, view)

PayloadOK ==
  /\ Putting /\ op.step = "payload"
  /\ meta = BeforeWrite
  /\ Holds(file, view)
  /\ file[Address(Target)] = LenCell(L)

SaveOK ==
  /\ Putting /\ op.step = "save"
  /\ LET new == Fifo!PutInto(view, op.rec)
     IN Describes(meta, new.slot, Len(new.recs))
  /\ Whole(file, Target, op.rec)
  /\ \A k \in 1 .. Count :
       Order(Oldest, k) # Target => Whole(file, Order(Oldest, k), view.recs[k])

FileOK(f) ==
  /\ DOMAIN f = MetaLen .. FileEnd - 1
  /\ f = [o \in MetaLen .. FileEnd - 1 |-> f[o]]

Good ==
  /\ view \in Fifo!Cache
  /\ Describes(saved, Oldest, Count)
  /\ FileOK(file)
  /\ IdleOK \/ PopOK \/ EraseOK \/ LengthOK \/ PayloadOK \/ SaveOK

RingInv == view = Broken \/ Good
-----------------------------------------------------------------------------
(* What a reader finds.                                                    *)
LEMMA OrderFacts ==
  ASSUME Uniform, NEW h \in 0 .. Slots - 1
  PROVE  /\ \A k \in 1 .. Slots + 1 : Order(h, k) \in 0 .. Slots - 1
         /\ \A j, k \in 1 .. Slots : j # k => Order(h, j) # Order(h, k)
         /\ Order(h, 1) = h
         /\ Order(h, Slots + 1) = h
  BY SlotsFacts DEF Order

LEMMA SlotAddresses ==
  ASSUME Uniform
  PROVE  /\ Slots \in Nat /\ Slots >= 1
         /\ \A i \in 0 .. Slots : Address(i) \in Nat /\ Address(i) >= MetaLen
         /\ \A i, j \in 0 .. Slots : i < j =>
              Address(i) + SlotLen <= Address(j) /\ Address(i) < Address(j)
  <1>1. SlotLen \in Nat /\ SlotLen >= 2
    BY LengthFacts
  <1>2. Slots \in Nat /\ Slots >= 1
    BY SlotsFacts
  <1>3. \A i \in 0 .. Slots : i \in Nat
    BY <1>2
  <1>4. \A i \in 0 .. Slots : Address(i) \in Nat /\ Address(i) >= MetaLen
    BY <1>3, AddressFacts
  <1>5. \A i, j \in 0 .. Slots : i < j => Address(i) + SlotLen <= Address(j)
    BY <1>3, AddressFacts
  <1> QED
    BY <1>1, <1>2, <1>4, <1>5

(* The slots lie apart from each other, within the file.                   *)
LEMMA SlotFacts ==
  ASSUME Uniform
  PROVE  /\ \A i \in 0 .. Slots - 1 :
              /\ Address(i) \in MetaLen .. FileEnd - 1
              /\ Address(i) + 1 .. Address(i) + L \subseteq MetaLen .. FileEnd - 1
              /\ Address(i) + 1 \in Address(i) + 1 .. Address(i) + L
         /\ \A i, j \in 0 .. Slots - 1 : i # j =>
              /\ Address(i) # Address(j)
              /\ Address(i) \notin Address(j) + 1 .. Address(j) + L
              /\ (Address(i) + 1 .. Address(i) + L) \cap (Address(j) .. Address(j) + L) = {}
  <1>1. /\ SlotLen \in Nat /\ SlotLen >= 2 /\ Slots \in Nat /\ MetaLen \in Nat
        /\ SizeLimit \in Nat /\ FileEnd \in Nat /\ SizeLimit <= FileEnd
        /\ L = SlotLen - 1
    BY LengthFacts, SlotsFacts, RingAssumption DEF L, MetaLen
  <1>2. \A i \in 0 .. Slots : Address(i) \in Nat /\ Address(i) >= MetaLen
    BY SlotAddresses
  <1>3. \A i, j \in 0 .. Slots : i < j => Address(i) + SlotLen <= Address(j)
    BY SlotAddresses
  <1>4. ASSUME NEW i \in 0 .. Slots - 1
        PROVE  /\ Address(i) \in MetaLen .. FileEnd - 1
               /\ Address(i) + 1 .. Address(i) + L \subseteq MetaLen .. FileEnd - 1
               /\ Address(i) + 1 \in Address(i) + 1 .. Address(i) + L
    <2>1. i \in 0 .. Slots /\ Slots \in 0 .. Slots /\ i < Slots
      BY <1>1
    <2>2. Address(i) + SlotLen <= Address(Slots) /\ Address(Slots) <= SizeLimit
      BY <1>3, <2>1, AddressFacts
    <2>3. Address(i) \in Nat /\ Address(i) >= MetaLen /\ Address(Slots) \in Nat
      BY <1>2, <2>1
    <2> QED
      BY <1>1, <2>2, <2>3
  <1>5. ASSUME NEW i \in 0 .. Slots - 1, NEW j \in 0 .. Slots - 1, i # j
        PROVE  /\ Address(i) # Address(j)
               /\ Address(i) \notin Address(j) + 1 .. Address(j) + L
               /\ (Address(i) + 1 .. Address(i) + L) \cap (Address(j) .. Address(j) + L) = {}
    <2>1. i \in 0 .. Slots /\ j \in 0 .. Slots /\ (i < j \/ j < i)
      BY <1>1, <1>5
    <2>2. Address(i) + SlotLen <= Address(j) \/ Address(j) + SlotLen <= Address(i)
      BY <1>3, <2>1
    <2>3. Address(i) \in Nat /\ Address(j) \in Nat
      BY <1>2, <2>1
    <2> QED
      BY <1>1, <2>2, <2>3
  <1> QED
    BY <1>4, <1>5

LEMMA WholeIsReadable ==
  ASSUME Uniform, NEW f, NEW i \in 0 .. Slots - 1, NEW r \in Record, Whole(f, i, r)
  PROVE  /\ Readable(f, Address(i)) /\ RecordAt(f, Address(i)) = r
         /\ EndOf(f, Address(i)) = Address(i + 1)
         /\ LengthsAt(f, Address(i)) = {L}
  <1>1. /\ Address(i) \in MetaLen .. FileEnd - 1
        /\ Address(i) + 1 .. Address(i) + L \subseteq MetaLen .. FileEnd - 1
        /\ Address(i) + 1 \in Address(i) + 1 .. Address(i) + L
    BY SlotFacts
  <1>2. FileEnd \in Nat /\ MetaLen \in Nat /\ L \in Nat /\ RecordLen[r] = L
        /\ SlotLen = 1 + L /\ Address(i + 1) = Address(i) + SlotLen
        /\ Address(i) \in Nat
    BY RingAssumption, LengthFacts, AddressFacts, SlotsFacts DEF MetaLen, L
  <1>3. \A o \in MetaLen .. FileEnd - 1 : Cell(f, o) = f[o]
    BY <1>2 DEF Cell
  <1>4. Cell(f, Address(i)) = LenCell(L)
    BY <1>1, <1>3 DEF Whole
  <1>5. \A o \in Address(i) + 1 .. Address(i) + RecordLen[r] : Cell(f, o) = DataCell(r)
    BY <1>1, <1>2, <1>3 DEF Whole
  <1>6. Cell(f, Address(i)).kind = "len" /\ Cell(f, Address(i)).len = L
    BY <1>4 DEF LenCell
  <1>7. Cell(f, Address(i) + 1) = DataCell(r)
    BY <1>1, <1>2, <1>5
  <1>8. RecordAt(f, Address(i)) = r
    BY <1>7 DEF RecordAt, DataCell
  <1>9. EndOf(f, Address(i)) = Address(i + 1)
    BY <1>2, <1>6 DEF EndOf
  <1> QED
    BY <1>2, <1>5, <1>6, <1>8, <1>9 DEF Readable, LengthsAt

(* Where popping continues after the record at position k.                 *)
LEMMA WrapFollows ==
  ASSUME Uniform, NEW m, NEW h, NEW c, Describes(m, h, c),
         NEW k \in 1 .. c - 1
  PROVE  WrapHead(m, Address(Order(h, k) + 1)) = Address(Order(h, k + 1))
  <1>1. Slots \in Nat /\ Slots >= 1 /\ h \in 0 .. Slots - 1 /\ c \in 0 .. Slots
        /\ SlotLen \in Nat /\ SlotLen >= 2
    BY SlotsFacts, LengthFacts DEF Describes
  <1>2. \A i, j \in 0 .. Slots : i < j => Address(i) < Address(j)
    BY SlotAddresses
  <1>3. \A i \in 0 .. Slots : Address(i) \in Nat
    BY SlotAddresses
  <1> DEFINE j == Order(h, k) + 1
  <1>4. CASE h + k < Slots
    <2>1. j = h + k /\ Order(h, k + 1) = h + k /\ j \in 0 .. Slots /\ j < Slots
      BY <1>1, <1>4 DEF Order
    <2>2. Address(j) < m.nomanland
      <3>1. CASE m.nomanland = Address(Slots)
        BY <1>1, <1>2, <2>1, <3>1
      <3>2. CASE h + c <= Slots /\ m.nomanland = Address(h + c)
        <4>1. h + c \in 0 .. Slots /\ j < h + c
          BY <1>1, <2>1, <3>2
        <4> QED
          BY <1>2, <2>1, <3>2, <4>1
      <3> QED
        BY <3>1, <3>2 DEF Describes
    <2>3. Address(j) \in Nat /\ m.nomanland \in Nat
      BY <1>3, <2>1 DEF Describes, Metadata
    <2>4. ~(Address(j) >= m.nomanland)
      BY <2>2, <2>3
    <2> QED
      BY <2>1, <2>4 DEF WrapHead
  <1>5. CASE h + k = Slots
    <2>1. j = Slots /\ Order(h, k + 1) = 0 /\ End(h, c) = h + c - Slots
          /\ ~(h + c <= Slots) /\ End(h, c) \in 0 .. Slots /\ End(h, c) < Slots
      BY <1>1, <1>5 DEF Order, End
    <2>2. m.nomanland = Address(Slots) /\ m.next = Address(End(h, c))
      BY <2>1 DEF Describes
    <2>3. Address(j) > m.next /\ Address(j) >= m.nomanland
      BY <1>1, <1>2, <1>3, <2>1, <2>2
    <2> QED
      BY <2>1, <2>3, AddressFacts DEF WrapHead
  <1>6. CASE h + k > Slots
    <2>1. j = h + k - Slots /\ Order(h, k + 1) = j /\ End(h, c) = h + c - Slots
          /\ j \in 0 .. Slots /\ End(h, c) \in 0 .. Slots /\ j < End(h, c)
      BY <1>1, <1>6 DEF Order, End
    <2>2. m.next = Address(End(h, c))
      BY DEF Describes
    <2>3. ~(Address(j) > m.next)
      BY <1>2, <1>3, <2>1, <2>2
    <2> QED
      BY <2>1, <2>3 DEF WrapHead
  <1> QED
    BY <1>1, <1>4, <1>5, <1>6

(* Every slot in use lies between head and next, and only the last one     *)
(* ends at next.                                                           *)
LEMMA LiesBetween ==
  ASSUME Uniform, NEW m, NEW h, NEW c, Describes(m, h, c), NEW k \in 1 .. c
  PROVE  /\ Between(m, Address(Order(h, k)), Address(Order(h, k) + 1))
         /\ Address(Order(h, k) + 1) = m.next <=> k = c
  <1>1. Slots \in Nat /\ Slots >= 1 /\ h \in 0 .. Slots - 1 /\ c \in 0 .. Slots
        /\ m.head = Address(h) /\ m.next = Address(End(h, c))
    BY SlotsFacts DEF Describes
  <1>2. \A i, j \in 0 .. Slots : i < j => Address(i) < Address(j)
    BY SlotAddresses
  <1>3. \A i \in 0 .. Slots : Address(i) \in Nat
    BY SlotAddresses
  <1>4. \A i, j \in 0 .. Slots : /\ Address(i) <= Address(j) <=> i <= j
                                 /\ Address(i) < Address(j) <=> i < j
                                 /\ Address(i) = Address(j) <=> i = j
    <2> TAKE i, j \in 0 .. Slots
    <2>1. i < j \/ i = j \/ j < i
      BY <1>1
    <2> QED
      BY <1>1, <1>2, <1>3, <2>1
  <1> DEFINE o == Order(h, k)
             e == End(h, c)
  <1>5. o \in 0 .. Slots /\ o + 1 \in 0 .. Slots /\ e \in 0 .. Slots /\ h \in 0 .. Slots
        /\ m.head = Address(h) /\ m.next = Address(e)
    BY <1>1 DEF Order, End
  <1>6. /\ h + c <= Slots => h < e /\ h <= o /\ o + 1 <= e
        /\ h + c > Slots => ~(h < e) /\ (h <= o \/ o + 1 <= e)
        /\ o + 1 = e <=> k = c
    BY <1>1 DEF Order, End
  <1> HIDE DEF o, e
  <1>7. /\ m.head < m.next <=> h < e
        /\ m.head <= Address(o) <=> h <= o
        /\ Address(o + 1) <= m.next <=> o + 1 <= e
        /\ Address(o + 1) = m.next <=> o + 1 = e
    BY <1>4, <1>5
  <1>8. Between(m, Address(o), Address(o + 1))
    BY <1>1, <1>6, <1>7 DEF Between
  <1>9. Address(o + 1) = m.next <=> k = c
    BY <1>6, <1>7
  <1> QED
    BY <1>8, <1>9 DEF o

LEMMA ViewOf ==
  ASSUME Uniform, NEW f, NEW m, NEW h, NEW q \in Seq(Record),
         Describes(m, h, Len(q)),
         \A k \in 1 .. Len(q) : Whole(f, Order(h, k), q[k])
  PROVE  View(f, m) = [recs |-> q, slot |-> h]
  <1> DEFINE c == Len(q)
             g == [k \in 1 .. c |-> Address(Order(h, k))]
  <1>1. /\ Slots \in Nat /\ h \in 0 .. Slots - 1 /\ c \in 0 .. Slots /\ m.blockCnt = c
        /\ m.head = Address(h) /\ m.next = Address(End(h, c)) /\ (c = 0 => h = 0)
    BY SlotsFacts DEF Describes
  <1>2. \A k \in 1 .. c : Order(h, k) \in 0 .. Slots - 1 /\ q[k] \in Record
    <2>1. \A k \in 1 .. c : k \in 1 .. Slots + 1 /\ q[k] \in Record
      BY <1>1
    <2> QED
      BY <1>1, <2>1, OrderFacts
  <1>3. \A k \in 1 .. c : /\ Readable(f, g[k]) /\ RecordAt(f, g[k]) = q[k]
                          /\ EndOf(f, g[k]) = Address(Order(h, k) + 1)
    BY <1>2, WholeIsReadable
  <1>4. \A k \in 1 .. c : g[k] = NextOffset(f, m, g, k)
    <2> TAKE k \in 1 .. c
    <2>1. CASE k = 1
      BY <1>1, <2>1, OrderFacts DEF NextOffset
    <2>2. CASE k # 1
      <3>1. k - 1 \in 1 .. c - 1 /\ k - 1 \in 1 .. c /\ (k - 1) + 1 = k
        BY <1>1, <2>2
      <3>2. WrapHead(m, Address(Order(h, k - 1) + 1)) = Address(Order(h, k))
        BY <3>1, WrapFollows
      <3>3. g[k] = WrapHead(m, EndOf(f, g[k - 1])) /\ Readable(f, g[k - 1])
        BY <1>3, <3>1, <3>2
      <3> HIDE DEF g
      <3> QED
        BY <2>2, <3>3, Zenon DEF NextOffset
    <2> QED
      BY <2>1, <2>2
  <1>5. g = [k \in 1 .. m.blockCnt |-> NextOffset(f, m, g, k)]
    <2> DEFINE e == [k \in 1 .. m.blockCnt |-> NextOffset(f, m, g, k)]
    <2>1. \A k \in 1 .. c : e[k] = g[k]
      <3> HIDE DEF g
      <3> QED
        BY <1>1, <1>4
    <2>2. e = [k \in 1 .. c |-> e[k]]
      BY <1>1
    <2> HIDE DEF e
    <2>3. e = g
      BY <2>1, <2>2
    <2> QED
      BY <2>3 DEF e
  <1>6. Offsets(f, m) = g
    <2> HIDE DEF g
    <2> QED
      BY <1>1, <1>5, OffsetsAre
  <1>7. Matches(f, m)
    <2>1. CASE c = 0
      BY <1>1, <2>1 DEF Matches, End
    <2>2. CASE c # 0
      <3>1. \A k \in 1 .. c : /\ Between(m, g[k], EndOf(f, g[k]))
                              /\ EndOf(f, g[k]) = m.next <=> k = c
        BY <1>3, LiesBetween
      <3> HIDE DEF g
      <3> QED
        BY <1>1, <1>3, <1>6, <2>2, <3>1 DEF Matches
    <2> QED
      BY <2>1, <2>2
  <1>8. [k \in 1 .. m.blockCnt |-> RecordAt(f, Offsets(f, m)[k])] = q
    <2>1. \A k \in 1 .. c : RecordAt(f, Offsets(f, m)[k]) = q[k]
      <3> HIDE DEF g
      <3> QED
        BY <1>3, <1>6
    <2>2. q = [k \in 1 .. c |-> q[k]]
      OBVIOUS
    <2> QED
      BY <1>1, <2>1, <2>2
  <1>9. (m.head - MetaLen) \div SlotLen = h
    BY <1>1, AddressFacts
  <1> QED
    BY <1>7, <1>8, <1>9 DEF View

-----------------------------------------------------------------------------
(* Arithmetic of the metadata.                                             *)
LEMMA MinusIs ==
  ASSUME NEW a \in Nat, NEW b \in Nat, b <= a, a < Word
  PROVE  Minus(a, b) = a - b
  <1>1. \A x, w \in Nat : x < w => x % w = x
    OBVIOUS
  <1>2. a - b \in Nat /\ Word \in Nat /\ a - b < Word
    BY RingAssumption
  <1> QED
    BY <1>1, <1>2 DEF Minus

LEMMA Shape ==
  ASSUME Uniform, NEW m, NEW h, NEW c, Describes(m, h, c)
  PROVE  /\ End(h, c) \in 0 .. Slots
         /\ m.head <= SizeLimit /\ m.next <= SizeLimit /\ m.nomanland <= SizeLimit
         /\ h + c <= Slots /\ c > 0 => m.next > m.head
         /\ h + c > Slots =>
              /\ m.next <= m.head /\ m.nomanland = Address(Slots)
              /\ m.next + SlotLen <= m.nomanland
         /\ h + c > Slots /\ c < Slots => m.next + SlotLen <= m.head
         /\ c > 0 => m.head < m.nomanland
         /\ c > 0 /\ h + c <= Slots =>
              (m.next + SlotLen > SizeLimit <=> h + c = Slots)
         /\ c = Slots /\ h + c > Slots => m.next = m.head
  <1>1. /\ Slots \in Nat /\ Slots >= 1 /\ h \in 0 .. Slots - 1 /\ c \in 0 .. Slots
        /\ SlotLen \in Nat /\ SlotLen >= 2 /\ SizeLimit \in Nat
        /\ m.head = Address(h) /\ m.next = Address(End(h, c))
        /\ Address(Slots) <= SizeLimit /\ Address(Slots) + SlotLen > SizeLimit
    BY SlotAddresses, LengthFacts, AddressFacts, RingAssumption DEF Describes
  <1>2. \A i \in 0 .. Slots : Address(i) \in Nat
    BY SlotAddresses
  <1>3. \A i, j \in 0 .. Slots : i < j => Address(i) + SlotLen <= Address(j)
    BY SlotAddresses
  <1>4. /\ End(h, c) \in 0 .. Slots /\ h \in 0 .. Slots /\ Slots \in 0 .. Slots
        /\ h < Slots /\ (h + c <= Slots => h + c \in 0 .. Slots /\ End(h, c) = h + c)
        /\ (h + c > Slots => End(h, c) = h + c - Slots /\ End(h, c) < Slots)
    BY <1>1 DEF End
  <1>5. \A i \in 0 .. Slots : Address(i) <= SizeLimit
    <2> TAKE i \in 0 .. Slots
    <2>1. CASE i = Slots
      BY <1>1, <2>1
    <2>2. CASE i < Slots
      <3>1. Address(i) + SlotLen <= Address(Slots)
        BY <1>3, <1>4, <2>2
      <3> QED
        BY <1>1, <1>2, <1>4, <3>1
    <2> QED
      BY <1>1, <2>1, <2>2
  <1>6. /\ m.head <= SizeLimit /\ m.next <= SizeLimit /\ m.nomanland <= SizeLimit
    BY <1>1, <1>4, <1>5 DEF Describes
  <1>7. h + c <= Slots /\ c > 0 => m.next > m.head
    <2> HAVE h + c <= Slots /\ c > 0
    <2>1. h < h + c
      BY <1>1
    <2>2. Address(h) + SlotLen <= Address(h + c)
      BY <1>3, <1>4, <2>1
    <2> QED
      BY <1>1, <1>2, <1>4, <2>2
  <1>8. h + c > Slots =>
          /\ m.next <= m.head /\ m.nomanland = Address(Slots)
          /\ m.next + SlotLen <= m.nomanland
    <2> HAVE h + c > Slots
    <2>1. m.nomanland = Address(Slots)
      BY <1>1 DEF Describes
    <2>2. m.next + SlotLen <= m.nomanland
      BY <1>1, <1>3, <1>4, <2>1
    <2>3. End(h, c) = h \/ End(h, c) < h
      BY <1>1, <1>4
    <2>4. m.next <= m.head
      <3>1. CASE End(h, c) = h
        BY <1>1, <1>2, <1>4, <3>1
      <3>2. CASE End(h, c) < h
        <4>1. Address(End(h, c)) + SlotLen <= Address(h)
          BY <1>3, <1>4, <3>2
        <4> QED
          BY <1>1, <1>2, <1>4, <4>1
      <3> QED
        BY <2>3, <3>1, <3>2
    <2> QED
      BY <2>1, <2>2, <2>4
  <1>9. h + c > Slots /\ c < Slots => m.next + SlotLen <= m.head
    <2> HAVE h + c > Slots /\ c < Slots
    <2>1. End(h, c) < h
      BY <1>1, <1>4
    <2> QED
      BY <1>1, <1>3, <1>4, <2>1
  <1>10. c > 0 => m.head < m.nomanland
    <2> HAVE c > 0
    <2>1. PICK j \in 0 .. Slots : h < j /\ m.nomanland = Address(j)
      BY <1>1, <1>4 DEF Describes
    <2>2. Address(h) + SlotLen <= Address(j)
      BY <1>3, <1>4, <2>1
    <2> QED
      BY <1>1, <1>2, <1>4, <2>1, <2>2
  <1>11. c > 0 /\ h + c <= Slots => (m.next + SlotLen > SizeLimit <=> h + c = Slots)
    <2> HAVE c > 0 /\ h + c <= Slots
    <2>1. CASE h + c = Slots
      BY <1>1, <1>4, <2>1
    <2>2. CASE h + c < Slots
      <3>1. Address(h + c) + SlotLen <= Address(Slots)
        BY <1>3, <1>4, <2>2
      <3> QED
        BY <1>1, <1>2, <1>4, <2>2, <3>1
    <2> QED
      BY <1>1, <2>1, <2>2
  <1>12. c = Slots /\ h + c > Slots => m.next = m.head
    <2> HAVE c = Slots /\ h + c > Slots
    <2>1. End(h, c) = h
      BY <1>1, <1>4
    <2> QED
      BY <1>1, <2>1
  <1> QED
    BY <1>4, <1>6, <1>7, <1>8, <1>9, <1>10, <1>11, <1>12

-----------------------------------------------------------------------------
(* The steps of a put.                                                     *)
LEMMA GoodFacts ==
  ASSUME Uniform, Good
  PROVE  /\ Slots \in Nat /\ Slots >= 1 /\ Oldest \in 0 .. Slots - 1 /\ Count \in 0 .. Slots
         /\ view.recs \in Seq(Record) /\ view = [recs |-> view.recs, slot |-> Oldest]
         /\ Describes(saved, Oldest, Count)
         /\ view # Broken
         /\ saved.head = Address(Oldest) /\ saved.next = Address(End(Oldest, Count))
         /\ saved.blockCnt = Count /\ saved \in Metadata
  <1>1. Slots \in Nat /\ Slots >= 1
    BY SlotsFacts
  <1>2. view \in [recs : Seq(Record), slot : 0 .. Slots - 1] /\ Describes(saved, Oldest, Count)
    BY DEF Good, Fifo!Cache
  <1>3. view # Broken
    BY <1>1, <1>2 DEF Broken
  <1> QED
    BY <1>1, <1>2, <1>3 DEF Describes, Oldest, Count

LEMMA IdleIsOK ==
  ASSUME Good, op.step = "idle"
  PROVE  IdleOK
  BY DEF Good, PopOK, EraseOK, LengthOK, PayloadOK, SaveOK

LEMMA PutStarts ==
  ASSUME Uniform, Good, NEW r \in Record, Put(r)
  PROVE  Good' /\ view' = view
  <1>1. /\ op.step = "idle" /\ saved' = saved /\ file' = file /\ view' = view
    BY Zenon DEF Put, PutEmpty, PutWrap, PutAppend, PutGap, PutReuse, PutTail, PutFront,
                 PutReset, Start
  <1>2. IdleOK
    BY <1>1, IdleIsOK
  <1>3. op = Idle /\ meta = saved /\ Holds(file, view)
    BY <1>2 DEF IdleOK
  <1> DEFINE h == Oldest
             c == Count
  <1>4. /\ Slots \in Nat /\ Slots >= 1 /\ h \in 0 .. Slots - 1 /\ c \in 0 .. Slots
        /\ Describes(meta, h, c) /\ meta.blockCnt = c
        /\ meta.head \in Nat /\ meta.next \in Nat /\ meta.nomanland \in Nat
        /\ meta \in Metadata
        /\ meta.head = Address(h) /\ meta.next = Address(End(h, c))
    BY <1>3, GoodFacts DEF Metadata
  <1>5. Space(r) = SlotLen /\ SlotLen \in Nat /\ SlotLen >= 2
    BY LengthFacts
  <1>6. h' = h /\ c' = c
    BY <1>1 DEF Oldest, Count
  <1>7. Describes(saved, h, c)' /\ (view \in Fifo!Cache)' /\ FileOK(file)' /\ Holds(file, view)'
    BY <1>1, <1>3, <1>6 DEF Good
  <1>8. /\ h + c <= Slots /\ c > 0 => meta.next > meta.head
        /\ h + c > Slots =>
             /\ meta.next <= meta.head /\ meta.next + SlotLen <= meta.nomanland
        /\ h + c > Slots /\ c < Slots => meta.next + SlotLen <= meta.head
        /\ c > 0 /\ h + c <= Slots =>
             (meta.next + SlotLen > SizeLimit <=> h + c = Slots)
        /\ c = Slots /\ h + c > Slots => meta.next = meta.head
        /\ meta.nomanland <= SizeLimit
    BY <1>4, Shape
  <1>9. h + c <= Slots \/ h + c > Slots
    BY <1>4
  <1>10. Minus(meta.nomanland, meta.next) >= SlotLen \/ h + c <= Slots
    <2>1. SUFFICES ASSUME h + c > Slots PROVE Minus(meta.nomanland, meta.next) >= SlotLen
      BY <1>9
    <2>2. meta.next <= meta.nomanland /\ meta.nomanland < Word
      BY <1>4, <1>5, <1>8, <2>1, RingAssumption
    <2>3. Minus(meta.nomanland, meta.next) = meta.nomanland - meta.next
      BY <1>4, <2>2, MinusIs
    <2> QED
      BY <1>4, <1>5, <1>8, <2>1, <2>3
  <1>11. Overflows(r) <=> meta.next + SlotLen > SizeLimit
    BY <1>5 DEF Overflows
  <1>12. CASE PutEmpty(r)
    <2>1. c = 0 /\ h = 0
      BY <1>4, <1>12 DEF PutEmpty, Describes
    <2>2. meta.head = MetaLen /\ meta.next = MetaLen
      BY <1>4, <2>1, AddressFacts DEF End
    <2>3. meta' = meta
      BY <1>4, <1>12, <2>2 DEF PutEmpty, Metadata
    <2>4. op' = [step |-> "length", branch |-> "empty", rec |-> r, freed |-> 0, need |-> 0]
      BY <1>12 DEF PutEmpty, Start
    <2>5. LengthOK'
      BY <1>1, <1>3, <1>4, <1>6, <1>7, <2>1, <2>3, <2>4
      DEF LengthOK, Putting, BeforeWrite, BranchFits
    <2> QED
      BY <1>1, <1>7, <2>5 DEF Good
  <1>13. CASE PutAppend(r)
    <2>1. c > 0 /\ h + c < Slots
      BY <1>4, <1>8, <1>9, <1>11, <1>13 DEF PutAppend
    <2>2. op' = [step |-> "length", branch |-> "append", rec |-> r, freed |-> 0, need |-> 0]
          /\ meta' = meta
      BY <1>13 DEF PutAppend, Start
    <2>3. LengthOK'
      BY <1>1, <1>3, <1>4, <1>6, <1>7, <2>1, <2>2
      DEF LengthOK, Putting, BeforeWrite, BranchFits
    <2> QED
      BY <1>1, <1>7, <2>3 DEF Good
  <1>14. CASE PutGap(r)
    <2>1. h + c > Slots /\ c < Slots
      BY <1>4, <1>5, <1>8, <1>9, <1>14 DEF PutGap, Behind, Gap
    <2>2. op' = [step |-> "length", branch |-> "gap", rec |-> r, freed |-> 0, need |-> 0]
          /\ meta' = meta
      BY <1>14 DEF PutGap, Start
    <2>3. LengthOK'
      BY <1>1, <1>3, <1>4, <1>6, <1>7, <2>1, <2>2
      DEF LengthOK, Putting, BeforeWrite, BranchFits
    <2> QED
      BY <1>1, <1>7, <2>3 DEF Good
  <1>15. CASE PutWrap(r)
    <2>1. c > 0 /\ h + c = Slots
      BY <1>4, <1>8, <1>9, <1>11, <1>15 DEF PutWrap
    <2>2. op' = [step |-> "erase", branch |-> "wrap", rec |-> r,
                 freed |-> meta.head - MetaLen, need |-> SlotLen]
          /\ meta' = meta
      BY <1>5, <1>15 DEF PutWrap, Start
    <2>3. EraseOK'
      BY <1>1, <1>3, <1>4, <1>6, <1>7, <2>1, <2>2 DEF EraseOK, Putting, BranchFits
    <2> QED
      BY <1>1, <1>7, <2>3 DEF Good
  <1>16. CASE PutReuse(r)
    <2>1. h + c > Slots /\ c = Slots
      BY <1>4, <1>5, <1>8, <1>9, <1>16 DEF PutReuse, Behind, Gap
    <2>2. Gap = 0
      BY <1>4, <1>8, <2>1 DEF Gap
    <2>3. op' = [step |-> "erase", branch |-> "reuse", rec |-> r, freed |-> 0, need |-> SlotLen]
          /\ meta' = meta
      BY <1>5, <1>16, <2>2 DEF PutReuse, Start
    <2>4. EraseOK'
      BY <1>1, <1>3, <1>4, <1>6, <1>7, <2>1, <2>3 DEF EraseOK, Putting, BranchFits
    <2> QED
      BY <1>1, <1>7, <2>4 DEF Good
  <1>17. CASE PutTail(r) \/ PutFront(r) \/ PutReset(r)
    <2>1. Behind /\ Minus(meta.nomanland, meta.next) < SlotLen
      BY <1>5, <1>17 DEF PutTail, PutFront, PutReset
    <2>2. h + c <= Slots
      <3>1. Minus(meta.nomanland, meta.next) \in Int
        BY <1>4, RingAssumption DEF Minus
      <3> QED
        BY <1>5, <1>10, <2>1, <3>1
    <2> QED
      BY <1>4, <1>8, <2>1, <2>2 DEF Behind
  <1> QED
    BY <1>12, <1>13, <1>14, <1>15, <1>16, <1>17 DEF Put

(* What every step of a put before the last leaves alone.                  *)
LEMMA Unmoved ==
  ASSUME Uniform, Good, saved' = saved, view' = view
  PROVE  /\ Oldest' = Oldest /\ Count' = Count /\ Target' = Target
         /\ (view \in Fifo!Cache)' /\ Describes(saved, Oldest, Count)'
         /\ \A head : Dropped(head)' = Dropped(head)
  <1>1. Oldest' = Oldest /\ Count' = Count
    BY DEF Oldest, Count
  <1> QED
    BY <1>1 DEF Good, Target, Dropped

LEMMA EraseOneKeepsGood ==
  ASSUME Uniform, Good, EraseOne
  PROVE  Good' /\ view' = view
  <1> DEFINE h == Oldest
             c == Count
  <1>1. /\ op.step = "erase" /\ saved' = saved /\ file' = file /\ view' = view
        /\ op.freed < op.need
    BY DEF EraseOne, MoreToErase
  <1>2. EraseOK
    BY <1>1 DEF Good, IdleOK, Idle, PopOK, LengthOK, PayloadOK, SaveOK
  <1>3. /\ Slots \in Nat /\ Slots >= 1 /\ h \in 0 .. Slots - 1 /\ c \in 0 .. Slots
        /\ saved \in Metadata /\ saved.head = Address(h) /\ saved.blockCnt = c
        /\ view.recs \in Seq(Record)
    BY GoodFacts
  <1>4. SlotLen \in Nat /\ SlotLen >= 2 /\ L = SlotLen - 1 /\ MetaLen \in Nat
    BY LengthFacts DEF L, MetaLen
  <1>5. /\ op.need = SlotLen /\ meta = saved /\ op.branch \in {"wrap", "reuse"}
        /\ op.freed = IF op.branch = "wrap" THEN Address(h) - MetaLen ELSE 0
    BY <1>1, <1>2, <1>4 DEF EraseOK
  <1>6. Putting /\ Holds(file, view)
    BY <1>2 DEF EraseOK
  <1>7. c = Slots /\ op.freed = 0
    <2>1. CASE op.branch = "wrap"
      <3>1. c > 0 /\ h + c = Slots
        BY <1>6, <2>1 DEF Putting, BranchFits
      <3>2. h = 0
        <4>1. SUFFICES ASSUME h > 0 PROVE FALSE
          BY <1>3
        <4>2. 0 \in 0 .. Slots /\ h \in 0 .. Slots /\ Address(0) = MetaLen
          BY <1>3, AddressFacts
        <4>3. Address(0) + SlotLen <= Address(h)
          BY <4>1, <4>2, SlotAddresses
        <4>4. Address(h) \in Nat
          BY <4>2, SlotAddresses
        <4>5. op.freed >= SlotLen
          BY <1>4, <1>5, <2>1, <4>2, <4>3, <4>4
        <4> QED
          BY <1>1, <1>4, <1>5, <2>1, <4>2, <4>4, <4>5
      <3> QED
        BY <1>3, <1>4, <1>5, <2>1, <3>1, <3>2, AddressFacts
    <2>2. CASE op.branch = "reuse"
      BY <1>5, <1>6, <2>2 DEF Putting, BranchFits
    <2> QED
      BY <1>5, <2>1, <2>2
  <1>8. LengthsAt(file, meta.head) = {L}
    <2>1. 1 \in 1 .. Len(view.recs) /\ view.recs[1] \in Record
      BY <1>3, <1>7 DEF Count
    <2>2. Order(view.slot, 1) = h
      BY <1>3, OrderFacts DEF Oldest
    <2>3. Whole(file, h, view.recs[1])
      BY <1>6, <2>1, <2>2 DEF Holds
    <2> QED
      BY <1>3, <1>5, <2>1, <2>3, WholeIsReadable
  <1>9. /\ op' = [op EXCEPT !.freed = @ + 1 + L]
        /\ meta' = [meta EXCEPT !.head = @ + 1 + L, !.blockCnt = Minus(@, 1)]
    BY <1>8 DEF EraseOne
  <1>10. Minus(c, 1) = c - 1
    <2>1. c >= 1 /\ c < Word
      <3>1. Slots * SlotLen <= SizeLimit - MetaLen /\ SizeLimit < Word
            /\ SizeLimit \in Nat /\ Word \in Nat
        BY SlotsFacts, RingAssumption
      <3>2. \A x, y \in Nat : y >= 2 => x <= x * y /\ x * y \in Nat
        OBVIOUS
      <3>3. Slots <= Slots * SlotLen /\ Slots * SlotLen \in Nat
        BY <1>3, <1>4, <3>2
      <3> QED
        BY <1>3, <1>4, <1>7, <3>1, <3>3
    <2> QED
      BY <1>3, <2>1, MinusIs
  <1>11. meta' = Dropped(Address(h + 1))
    <2>1. Address(h + 1) = Address(h) + 1 + L
      <3>1. h \in Nat
        BY <1>3
      <3>2. Address(h) \in Nat /\ Address(h + 1) = Address(h) + SlotLen
        BY <3>1, AddressFacts
      <3> QED
        BY <1>4, <3>2
    <2> QED
      BY <1>3, <1>5, <1>9, <1>10, <2>1 DEF Dropped, Metadata
  <1>12. /\ op' = [step |-> "erase", branch |-> op.branch, rec |-> op.rec,
                   freed |-> SlotLen, need |-> SlotLen]
    BY <1>1, <1>4, <1>5, <1>6, <1>7, <1>9 DEF Putting
  <1>13. /\ Oldest' = Oldest /\ Count' = Count
         /\ (view \in Fifo!Cache)' /\ Describes(saved, Oldest, Count)'
         /\ \A head : Dropped(head)' = Dropped(head)
    BY <1>1, Unmoved
  <1>14. Putting'
    BY <1>6, <1>12, <1>13 DEF Putting, BranchFits
  <1>15. EraseOK'
    BY <1>1, <1>5, <1>6, <1>7, <1>11, <1>12, <1>13, <1>14 DEF EraseOK, Holds
  <1> QED
    BY <1>1, <1>13, <1>15 DEF Good, FileOK

LEMMA EraseEndKeepsGood ==
  ASSUME Uniform, Good, EraseEnd
  PROVE  Good' /\ view' = view
  <1> DEFINE h == Oldest
             c == Count
  <1>1. /\ op.step = "erase" /\ saved' = saved /\ file' = file /\ view' = view
        /\ ~MoreToErase /\ meta' = AfterErase(meta) /\ op' = [op EXCEPT !.step = "length"]
    BY DEF EraseEnd
  <1>2. EraseOK
    BY <1>1 DEF Good, IdleOK, Idle, PopOK, LengthOK, PayloadOK, SaveOK
  <1>3. /\ Slots \in Nat /\ Slots >= 1 /\ h \in 0 .. Slots - 1 /\ c \in 0 .. Slots
        /\ saved \in Metadata /\ saved.head = Address(h) /\ saved.blockCnt = c
        /\ Describes(saved, h, c)
    BY GoodFacts
  <1>4. SlotLen \in Nat /\ SlotLen >= 2 /\ L = SlotLen - 1 /\ MetaLen \in Nat
    BY LengthFacts DEF L, MetaLen
  <1>5. Putting /\ op.branch \in {"wrap", "reuse"} /\ op.need = SlotLen /\ Holds(file, view)
    BY <1>2 DEF EraseOK
  <1>6. /\ op.branch = "wrap" => c > 0 /\ h + c = Slots
        /\ op.branch = "reuse" => c = Slots /\ h + c > Slots
    BY <1>5 DEF Putting, BranchFits
  <1>7. /\ op' = [step |-> "length", branch |-> op.branch, rec |-> op.rec,
                  freed |-> op.freed, need |-> op.need]
    BY <1>1, <1>5 DEF Putting
  <1>8. /\ Oldest' = Oldest /\ Count' = Count
        /\ (view \in Fifo!Cache)' /\ Describes(saved, Oldest, Count)'
        /\ \A head : Dropped(head)' = Dropped(head)
    BY <1>1, Unmoved
  <1>9. Putting' /\ op'.branch = op.branch /\ op'.step = "length"
    BY <1>5, <1>7, <1>8 DEF Putting, BranchFits
  <1>10. Slots' = Slots /\ BeforeWrite' = BeforeWrite
    BY <1>1, <1>8, <1>9 DEF BeforeWrite
  <1>11. meta' = BeforeWrite
    <2>1. CASE meta = saved /\ op.freed = IF op.branch = "wrap" THEN Address(h) - MetaLen ELSE 0
      <3>1. c > 0
        BY <1>3, <1>5, <1>6
      <3>2. saved.head < saved.nomanland
        BY <1>3, <3>1, Shape
      <3>3. ~(op.freed < SlotLen)
        BY <1>1, <1>5, <2>1, <3>2 DEF MoreToErase
      <3>4. op.branch = "wrap"
        BY <1>4, <1>5, <2>1, <3>3
      <3>5. h # 0
        BY <1>4, <2>1, <3>3, <3>4, AddressFacts
      <3>6. c # Slots
        BY <1>3, <1>6, <3>4, <3>5
      <3> QED
        BY <1>1, <2>1, <3>4, <3>6 DEF AfterErase, BeforeWrite
    <2>2. CASE c = Slots /\ meta = Dropped(Address(h + 1))
      <3>1. CASE op.branch = "wrap"
        BY <1>1, <2>2, <3>1 DEF AfterErase, BeforeWrite
      <3>2. CASE op.branch = "reuse"
        <4>1. saved.nomanland = Address(Slots)
          BY <1>3, <1>6, <3>2 DEF Describes
        <4>2. meta.nomanland = Address(Slots) /\ meta.head = Address(h + 1)
          BY <1>3, <2>2, <4>1 DEF Dropped, Metadata
        <4>3. h + 1 = Slots <=> meta.head >= meta.nomanland
          <5>1. h + 1 \in 0 .. Slots /\ Slots \in 0 .. Slots
            BY <1>3
          <5>2. Address(h + 1) \in Nat /\ Address(Slots) \in Nat
            BY <5>1, SlotAddresses
          <5>3. h + 1 < Slots => Address(h + 1) < Address(Slots)
            BY <5>1, SlotAddresses
          <5> QED
            BY <1>3, <4>2, <5>2, <5>3
        <4>4. AfterErase(meta) =
                Dropped(IF h + 1 = Slots THEN MetaLen ELSE Address(h + 1))
          BY <1>3, <2>2, <3>2, <4>2, <4>3 DEF AfterErase, Dropped, Metadata
        <4> QED
          BY <1>1, <2>2, <3>2, <4>4 DEF BeforeWrite
      <3> QED
        BY <1>5, <3>1, <3>2
    <2> QED
      BY <1>2, <2>1, <2>2 DEF EraseOK
  <1>12. LengthOK'
    BY <1>1, <1>5, <1>9, <1>10, <1>11 DEF LengthOK, Holds
  <1> QED
    BY <1>1, <1>8, <1>12 DEF Good, FileOK

LEMMA WritesItsSlot ==
  ASSUME Uniform, Good, Putting, meta = BeforeWrite
  PROVE  Target \in 0 .. Slots - 1 /\ WriteAt = Address(Target) /\ WriteAt \in DOMAIN file
  <1> DEFINE h == Oldest
             c == Count
  <1>1. /\ Slots \in Nat /\ Slots >= 1 /\ h \in 0 .. Slots - 1 /\ c \in 0 .. Slots
        /\ saved \in Metadata /\ saved.next = Address(End(h, c)) /\ Describes(saved, h, c)
    BY GoodFacts
  <1>2. BranchFits(op.branch, h, c)
    BY DEF Putting
  <1>3. Target \in 0 .. Slots - 1
    BY <1>1, OrderFacts DEF Target
  <1>4. meta.next = saved.next
    BY <1>1 DEF BeforeWrite, Dropped, Metadata
  <1>5. WriteAt = Address(Target)
    <2>1. CASE op.branch = "wrap"
      <3>1. Target = 0
        BY <1>1, <1>2, <2>1 DEF BranchFits, Target, Order
      <3> QED
        BY <2>1, <3>1, AddressFacts DEF WriteAt
    <2>2. CASE op.branch # "wrap"
      <3>1. Target = End(h, c)
        BY <1>1, <1>2, <2>2 DEF BranchFits, Target, Order, End, Describes
      <3> QED
        BY <1>1, <1>4, <2>2, <3>1 DEF WriteAt
    <2> QED
      BY <2>1, <2>2
  <1>6. WriteAt \in DOMAIN file
    BY <1>3, <1>5, SlotFacts DEF Good, FileOK
  <1> QED
    BY <1>3, <1>5, <1>6

LEMMA WriteLengthKeepsGood ==
  ASSUME Uniform, Good, WriteLength
  PROVE  Good' /\ view' = view
  <1> DEFINE h == Oldest
             c == Count
             t == Target
  <1>1. /\ op.step = "length" /\ saved' = saved /\ meta' = meta /\ view' = view
        /\ file' = [file EXCEPT ![WriteAt] = LenCell(RecordLen[op.rec])]
        /\ op' = [op EXCEPT !.step = "payload"]
    BY DEF WriteLength
  <1>2. LengthOK
    BY <1>1 DEF Good, IdleOK, Idle, PopOK, EraseOK, PayloadOK, SaveOK
  <1>3. Putting /\ meta = BeforeWrite /\ Holds(file, view)
    BY <1>2 DEF LengthOK
  <1>4. /\ Slots \in Nat /\ Slots >= 1 /\ h \in 0 .. Slots - 1 /\ c \in 0 .. Slots
        /\ view.recs \in Seq(Record) /\ c = Len(view.recs) /\ h = view.slot
    BY GoodFacts DEF Oldest, Count
  <1>5. t \in 0 .. Slots - 1 /\ WriteAt = Address(t) /\ WriteAt \in DOMAIN file
    BY <1>3, WritesItsSlot
  <1>6. RecordLen[op.rec] = L
    BY <1>3, LengthFacts DEF Putting
  <1>7. file' = [file EXCEPT ![Address(t)] = LenCell(L)] /\ Address(t) \in DOMAIN file
    BY <1>1, <1>5, <1>6
  <1>8. FileOK(file)'
    BY <1>7 DEF Good, FileOK
  <1>9. file'[Address(t)] = LenCell(L)
    BY <1>7
  <1>10. \A o : o # Address(t) /\ o \in DOMAIN file => file'[o] = file[o]
    BY <1>7
  <1>11. DOMAIN file = MetaLen .. FileEnd - 1
    BY DEF Good, FileOK
  <1>12. ASSUME NEW i \in 0 .. Slots - 1, NEW r, Whole(file, i, r)
         PROVE  Whole(file', i, r)
    <2>1. /\ Address(i) \in DOMAIN file
          /\ Address(i) + 1 .. Address(i) + L \subseteq DOMAIN file
      BY <1>11, SlotFacts
    <2>2. Address(t) \notin Address(i) + 1 .. Address(i) + L
      <3>1. CASE i = t
        <4>1. Address(t) \in Nat /\ L \in Nat
          BY <1>5, SlotFacts, LengthFacts DEF MetaLen
        <4> QED
          BY <3>1, <4>1
      <3>2. CASE i # t
        BY <1>5, <3>2, SlotFacts
      <3> QED
        BY <3>1, <3>2
    <2>3. file'[Address(i)] = LenCell(L)
      BY <1>9, <1>10, <1>12, <2>1 DEF Whole
    <2>4. \A o \in Address(i) + 1 .. Address(i) + L : file'[o] = DataCell(r)
      BY <1>10, <1>12, <2>1, <2>2 DEF Whole
    <2> QED
      BY <2>3, <2>4 DEF Whole
  <1>13. Holds(file', view)
    <2>1. ASSUME NEW k \in 1 .. c PROVE Order(h, k) \in 0 .. Slots - 1
      <3>1. k \in 1 .. Slots + 1
        BY <1>4
      <3> QED
        BY <1>4, <3>1, OrderFacts
    <2> QED
      BY <1>3, <1>4, <1>12, <2>1 DEF Holds
  <1>14. /\ Oldest' = Oldest /\ Count' = Count /\ Target' = Target
         /\ (view \in Fifo!Cache)' /\ Describes(saved, Oldest, Count)'
         /\ \A head : Dropped(head)' = Dropped(head)
    BY <1>1, Unmoved
  <1>15. op' = [step |-> "payload", branch |-> op.branch, rec |-> op.rec,
                freed |-> op.freed, need |-> op.need]
    BY <1>1, <1>3 DEF Putting
  <1>16. Putting' /\ op'.branch = op.branch /\ op'.step = "payload"
    BY <1>3, <1>14, <1>15 DEF Putting, BranchFits
  <1>17. BeforeWrite' = BeforeWrite
    BY <1>1, <1>14, <1>16 DEF BeforeWrite
  <1>18. PayloadOK'
    BY <1>1, <1>3, <1>9, <1>13, <1>14, <1>16, <1>17 DEF PayloadOK
  <1> QED
    BY <1>1, <1>8, <1>14, <1>18 DEF Good

LEMMA MetaBeforeWrite ==
  ASSUME Uniform, Good, meta = BeforeWrite
  PROVE  /\ meta \in Metadata /\ meta.next = saved.next /\ meta.nomanland = saved.nomanland
         /\ Count # Slots => meta.head = Address(Oldest) /\ meta.blockCnt = Count
         /\ Count = Slots =>
              /\ meta.blockCnt = Count - 1
              /\ meta.head = IF op.branch = "reuse" /\ Oldest + 1 = Slots
                             THEN MetaLen ELSE Address(Oldest + 1)
  <1>1. /\ Slots \in Nat /\ Slots >= 1 /\ Oldest \in 0 .. Slots - 1 /\ Count \in 0 .. Slots
        /\ saved \in Metadata /\ saved.head = Address(Oldest) /\ saved.blockCnt = Count
    BY GoodFacts
  <1> DEFINE head == IF op.branch = "reuse" /\ Oldest + 1 = Slots
                     THEN MetaLen ELSE Address(Oldest + 1)
  <1>2. CASE Count = Slots
    <2>1. Oldest + 1 \in 0 .. Slots
      BY <1>1
    <2>2. head \in Nat
      BY <2>1, SlotAddresses DEF MetaLen
    <2> HIDE DEF head
    <2>3. meta = [saved EXCEPT !.head = head, !.blockCnt = Count - 1] /\ Count - 1 \in Nat
      BY <1>1, <1>2 DEF BeforeWrite, Dropped, head
    <2>4. /\ meta \in Metadata /\ meta.next = saved.next /\ meta.nomanland = saved.nomanland
          /\ meta.blockCnt = Count - 1 /\ meta.head = head
      BY <1>1, <2>2, <2>3 DEF Metadata
    <2> QED
      BY <1>2, <2>4 DEF head
  <1>3. CASE Count # Slots
    BY <1>1, <1>3 DEF BeforeWrite
  <1> QED
    BY <1>2, <1>3

LEMMA Written ==
  ASSUME meta \in Metadata, NEW s \in Nat, NEW w, w = AfterWrite(meta, s),
         (meta.blockCnt + 1) % Word = meta.blockCnt + 1
  PROVE  /\ w \in Metadata
         /\ op.branch = "empty" =>
              /\ w.head = meta.head /\ w.next = meta.next + s
              /\ w.nomanland = meta.next + s /\ w.blockCnt = 1
         /\ op.branch = "wrap" =>
              /\ w.head = IF meta.head >= meta.next THEN MetaLen ELSE meta.head
              /\ w.next = MetaLen + s /\ w.nomanland = meta.next
              /\ w.blockCnt = meta.blockCnt + 1
         /\ op.branch \notin {"empty", "wrap"} =>
              /\ w.head = meta.head /\ w.next = meta.next + s
              /\ w.nomanland = IF meta.next + s > meta.head THEN meta.next + s
                               ELSE meta.nomanland
              /\ w.blockCnt = meta.blockCnt + 1
  <1>1. /\ meta.head \in Nat /\ meta.next \in Nat /\ meta.nomanland \in Nat
        /\ meta.blockCnt \in Nat /\ MetaLen \in Nat
    BY DEF Metadata, MetaLen
  <1> DEFINE n == meta.next + s
             e == IF n > meta.head THEN n ELSE meta.nomanland
             b == meta.blockCnt + 1
  <1>2. n \in Nat /\ e \in Nat /\ b \in Nat /\ (meta.blockCnt + 1) % Word = b
    BY <1>1
  <1>3. CASE op.branch = "empty"
    <2> DEFINE one == 1
    <2>1. w = [meta EXCEPT !.blockCnt = one, !.next = n, !.nomanland = n]
      BY <1>3, Zenon DEF AfterWrite
    <2>2. one \in Nat
      OBVIOUS
    <2> HIDE DEF n, e, b, one
    <2>3. /\ w \in Metadata /\ w.head = meta.head /\ w.next = n /\ w.nomanland = n
          /\ w.blockCnt = one
      BY <1>2, <2>1, <2>2 DEF Metadata
    <2> QED
      BY <1>3, <2>3 DEF n, one
  <1>4. CASE op.branch = "wrap"
    <2>1. w = [head |-> IF meta.head >= meta.next THEN MetaLen ELSE meta.head,
               next |-> MetaLen + s, nomanland |-> meta.next, blockCnt |-> b]
      BY <1>2, <1>4 DEF AfterWrite
    <2> QED
      BY <1>1, <1>2, <1>4, <2>1 DEF Metadata
  <1>5. CASE op.branch \notin {"empty", "wrap"}
    <2>1. w = [meta EXCEPT !.blockCnt = (meta.blockCnt + 1) % Word, !.next = n, !.nomanland = e]
      BY <1>5, Zenon DEF AfterWrite
    <2>2. w = [meta EXCEPT !.blockCnt = b, !.next = n, !.nomanland = e]
      BY <1>2, <2>1, Zenon
    <2> HIDE DEF n, e, b
    <2>3. /\ w \in Metadata /\ w.head = meta.head /\ w.next = n /\ w.nomanland = e
          /\ w.blockCnt = b
      BY <1>2, <2>2 DEF Metadata
    <2> QED
      BY <1>5, <2>3 DEF n, e, b
  <1> QED
    BY <1>3, <1>4, <1>5

LEMMA SlotsBelowWord ==
  ASSUME Uniform
  PROVE  \A i \in 0 .. Slots : i < Word /\ i + 1 < Word /\ (i + 1) % Word = i + 1
  <1>1. /\ Slots * SlotLen <= SizeLimit - MetaLen /\ SizeLimit < Word
        /\ SizeLimit \in Nat /\ Word \in Nat /\ Slots \in Nat
        /\ SlotLen \in Nat /\ SlotLen >= 2
    BY SlotsFacts, LengthFacts, RingAssumption
  <1>2. \A x, y \in Nat : y >= 2 => x <= x * y /\ x * y \in Nat
    OBVIOUS
  <1>3. Slots <= Slots * SlotLen /\ Slots * SlotLen \in Nat
    BY <1>1, <1>2
  <1>4. Slots + 1 < Word
    BY <1>1, <1>3 DEF MetaLen
  <1>5. \A x, n \in Nat : x < n => x % n = x
    OBVIOUS
  <1> SUFFICES ASSUME NEW i \in 0 .. Slots
               PROVE  i < Word /\ i + 1 < Word /\ (i + 1) % Word = i + 1
    OBVIOUS
  <1>6. i \in Nat /\ i + 1 \in Nat /\ i + 1 < Word /\ i < Word
    BY <1>1, <1>4
  <1> QED
    BY <1>1, <1>5, <1>6

LEMMA PutMoves ==
  ASSUME Uniform, Good, NEW r \in Record
  PROVE  LET new == Fifo!PutInto(view, r)
         IN /\ Count = Slots =>
                 /\ new = [recs |-> Append(Tail(view.recs), r), slot |-> Fifo!NextSlot(Oldest)]
                 /\ Len(new.recs) = Count
                 /\ \A k \in 1 .. Count - 1 : new.recs[k] = view.recs[k + 1]
                 /\ new.recs[Count] = r
            /\ Count # Slots =>
                 /\ new = [recs |-> Append(view.recs, r), slot |-> Oldest]
                 /\ Len(new.recs) = Count + 1
                 /\ \A k \in 1 .. Count : new.recs[k] = view.recs[k]
                 /\ new.recs[Count + 1] = r
            /\ new.recs \in Seq(Record)
  <1> DEFINE new == Fifo!PutInto(view, r)
             q == view.recs
             t == Tail(q)
  <1>1. /\ Slots \in Nat /\ Slots >= 1 /\ q \in Seq(Record) /\ Count = Len(q)
        /\ Count \in 0 .. Slots /\ view = [recs |-> q, slot |-> Oldest]
    BY GoodFacts DEF Count
  <1> HIDE DEF q
  <1>2. CASE Count = Slots
    <2>1. new = [recs |-> Append(t, r), slot |-> Fifo!NextSlot(Oldest)]
      BY <1>1, <1>2 DEF Fifo!PutInto, Fifo!IsFull
    <2>2. Len(q) >= 1
      BY <1>1, <1>2
    <2>3. t \in Seq(Record) /\ Len(t) = Count - 1 /\ \A k \in 1 .. Count - 1 : t[k] = q[k + 1]
      BY <1>1, <2>2
    <2> HIDE DEF t
    <2>4. /\ Append(t, r) \in Seq(Record) /\ Len(Append(t, r)) = Count
          /\ Append(t, r)[Count] = r
          /\ \A k \in 1 .. Count - 1 : Append(t, r)[k] = q[k + 1]
      BY <1>1, <2>3
    <2> HIDE DEF new
    <2>5. new.recs = Append(t, r)
      BY <2>1
    <2> QED
      BY <1>2, <2>1, <2>4, <2>5 DEF new, t, q
  <1>3. CASE Count # Slots
    <2>1. new = [recs |-> Append(q, r), slot |-> Oldest]
      BY <1>1, <1>3 DEF Fifo!PutInto, Fifo!IsFull
    <2>2. /\ Append(q, r) \in Seq(Record) /\ Len(Append(q, r)) = Count + 1
          /\ Append(q, r)[Count + 1] = r
          /\ \A k \in 1 .. Count : Append(q, r)[k] = q[k]
      BY <1>1
    <2> HIDE DEF new
    <2>3. new.recs = Append(q, r)
      BY <2>1
    <2> QED
      BY <1>3, <2>1, <2>2, <2>3 DEF new, q
  <1> QED
    BY <1>2, <1>3

LEMMA AfterPut ==
  ASSUME Uniform, Good, Putting, meta = BeforeWrite
  PROVE  LET new == Fifo!PutInto(view, op.rec)
         IN Describes(AfterWrite(meta, SlotLen), new.slot, Len(new.recs))
  <1> DEFINE h == Oldest
             c == Count
             new == Fifo!PutInto(view, op.rec)
             w == AfterWrite(meta, SlotLen)
             n == meta.next + SlotLen
             next == Fifo!NextSlot(h)
  <1>1. /\ Slots \in Nat /\ Slots >= 1 /\ h \in 0 .. Slots - 1 /\ c \in 0 .. Slots
        /\ saved \in Metadata /\ saved.next = Address(End(h, c)) /\ Describes(saved, h, c)
    BY GoodFacts
  <1>2. BranchFits(op.branch, h, c) /\ op.rec \in Record
    BY DEF Putting
  <1>3. /\ c = Slots => new.slot = next /\ Len(new.recs) = c
        /\ c # Slots => new.slot = h /\ Len(new.recs) = c + 1
    <2>1. /\ c = Slots =>
               /\ new = [recs |-> Append(Tail(view.recs), op.rec), slot |-> next]
               /\ Len(new.recs) = c
          /\ c # Slots =>
               /\ new = [recs |-> Append(view.recs, op.rec), slot |-> h]
               /\ Len(new.recs) = c + 1
      BY <1>2, PutMoves
    <2> HIDE DEF new
    <2> QED
      BY <2>1
  <1>4. SlotLen \in Nat /\ SlotLen >= 2 /\ MetaLen \in Nat /\ Address(0) = MetaLen
    BY LengthFacts, AddressFacts DEF MetaLen
  <1>5. \A i \in 0 .. Slots : Address(i) \in Nat
    BY SlotAddresses
  <1>6. \A i \in 0 .. Slots - 1 : Address(i + 1) = Address(i) + SlotLen
    <2>1. \A i \in 0 .. Slots - 1 : i \in Nat
      BY <1>1
    <2> QED
      BY <2>1, AddressFacts
  <1>7. \A i, j \in 0 .. Slots : i < j => Address(i) < Address(j)
    BY SlotAddresses
  <1>8. /\ meta \in Metadata /\ meta.next = saved.next /\ meta.nomanland = saved.nomanland
        /\ c # Slots => meta.head = Address(h) /\ meta.blockCnt = c
        /\ c = Slots =>
             /\ meta.blockCnt = c - 1
             /\ meta.head = IF op.branch = "reuse" /\ h + 1 = Slots
                            THEN MetaLen ELSE Address(h + 1)
    BY MetaBeforeWrite
  <1>9. (meta.blockCnt + 1) % Word = meta.blockCnt + 1
    <2>1. meta.blockCnt \in 0 .. Slots
      BY <1>1, <1>8
    <2> QED
      BY <2>1, SlotsBelowWord
  <1>10. /\ w \in Metadata
         /\ op.branch = "empty" =>
              /\ w.head = meta.head /\ w.next = n /\ w.nomanland = n /\ w.blockCnt = 1
         /\ op.branch = "wrap" =>
              /\ w.head = IF meta.head >= meta.next THEN MetaLen ELSE meta.head
              /\ w.next = MetaLen + SlotLen /\ w.nomanland = meta.next
              /\ w.blockCnt = meta.blockCnt + 1
         /\ op.branch \notin {"empty", "wrap"} =>
              /\ w.head = meta.head /\ w.next = n
              /\ w.nomanland = IF n > meta.head THEN n ELSE meta.nomanland
              /\ w.blockCnt = meta.blockCnt + 1
    BY <1>4, <1>8, <1>9, Written
  <1>11. next = IF h + 1 = Slots THEN 0 ELSE h + 1
    BY DEF Fifo!NextSlot
  <1> SUFFICES Describes(w, new.slot, Len(new.recs))
    OBVIOUS
  <1> HIDE DEF new, w, next
  <1>12. CASE op.branch = "empty"
    <2>1. c = 0 /\ h = 0 /\ End(h, c) = 0 /\ c # Slots /\ End(0, 1) = 1 /\ 0 + 1 <= Slots
      BY <1>1, <1>2, <1>12 DEF BranchFits, Describes, End
    <2>2. n = Address(1)
      BY <1>1, <1>6, <1>8, <2>1
    <2>3. /\ w.head = Address(0) /\ w.next = Address(1) /\ w.nomanland = Address(1)
          /\ w.blockCnt = 1
      BY <1>8, <1>10, <1>12, <2>1, <2>2
    <2>4. new.slot = 0 /\ Len(new.recs) = 1 /\ 0 \in 0 .. Slots - 1 /\ 1 \in 0 .. Slots
      BY <1>1, <1>3, <2>1
    <2> QED
      BY <1>10, <2>1, <2>3, <2>4 DEF Describes
  <1>13. CASE op.branch = "append"
    <2>1. c > 0 /\ h + c < Slots /\ End(h, c) = h + c /\ c # Slots /\ End(h, c + 1) = h + c + 1
      BY <1>1, <1>2, <1>13 DEF BranchFits, End
    <2>2. h + c \in 0 .. Slots - 1 /\ h + c + 1 \in 0 .. Slots /\ h \in 0 .. Slots
          /\ h < h + c + 1
      BY <1>1, <2>1
    <2>3. n = Address(h + c + 1)
      BY <1>1, <1>6, <1>8, <2>1, <2>2
    <2>4. n > meta.head
      BY <1>5, <1>7, <1>8, <2>1, <2>2, <2>3
    <2>5. /\ w.head = Address(h) /\ w.next = Address(h + c + 1)
          /\ w.nomanland = Address(h + c + 1) /\ w.blockCnt = c + 1
      BY <1>8, <1>10, <1>13, <2>1, <2>3, <2>4
    <2>6. h + c + 1 = h + (c + 1) /\ c + 1 \in 0 .. Slots /\ h + (c + 1) <= Slots
      BY <1>1, <2>1
    <2> QED
      BY <1>1, <1>3, <1>10, <2>1, <2>5, <2>6 DEF Describes
  <1>14. CASE op.branch = "gap"
    <2>1. c > 0 /\ c < Slots /\ h + c > Slots /\ End(h, c) = h + c - Slots
          /\ End(h, c + 1) = h + c - Slots + 1
      BY <1>1, <1>2, <1>14 DEF BranchFits, End
    <2>2. h + c - Slots + 1 \in 0 .. Slots /\ h + c - Slots \in 0 .. Slots - 1
          /\ h \in 0 .. Slots /\ h + c - Slots + 1 <= h
      BY <1>1, <2>1
    <2>3. n = Address(h + c - Slots + 1)
      BY <1>1, <1>6, <1>8, <2>1, <2>2
    <2>4. ~(n > meta.head)
      <3>1. h + c - Slots + 1 < h \/ h + c - Slots + 1 = h
        BY <1>1, <2>2
      <3>2. Address(h + c - Slots + 1) < Address(h) \/ Address(h + c - Slots + 1) = Address(h)
        BY <1>7, <2>2, <3>1
      <3>3. meta.head = Address(h) /\ Address(h) \in Nat /\ Address(h + c - Slots + 1) \in Nat
        BY <1>1, <1>5, <1>8, <2>1, <2>2
      <3> QED
        BY <2>3, <3>2, <3>3
    <2>5. meta.nomanland = Address(Slots)
      BY <1>1, <1>8, <2>1 DEF Describes
    <2>6. /\ w.head = Address(h) /\ w.next = Address(h + c - Slots + 1)
          /\ w.nomanland = Address(Slots) /\ w.blockCnt = c + 1
      BY <1>1, <1>8, <1>10, <1>14, <2>1, <2>3, <2>4, <2>5
    <2>7. c # Slots /\ c + 1 \in 0 .. Slots /\ c + 1 # 0
      BY <1>1, <2>1
    <2> QED
      BY <1>1, <1>3, <1>10, <2>1, <2>6, <2>7 DEF Describes
  <1>15. CASE op.branch = "reuse"
    <2>1. c = Slots /\ h > 0 /\ End(h, c) = h /\ h + 1 \in 0 .. Slots
      BY <1>1, <1>2, <1>15 DEF BranchFits, End
    <2>2. meta.nomanland = Address(Slots)
      BY <1>1, <1>8, <2>1 DEF Describes
    <2>3. n = Address(h + 1)
      BY <1>1, <1>6, <1>8, <2>1
    <2>4. /\ w.blockCnt = Slots /\ w.next = Address(h + 1)
          /\ new.slot = next /\ Len(new.recs) = Slots
      BY <1>1, <1>3, <1>8, <1>10, <1>15, <2>1, <2>3
    <2>5. CASE h + 1 = Slots
      <3>1. meta.head = MetaLen /\ n = Address(Slots)
        BY <1>8, <1>15, <2>1, <2>3, <2>5
      <3>2. n > meta.head
        <4>1. 0 < Slots /\ 0 \in 0 .. Slots /\ Slots \in 0 .. Slots
          BY <1>1
        <4>2. Address(0) < Address(Slots) /\ Address(0) \in Nat /\ Address(Slots) \in Nat
          BY <1>5, <1>7, <4>1
        <4> QED
          BY <1>4, <3>1, <4>2
      <3>3. w.head = Address(0) /\ w.nomanland = Address(Slots)
        BY <1>4, <1>10, <1>15, <3>1, <3>2
      <3>4. next = 0 /\ End(0, Slots) = Slots
        BY <1>1, <1>11, <2>5 DEF End
      <3> QED
        BY <1>1, <1>10, <2>4, <2>5, <3>3, <3>4 DEF Describes
    <2>6. CASE h + 1 # Slots
      <3>1. meta.head = Address(h + 1) /\ Address(h + 1) \in Nat
        BY <1>5, <1>8, <2>1, <2>6
      <3>2. ~(n > meta.head)
        BY <2>3, <3>1
      <3>3. w.head = Address(h + 1) /\ w.nomanland = Address(Slots)
        BY <1>10, <1>15, <2>2, <3>1, <3>2
      <3>4. next = h + 1 /\ End(h + 1, Slots) = h + 1 /\ h + 1 \in 0 .. Slots - 1
        BY <1>1, <1>11, <2>1, <2>6 DEF End
      <3> QED
        BY <1>1, <1>10, <2>4, <3>3, <3>4 DEF Describes
    <2> QED
      BY <2>5, <2>6
  <1>16. CASE op.branch = "wrap"
    <2>1. c > 0 /\ h + c = Slots /\ End(h, c) = Slots
      BY <1>1, <1>2, <1>16 DEF BranchFits, End
    <2>2. meta.next = Address(Slots) /\ MetaLen + SlotLen = Address(1)
      BY <1>1, <1>4, <1>6, <1>8, <2>1
    <2>3. w.next = Address(1) /\ w.nomanland = Address(Slots) /\ Address(Slots) \in Nat
      BY <1>1, <1>5, <1>10, <1>16, <2>2
    <2>4. CASE c = Slots
      <3>1. h = 0 /\ meta.head = Address(1) /\ 1 \in 0 .. Slots /\ w.blockCnt = Slots
        BY <1>1, <1>8, <1>10, <1>16, <2>1, <2>4
      <3>2. Address(1) \in Nat
        BY <1>5, <3>1
      <3>3. CASE Slots = 1
        <4>1. w.head = Address(0)
          BY <1>4, <1>10, <1>16, <2>2, <3>1, <3>2, <3>3
        <4>2. next = 0 /\ End(0, Slots) = 1 /\ new.slot = next /\ Len(new.recs) = Slots
          BY <1>1, <1>3, <1>11, <2>4, <3>1, <3>3 DEF End
        <4> QED
          BY <1>1, <1>10, <2>3, <3>1, <4>1, <4>2 DEF Describes
      <3>4. CASE Slots > 1
        <4>1. Slots \in 0 .. Slots
          BY <1>1
        <4>2. Address(1) < Address(Slots)
          BY <1>7, <3>1, <3>4, <4>1
        <4>3. ~(meta.head >= meta.next)
          BY <2>2, <2>3, <3>1, <3>2, <4>2
        <4>4. w.head = Address(1)
          BY <1>10, <1>16, <3>1, <4>3
        <4>5. next = 1 /\ End(1, Slots) = 1 /\ new.slot = next /\ Len(new.recs) = Slots
          BY <1>1, <1>3, <1>11, <2>4, <3>1, <3>4 DEF End
        <4> QED
          BY <1>1, <1>10, <2>3, <3>1, <3>4, <4>4, <4>5 DEF Describes
      <3> QED
        BY <1>1, <3>3, <3>4
    <2>5. CASE c # Slots
      <3>1. h > 0 /\ h < Slots /\ h \in 0 .. Slots /\ Slots \in 0 .. Slots
        BY <1>1, <2>1, <2>5
      <3>2. Address(h) < Address(Slots) /\ Address(h) \in Nat
        BY <1>5, <1>7, <3>1
      <3>3. meta.head = Address(h) /\ ~(meta.head >= meta.next)
        BY <1>8, <2>2, <2>3, <2>5, <3>2
      <3>4. w.head = Address(h) /\ w.blockCnt = c + 1
        BY <1>8, <1>10, <1>16, <2>5, <3>3
      <3>5. new.slot = h /\ Len(new.recs) = c + 1 /\ End(h, c + 1) = 1 /\ c + 1 \in 0 .. Slots
            /\ c + 1 # 0
        BY <1>1, <1>3, <2>1, <2>5, <3>1 DEF End
      <3> QED
        BY <1>1, <1>10, <2>3, <3>4, <3>5 DEF Describes
    <2> QED
      BY <2>4, <2>5
  <1> QED
    BY <1>2, <1>12, <1>13, <1>14, <1>15, <1>16 DEF BranchFits

LEMMA WritePayloadKeepsGood ==
  ASSUME Uniform, Good, WritePayload
  PROVE  Good' /\ view' = view
  <1> DEFINE h == Oldest
             c == Count
             t == Target
  <1>1. /\ op.step = "payload" /\ saved' = saved /\ view' = view
        /\ file' = [o \in DOMAIN file |->
                      IF o \in WriteAt + 1 .. WriteAt + RecordLen[op.rec]
                      THEN DataCell(op.rec) ELSE file[o]]
        /\ meta' = AfterWrite(meta, Space(op.rec))
        /\ op' = [op EXCEPT !.step = "save"]
    BY DEF WritePayload
  <1>2. PayloadOK
    BY <1>1 DEF Good, IdleOK, Idle, PopOK, EraseOK, LengthOK, SaveOK
  <1>3. Putting /\ meta = BeforeWrite /\ Holds(file, view) /\ file[Address(t)] = LenCell(L)
    BY <1>2 DEF PayloadOK
  <1>4. /\ Slots \in Nat /\ Slots >= 1 /\ h \in 0 .. Slots - 1 /\ c \in 0 .. Slots
        /\ view.recs \in Seq(Record) /\ c = Len(view.recs) /\ h = view.slot
    BY GoodFacts DEF Oldest, Count
  <1>5. t \in 0 .. Slots - 1 /\ WriteAt = Address(t)
    BY <1>3, WritesItsSlot
  <1>6. RecordLen[op.rec] = L /\ Space(op.rec) = SlotLen /\ op.rec \in Record
    BY <1>3, LengthFacts DEF Putting
  <1>7. DOMAIN file = MetaLen .. FileEnd - 1
    BY DEF Good, FileOK
  <1> DEFINE payload == Address(t) + 1 .. Address(t) + L
  <1>8. file' = [o \in MetaLen .. FileEnd - 1 |->
                   IF o \in payload THEN DataCell(op.rec) ELSE file[o]]
    BY <1>1, <1>5, <1>6, <1>7
  <1>9. FileOK(file)'
    BY <1>8 DEF FileOK
  <1>10. Whole(file', t, op.rec)
    <2>1. Address(t) \in MetaLen .. FileEnd - 1 /\ payload \subseteq MetaLen .. FileEnd - 1
      BY <1>5, SlotFacts
    <2>2. Address(t) \notin payload
      BY <2>1, LengthFacts DEF MetaLen
    <2>3. file'[Address(t)] = LenCell(L)
      BY <1>3, <1>8, <2>1, <2>2
    <2>4. \A o \in payload : file'[o] = DataCell(op.rec)
      BY <1>8, <2>1
    <2> QED
      BY <2>3, <2>4 DEF Whole
  <1>11. ASSUME NEW k \in 1 .. c, Order(h, k) # t
         PROVE  Whole(file', Order(h, k), view.recs[k])
    <2> DEFINE i == Order(h, k)
    <2>1. i \in 0 .. Slots - 1
      <3>1. k \in 1 .. Slots + 1
        BY <1>4
      <3> QED
        BY <1>4, <3>1, OrderFacts
    <2>2. Whole(file, i, view.recs[k])
      BY <1>3, <1>4 DEF Holds
    <2> HIDE DEF i
    <2>3. i # t
      BY <1>11 DEF i
    <2>4. /\ Address(i) \in MetaLen .. FileEnd - 1
          /\ Address(i) + 1 .. Address(i) + L \subseteq MetaLen .. FileEnd - 1
          /\ Address(i) \notin payload
          /\ (Address(t) + 1 .. Address(t) + L) \cap (Address(i) .. Address(i) + L) = {}
      BY <1>5, <2>1, <2>3, SlotFacts
    <2>5. \A o \in Address(i) + 1 .. Address(i) + L : o \notin payload
      <3>1. Address(i) + 1 .. Address(i) + L \subseteq Address(i) .. Address(i) + L
        BY <2>4, LengthFacts DEF MetaLen
      <3> QED
        BY <2>4, <3>1
    <2>6. file'[Address(i)] = LenCell(L)
      BY <1>8, <2>2, <2>4 DEF Whole
    <2>7. \A o \in Address(i) + 1 .. Address(i) + L : file'[o] = DataCell(view.recs[k])
      BY <1>8, <2>2, <2>4, <2>5 DEF Whole
    <2>8. Whole(file', i, view.recs[k])
      BY <2>6, <2>7 DEF Whole
    <2> QED
      BY <2>8 DEF i
  <1>12. /\ Oldest' = h /\ Count' = c /\ Target' = t
         /\ (view \in Fifo!Cache)' /\ Describes(saved, Oldest, Count)'
    BY <1>1, Unmoved
  <1>13. op' = [step |-> "save", branch |-> op.branch, rec |-> op.rec,
                freed |-> op.freed, need |-> op.need]
    BY <1>1, <1>3 DEF Putting
  <1>14. Putting' /\ op'.rec = op.rec /\ op'.step = "save"
    BY <1>3, <1>12, <1>13 DEF Putting, BranchFits
  <1>15. LET new == Fifo!PutInto(view, op.rec)
         IN Describes(meta', new.slot, Len(new.recs))
    BY <1>1, <1>3, <1>6, AfterPut
  <1>16. SaveOK'
    BY <1>1, <1>10, <1>11, <1>12, <1>14, <1>15 DEF SaveOK
  <1> QED
    BY <1>1, <1>9, <1>12, <1>16 DEF Good

-----------------------------------------------------------------------------
(* A pop, the end of every operation, and a restart.                       *)
LEMMA OldestIsReadable ==
  ASSUME Uniform, Good, Holds(file, view), Count > 0
  PROVE  LengthsAt(file, Address(Oldest)) = {L}
  <1>1. /\ Slots \in Nat /\ Slots >= 1 /\ Oldest \in 0 .. Slots - 1 /\ Count \in 0 .. Slots
        /\ view.recs \in Seq(Record) /\ Count = Len(view.recs) /\ Oldest = view.slot
    BY GoodFacts DEF Oldest, Count
  <1>2. 1 \in 1 .. Len(view.recs) /\ view.recs[1] \in Record
    BY <1>1
  <1>3. Whole(file, Oldest, view.recs[1])
    BY <1>1, <1>2, OrderFacts DEF Holds
  <1> QED
    BY <1>1, <1>2, <1>3, WholeIsReadable

LEMMA PopKeepsGood ==
  ASSUME Uniform, Good, Pop
  PROVE  Good' /\ view' = view
  <1> DEFINE h == Oldest
             c == Count
  <1>1. /\ op.step = "idle" /\ meta.blockCnt # 0 /\ saved' = saved /\ view' = view
        /\ \E len \in LengthsAt(file, meta.head) : meta' = AfterPop(meta, len)
        /\ file' = IF meta.blockCnt = 1 THEN Truncate(file, MetaLen) ELSE file
        /\ op' = [step |-> "save", branch |-> "pop"]
    BY DEF Pop
  <1>2. meta = saved /\ Holds(file, view)
    BY <1>1, IdleIsOK DEF IdleOK
  <1>3. /\ Slots \in Nat /\ Slots >= 1 /\ h \in 0 .. Slots - 1 /\ c \in 0 .. Slots
        /\ saved.head = Address(h) /\ saved.blockCnt = c
    BY GoodFacts
  <1>4. c > 0
    BY <1>1, <1>2, <1>3
  <1>5. meta' = AfterPop(saved, L)
    BY <1>1, <1>2, <1>3, <1>4, OldestIsReadable
  <1>6. /\ Oldest' = h /\ Count' = c
        /\ (view \in Fifo!Cache)' /\ Describes(saved, Oldest, Count)'
    BY <1>1, Unmoved
  <1>7. FileOK(file)' /\ (c = 1 => file'[Address(h)] = Zero)
    <2>1. DOMAIN file = MetaLen .. FileEnd - 1
      BY DEF Good, FileOK
    <2>2. Address(h) \in MetaLen .. FileEnd - 1
      BY <1>3, SlotFacts
    <2>3. CASE c = 1
      <3>1. file' = [o \in MetaLen .. FileEnd - 1 |-> IF o < MetaLen THEN file[o] ELSE Zero]
        BY <1>1, <1>2, <1>3, <2>1, <2>3 DEF Truncate
      <3>2. ~(Address(h) < MetaLen)
        BY <2>2 DEF MetaLen
      <3> QED
        BY <2>2, <3>1, <3>2 DEF FileOK
    <2>4. CASE c # 1
      BY <1>1, <1>2, <1>3, <2>4 DEF Good, FileOK
    <2> QED
      BY <2>3, <2>4
  <1>8. c # 1 => file' = file
    BY <1>1, <1>2, <1>3
  <1>9. PopOK'
    BY <1>1, <1>2, <1>4, <1>5, <1>6, <1>7, <1>8 DEF PopOK, AfterPop, WrapHead
  <1> QED
    BY <1>1, <1>6, <1>7, <1>9 DEF Good

(* The slots and the metadata seen from the slot after the oldest.         *)
LEMMA NextSlotFacts ==
  ASSUME Uniform, NEW h \in 0 .. Slots - 1
  PROVE  /\ Fifo!NextSlot(h) \in 0 .. Slots - 1
         /\ \A k \in 1 .. Slots : Order(Fifo!NextSlot(h), k) = Order(h, k + 1)
         /\ \A c \in 2 .. Slots :
              /\ Order(h, 2) = Fifo!NextSlot(h)
              /\ End(Fifo!NextSlot(h), c - 1) = End(h, c)
              /\ h + c <= Slots => Fifo!NextSlot(h) = h + 1
  BY SlotsFacts DEF Fifo!NextSlot, Order, End

LEMMA Rests ==
  ASSUME Uniform, NEW q \in Seq(Record), NEW h, Describes(meta', h, Len(q)), FileOK(file'),
         \A k \in 1 .. Len(q) : Whole(file', Order(h, k), q[k]),
         op' = Idle, saved' = meta', view' = View(file', meta')
  PROVE  Good' /\ view' = [recs |-> q, slot |-> h]
  <1>1. view' = [recs |-> q, slot |-> h]
    BY ViewOf
  <1>2. view'.recs = q /\ view'.slot = h /\ Oldest' = h /\ Count' = Len(q)
    BY <1>1 DEF Oldest, Count
  <1>3. (view \in Fifo!Cache)'
    BY <1>1 DEF Fifo!Cache, Describes
  <1>4. IdleOK'
    BY <1>2 DEF IdleOK, Holds
  <1>5. Describes(saved, Oldest, Count)'
    BY <1>2
  <1> QED
    BY <1>1, <1>3, <1>4, <1>5 DEF Good

LEMMA EmptyIsDescribed ==
  ASSUME Uniform
  PROVE  Describes(Reset, 0, 0)
  <1>1. Address(0) = MetaLen /\ Slots \in Nat /\ Slots >= 1
    BY AddressFacts, SlotsFacts
  <1>2. End(0, 0) = 0
    BY <1>1 DEF End
  <1> QED
    BY <1>1, <1>2 DEF Describes, Reset, Metadata, MetaLen

LEMMA AfterPopDescribed ==
  ASSUME Uniform, Good, Count > 1
  PROVE  Describes(AfterPop(saved, L), Fifo!NextSlot(Oldest), Count - 1)
  <1> DEFINE h == Oldest
             c == Count
             next == Fifo!NextSlot(h)
             m == AfterPop(saved, L)
  <1>1. /\ Slots \in Nat /\ Slots >= 1 /\ h \in 0 .. Slots - 1 /\ c \in 2 .. Slots
        /\ saved \in Metadata /\ Describes(saved, h, c)
        /\ saved.head = Address(h) /\ saved.next = Address(End(h, c)) /\ saved.blockCnt = c
    BY GoodFacts
  <1>2. /\ next \in 0 .. Slots - 1 /\ Order(h, 2) = next /\ End(next, c - 1) = End(h, c)
        /\ h + c <= Slots => next = h + 1
    BY <1>1, NextSlotFacts
  <1>3. WrapHead(saved, Address(h + 1)) = Address(next)
    <2>1. 1 \in 1 .. c - 1 /\ Order(h, 1) = h /\ 1 + 1 = 2
      BY <1>1, OrderFacts
    <2> QED
      BY <1>1, <1>2, <2>1, WrapFollows
  <1>4. Address(h) + L + 1 = Address(h + 1)
    <2>1. h \in Nat
      BY <1>1
    <2>2. Address(h) \in Nat /\ Address(h + 1) = Address(h) + SlotLen
      BY <2>1, AddressFacts
    <2> QED
      BY <2>2, LengthFacts DEF L
  <1>5. m = [saved EXCEPT !.head = Address(next), !.blockCnt = c - 1]
    <2>1. saved.blockCnt # 1 /\ saved.blockCnt = c
      BY <1>1
    <2>2. saved.head + L + 1 = Address(h + 1)
      BY <1>1, <1>4
    <2>3. m = [saved EXCEPT !.head = WrapHead(saved, saved.head + L + 1), !.blockCnt = c - 1]
      BY <2>1, Zenon DEF AfterPop
    <2> QED
      BY <1>3, <2>2, <2>3, Zenon
  <1>6. Address(next) \in Nat /\ c - 1 \in Nat
    BY <1>1, <1>2, SlotAddresses
  <1> HIDE DEF m, next
  <1>7. /\ m \in Metadata /\ m.head = Address(next) /\ m.blockCnt = c - 1
        /\ m.next = saved.next /\ m.nomanland = saved.nomanland
    BY <1>1, <1>5, <1>6 DEF Metadata
  <1>8. /\ c - 1 \in 0 .. Slots /\ c - 1 # 0
        /\ h + c <= Slots => next + (c - 1) = h + c
    BY <1>1, <1>2
  <1>9. \/ m.nomanland = Address(Slots)
        \/ next + (c - 1) <= Slots /\ m.nomanland = Address(next + (c - 1))
    BY <1>1, <1>7, <1>8 DEF Describes
  <1>10. Describes(m, next, c - 1)
    BY <1>1, <1>2, <1>7, <1>8, <1>9 DEF Describes
  <1> QED
    BY <1>10 DEF m, next

LEMMA SaveEndsPop ==
  ASSUME Uniform, Good, Save, PopOK
  PROVE  Good' /\ Fifo!Pop
  <1> DEFINE h == Oldest
             c == Count
             next == Fifo!NextSlot(h)
             t == Tail(view.recs)
  <1>1. /\ view # Broken /\ saved' = meta /\ meta' = meta /\ op' = Idle /\ file' = file
        /\ view' = View(file', meta')
    BY GoodFacts DEF Save, PopOK
  <1>2. /\ Slots \in Nat /\ Slots >= 1 /\ h \in 0 .. Slots - 1 /\ c \in 0 .. Slots
        /\ saved.blockCnt = c /\ c > 0
        /\ view.recs \in Seq(Record) /\ c = Len(view.recs) /\ h = view.slot
    BY GoodFacts DEF Oldest, Count, PopOK
  <1>3. FileOK(file') /\ saved' = meta'
    BY <1>1 DEF Good
  <1>4. CASE c = 1
    <2>1. meta' = Reset
      BY <1>1, <1>2, <1>4 DEF PopOK, AfterPop
    <2> DEFINE q == << >>
    <2>2. q \in Seq(Record) /\ Len(q) = 0 /\ Describes(meta', 0, Len(q))
      BY <2>1, EmptyIsDescribed
    <2>3. \A k \in 1 .. Len(q) : Whole(file', Order(0, k), q[k])
      BY <2>2
    <2> HIDE DEF q
    <2>4. Good' /\ view' = [recs |-> q, slot |-> 0]
      BY <1>1, <1>3, <2>2, <2>3, Rests
    <2>5. view' = Fifo!PopFrom(view)
      BY <1>2, <1>4, <2>4 DEF Fifo!PopFrom, Fifo!Empty, q
    <2> QED
      BY <1>1, <2>4, <2>5 DEF Fifo!Pop, Fifo!Broken, Broken
  <1>5. CASE c > 1
    <2>1. t \in Seq(Record) /\ Len(t) = c - 1 /\ \A k \in 1 .. c - 1 : t[k] = view.recs[k + 1]
      BY <1>2
    <2>2. Describes(meta', next, Len(t))
      BY <1>1, <1>5, <2>1, AfterPopDescribed DEF PopOK
    <2>3. ASSUME NEW k \in 1 .. Len(t) PROVE Whole(file', Order(next, k), t[k])
      <3>1. k \in 1 .. Slots /\ k + 1 \in 1 .. c /\ t[k] = view.recs[k + 1]
        BY <1>2, <2>1
      <3>2. Order(next, k) = Order(h, k + 1)
        BY <1>2, <3>1, NextSlotFacts
      <3> QED
        BY <1>1, <1>2, <1>5, <3>1, <3>2 DEF PopOK, Holds
    <2> HIDE DEF t, next
    <2>4. Good' /\ view' = [recs |-> t, slot |-> next]
      BY <1>1, <1>3, <2>1, <2>2, <2>3, Rests
    <2>5. view' = Fifo!PopFrom(view)
      BY <1>2, <1>5, <2>4 DEF Fifo!PopFrom, t, next
    <2> QED
      BY <1>1, <2>4, <2>5 DEF Fifo!Pop, Fifo!Broken, Broken
  <1>6. c = 1 \/ c > 1
    <2>1. c \in Nat /\ c > 0
      BY <1>2
    <2> HIDE DEF c
    <2> QED
      BY <2>1
  <1> HIDE DEF c
  <1> QED
    BY <1>4, <1>5, <1>6

(* Truncating the file behind the records does not touch them.             *)
LEMMA TruncateKeepsFirst ==
  ASSUME Uniform, NEW f, FileOK(f), NEW at \in Nat, at >= Address(1), NEW r, Whole(f, 0, r)
  PROVE  FileOK(Truncate(f, at)) /\ Whole(Truncate(f, at), 0, r)
  <1>1. /\ DOMAIN f = MetaLen .. FileEnd - 1
        /\ Truncate(f, at) = [o \in MetaLen .. FileEnd - 1 |-> IF o < at THEN f[o] ELSE Zero]
    BY DEF FileOK, Truncate
  <1>2. 0 \in 0 .. Slots - 1 /\ 0 \in Nat /\ Slots >= 1
    BY SlotsFacts
  <1>3. /\ Address(0) \in MetaLen .. FileEnd - 1
        /\ Address(0) + 1 .. Address(0) + L \subseteq MetaLen .. FileEnd - 1
    BY <1>2, SlotFacts
  <1>4. Address(0) \in Nat /\ Address(1) = Address(0) + SlotLen /\ L \in Nat /\ SlotLen = 1 + L
    <2>1. Address(0) \in Nat /\ Address(0 + 1) = Address(0) + SlotLen /\ 0 + 1 = 1
      BY <1>2, AddressFacts
    <2> QED
      BY <2>1, LengthFacts DEF L
  <1>5. Address(0) < at /\ \A o \in Address(0) + 1 .. Address(0) + L : o < at
    BY <1>4
  <1> QED
    BY <1>1, <1>3, <1>5 DEF FileOK, Whole

LEMMA SaveEndsPut ==
  ASSUME Uniform, Good, Save, SaveOK
  PROVE  Good' /\ \E r \in Record : Fifo!Put(r)
  <1> DEFINE h == Oldest
             c == Count
             r == op.rec
             new == Fifo!PutInto(view, r)
             q == new.recs
             s == new.slot
             next == Fifo!NextSlot(h)
  <1>1. /\ view # Broken /\ saved' = meta /\ meta' = meta /\ op' = Idle
        /\ file' = IF op.branch = "empty" THEN Truncate(file, meta.nomanland) ELSE file
        /\ view' = View(file', meta')
    BY GoodFacts DEF Save
  <1>2. /\ Slots \in Nat /\ Slots >= 1 /\ h \in 0 .. Slots - 1 /\ c \in 0 .. Slots
        /\ view.recs \in Seq(Record) /\ c = Len(view.recs) /\ h = view.slot
    BY GoodFacts DEF Oldest, Count
  <1>3. /\ r \in Record /\ BranchFits(op.branch, h, c)
        /\ Describes(meta, s, Len(q)) /\ Whole(file, Target, r)
        /\ \A k \in 1 .. c : Order(h, k) # Target => Whole(file, Order(h, k), view.recs[k])
    BY DEF SaveOK, Putting
  <1>4. /\ q \in Seq(Record) /\ new = [recs |-> q, slot |-> s]
        /\ c = Slots =>
             /\ s = next /\ Len(q) = c /\ q[c] = r
             /\ \A k \in 1 .. c - 1 : q[k] = view.recs[k + 1]
        /\ c # Slots =>
             /\ s = h /\ Len(q) = c + 1 /\ q[c + 1] = r
             /\ \A k \in 1 .. c : q[k] = view.recs[k]
    <2>1. /\ c = Slots =>
               /\ new = [recs |-> Append(Tail(view.recs), r), slot |-> next]
               /\ Len(q) = c
               /\ \A k \in 1 .. c - 1 : q[k] = view.recs[k + 1]
               /\ q[c] = r
          /\ c # Slots =>
               /\ new = [recs |-> Append(view.recs, r), slot |-> h]
               /\ Len(q) = c + 1
               /\ \A k \in 1 .. c : q[k] = view.recs[k]
               /\ q[c + 1] = r
          /\ q \in Seq(Record)
      BY <1>3, PutMoves
    <2>2. c = Slots => s = next /\ new = [recs |-> q, slot |-> s]
      <3> HIDE DEF new
      <3> QED
        BY <2>1
    <2>3. c # Slots => s = h /\ new = [recs |-> q, slot |-> s]
      <3> HIDE DEF new
      <3> QED
        BY <2>1
    <2> HIDE DEF new, s, q
    <2> QED
      BY <2>1, <2>2, <2>3
  <1> HIDE DEF new, s, q, next
  <1>5. ASSUME NEW k \in 1 .. Len(q) PROVE Whole(file, Order(s, k), q[k])
    <2>1. CASE c = Slots
      <3>1. k \in 1 .. Slots /\ s = next /\ Order(next, k) = Order(h, k + 1)
        BY <1>2, <1>4, <2>1, NextSlotFacts DEF next
      <3>2. Target = Order(h, Slots + 1) /\ Order(h, Slots + 1) = h /\ Order(h, 1) = h
        BY <1>2, <2>1, OrderFacts DEF Target
      <3>3. CASE k = c
        BY <1>3, <1>4, <2>1, <3>1, <3>2, <3>3
      <3>4. CASE k # c
        <4>1. k + 1 \in 1 .. c /\ k \in 1 .. c - 1 /\ k + 1 # 1 /\ 1 \in 1 .. Slots
          BY <1>2, <2>1, <3>1, <3>4
        <4>2. Order(h, k + 1) # Order(h, 1)
          <5>1. /\ h \in 0 .. Slots - 1 /\ k + 1 \in 1 .. Slots /\ 1 \in 1 .. Slots
                /\ k + 1 # 1
            BY <1>2, <2>1, <4>1
          <5> QED
            BY <5>1, OrderFacts, Zenon
        <4> QED
          BY <1>3, <1>4, <2>1, <3>1, <3>2, <4>1, <4>2
      <3> QED
        BY <3>3, <3>4
    <2>2. CASE c # Slots
      <3>1. k \in 1 .. c + 1 /\ s = h /\ Target = Order(h, c + 1) /\ c + 1 \in 1 .. Slots
        BY <1>2, <1>4, <2>2 DEF Target
      <3>2. CASE k = c + 1
        BY <1>3, <1>4, <2>2, <3>1, <3>2
      <3>3. CASE k # c + 1
        <4>1. k \in 1 .. c /\ k \in 1 .. Slots
          BY <1>2, <3>1, <3>3
        <4>2. Order(h, k) # Order(h, c + 1)
          <5>1. /\ h \in 0 .. Slots - 1 /\ k \in 1 .. Slots /\ c + 1 \in 1 .. Slots
                /\ k # c + 1
            BY <1>2, <3>1, <3>3, <4>1
          <5> QED
            BY <5>1, OrderFacts, Zenon
        <4> QED
          BY <1>3, <1>4, <2>2, <3>1, <4>1, <4>2
      <3> QED
        BY <3>2, <3>3
    <2> QED
      BY <2>1, <2>2
  <1>6. FileOK(file') /\ \A k \in 1 .. Len(q) : Whole(file', Order(s, k), q[k])
    <2>1. CASE op.branch = "empty"
      <3>1. c = 0 /\ h = 0 /\ s = 0 /\ Len(q) = 1 /\ Order(0, 1) = 0
        <4>1. c = 0
          BY <1>3, <2>1 DEF BranchFits
        <4>2. h = 0
          BY <4>1, GoodFacts DEF Describes
        <4>3. s = h /\ Len(q) = 1
          BY <1>2, <1>4, <4>1
        <4> QED
          BY <1>2, <4>1, <4>2, <4>3 DEF Order
      <3>2. meta.nomanland \in Nat /\ meta.nomanland >= Address(1)
        <4>1. meta.nomanland = Address(Slots) \/ meta.nomanland = Address(0 + 1)
          BY <1>3, <3>1 DEF Describes
        <4>2. 1 \in 0 .. Slots /\ Slots \in 0 .. Slots /\ 0 + 1 = 1 /\ (1 < Slots \/ Slots = 1)
          BY <1>2
        <4>3. Address(1) \in Nat /\ Address(Slots) \in Nat
              /\ (1 < Slots => Address(1) < Address(Slots))
          BY <4>2, SlotAddresses
        <4> QED
          BY <4>1, <4>2, <4>3
      <3>3. Whole(file, 0, q[1])
        BY <1>5, <3>1
      <3>4. FileOK(file') /\ Whole(file', 0, q[1])
        BY <1>1, <2>1, <3>2, <3>3, TruncateKeepsFirst DEF Good
      <3>5. \A k \in 1 .. Len(q) : k = 1
        BY <3>1
      <3> QED
        BY <3>1, <3>4, <3>5
    <2>2. CASE op.branch # "empty"
      BY <1>1, <1>5, <2>2 DEF Good
    <2> QED
      BY <2>1, <2>2
  <1>7. Describes(meta', s, Len(q)) /\ saved' = meta'
    BY <1>1, <1>3
  <1>8. Good' /\ view' = [recs |-> q, slot |-> s]
    BY <1>1, <1>4, <1>6, <1>7, Rests
  <1>9. view' = Fifo!PutInto(view, r)
    BY <1>4, <1>8 DEF new
  <1> QED
    BY <1>1, <1>3, <1>8, <1>9 DEF Fifo!Put, Fifo!Broken, Broken

(* A file whose only record was popped, but whose metadata still count it. *)
LEMMA UncountedIsBroken ==
  ASSUME Uniform, NEW f, NEW m, NEW h \in 0 .. Slots - 1,
         m.blockCnt = 1, m.head = Address(h), f[Address(h)] = Zero
  PROVE  View(f, m) = Broken
  <1> DEFINE g == [k \in 1 .. m.blockCnt |-> m.head]
  <1>1. g = [k \in 1 .. m.blockCnt |-> NextOffset(f, m, g, k)]
    <2>1. \A k \in 1 .. m.blockCnt : k = 1
      OBVIOUS
    <2>2. \A k \in 1 .. m.blockCnt : NextOffset(f, m, g, k) = m.head
      BY <2>1 DEF NextOffset
    <2> QED
      BY <2>2
  <1>2. m.blockCnt \in Nat /\ g[1] = m.head /\ 1 \in 1 .. m.blockCnt
    OBVIOUS
  <1>3. Offsets(f, m) = g
    <2> HIDE DEF g
    <2> QED
      BY <1>1, <1>2, OffsetsAre
  <1>4. Cell(f, m.head) = Zero
    BY DEF Cell
  <1>5. ~ Readable(f, Offsets(f, m)[1])
    <2>1. \A r \in Record : RecordLen[r] = L /\ L >= 1 /\ L \in Nat
      BY LengthFacts
    <2>2. Cell(f, m.head).len = 0
      BY <1>4 DEF Zero, LenCell
    <2>3. Offsets(f, m)[1] = m.head
      BY <1>2, <1>3
    <2> QED
      BY <2>1, <2>2, <2>3 DEF Readable
  <1>6. ~ Matches(f, m)
    BY <1>2, <1>5 DEF Matches
  <1> QED
    BY <1>6 DEF View

LEMMA RestartIsCrash ==
  ASSUME Uniform, Good, Restart
  PROVE  RingInv' /\ Fifo!Crash
  <1> DEFINE h == Oldest
             c == Count
             q == view.recs
  <1>1. /\ view # Broken /\ meta' = saved /\ saved' = saved /\ op' = Idle /\ file' = file
        /\ view' = View(file', meta')
    BY GoodFacts DEF Restart
  <1>2. /\ Slots \in Nat /\ Slots >= 1 /\ h \in 0 .. Slots - 1 /\ c \in 0 .. Slots
        /\ q \in Seq(Record) /\ c = Len(q) /\ h = view.slot
        /\ view = [recs |-> q, slot |-> h]
        /\ saved.head = Address(h) /\ saved.blockCnt = c /\ Describes(saved, h, c)
    BY GoodFacts DEF Oldest, Count
  <1>3. FileOK(file') /\ saved' = meta'
    BY <1>1 DEF Good
  <1> HIDE DEF q
  <1>4. ASSUME \A k \in 1 .. Len(q) : Whole(file, Order(h, k), q[k])
        PROVE  RingInv' /\ Fifo!Crash
    <2>1. Good' /\ view' = [recs |-> q, slot |-> h]
      BY <1>1, <1>2, <1>3, <1>4, Rests
    <2> QED
      BY <1>2, <2>1 DEF RingInv, Fifo!Crash
  <1>5. CASE Holds(file, view)
    BY <1>2, <1>4, <1>5 DEF Holds, q
  <1>6. CASE PopOK /\ Count = 1
    <2>1. file[Address(h)] = Zero
      BY <1>6 DEF PopOK
    <2>2. view' = Broken
      BY <1>1, <1>2, <1>6, <2>1, UncountedIsBroken
    <2> QED
      BY <1>1, <1>2, <1>6, <2>2 DEF RingInv, Fifo!Crash, Fifo!Broken, Broken, q
  <1>7. CASE SaveOK
    <2>1. /\ op.rec \in Record /\ Whole(file, Target, op.rec)
          /\ \A k \in 1 .. c : Order(h, k) # Target => Whole(file, Order(h, k), q[k])
      BY <1>7 DEF SaveOK, Putting, q
    <2>2. CASE c # Slots
      <3>1. ASSUME NEW k \in 1 .. Len(q) PROVE Whole(file, Order(h, k), q[k])
        <4>1. k \in 1 .. Slots /\ c + 1 \in 1 .. Slots /\ k # c + 1 /\ k \in 1 .. c
          BY <1>2, <2>2
        <4>2. Order(h, k) # Target
          BY <1>2, <4>1, OrderFacts DEF Target
        <4> QED
          BY <2>1, <4>1, <4>2
      <3> QED
        BY <1>4, <3>1
    <2>3. CASE c = Slots
      <3> DEFINE p == [q EXCEPT ![1] = op.rec]
      <3>1. p \in Seq(Record) /\ Len(p) = c /\ p[1] = op.rec
            /\ \A k \in 2 .. c : p[k] = q[k]
        <4>1. 1 \in 1 .. c /\ DOMAIN q = 1 .. c /\ \A k \in 1 .. c : q[k] \in Record
          <5>1. c \in Nat /\ c >= 1
            BY <1>2, <2>3
          <5>2. q \in Seq(Record) /\ c = Len(q)
            BY <1>2
          <5> HIDE DEF c
          <5>3. DOMAIN q = 1 .. c /\ \A k \in 1 .. c : q[k] \in Record
            BY <5>2
          <5> QED
            BY <5>1, <5>3
        <4>2. p = [k \in 1 .. c |-> IF k = 1 THEN op.rec ELSE q[k]]
          BY <4>1, <1>2
        <4> HIDE DEF p
        <4>3. \A k \in 1 .. c : p[k] = IF k = 1 THEN op.rec ELSE q[k]
          BY <4>2
        <4>4. p \in [1 .. c -> Record]
          BY <2>1, <4>1, <4>2
        <4>5. c \in Nat
          BY <1>2
        <4>6. p \in Seq(Record) /\ Len(p) = c
          BY <4>4, <4>5
        <4> QED
          BY <4>1, <4>3, <4>6
      <3>2. Target = h /\ Order(h, 1) = h
        BY <1>2, <2>3, OrderFacts DEF Target
      <3>3. ASSUME NEW k \in 1 .. Len(p) PROVE Whole(file, Order(h, k), p[k])
        <4>1. k \in 1 .. c /\ k \in 1 .. Slots /\ 1 \in 1 .. Slots
          BY <1>2, <2>3, <3>1
        <4>2. CASE k = 1
          BY <2>1, <3>1, <3>2, <4>2
        <4>3. CASE k # 1
          <5>1. Order(h, k) # Order(h, 1)
            <6>1. h \in 0 .. Slots - 1
              BY <1>2
            <6> QED
              BY <4>1, <4>3, <6>1, OrderFacts, Zenon
          <5>2. k \in 2 .. c
            BY <1>2, <4>1, <4>3
          <5> QED
            BY <2>1, <3>1, <3>2, <4>1, <5>1, <5>2
        <4> QED
          BY <4>2, <4>3
      <3> HIDE DEF p
      <3>4. Describes(meta', h, Len(p))
        BY <1>1, <1>2, <3>1
      <3>5. Good' /\ view' = [recs |-> p, slot |-> h]
        BY <1>1, <1>3, <3>1, <3>3, <3>4, Rests
      <3>6. view' = [view EXCEPT !.recs[1] = op.rec]
        <4>1. [view EXCEPT !.recs[1] = op.rec] = [view EXCEPT !.recs = p]
          BY Zenon DEF p, q
        <4>2. [view EXCEPT !.recs = p] = [recs |-> p, slot |-> h]
          BY <1>2
        <4> QED
          BY <3>5, <4>1, <4>2
      <3> QED
        BY <1>1, <1>2, <2>1, <2>3, <3>5, <3>6
        DEF RingInv, Fifo!Crash, Fifo!Broken, Broken, Fifo!IsFull, q
    <2> QED
      BY <2>2, <2>3
  <1> QED
    BY <1>5, <1>6, <1>7 DEF Good, IdleOK, PopOK, EraseOK, LengthOK, PayloadOK

-----------------------------------------------------------------------------
(* The theorems.                                                           *)
LEMMA StartsGood ==
  ASSUME Uniform, Init
  PROVE  Good /\ Fifo!Init
  <1> DEFINE q == << >>
             h == 0
  <1>1. /\ meta = Reset /\ saved = Reset /\ op = Idle
        /\ file = [o \in MetaLen .. FileEnd - 1 |-> Zero] /\ view = View(file, meta)
    BY DEF Init
  <1>2. q \in Seq(Record) /\ Len(q) = 0
    OBVIOUS
  <1>3. Describes(meta, h, Len(q)) /\ FileOK(file)
    BY <1>1, <1>2, EmptyIsDescribed DEF FileOK
  <1>4. \A k \in 1 .. Len(q) : Whole(file, Order(h, k), q[k])
    BY <1>2
  <1> HIDE DEF q, h
  <1>5. view = [recs |-> q, slot |-> h]
    BY <1>1, <1>2, <1>3, <1>4, ViewOf
  <1>6. view.recs = q /\ view.slot = h /\ Oldest = h /\ Count = Len(q)
    BY <1>5 DEF Oldest, Count
  <1>7. view \in Fifo!Cache
    BY <1>2, <1>3, <1>5 DEF Fifo!Cache, Describes
  <1>8. IdleOK
    BY <1>1, <1>4, <1>6 DEF IdleOK, Holds
  <1>9. Good
    BY <1>1, <1>3, <1>6, <1>7, <1>8 DEF Good
  <1>10. Fifo!Init
    BY <1>5 DEF Fifo!Init, Fifo!Empty, q, h
  <1> QED
    BY <1>9, <1>10

LEMMA BrokenStaysBroken ==
  ASSUME view = Broken, Next
  PROVE  view' = Broken
  BY Zenon DEF Next, Put, PutEmpty, PutWrap, PutAppend, PutGap, PutReuse, PutTail, PutFront,
               PutReset, Start, EraseOne, EraseEnd, WriteLength, WritePayload, Pop, Save,
               Restart

LEMMA Step ==
  ASSUME Uniform, RingInv, [Next]_vars
  PROVE  RingInv' /\ [Fifo!Next]_view
  <1>1. CASE view = Broken
    <2>1. view' = Broken
      BY <1>1, BrokenStaysBroken DEF vars
    <2> QED
      BY <1>1, <2>1 DEF RingInv
  <1>2. CASE Good
    <2>1. CASE UNCHANGED vars
      <3>1. /\ view' = view /\ meta' = meta /\ saved' = saved /\ file' = file /\ op' = op
        BY <2>1 DEF vars
      <3>2. Good'
        BY <1>2, <3>1
        DEF Good, Oldest, Count, FileOK, IdleOK, PopOK, EraseOK, LengthOK, PayloadOK, SaveOK,
            Putting, Holds, BeforeWrite, Dropped, Target, Whole, AfterPop, WrapHead
      <3> QED
        BY <3>1, <3>2 DEF RingInv
    <2>2. CASE \E r \in Record : Put(r)
      BY <1>2, <2>2, PutStarts DEF RingInv
    <2>3. CASE EraseOne
      BY <1>2, <2>3, EraseOneKeepsGood DEF RingInv
    <2>4. CASE EraseEnd
      BY <1>2, <2>4, EraseEndKeepsGood DEF RingInv
    <2>5. CASE WriteLength
      BY <1>2, <2>5, WriteLengthKeepsGood DEF RingInv
    <2>6. CASE WritePayload
      BY <1>2, <2>6, WritePayloadKeepsGood DEF RingInv
    <2>7. CASE Pop
      BY <1>2, <2>7, PopKeepsGood DEF RingInv
    <2>8. CASE Save
      <3>1. op.step = "save"
        BY <2>8 DEF Save
      <3>2. PopOK \/ SaveOK
        BY <1>2, <3>1 DEF Good, IdleOK, Idle, EraseOK, LengthOK, PayloadOK
      <3>3. Good' /\ (Fifo!Pop \/ \E r \in Record : Fifo!Put(r))
        BY <1>2, <2>8, <3>2, SaveEndsPop, SaveEndsPut
      <3> QED
        BY <3>3 DEF RingInv, Fifo!Next
    <2>9. CASE Restart
      BY <1>2, <2>9, RestartIsCrash DEF Fifo!Next
    <2> QED
      BY <2>1, <2>2, <2>3, <2>4, <2>5, <2>6, <2>7, <2>8, <2>9 DEF Next
  <1> QED
    BY <1>1, <1>2 DEF RingInv

(* With records of one length, at every step of a put or a pop and across  *)
(* crashes, the metadata and the records fit the description RingInv gives *)
(* of them, until a crash in the middle of popping the only record leaves  *)
(* the file broken (ringbufi.c).                                           *)
THEOREM RingInvariant ==
  ASSUME Uniform
  PROVE  Spec => []RingInv
  <1>1. Init => RingInv
    BY StartsGood DEF RingInv
  <1>2. RingInv /\ [Next]_vars => RingInv'
    BY Step
  <1> QED
    BY <1>1, <1>2, PTL DEF Spec

(* With records of one length the file is the FIFO of CacheFifo.           *)
THEOREM FileIsFifo ==
  ASSUME Uniform
  PROVE  Spec => FifoSpec
  <1>1. Init => Fifo!Init
    BY StartsGood
  <1>2. RingInv /\ [Next]_vars => [Fifo!Next]_view
    BY Step
  <1> QED
    BY <1>1, <1>2, RingInvariant, PTL DEF Spec, FifoSpec, Fifo!Spec

(* An idle buffer of records of one length is unreadable only when it is   *)
(* full and its oldest record is not the first in the file                 *)
(* (peekRingBuFiRecord).                                                   *)
THEOREM PeekAgreesAlways ==
  ASSUME Uniform
  PROVE  Spec => []PeekAgrees
  <1>1. RingInv => PeekAgrees
    <2> SUFFICES ASSUME RingInv, op.step = "idle", view # Broken
                 PROVE  (meta.head # meta.next) <=> Fifo!Readable(view)
      BY DEF PeekAgrees
    <2> DEFINE h == Oldest
               c == Count
               e == End(h, c)
    <2>1. Good /\ meta = saved
      BY IdleIsOK DEF RingInv, IdleOK
    <2>2. /\ Slots \in Nat /\ Slots >= 1 /\ h \in 0 .. Slots - 1 /\ c \in 0 .. Slots
          /\ view.recs \in Seq(Record) /\ c = Len(view.recs) /\ h = view.slot
          /\ meta.head = Address(h) /\ meta.next = Address(e) /\ (c = 0 => h = 0)
      BY <2>1, GoodFacts DEF Describes, Oldest, Count
    <2>3. e \in 0 .. Slots /\ h \in 0 .. Slots
      BY <2>2 DEF End
    <2>4. Address(h) # Address(e) <=> h # e
      <3>1. h < e \/ e < h \/ h = e
        BY <2>2, <2>3
      <3>2. h < e => Address(h) < Address(e)
        BY <2>3, SlotAddresses
      <3>3. e < h => Address(e) < Address(h)
        BY <2>3, SlotAddresses
      <3>4. Address(h) \in Nat /\ Address(e) \in Nat /\ h \in Nat /\ e \in Nat
        BY <2>2, <2>3, SlotAddresses
      <3> HIDE DEF h, e
      <3> QED
        BY <3>1, <3>2, <3>3, <3>4
    <2>5. h # e <=> c # 0 /\ ~(c = Slots /\ h # 0)
      BY <2>2 DEF End
    <2>6. Fifo!Readable(view) <=> c # 0 /\ ~(c = Slots /\ h # 0)
      <3>1. view.recs = << >> <=> c = 0
        BY <2>2
      <3> QED
        BY <2>2, <3>1 DEF Fifo!Readable, Fifo!IsEmpty, Fifo!IsFull
    <2> QED
      BY <2>2, <2>4, <2>5, <2>6
  <1> QED
    BY <1>1, RingInvariant, PTL
-----------------------------------------------------------------------------
(***************************************************************************)
(* Types.  They hold for records of any lengths, also once the metadata no *)
(* longer matches the records.                                             *)
(***************************************************************************)
Branches == {"empty", "wrap", "append", "gap", "reuse", "tail", "front", "reset"}

(* An operation that has yet to write its record has room for it: after    *)
(* next, and at the beginning of the file.                                 *)
OpTyped ==
  op.step \in {"erase", "length", "payload"} =>
    /\ op = [step |-> op.step, branch |-> op.branch, rec |-> op.rec,
             freed |-> op.freed, need |-> op.need]
    /\ op.rec \in Record
    /\ MetaLen + Space(op.rec) <= SizeLimit
    /\ meta.next + Space(op.rec) <= FileEnd

Typed ==
  /\ meta \in Meta
  /\ saved \in Meta
  /\ file \in [MetaLen .. FileEnd - 1 -> Cells]
  /\ op.step \in Steps
  /\ crashes \in 0 .. MaxCrashes
  /\ OpTyped

LEMMA Numbers ==
  /\ MetaLen \in Nat /\ MetaLen = 5
  /\ SizeLimit \in Nat /\ FileEnd \in Nat /\ Word \in Nat /\ MaxCrashes \in Nat
  /\ MetaLen <= SizeLimit /\ SizeLimit <= FileEnd /\ SizeLimit < Word
  /\ \A r \in Record : RecordLen[r] \in Nat /\ RecordLen[r] >= 1 /\ Space(r) \in Nat
                       /\ Space(r) = 1 + RecordLen[r] /\ Space(r) >= 2
  BY RingAssumption DEF MetaLen, Space

LEMMA FitsInFile ==
  ASSUME NEW r \in Record, Fits(r)
  PROVE  MetaLen + Space(r) <= SizeLimit
  <1>1. Minus(SizeLimit, MetaLen) = SizeLimit - MetaLen
    BY Numbers, MinusIs
  <1> QED
    BY <1>1, Numbers DEF Fits

LEMMA WrapAround ==
  /\ \A x \in Int : x % Word \in 0 .. Word - 1
  /\ \A a, b \in Int : Minus(a, b) \in 0 .. Word - 1
  <1>1. Word \in Nat /\ Word > 0
    BY Numbers
  <1>2. \A x \in Int : x % Word \in 0 .. Word - 1
    BY <1>1
  <1> QED
    BY <1>2 DEF Minus

LEMMA LengthsAreNat ==
  ASSUME Typed, NEW len \in LengthsAt(file, meta.head)
  PROVE  len \in Nat
  <1>1. CASE meta.head < FileEnd
    <2>1. meta.head \in MetaLen .. FileEnd - 1
      BY <1>1, Numbers DEF Typed, Meta
    <2>2. file[meta.head] \in Cells
      BY <2>1 DEF Typed
    <2> QED
      BY <1>1, <2>2, RingAssumption DEF LengthsAt, Cell, Cells
  <1>2. CASE ~(meta.head < FileEnd)
    BY <1>2 DEF LengthsAt, Cell, Zero, LenCell
  <1> QED
    BY <1>1, <1>2

Heads == {h \in Nat : h >= MetaLen}

Ends == MetaLen .. FileEnd

Counts == 0 .. Word - 1

LEMMA MetaFields ==
  ASSUME NEW m \in Meta
  PROVE  /\ m.head \in Heads /\ m.next \in Ends /\ m.nomanland \in Ends
         /\ m.blockCnt \in Counts
         /\ m.head \in Nat /\ m.next \in Nat /\ m.nomanland \in Nat
  BY Numbers DEF Meta, Heads, Ends, Counts

(* The changes of the metadata that the operations make in place.          *)
Moved(m, h) == [m EXCEPT !.head = h]

Begun(m, n, h) == [m EXCEPT !.next = n, !.head = h]

Folded(m, l, h) == [m EXCEPT !.nomanland = l, !.head = h]

FoldedBack(m, h, l) == [m EXCEPT !.head = h, !.nomanland = l]

Forgot(m, h, b) == [m EXCEPT !.head = h, !.blockCnt = b]

Wrote(m, b, n, l) == [m EXCEPT !.blockCnt = b, !.next = n, !.nomanland = l]

LEMMA MetaChanges ==
  ASSUME NEW m \in Meta
  PROVE  /\ \A h \in Heads : Moved(m, h) \in Meta /\ Moved(m, h).next = m.next
         /\ \A n \in Ends, h \in Heads :
              Begun(m, n, h) \in Meta /\ Begun(m, n, h).next = n
         /\ \A l \in Ends, h \in Heads :
              /\ Folded(m, l, h) \in Meta /\ Folded(m, l, h).next = m.next
              /\ FoldedBack(m, h, l) \in Meta /\ FoldedBack(m, h, l).next = m.next
         /\ \A h \in Heads, b \in Counts :
              Forgot(m, h, b) \in Meta /\ Forgot(m, h, b).next = m.next
         /\ \A b \in Counts, n, l \in Ends : Wrote(m, b, n, l) \in Meta
  <1>1. Meta = [head : Heads, next : Ends, nomanland : Ends, blockCnt : Counts]
    BY DEF Meta, Heads, Ends, Counts
  <1>2. \A h \in Heads : Moved(m, h) \in Meta /\ Moved(m, h).next = m.next
    BY <1>1 DEF Moved
  <1>3. \A n \in Ends, h \in Heads : Begun(m, n, h) \in Meta /\ Begun(m, n, h).next = n
    BY <1>1 DEF Begun
  <1>4. \A l \in Ends, h \in Heads :
          Folded(m, l, h) \in Meta /\ Folded(m, l, h).next = m.next
    BY <1>1 DEF Folded
  <1>5. \A l \in Ends, h \in Heads :
          FoldedBack(m, h, l) \in Meta /\ FoldedBack(m, h, l).next = m.next
    BY <1>1 DEF FoldedBack
  <1>6. \A h \in Heads, b \in Counts :
          Forgot(m, h, b) \in Meta /\ Forgot(m, h, b).next = m.next
    BY <1>1 DEF Forgot
  <1>7. \A b \in Counts, n, l \in Ends : Wrote(m, b, n, l) \in Meta
    BY <1>1 DEF Wrote
  <1> QED
    BY <1>2, <1>3, <1>4, <1>5, <1>6, <1>7

LEMMA StartTyped ==
  ASSUME Typed, NEW r \in Record, NEW branch, NEW step \in {"erase", "length"},
         NEW freed, NEW need, Start(r, branch, step, freed, need),
         meta' \in Meta, meta'.next <= meta.next
  PROVE  Typed'
  <1>1. /\ op' = [step |-> step, branch |-> branch, rec |-> r, freed |-> freed,
                  need |-> need]
        /\ saved' = saved /\ file' = file /\ crashes' = crashes
        /\ Fits(r) /\ meta.next + 2 * Space(r) <= FileEnd
    BY DEF Start
  <1>2. MetaLen + Space(r) <= SizeLimit
    BY <1>1, FitsInFile
  <1>3. meta'.next + Space(r) <= FileEnd
    BY <1>1, Numbers, SMTT(30) DEF Typed, Meta
  <1>4. op'.step \in Steps /\ op'.rec = r
    BY <1>1 DEF Steps
  <1>5. OpTyped'
    BY <1>1, <1>2, <1>3, <1>4 DEF OpTyped
  <1> QED
    BY <1>1, <1>4, <1>5 DEF Typed

LEMMA PutTyped ==
  ASSUME Typed, NEW r \in Record, Put(r)
  PROVE  Typed'
  <1> USE Numbers
  <1>1. meta \in Meta /\ Reset \in Meta
    BY DEF Typed, Meta, Reset
  <1>2. CASE PutEmpty(r)
    <2>1. meta' = Begun(meta, MetaLen, MetaLen)
      BY <1>2, Zenon DEF PutEmpty, Begun
    <2>2. MetaLen \in Heads /\ MetaLen \in Ends
      BY DEF Heads, Ends
    <2>3. meta' \in Meta /\ meta'.next = MetaLen
      BY <1>1, <2>1, <2>2, MetaChanges
    <2>4. meta'.next <= meta.next
      BY <1>1, <2>3 DEF Meta
    <2> QED
      BY <1>2, <2>3, <2>4, StartTyped DEF PutEmpty
  <1>3. CASE PutWrap(r)
    BY <1>1, <1>3, StartTyped DEF PutWrap, Meta
  <1>4. CASE PutAppend(r)
    BY <1>1, <1>4, StartTyped DEF PutAppend, Meta
  <1>5. CASE PutGap(r)
    BY <1>1, <1>5, StartTyped DEF PutGap, Meta
  <1>6. CASE PutReuse(r)
    BY <1>1, <1>6, StartTyped DEF PutReuse, Meta
  <1>7. CASE PutTail(r)
    BY <1>1, <1>7, StartTyped DEF PutTail, Meta
  <1>8. CASE PutFront(r)
    <2>1. meta' = Folded(meta, meta.next, MetaLen)
      BY <1>8, Zenon DEF PutFront, Folded
    <2>2. meta.next \in Ends /\ MetaLen \in Heads
      BY <1>1 DEF Meta, Heads, Ends
    <2>3. meta' \in Meta /\ meta'.next = meta.next
      BY <1>1, <2>1, <2>2, MetaChanges
    <2>4. meta'.next <= meta.next
      BY <2>2, <2>3 DEF Ends
    <2> QED
      BY <1>8, <2>3, <2>4, StartTyped DEF PutFront
  <1>9. CASE PutReset(r)
    BY <1>1, <1>9, StartTyped DEF PutReset, Meta, Reset
  <1> QED
    BY <1>2, <1>3, <1>4, <1>5, <1>6, <1>7, <1>8, <1>9 DEF Put

LEMMA EraseTyped ==
  ASSUME Typed, EraseOne \/ EraseEnd
  PROVE  Typed'
  <1> USE Numbers
  <1>1. /\ op.step = "erase" /\ meta \in Meta
        /\ op = [step |-> op.step, branch |-> op.branch, rec |-> op.rec,
                 freed |-> op.freed, need |-> op.need]
        /\ op.rec \in Record
        /\ saved' = saved /\ file' = file /\ crashes' = crashes
    BY DEF Typed, OpTyped, EraseOne, EraseEnd
  <1>2. /\ meta' \in Meta /\ meta'.next = meta.next
    <2>1. CASE EraseOne
      <3>1. PICK len \in LengthsAt(file, meta.head) :
              meta' = [meta EXCEPT !.head = @ + 1 + len, !.blockCnt = Minus(@, 1)]
        BY <2>1 DEF EraseOne
      <3>2. len \in Nat
        BY <3>1, LengthsAreNat
      <3>3. Minus(meta.blockCnt, 1) \in Counts
        BY <1>1, WrapAround DEF Meta, Heads, Ends, Counts
      <3>4. meta.head + 1 + len \in Heads
        BY <1>1, <3>2 DEF Meta, Heads, Ends, Counts
      <3>5. meta' = Forgot(meta, meta.head + 1 + len, Minus(meta.blockCnt, 1))
        BY <3>1, Zenon DEF Forgot
      <3> QED
        BY <1>1, <3>3, <3>4, <3>5, MetaChanges
    <2>2. CASE EraseEnd
      <3>1. meta' = AfterErase(meta)
        BY <2>2 DEF EraseEnd
      <3>2. \/ meta' = Moved(meta, IF meta.head >= meta.nomanland THEN MetaLen
                                   ELSE meta.head)
            \/ meta' = FoldedBack(meta, MetaLen, meta.next)
            \/ meta' = meta
        BY <3>1, Zenon DEF AfterErase, Moved, FoldedBack
      <3>3. /\ meta.next \in Ends
            /\ MetaLen \in Heads
            /\ (IF meta.head >= meta.nomanland THEN MetaLen ELSE meta.head) \in Heads
        BY <1>1 DEF Meta, Heads, Ends, Counts
      <3> QED
        BY <1>1, <3>2, <3>3, MetaChanges
    <2> QED
      BY <2>1, <2>2
  <1>3. /\ op'.step \in {"erase", "length"} /\ op'.rec = op.rec
        /\ op' = [step |-> op'.step, branch |-> op'.branch, rec |-> op'.rec,
                  freed |-> op'.freed, need |-> op'.need]
    <2>1. CASE EraseOne
      <3>1. PICK len : op' = [op EXCEPT !.freed = @ + 1 + len]
        BY <2>1 DEF EraseOne
      <3> QED
        BY <1>1, <3>1
    <2>2. CASE EraseEnd
      <3>1. op' = [op EXCEPT !.step = "length"]
        BY <2>2 DEF EraseEnd
      <3> QED
        BY <1>1, <3>1
    <2> QED
      BY <2>1, <2>2
  <1>4. OpTyped'
    BY <1>1, <1>2, <1>3 DEF OpTyped, Typed
  <1> QED
    BY <1>1, <1>2, <1>3, <1>4 DEF Typed, Steps

LEMMA WriteTyped ==
  ASSUME Typed, WriteLength \/ WritePayload
  PROVE  Typed'
  <1> USE Numbers
  <1>1. /\ op.step \in {"length", "payload"} /\ meta \in Meta
        /\ op = [step |-> op.step, branch |-> op.branch, rec |-> op.rec,
                 freed |-> op.freed, need |-> op.need]
        /\ op.rec \in Record
        /\ saved' = saved /\ crashes' = crashes
        /\ file \in [MetaLen .. FileEnd - 1 -> Cells]
    BY DEF Typed, OpTyped, WriteLength, WritePayload
  <1>2. RecordLen[op.rec] \in Nat /\ LenCell(RecordLen[op.rec]) \in Cells
        /\ DataCell(op.rec) \in Cells
    BY <1>1 DEF LenCell, DataCell, Cells
  <1>3. CASE WriteLength
    <2>1. /\ file' = [file EXCEPT ![WriteAt] = LenCell(RecordLen[op.rec])]
          /\ op' = [op EXCEPT !.step = "payload"] /\ meta' = meta
      BY <1>3 DEF WriteLength
    <2>2. file' \in [MetaLen .. FileEnd - 1 -> Cells]
      BY <1>1, <1>2, <2>1
    <2>3. /\ op'.step = "payload" /\ op'.rec = op.rec
          /\ op' = [step |-> op'.step, branch |-> op'.branch, rec |-> op'.rec,
                    freed |-> op'.freed, need |-> op'.need]
      BY <1>1, <2>1
    <2>4. OpTyped'
      BY <1>1, <2>1, <2>3 DEF OpTyped, Typed
    <2> QED
      BY <1>1, <2>1, <2>2, <2>3, <2>4 DEF Typed, Steps
  <1>4. CASE WritePayload
    <2> DEFINE s == Space(op.rec)
    <2>1. /\ file' = [o \in DOMAIN file |->
                        IF o \in WriteAt + 1 .. WriteAt + RecordLen[op.rec]
                        THEN DataCell(op.rec) ELSE file[o]]
          /\ meta' = AfterWrite(meta, s) /\ op' = [op EXCEPT !.step = "save"]
      BY <1>4 DEF WritePayload
    <2>2. file' \in [MetaLen .. FileEnd - 1 -> Cells]
      BY <1>1, <1>2, <2>1
    <2>3. s \in Nat /\ MetaLen + s <= FileEnd /\ meta.next + s <= FileEnd
      BY <1>1, <1>4 DEF OpTyped, Typed, WritePayload
    <2>4. \/ meta' = Wrote(meta, 1, meta.next + s, meta.next + s)
          \/ meta' = [head |-> IF meta.head >= meta.next THEN MetaLen ELSE meta.head,
                      next |-> MetaLen + s, nomanland |-> meta.next,
                      blockCnt |-> (meta.blockCnt + 1) % Word]
          \/ meta' = Wrote(meta, (meta.blockCnt + 1) % Word, meta.next + s,
                       IF meta.next + s > meta.head THEN meta.next + s ELSE meta.nomanland)
      BY <2>1, Zenon DEF AfterWrite, Wrote
    <2>5. (meta.blockCnt + 1) % Word \in Counts /\ 1 \in Counts
      BY <1>1, WrapAround DEF Meta, Counts
    <2> HIDE DEF s
    <2>6. meta' \in Meta
      <3> DEFINE low == IF meta.head >= meta.next THEN MetaLen ELSE meta.head
                 top == IF meta.next + s > meta.head THEN meta.next + s ELSE meta.nomanland
      <3>1. meta.next + s \in Ends /\ MetaLen + s \in Ends /\ meta.next \in Ends
        BY <1>1, <2>3 DEF Meta, Ends
      <3>2. low \in Heads
        BY <1>1 DEF Meta, Heads
      <3>3. top \in Ends
        BY <1>1, <3>1 DEF Meta, Ends
      <3>4. \/ meta' = Wrote(meta, 1, meta.next + s, meta.next + s)
            \/ meta' = [head |-> low, next |-> MetaLen + s, nomanland |-> meta.next,
                        blockCnt |-> (meta.blockCnt + 1) % Word]
            \/ meta' = Wrote(meta, (meta.blockCnt + 1) % Word, meta.next + s, top)
        BY <2>4, Zenon
      <3> HIDE DEF low, top
      <3>5. Meta = [head : Heads, next : Ends, nomanland : Ends, blockCnt : Counts]
        BY DEF Meta, Heads, Ends, Counts
      <3>6. [head |-> low, next |-> MetaLen + s, nomanland |-> meta.next,
             blockCnt |-> (meta.blockCnt + 1) % Word] \in Meta
        BY <2>5, <3>1, <3>2, <3>5
      <3> QED
        BY <1>1, <2>5, <3>1, <3>3, <3>4, <3>6, MetaChanges, SMTT(30)
    <2>7. op'.step = "save"
      BY <1>1, <2>1
    <2> QED
      BY <1>1, <2>2, <2>6, <2>7 DEF Typed, OpTyped, Steps
  <1> QED
    BY <1>3, <1>4

LEMMA PopTyped ==
  ASSUME Typed, Pop
  PROVE  Typed'
  <1> USE Numbers
  <1>1. PICK len \in LengthsAt(file, meta.head) : meta' = AfterPop(meta, len)
    BY DEF Pop
  <1>2. len \in Nat /\ meta \in Meta /\ meta.blockCnt # 0
    BY <1>1, LengthsAreNat DEF Typed, Pop
  <1>3. meta' \in Meta
    <2>1. CASE meta.blockCnt = 1
      BY <1>1, <2>1 DEF AfterPop, Meta, Reset
    <2>2. CASE meta.blockCnt # 1
      <3> DEFINE h == WrapHead(meta, meta.head + len + 1)
                 b == meta.blockCnt - 1
      <3>1. meta' = Forgot(meta, h, b)
        BY <1>1, <2>2, Zenon DEF AfterPop, Forgot
      <3>2. h \in Heads /\ b \in Counts
        BY <1>2, <2>2 DEF Meta, WrapHead, Heads, Counts
      <3> HIDE DEF h, b
      <3> QED
        BY <1>2, <3>1, <3>2, MetaChanges
    <2> QED
      BY <2>1, <2>2
  <1>4. file' \in [MetaLen .. FileEnd - 1 -> Cells]
    BY DEF Pop, Typed, Truncate, Cells, Zero, LenCell
  <1>5. op'.step = "save" /\ saved' = saved /\ crashes' = crashes
    BY DEF Pop
  <1> QED
    BY <1>3, <1>4, <1>5 DEF Typed, OpTyped, Steps

LEMMA SaveOrRestartTyped ==
  ASSUME Typed, Save \/ Restart
  PROVE  Typed'
  <1> USE Numbers
  <1>1. file' \in [MetaLen .. FileEnd - 1 -> Cells]
    BY DEF Save, Restart, Typed, Truncate, Cells, Zero, LenCell
  <1>2. meta' \in Meta /\ saved' \in Meta /\ crashes' \in 0 .. MaxCrashes
    BY DEF Save, Restart, Typed
  <1>3. op'.step = "idle"
    BY DEF Save, Restart, Idle
  <1> QED
    BY <1>1, <1>2, <1>3 DEF Typed, OpTyped, Steps

(* Every variable keeps its type, for records of any lengths, at every     *)
(* step of a put or a pop and across crashes; whatever a put goes on to    *)
(* write has room in the file as modelled (putRingBuFiRecord).             *)
THEOREM RingTyped == Spec => []Typed
  <1>1. Init => Typed
    BY Numbers
    DEF Init, Typed, Meta, Reset, Cells, Zero, LenCell, OpTyped, Idle, Steps
  <1>2. Typed /\ [Next]_vars => Typed'
    <2> SUFFICES ASSUME Typed, [Next]_vars PROVE Typed'
      OBVIOUS
    <2>1. CASE UNCHANGED vars
      BY <2>1 DEF vars, Typed, OpTyped
    <2>2. CASE Next
      BY <2>2, PutTyped, EraseTyped, WriteTyped, PopTyped, SaveOrRestartTyped DEF Next
    <2> QED
      BY <2>1, <2>2
  <1> QED
    BY <1>1, <1>2, PTL DEF Spec

(* With records of one length the read position stays within the file and  *)
(* the view is a cache, besides every variable having its type.            *)
THEOREM TypesHoldUniform ==
  ASSUME Uniform
  PROVE  Spec => []TypeOK
  <1>1. RingInv /\ Typed => TypeOK
    <2> SUFFICES ASSUME RingInv, Typed PROVE TypeOK
      OBVIOUS
    <2>1. Slots \in Nat /\ Slots >= 1
      BY SlotsFacts
    <2>2. Fifo!TypeOK
      BY DEF RingInv, Good, Fifo!TypeOK, Fifo!Broken, Broken
    <2>3. view # Broken => meta.head <= SizeLimit
      <3> SUFFICES ASSUME Good PROVE meta.head <= SizeLimit
        BY DEF RingInv
      <3>1. MetaLen <= SizeLimit /\ saved.head <= SizeLimit
        BY Numbers, Shape DEF Good
      <3>2. \A i \in 0 .. Slots : Address(i) <= SizeLimit
        <4> TAKE i \in 0 .. Slots
        <4>1. Address(Slots) <= SizeLimit
          BY AddressFacts
        <4>2. CASE i = Slots
          BY <4>1, <4>2
        <4>3. CASE i < Slots
          <5>1. Address(i) + SlotLen <= Address(Slots)
            BY <2>1, <4>3, AddressFacts
          <5>2. Address(i) \in Nat /\ Address(Slots) \in Nat /\ SlotLen \in Nat
            <6>1. i \in Nat /\ Slots \in Nat
              BY <2>1
            <6>2. \A j \in Nat : Address(j) \in Nat
              BY AddressFacts
            <6> QED
              BY <6>1, <6>2, LengthFacts
          <5> QED
            BY <4>1, <5>1, <5>2, Numbers
        <4> QED
          BY <2>1, <4>2, <4>3
      <3>3. /\ Oldest \in 0 .. Slots - 1 /\ saved \in Metadata
            /\ Describes(saved, Oldest, Count)
        BY GoodFacts
      <3>4. Dropped(Address(Oldest + 1)).head <= SizeLimit
            /\ Dropped(MetaLen).head <= SizeLimit
        BY <2>1, <3>1, <3>2, <3>3 DEF Dropped, Metadata
      <3>5. CASE IdleOK
        BY <3>1, <3>5 DEF IdleOK
      <3>6. CASE PopOK
        <4>1. meta = AfterPop(saved, L)
          BY <3>6 DEF PopOK
        <4>2. CASE saved.blockCnt = 1
          BY <3>1, <4>1, <4>2 DEF AfterPop, Reset
        <4>3. CASE saved.blockCnt # 1
          <5>1. meta.head \in {MetaLen, saved.head + L + 1}
            BY <3>3, <4>1, <4>3 DEF AfterPop, WrapHead, Metadata
          <5>2. saved.head + L + 1 = Address(Oldest + 1)
            BY <2>1, <3>3, AddressFacts, LengthFacts DEF Describes, L
          <5> QED
            BY <2>1, <3>1, <3>2, <3>3, <5>1, <5>2
        <4> QED
          BY <4>2, <4>3
      <3>7. CASE EraseOK
        BY <3>1, <3>4, <3>7 DEF EraseOK
      <3>8. CASE LengthOK \/ PayloadOK
        BY <3>1, <3>4, <3>8 DEF LengthOK, PayloadOK, BeforeWrite
      <3>9. CASE SaveOK
        <4>1. PICK h, c : Describes(meta, h, c)
          BY <3>9 DEF SaveOK
        <4> QED
          BY <4>1, Shape
      <3> QED
        BY <3>5, <3>6, <3>7, <3>8, <3>9 DEF Good
    <2> QED
      BY <2>2, <2>3 DEF Typed, TypeOK
  <1> QED
    BY <1>1, RingInvariant, RingTyped, PTL
-----------------------------------------------------------------------------
(***************************************************************************)
(* Without a crash the file never breaks.                                  *)
(***************************************************************************)
LEMMA OnlyRestartBreaks ==
  ASSUME Uniform, Good, Next, ~Restart
  PROVE  Good'
  <1>1. CASE \E r \in Record : Put(r)
    BY <1>1, PutStarts
  <1>2. CASE EraseOne \/ EraseEnd
    BY <1>2, EraseOneKeepsGood, EraseEndKeepsGood
  <1>3. CASE WriteLength \/ WritePayload
    BY <1>3, WriteLengthKeepsGood, WritePayloadKeepsGood
  <1>4. CASE Pop
    BY <1>4, PopKeepsGood
  <1>5. CASE Save
    <2>1. op.step = "save"
      BY <1>5 DEF Save
    <2>2. PopOK \/ SaveOK
      BY <2>1 DEF Good, IdleOK, Idle, EraseOK, LengthOK, PayloadOK
    <2> QED
      BY <1>5, <2>2, SaveEndsPop, SaveEndsPut
  <1> QED
    BY <1>1, <1>2, <1>3, <1>4, <1>5 DEF Next

LEMMA MismatchIsBroken ==
  ASSUME NEW f, NEW m, ~Matches(f, m)
  PROVE  View(f, m) = Broken
  BY DEF View

(* With records of one length, and no crash, blockCnt is the number of     *)
(* records in the file whenever no operation is under way, as ringbufi.h   *)
(* says: only records of different lengths, or a crash, make it wrong.     *)
THEOREM CountIsRightUniform ==
  ASSUME Uniform, MaxCrashes = 0
  PROVE  Spec => []BlockCntIsNumberOfRecords
  <1>1. Init => Good
    BY StartsGood
  <1>2. Typed /\ Good /\ [Next]_vars => Good'
    <2> SUFFICES ASSUME Typed, Good, [Next]_vars PROVE Good'
      OBVIOUS
    <2>1. CASE UNCHANGED vars
      <3>1. /\ view' = view /\ meta' = meta /\ saved' = saved /\ file' = file /\ op' = op
        BY <2>1 DEF vars
      <3> QED
        BY <3>1
        DEF Good, Oldest, Count, FileOK, IdleOK, PopOK, EraseOK, LengthOK, PayloadOK, SaveOK,
            Putting, Holds, BeforeWrite, Dropped, Target, Whole, AfterPop, WrapHead
    <2>2. CASE Next
      <3>1. ~Restart
        BY DEF Typed, Restart
      <3> QED
        BY <2>2, <3>1, OnlyRestartBreaks
    <2> QED
      BY <2>1, <2>2
  <1>3. Good => BlockCntIsNumberOfRecords
    <2> SUFFICES ASSUME Good, op.step = "idle" PROVE Matches(file, meta)
      BY DEF BlockCntIsNumberOfRecords
    <2>1. /\ view.recs \in Seq(Record) /\ Describes(saved, Oldest, Count) /\ view # Broken
          /\ view = [recs |-> view.recs, slot |-> Oldest] /\ meta = saved /\ Holds(file, view)
      BY GoodFacts, IdleIsOK DEF IdleOK
    <2>2. View(file, meta) = view
      BY <2>1, ViewOf DEF Holds, Oldest, Count
    <2> QED
      BY <2>1, <2>2, MismatchIsBroken
  <1> QED
    BY <1>1, <1>2, <1>3, RingTyped, PTL DEF Spec
-----------------------------------------------------------------------------
(***************************************************************************)
(* Records of any lengths.                                                 *)
(*                                                                         *)
(* A chain is a layout of records in the file: the records q at the        *)
(* offsets a, from head to next, each beginning where the one before it    *)
(* ends or, past nomanland, at the beginning of the file.                  *)
(***************************************************************************)
Chain(m, q, a) ==
  /\ q \in Seq(Record) /\ Len(q) > 0
  /\ a \in Seq(Nat) /\ Len(a) = Len(q)
  /\ a[1] = m.head
  /\ \A k \in 1 .. Len(q) :
       /\ Between(m, a[k], a[k] + Space(q[k]))
       /\ a[k] + Space(q[k]) = m.next <=> k = Len(q)
  /\ \A k \in 1 .. Len(q) - 1 : a[k + 1] = WrapHead(m, a[k] + Space(q[k]))

(* The file f holds the record r at offset at.                             *)
Stored(f, at, r) ==
  /\ Cell(f, at) = LenCell(RecordLen[r])
  /\ \A o \in at + 1 .. at + RecordLen[r] : Cell(f, o) = DataCell(r)

StoredAll(f, q, a) == \A k \in 1 .. Len(q) : Stored(f, a[k], q[k])

Offset(m) == /\ m.head \in Nat /\ m.next \in Nat /\ m.nomanland \in Nat
             /\ m.head >= MetaLen /\ m.next > MetaLen

LEMMA ChainFacts ==
  ASSUME NEW m, NEW q, NEW a, Offset(m), Chain(m, q, a)
  PROVE  /\ Len(q) \in Nat /\ Len(q) >= 1
         /\ \A k \in 1 .. Len(q) :
              /\ q[k] \in Record /\ a[k] \in Nat
              /\ Space(q[k]) \in Nat /\ Space(q[k]) >= 2
              /\ a[k] + Space(q[k]) = m.next <=> k = Len(q)
              /\ m.head < m.next => m.head <= a[k] /\ a[k] + Space(q[k]) <= m.next
              /\ m.next <= m.head => m.head <= a[k] \/ a[k] + Space(q[k]) <= m.next
         /\ \A k \in 1 .. Len(q) - 1 : a[k + 1] = WrapHead(m, a[k] + Space(q[k]))
         /\ a[1] = m.head
  <1>1. /\ q \in Seq(Record) /\ Len(q) \in Nat /\ Len(q) >= 1
        /\ a \in Seq(Nat) /\ Len(a) = Len(q) /\ a[1] = m.head
        /\ m.head \in Nat /\ m.next \in Nat
    BY DEF Chain, Offset
  <1>2. \A k \in 1 .. Len(q) : q[k] \in Record /\ a[k] \in Nat
    BY <1>1
  <1>3. \A k \in 1 .. Len(q) : Space(q[k]) \in Nat /\ Space(q[k]) >= 2
    BY <1>2, Numbers
  <1>4. \A k \in 1 .. Len(q) :
          /\ a[k] + Space(q[k]) = m.next <=> k = Len(q)
          /\ Between(m, a[k], a[k] + Space(q[k]))
    BY DEF Chain
  <1>5. \A k \in 1 .. Len(q) :
          /\ m.head < m.next => m.head <= a[k] /\ a[k] + Space(q[k]) <= m.next
          /\ m.next <= m.head => m.head <= a[k] \/ a[k] + Space(q[k]) <= m.next
    BY <1>1, <1>2, <1>3, <1>4 DEF Between
  <1>6. \A k \in 1 .. Len(q) - 1 : a[k + 1] = WrapHead(m, a[k] + Space(q[k]))
    BY DEF Chain
  <1> QED
    BY <1>1, <1>2, <1>3, <1>4, <1>5, <1>6

(* Of a buffer that does not wrap around, every record begins at or after  *)
(* head and where the one before it ends.                                  *)
LEMMA StraightChain ==
  ASSUME NEW m, NEW q, NEW a, Offset(m), Chain(m, q, a), m.head < m.next
  PROVE  /\ \A k \in 1 .. Len(q) - 1 : a[k + 1] = a[k] + Space(q[k])
         /\ \A k \in 2 .. Len(q) : a[k] >= m.head + Space(q[1])
         /\ \A k \in 1 .. Len(q) : a[k] >= m.head + k - 1
  <1> DEFINE n == Len(q)
  <1>1. /\ n \in Nat /\ n >= 1 /\ a[1] = m.head
        /\ \A k \in 1 .. n : /\ a[k] \in Nat /\ Space(q[k]) \in Nat /\ Space(q[k]) >= 2
                             /\ a[k] + Space(q[k]) <= m.next
        /\ \A k \in 1 .. n - 1 : a[k + 1] = WrapHead(m, a[k] + Space(q[k]))
        /\ m.head \in Nat /\ m.next \in Nat
    BY ChainFacts DEF Offset
  <1> HIDE DEF n
  <1>2. \A k \in 1 .. n - 1 : a[k + 1] = a[k] + Space(q[k])
    BY <1>1 DEF WrapHead
  <1>3. \A k \in 2 .. n : a[k] >= m.head + Space(q[1])
    <2> DEFINE Bad == {k \in 2 .. n : ~(a[k] >= m.head + Space(q[1]))}
    <2> SUFFICES ASSUME Bad # {} PROVE FALSE
      OBVIOUS
    <2>1. PICK k \in Bad : \A j \in Bad : k <= j
      <3>1. Bad \in SUBSET Nat
        BY <1>1
      <3> HIDE DEF Bad
      <3> QED
        BY <3>1, Least
    <2>2. k \in 2 .. n /\ k - 1 \in 1 .. n - 1 /\ ~(a[k] >= m.head + Space(q[1]))
      BY <1>1
    <2>3. a[k] = a[k - 1] + Space(q[k - 1])
      BY <1>1, <1>2, <2>2
    <2>4. CASE k = 2
      BY <1>1, <2>2, <2>3, <2>4
    <2>5. CASE k > 2
      <3>1. k - 1 \in 2 .. n /\ k - 1 \in 1 .. n
        BY <1>1, <2>2, <2>5
      <3>2. a[k - 1] >= m.head + Space(q[1])
        BY <1>1, <2>1, <3>1
      <3>3. 1 \in 1 .. n
        BY <1>1
      <3> QED
        BY <1>1, <2>2, <2>3, <3>1, <3>2, <3>3
    <2> QED
      BY <2>2, <2>4, <2>5
  <1>4. \A k \in 1 .. n : a[k] >= m.head + k - 1
    <2> DEFINE Bad == {k \in 1 .. n : ~(a[k] >= m.head + k - 1)}
    <2> SUFFICES ASSUME Bad # {} PROVE FALSE
      OBVIOUS
    <2>1. PICK k \in Bad : \A j \in Bad : k <= j
      <3>1. Bad \in SUBSET Nat
        BY <1>1
      <3> HIDE DEF Bad
      <3> QED
        BY <3>1, Least
    <2>2. k \in 1 .. n /\ ~(a[k] >= m.head + k - 1)
      BY <1>1
    <2>3. CASE k = 1
      BY <1>1, <2>2, <2>3
    <2>4. CASE k > 1
      <3>1. k - 1 \in 1 .. n - 1 /\ k - 1 \in 1 .. n
        BY <1>1, <2>2, <2>4
      <3>2. a[k - 1] >= m.head + (k - 1) - 1
        BY <1>1, <2>1, <3>1
      <3>3. a[k] = a[k - 1] + Space(q[k - 1])
        BY <1>1, <1>2, <2>2, <3>1
      <3> QED
        BY <1>1, <2>2, <3>1, <3>2, <3>3
    <2> QED
      BY <2>2, <2>3, <2>4
  <1> QED
    BY <1>2, <1>3, <1>4 DEF n

(* Where the record after record k begins, of a buffer that wraps around:  *)
(* above head until nomanland is reached, then from the beginning of the   *)
(* file up to next.                                                        *)
LEMMA WrappedChain ==
  ASSUME NEW m, NEW q, NEW a, Offset(m), Chain(m, q, a), m.next <= m.head,
         NEW k \in 1 .. Len(q) - 1
  PROVE  LET e == a[k] + Space(q[k])
         IN  /\ m.head <= a[k] =>
                  /\ e < m.nomanland => a[k + 1] = e
                  /\ e >= m.nomanland =>
                       a[k + 1] = MetaLen /\ MetaLen + Space(q[k + 1]) <= m.next
             /\ e <= m.next =>
                  a[k + 1] = e /\ e < m.next /\ a[k + 1] + Space(q[k + 1]) <= m.next
  <1> DEFINE n == Len(q)
             e == a[k] + Space(q[k])
             s == Space(q[k + 1])
  <1>1. /\ n \in Nat /\ k \in 1 .. n /\ k + 1 \in 1 .. n /\ k # n /\ k \in Nat
        /\ m.head \in Nat /\ m.next \in Nat /\ m.nomanland \in Nat
        /\ m.head >= MetaLen /\ m.next > MetaLen /\ MetaLen \in Nat
    BY ChainFacts, Numbers DEF Offset
  <1>2. a[k] \in Nat /\ e \in Nat /\ e > a[k] /\ e # m.next /\ a[k + 1] = WrapHead(m, e)
    <2>1. /\ a[k] \in Nat /\ Space(q[k]) \in Nat /\ Space(q[k]) >= 2
          /\ e = m.next <=> k = n
      BY <1>1, ChainFacts
    <2>2. a[k + 1] = WrapHead(m, e)
      BY ChainFacts
    <2>3. e # m.next
      BY <1>1, <2>1
    <2> HIDE DEF n
    <2> QED
      BY <2>1, <2>2, <2>3
  <1>3. s \in Nat /\ (m.head <= a[k + 1] \/ a[k + 1] + s <= m.next)
    BY <1>1, ChainFacts
  <1> HIDE DEF e, s, n
  <1>4. m.head <= a[k] =>
          /\ e < m.nomanland => a[k + 1] = e
          /\ e >= m.nomanland => a[k + 1] = MetaLen /\ MetaLen + s <= m.next
    BY <1>1, <1>2, <1>3 DEF WrapHead
  <1>5. e <= m.next => a[k + 1] = e /\ e < m.next /\ a[k + 1] + s <= m.next
    BY <1>1, <1>2, <1>3 DEF WrapHead
  <1> QED
    BY <1>4, <1>5 DEF e, s

LEMMA ChainIs ==
  ASSUME NEW m, NEW q \in Seq(Record), NEW a \in Seq(Nat), NEW n \in Nat,
         Len(q) = n, Len(a) = n, n >= 1, a[1] = m.head,
         \A k \in 1 .. n : Between(m, a[k], a[k] + Space(q[k])),
         \A k \in 1 .. n : a[k] + Space(q[k]) = m.next <=> k = n,
         \A k \in 1 .. n - 1 : a[k + 1] = WrapHead(m, a[k] + Space(q[k]))
  PROVE  Chain(m, q, a)
  BY DEF Chain

(* After the first record, a buffer that wraps around goes on above the    *)
(* first record, or at the beginning of the file.                          *)
LEMMA AfterFirst ==
  ASSUME NEW m, NEW q, NEW a, Offset(m), Chain(m, q, a), m.next <= m.head
  PROVE  LET e == m.head + Space(q[1])
         IN  /\ e < m.nomanland =>
                  \A k \in 2 .. Len(q) : a[k] >= e \/ a[k] + Space(q[k]) <= m.next
             /\ e >= m.nomanland =>
                  \A k \in 2 .. Len(q) :
                    a[k] >= MetaLen /\ a[k] + Space(q[k]) <= m.next
  <1> DEFINE n == Len(q)
             e == m.head + Space(q[1])
             Above(k) == a[k] >= e \/ a[k] + Space(q[k]) <= m.next
             Below(k) == a[k] >= MetaLen /\ a[k] + Space(q[k]) <= m.next
  <1>1. /\ n \in Nat /\ n >= 1 /\ a[1] = m.head
        /\ \A k \in 1 .. n : a[k] \in Nat /\ Space(q[k]) \in Nat /\ Space(q[k]) >= 2
        /\ m.head \in Nat /\ m.next \in Nat /\ m.nomanland \in Nat
        /\ m.head >= MetaLen /\ m.next > MetaLen /\ MetaLen \in Nat
    BY ChainFacts, Numbers DEF Offset
  <1>2. e \in Nat /\ e > m.head
    <2>1. 1 \in 1 .. n
      BY <1>1
    <2> QED
      BY <1>1, <2>1
  <1>3. e < m.nomanland => \A k \in 2 .. n : Above(k)
    <2> SUFFICES ASSUME e < m.nomanland PROVE \A k \in 2 .. n : Above(k)
      OBVIOUS
    <2> DEFINE Bad == {k \in 2 .. n : ~Above(k)}
    <2> SUFFICES ASSUME Bad # {} PROVE FALSE
      OBVIOUS
    <2>1. PICK k \in Bad : \A j \in Bad : k <= j
      <3>1. Bad \in SUBSET Nat
        BY <1>1
      <3> HIDE DEF Bad
      <3> QED
        BY <3>1, Least
    <2> DEFINE p == k - 1
    <2>2. k \in 2 .. n /\ ~Above(k) /\ k \in 1 .. n
          /\ p \in 1 .. n - 1 /\ p \in 1 .. n /\ p + 1 = k
      BY <1>1
    <2> HIDE DEF p
    <2> DEFINE d == a[p] + Space(q[p])
    <2>3. /\ m.head <= a[p] =>
               /\ d < m.nomanland => a[k] = d
               /\ d >= m.nomanland => a[k] + Space(q[k]) <= m.next
          /\ d <= m.next => a[k] + Space(q[k]) <= m.next
      BY <2>2, WrappedChain
    <2>4. k = 2 => a[p] = m.head /\ d = e
      BY <1>1, <2>2
    <2>5. k # 2 => a[p] >= e \/ d <= m.next
      <3> SUFFICES ASSUME k # 2 PROVE a[p] >= e \/ d <= m.next
        OBVIOUS
      <3>1. p \in 2 .. n /\ ~(k <= p)
        BY <1>1, <2>2
      <3>2. Above(p)
        BY <2>1, <3>1
      <3> QED
        BY <3>2
    <2>6. d \in Nat /\ d > a[p] /\ a[p] \in Nat
      <3>1. a[p] \in Nat /\ Space(q[p]) \in Nat /\ Space(q[p]) >= 2
        BY <1>1, <2>2
      <3> QED
        BY <3>1
    <2>7. m.head <= a[p] \/ d <= m.next
      BY <2>2, ChainFacts
    <2>8. Space(q[k]) \in Nat /\ a[k] \in Nat
      BY <1>1, <2>2
    <2> HIDE DEF d, e, n, Bad
    <2> QED
      BY <1>1, <1>2, <2>2, <2>3, <2>4, <2>5, <2>6, <2>7, <2>8
  <1>4. e >= m.nomanland => \A k \in 2 .. n : Below(k)
    <2> SUFFICES ASSUME e >= m.nomanland PROVE \A k \in 2 .. n : Below(k)
      OBVIOUS
    <2> DEFINE Bad == {k \in 2 .. n : ~Below(k)}
    <2> SUFFICES ASSUME Bad # {} PROVE FALSE
      OBVIOUS
    <2>1. PICK k \in Bad : \A j \in Bad : k <= j
      <3>1. Bad \in SUBSET Nat
        BY <1>1
      <3> HIDE DEF Bad
      <3> QED
        BY <3>1, Least
    <2> DEFINE p == k - 1
    <2>2. k \in 2 .. n /\ ~Below(k) /\ k \in 1 .. n
          /\ p \in 1 .. n - 1 /\ p \in 1 .. n /\ p + 1 = k
      BY <1>1
    <2> HIDE DEF p
    <2> DEFINE d == a[p] + Space(q[p])
    <2>3. /\ m.head <= a[p] /\ d >= m.nomanland =>
               a[k] = MetaLen /\ MetaLen + Space(q[k]) <= m.next
          /\ d <= m.next => a[k] = d /\ a[k] + Space(q[k]) <= m.next
      BY <2>2, WrappedChain
    <2>4. k = 2 => a[p] = m.head /\ d = e
      BY <1>1, <2>2
    <2>5. k # 2 => a[p] >= MetaLen /\ d <= m.next
      <3> SUFFICES ASSUME k # 2 PROVE a[p] >= MetaLen /\ d <= m.next
        OBVIOUS
      <3>1. p \in 2 .. n /\ ~(k <= p)
        BY <1>1, <2>2
      <3>2. Below(p)
        BY <2>1, <3>1
      <3> QED
        BY <3>2
    <2>6. d \in Nat /\ d > a[p] /\ a[p] \in Nat
      <3>1. a[p] \in Nat /\ Space(q[p]) \in Nat /\ Space(q[p]) >= 2
        BY <1>1, <2>2
      <3> QED
        BY <3>1
    <2>7. m.head <= a[p] \/ d <= m.next
      BY <2>2, ChainFacts
    <2>8. Space(q[k]) \in Nat /\ a[k] \in Nat
      BY <1>1, <2>2
    <2> HIDE DEF d, e, n, Bad
    <2> QED
      BY <1>1, <1>2, <2>2, <2>3, <2>4, <2>5, <2>6, <2>7, <2>8
  <1> HIDE DEF e
  <1> QED
    BY <1>3, <1>4 DEF e, n

(* Without its first record, a chain is one that begins with the second.   *)
LEMMA DropFirst ==
  ASSUME NEW m, NEW q, NEW a, Offset(m), Chain(m, q, a), Len(q) > 1,
         NEW w, w.next = m.next, w.nomanland = m.nomanland,
         w.head = WrapHead(m, m.head + Space(q[1]))
  PROVE  /\ Chain(w, Tail(q), Tail(a))
         /\ m.head < m.next => w.head < w.next /\ w.head = m.head + Space(q[1])
         /\ m.next <= m.head /\ m.head + Space(q[1]) >= m.nomanland => w.head = MetaLen
         /\ m.next <= m.head /\ m.head + Space(q[1]) < m.nomanland =>
              w.head = m.head + Space(q[1])
  <1> DEFINE n == Len(q)
             e == m.head + Space(q[1])
  <1>1. /\ n \in Nat /\ n >= 2 /\ a[1] = m.head
        /\ \A k \in 1 .. n : a[k] \in Nat /\ Space(q[k]) \in Nat /\ Space(q[k]) >= 2
        /\ m.head \in Nat /\ m.next \in Nat /\ m.nomanland \in Nat
        /\ m.head >= MetaLen /\ m.next > MetaLen /\ MetaLen \in Nat
        /\ 1 \in 1 .. n - 1 /\ 1 \in 1 .. n /\ 1 # n /\ 1 + 1 = 2
    BY ChainFacts, Numbers DEF Offset
  <1>2. /\ q \in Seq(Record) /\ a \in Seq(Nat) /\ Len(a) = n
        /\ Tail(q) \in Seq(Record) /\ Tail(a) \in Seq(Nat)
        /\ Len(Tail(q)) = n - 1 /\ Len(Tail(a)) = n - 1
        /\ \A k \in 1 .. n - 1 : Tail(q)[k] = q[k + 1] /\ Tail(a)[k] = a[k + 1]
    BY <1>1 DEF Chain
  <1>3. a[2] = w.head
    BY <1>1, ChainFacts
  <1>4. e # m.next /\ e \in Nat /\ e > m.head
    BY <1>1, ChainFacts
  <1>5. m.head < m.next => e <= m.next /\ w.head = e /\ w.head < w.next
    <2> HAVE m.head < m.next
    <2>1. e <= m.next
      BY <1>1, ChainFacts
    <2> HIDE DEF e
    <2> QED
      BY <1>1, <1>4, <2>1 DEF WrapHead, e
  <1>6. m.next <= m.head =>
          /\ e >= m.nomanland => w.head = MetaLen
          /\ e < m.nomanland => w.head = e
    <2> HIDE DEF e
    <2> QED
      BY <1>1, <1>4 DEF WrapHead, e
  <1>7. \A k \in 2 .. n : Between(w, a[k], a[k] + Space(q[k]))
    <2> TAKE k \in 2 .. n
    <2>1. k \in 1 .. n /\ a[k] \in Nat /\ Space(q[k]) \in Nat
      BY <1>1
    <2>2. CASE m.head < m.next
      <3>1. a[k] >= e /\ a[k] + Space(q[k]) <= m.next
        BY <2>1, <2>2, ChainFacts, StraightChain
      <3> HIDE DEF e
      <3> QED
        BY <1>1, <1>4, <1>5, <2>1, <2>2, <3>1 DEF Between
    <2>3. CASE m.next <= m.head
      <3>1. e < m.nomanland => a[k] >= e \/ a[k] + Space(q[k]) <= m.next
        BY <2>3, AfterFirst
      <3>2. e >= m.nomanland => a[k] >= MetaLen /\ a[k] + Space(q[k]) <= m.next
        BY <2>3, AfterFirst
      <3> HIDE DEF e
      <3> QED
        BY <1>1, <1>4, <1>6, <2>1, <2>3, <3>1, <3>2, SMTT(30) DEF Between
    <2> QED
      BY <1>1, <2>2, <2>3
  <1>8. \A k \in 2 .. n : a[k] + Space(q[k]) = w.next <=> k = n
    BY <1>1, ChainFacts
  <1>9. \A k \in 2 .. n - 1 : a[k + 1] = WrapHead(w, a[k] + Space(q[k]))
    BY <1>1, ChainFacts DEF WrapHead
  <1>10. Chain(w, Tail(q), Tail(a))
    <2>1. Tail(a)[1] = w.head
      BY <1>1, <1>2, <1>3
    <2> DEFINE p == n - 1
               t == Tail(q)
               b == Tail(a)
    <2>2. \A k \in 1 .. p : /\ Between(w, b[k], b[k] + Space(t[k]))
                            /\ b[k] + Space(t[k]) = w.next <=> k = p
      <3> TAKE k \in 1 .. p
      <3>1. k + 1 \in 2 .. n /\ (k + 1 = n <=> k = n - 1)
        BY <1>1
      <3>2. Tail(q)[k] = q[k + 1] /\ Tail(a)[k] = a[k + 1]
        BY <1>2
      <3> QED
        BY <1>7, <1>8, <3>1, <3>2
    <2>3. \A k \in 1 .. p - 1 : b[k + 1] = WrapHead(w, b[k] + Space(t[k]))
      <3> TAKE k \in 1 .. p - 1
      <3>1. k + 1 \in 2 .. n - 1 /\ k \in 1 .. n - 1 /\ k + 1 \in 1 .. n - 1
        BY <1>1
      <3>2. Tail(q)[k] = q[k + 1] /\ Tail(a)[k] = a[k + 1] /\ Tail(a)[k + 1] = a[(k + 1) + 1]
        BY <1>2, <3>1
      <3> QED
        BY <1>9, <3>1, <3>2
    <2>4. /\ p \in Nat /\ p >= 1 /\ t \in Seq(Record) /\ b \in Seq(Nat)
          /\ Len(t) = p /\ Len(b) = p /\ b[1] = w.head
      BY <1>1, <1>2, <2>1
    <2> HIDE DEF n, p, t, b
    <2>5. Chain(w, t, b)
      BY <2>2, <2>3, <2>4, ChainIs
    <2> QED
      BY <2>5 DEF t, b
  <1> HIDE DEF e
  <1> QED
    BY <1>1, <1>5, <1>6, <1>10 DEF e

(* A chain holds fewer records than the file has units.                    *)
LEMMA ChainBound ==
  ASSUME NEW m, NEW q, NEW a, Offset(m), Chain(m, q, a),
         m.next <= SizeLimit, m.nomanland <= SizeLimit,
         m.head < m.next \/ m.head < m.nomanland
  PROVE  Len(q) <= SizeLimit - MetaLen
  <1> DEFINE n == Len(q)
  <1>1. /\ n \in Nat /\ n >= 1 /\ a[1] = m.head
        /\ \A k \in 1 .. n : a[k] \in Nat /\ Space(q[k]) \in Nat /\ Space(q[k]) >= 2
        /\ m.head \in Nat /\ m.next \in Nat /\ m.nomanland \in Nat
        /\ m.head >= MetaLen /\ m.next > MetaLen /\ MetaLen \in Nat /\ SizeLimit \in Nat
        /\ n \in 1 .. n
    BY ChainFacts, Numbers DEF Offset
  <1>2. a[n] + Space(q[n]) = m.next /\ a[n] \in Nat /\ Space(q[n]) \in Nat
        /\ Space(q[n]) >= 2
    BY <1>1, ChainFacts
  <1>3. CASE m.head < m.next
    <2>1. a[n] >= m.head + n - 1
      BY <1>1, <1>3, StraightChain
    <2> HIDE DEF n
    <2>2. n <= SizeLimit - MetaLen
      BY <1>1, <1>2, <2>1
    <2> QED
      BY <2>2 DEF n
  <1>4. CASE m.next <= m.head
    <2> DEFINE Upper(k) == m.head <= a[k] /\ a[k] < m.nomanland /\ a[k] - m.head >= k - 1
               Lower(k) == /\ MetaLen <= a[k] /\ a[k] + Space(q[k]) <= m.next
                           /\ (m.nomanland - m.head) + (a[k] - MetaLen) >= k - 1
               Bad == {k \in 1 .. n : ~(Upper(k) \/ Lower(k))}
    <2>0. m.head < m.nomanland
      BY <1>1, <1>4
    <2>1. Bad = {}
      <3> SUFFICES ASSUME Bad # {} PROVE FALSE
        OBVIOUS
      <3>1. PICK k \in Bad : \A j \in Bad : k <= j
        <4>1. Bad \in SUBSET Nat
          BY <1>1
        <4> HIDE DEF Bad
        <4> QED
          BY <4>1, Least
      <3>2. k \in 1 .. n /\ ~Upper(k) /\ ~Lower(k)
        OBVIOUS
      <3>3. k # 1
        BY <1>1, <2>0, <3>2
      <3> DEFINE p == k - 1
      <3>4. p \in 1 .. n /\ p \in 1 .. n - 1 /\ p + 1 = k /\ ~(k <= p) /\ k \in Nat
        BY <1>1, <3>2, <3>3
      <3> HIDE DEF p
      <3>5. Upper(p) \/ Lower(p)
        BY <3>1, <3>4
      <3> DEFINE d == a[p] + Space(q[p])
      <3>6. /\ m.head <= a[p] =>
                 /\ d < m.nomanland => a[k] = d
                 /\ d >= m.nomanland =>
                      a[k] = MetaLen /\ MetaLen + Space(q[k]) <= m.next
            /\ d <= m.next => a[k] = d /\ a[k] + Space(q[k]) <= m.next
        BY <1>4, <3>4, WrappedChain
      <3>7. /\ a[p] \in Nat /\ Space(q[p]) \in Nat /\ Space(q[p]) >= 2
            /\ a[k] \in Nat /\ Space(q[k]) \in Nat
        BY <1>1, <3>2, <3>4
      <3>8. d \in Nat /\ d >= a[p] + 2
        BY <3>7
      <3>9. CASE Upper(p)
        <4>1. m.head <= a[p] /\ a[p] < m.nomanland /\ a[p] - m.head >= p - 1
          BY <3>9
        <4>2. CASE d < m.nomanland
          <5>1. a[k] = d
            BY <3>6, <4>1, <4>2
          <5> HIDE DEF d, n
          <5>2. Upper(k)
            BY <1>1, <3>4, <3>7, <3>8, <4>1, <4>2, <5>1
          <5> QED
            BY <3>2, <5>2
        <4>3. CASE d >= m.nomanland
          <5>1. a[k] = MetaLen /\ MetaLen + Space(q[k]) <= m.next
            BY <3>6, <4>1, <4>3
          <5> HIDE DEF d, n
          <5>2. Lower(k)
            BY <1>1, <3>4, <3>7, <3>8, <4>1, <4>3, <5>1
          <5> QED
            BY <3>2, <5>2
        <4> QED
          BY <1>1, <3>8, <4>2, <4>3
      <3>10. CASE Lower(p)
        <4>1. /\ MetaLen <= a[p] /\ d <= m.next
              /\ (m.nomanland - m.head) + (a[p] - MetaLen) >= p - 1
          BY <3>10
        <4>2. a[k] = d /\ a[k] + Space(q[k]) <= m.next
          BY <3>6, <4>1
        <4> HIDE DEF d, n
        <4>3. Lower(k)
          BY <1>1, <3>4, <3>7, <3>8, <4>1, <4>2
        <4> QED
          BY <3>2, <4>3
      <3> QED
        BY <3>5, <3>9, <3>10
    <2>2. Upper(n) \/ Lower(n)
      BY <1>1, <2>1
    <2>3. ~Upper(n)
      BY <1>1, <1>2, <1>4
    <2>4. (m.nomanland - m.head) + (a[n] - MetaLen) >= n - 1
      BY <2>2, <2>3
    <2> HIDE DEF n
    <2>5. n <= SizeLimit - MetaLen
      BY <1>1, <1>2, <1>4, <2>4
    <2> QED
      BY <2>5 DEF n
  <1> QED
    BY <1>1, <1>3, <1>4

LEMMA SuffixOf ==
  ASSUME NEW S, NEW s \in Seq(S), NEW i \in 0 .. Len(s)
  PROVE  LET t == SubSeq(s, i + 1, Len(s))
         IN  /\ t \in Seq(S) /\ Len(t) = Len(s) - i
             /\ \A k \in 1 .. Len(s) - i : t[k] = s[i + k]
  <1> DEFINE t == SubSeq(s, i + 1, Len(s))
  <1>1. t \in Seq(S) /\ Len(t) = Len(s) - i
    OBVIOUS
  <1>2. \A k \in 1 .. Len(s) - i : t[k] = s[i + k]
    <2> TAKE k \in 1 .. Len(s) - i
    <2>1. t[k] = s[k + (i + 1) - 1]
      OBVIOUS
    <2>2. k + (i + 1) - 1 = i + k
      OBVIOUS
    <2> QED
      BY <2>1, <2>2
  <1> QED
    BY <1>1, <1>2

(* The records of a buffer that wraps around which lie before next: a      *)
(* chain from the beginning of the file, of fewer records.                 *)
LEMMA FrontPart ==
  ASSUME NEW m, NEW q, NEW a, Offset(m), Chain(m, q, a), m.next <= m.head,
         m.head < m.nomanland,
         NEW w, w.head = MetaLen, w.next = m.next, w.nomanland = m.next
  PROVE  \E i \in 1 .. Len(q) - 1 :
           LET t == SubSeq(q, i + 1, Len(q))
               b == SubSeq(a, i + 1, Len(q))
           IN  Chain(w, t, b)
  <1> DEFINE n == Len(q)
             Low(k) == a[k] + Space(q[k]) <= m.next
             Lows == {k \in 1 .. n : Low(k)}
  <1>1. /\ n \in Nat /\ n >= 1 /\ a[1] = m.head
        /\ \A k \in 1 .. n : a[k] \in Nat /\ Space(q[k]) \in Nat /\ Space(q[k]) >= 2
        /\ m.head \in Nat /\ m.next \in Nat /\ m.nomanland \in Nat
        /\ m.head >= MetaLen /\ m.next > MetaLen /\ MetaLen \in Nat
        /\ n \in 1 .. n
    BY ChainFacts, Numbers DEF Offset
  <1>2. PICK j \in Lows : \A k \in Lows : j <= k
    <2>1. Lows \in SUBSET Nat
      BY <1>1
    <2>2. a[n] + Space(q[n]) = m.next
      BY <1>1, ChainFacts
    <2>3. n \in Lows
      BY <1>1, <2>2
    <2> HIDE DEF Lows
    <2> QED
      BY <2>1, <2>3, Least
  <1>3. j \in 1 .. n /\ Low(j)
    OBVIOUS
  <1> DEFINE i == j - 1
  <1>4. j # 1
    <2>1. Space(q[1]) \in Nat
      BY <1>1
    <2> QED
      BY <1>1, <1>3, <2>1
  <1>5. i \in 1 .. n - 1 /\ i \in 1 .. n /\ i + 1 = j /\ ~(j <= i) /\ i \in Nat /\ j \in Nat
    BY <1>1, <1>3, <1>4
  <1> HIDE DEF i
  <1>6. a[j] = MetaLen
    <2> DEFINE d == a[i] + Space(q[i])
    <2>1. i \notin Lows
      BY <1>2, <1>5
    <2>2. m.head <= a[i]
      BY <1>5, <2>1, ChainFacts
    <2>3. /\ d < m.nomanland => a[j] = d
          /\ d >= m.nomanland => a[j] = MetaLen
      BY <1>5, <2>2, WrappedChain
    <2>4. /\ a[i] \in Nat /\ Space(q[i]) \in Nat /\ a[j] \in Nat
          /\ Space(q[j]) \in Nat /\ Space(q[j]) >= 2
      BY <1>1, <1>3, <1>5
    <2>5. a[j] + Space(q[j]) <= m.next
      BY <1>3
    <2>6. d \in Nat /\ d >= a[i]
      BY <2>4
    <2> HIDE DEF d
    <2>7. d >= m.nomanland
      <3> SUFFICES ASSUME d < m.nomanland PROVE FALSE
        BY <1>1, <2>6
      <3>1. a[j] = d
        BY <2>3
      <3> QED
        BY <1>1, <2>2, <2>4, <2>5, <2>6, <3>1
    <2> QED
      BY <2>3, <2>7
  <1>7. \A k \in j .. n : Low(k) /\ a[k] >= MetaLen
    <2> DEFINE Bad == {k \in j .. n : ~(Low(k) /\ a[k] >= MetaLen)}
    <2> SUFFICES ASSUME Bad # {} PROVE FALSE
      OBVIOUS
    <2>1. PICK k \in Bad : \A l \in Bad : k <= l
      <3>1. Bad \in SUBSET Nat
        BY <1>1, <1>5
      <3> HIDE DEF Bad
      <3> QED
        BY <3>1, Least
    <2>2. k \in j .. n /\ ~(Low(k) /\ a[k] >= MetaLen)
      OBVIOUS
    <2>3. k # j
      BY <1>1, <1>3, <1>6, <2>2
    <2> DEFINE p == k - 1
    <2>4. p \in j .. n /\ p \in 1 .. n - 1 /\ p \in 1 .. n /\ p + 1 = k /\ ~(k <= p)
          /\ k \in 1 .. n
      BY <1>1, <1>5, <2>2, <2>3
    <2> HIDE DEF p
    <2>5. Low(p) /\ a[p] >= MetaLen
      BY <2>1, <2>4
    <2>6. a[k] = a[p] + Space(q[p]) /\ Low(k)
      BY <2>4, <2>5, WrappedChain
    <2>7. a[p] \in Nat /\ Space(q[p]) \in Nat
      BY <1>1, <2>4
    <2>8. a[k] >= MetaLen
      BY <1>1, <2>5, <2>6, <2>7
    <2> QED
      BY <2>2, <2>6, <2>8
  <1> DEFINE t == SubSeq(q, i + 1, n)
             b == SubSeq(a, i + 1, n)
             l == n - i
  <1>8. /\ l \in Nat /\ l >= 1 /\ t \in Seq(Record) /\ b \in Seq(Nat)
        /\ Len(t) = l /\ Len(b) = l
        /\ \A k \in 1 .. l : t[k] = q[i + k] /\ b[k] = a[i + k]
    <2>1. q \in Seq(Record) /\ a \in Seq(Nat) /\ Len(a) = n /\ i \in 0 .. n
      BY <1>1, <1>5 DEF Chain
    <2>2. /\ t \in Seq(Record) /\ Len(t) = l
          /\ \A k \in 1 .. l : t[k] = q[i + k]
      BY <2>1, SuffixOf
    <2>3. /\ b \in Seq(Nat) /\ Len(b) = l
          /\ \A k \in 1 .. l : b[k] = a[i + k]
      BY <2>1, SuffixOf
    <2>4. l \in Nat /\ l >= 1
      BY <1>1, <1>5
    <2> HIDE DEF t, b, l
    <2> QED
      BY <2>2, <2>3, <2>4
  <1>9. \A k \in 1 .. l : /\ Between(w, b[k], b[k] + Space(t[k]))
                          /\ b[k] + Space(t[k]) = w.next <=> k = l
    <2> TAKE k \in 1 .. l
    <2>1. i + k \in j .. n /\ i + k \in 1 .. n /\ (i + k = n <=> k = l)
      BY <1>1, <1>5
    <2>2. t[k] = q[i + k] /\ b[k] = a[i + k]
      BY <1>8
    <2>3. b[k] + Space(t[k]) = w.next <=> k = l
      <3>1. a[i + k] + Space(q[i + k]) = m.next <=> i + k = n
        BY <2>1, ChainFacts
      <3> HIDE DEF b, t
      <3> QED
        BY <2>1, <2>2, <3>1
    <2>4. MetaLen <= b[k] /\ b[k] + Space(t[k]) <= m.next
      BY <1>7, <2>1, <2>2
    <2>5. Between(w, b[k], b[k] + Space(t[k]))
      <3> HIDE DEF b, t
      <3> QED
        BY <1>1, <2>4 DEF Between
    <2> QED
      BY <2>3, <2>5
  <1>10. \A k \in 1 .. l - 1 : b[k + 1] = WrapHead(w, b[k] + Space(t[k]))
    <2> TAKE k \in 1 .. l - 1
    <2> DEFINE p == i + k
    <2>1. p \in j .. n /\ p \in 1 .. n - 1 /\ p \in 1 .. n /\ k \in 1 .. l /\ k + 1 \in 1 .. l
          /\ i + (k + 1) = p + 1
      BY <1>1, <1>5
    <2>2. t[k] = q[p] /\ b[k] = a[p] /\ b[k + 1] = a[p + 1]
      <3>1. b[k + 1] = a[i + (k + 1)] /\ t[k] = q[i + k] /\ b[k] = a[i + k]
        BY <1>8, <2>1
      <3> HIDE DEF b, t
      <3> QED
        BY <2>1, <3>1
    <2> HIDE DEF p
    <2>3. a[p + 1] = a[p] + Space(q[p]) /\ a[p] + Space(q[p]) <= m.next
      BY <1>7, <2>1, WrappedChain
    <2>4. a[p] \in Nat /\ Space(q[p]) \in Nat
      BY <1>1, <2>1
    <2>5. WrapHead(w, a[p] + Space(q[p])) = a[p] + Space(q[p])
      BY <1>1, <2>3, <2>4 DEF WrapHead
    <2> HIDE DEF b, t
    <2> QED
      BY <2>2, <2>3, <2>5
  <1>11. b[1] = w.head
    BY <1>5, <1>6, <1>8
  <1>12. Chain(w, t, b)
    <2> HIDE DEF t, b, l, n
    <2> QED
      BY <1>8, <1>9, <1>10, <1>11, ChainIs
  <1> QED
    BY <1>5, <1>12

(* A record written at the end of a chain makes a chain of one more.       *)
LEMMA AppendChain ==
  ASSUME NEW m, NEW q, NEW a, Offset(m), Chain(m, q, a),
         NEW w, NEW r \in Record, NEW at \in Nat,
         w.head = m.head,
         \A k \in 1 .. Len(q) : Between(w, a[k], a[k] + Space(q[k])),
         \A k \in 1 .. Len(q) : a[k] + Space(q[k]) # w.next,
         \A k \in 1 .. Len(q) - 1 :
           WrapHead(w, a[k] + Space(q[k])) = WrapHead(m, a[k] + Space(q[k])),
         WrapHead(w, m.next) = at,
         Between(w, at, at + Space(r)), at + Space(r) = w.next
  PROVE  Chain(w, Append(q, r), Append(a, at))
  <1> DEFINE n == Len(q)
             t == Append(q, r)
             b == Append(a, at)
             l == n + 1
  <1>1. /\ n \in Nat /\ n >= 1 /\ a[1] = m.head /\ n \in 1 .. n
        /\ q \in Seq(Record) /\ a \in Seq(Nat) /\ Len(a) = n
    BY ChainFacts DEF Chain
  <1>2. /\ l \in Nat /\ l >= 1 /\ t \in Seq(Record) /\ b \in Seq(Nat)
        /\ Len(t) = l /\ Len(b) = l
        /\ t[l] = r /\ b[l] = at
        /\ \A k \in 1 .. n : t[k] = q[k] /\ b[k] = a[k]
    BY <1>1
  <1>3. a[n] + Space(q[n]) = m.next
    BY <1>1, ChainFacts
  <1>4. \A k \in 1 .. n - 1 : a[k + 1] = WrapHead(m, a[k] + Space(q[k]))
    BY <1>1, ChainFacts
  <1> HIDE DEF t, b
  <1>5. \A k \in 1 .. l : Between(w, b[k], b[k] + Space(t[k]))
    <2> TAKE k \in 1 .. l
    <2>1. k \in 1 .. n \/ k = l
      BY <1>1
    <2> HIDE DEF l
    <2> QED
      BY <1>2, <2>1
  <1>6. \A k \in 1 .. l : b[k] + Space(t[k]) = w.next <=> k = l
    <2> TAKE k \in 1 .. l
    <2>1. (k \in 1 .. n /\ k # l) \/ k = l
      BY <1>1
    <2> HIDE DEF l
    <2> QED
      BY <1>2, <2>1
  <1>7. \A k \in 1 .. l - 1 : b[k + 1] = WrapHead(w, b[k] + Space(t[k]))
    <2> TAKE k \in 1 .. l - 1
    <2>1. k \in 1 .. n /\ b[k] = a[k] /\ t[k] = q[k]
      BY <1>1, <1>2
    <2>2. CASE k = n
      <3>1. b[k + 1] = at
        BY <1>2, <2>2
      <3> QED
        BY <1>3, <2>1, <2>2, <3>1
    <2>3. CASE k # n
      <3>1. k \in 1 .. n - 1 /\ k + 1 \in 1 .. n
        BY <1>1, <2>1, <2>3
      <3>2. b[k + 1] = a[k + 1]
        BY <1>2, <3>1
      <3>3. WrapHead(w, a[k] + Space(q[k])) = WrapHead(m, a[k] + Space(q[k]))
        BY <3>1
      <3> QED
        BY <1>4, <2>1, <3>1, <3>2, <3>3
    <2> QED
      BY <2>2, <2>3
  <1>8. b[1] = w.head
    BY <1>1, <1>2
  <1>9. Chain(w, t, b)
    <2> HIDE DEF l, n
    <2> QED
      BY <1>2, <1>5, <1>6, <1>7, <1>8, ChainIs
  <1> QED
    BY <1>9 DEF t, b

(* At next, of a buffer that does not wrap around.                         *)
LEMMA AppendStraight ==
  ASSUME NEW m, NEW q, NEW a, Offset(m), Chain(m, q, a), m.head < m.next,
         NEW w, NEW r \in Record,
         w.head = m.head, w.next = m.next + Space(r)
  PROVE  Chain(w, Append(q, r), Append(a, m.next))
  <1>1. /\ m.head \in Nat /\ m.next \in Nat /\ Space(r) \in Nat /\ Space(r) >= 2
        /\ Len(q) \in Nat
    BY Numbers, ChainFacts DEF Offset
  <1>2. \A k \in 1 .. Len(q) :
          /\ a[k] \in Nat /\ Space(q[k]) \in Nat
          /\ m.head <= a[k] /\ a[k] + Space(q[k]) <= m.next
    BY ChainFacts
  <1>3. \A k \in 1 .. Len(q) : Between(w, a[k], a[k] + Space(q[k]))
    BY <1>1, <1>2 DEF Between
  <1>4. \A k \in 1 .. Len(q) : a[k] + Space(q[k]) # w.next
    BY <1>1, <1>2
  <1>5. \A e \in Nat : e <= m.next => WrapHead(w, e) = e /\ WrapHead(m, e) = e
    BY <1>1 DEF WrapHead
  <1>6. \A k \in 1 .. Len(q) - 1 :
          WrapHead(w, a[k] + Space(q[k])) = WrapHead(m, a[k] + Space(q[k]))
    <2> TAKE k \in 1 .. Len(q) - 1
    <2>1. k \in 1 .. Len(q)
      BY <1>1
    <2>2. a[k] + Space(q[k]) \in Nat /\ a[k] + Space(q[k]) <= m.next
      BY <1>2, <2>1
    <2> QED
      BY <1>5, <2>2
  <1>7. WrapHead(w, m.next) = m.next
    BY <1>1, <1>5
  <1>8. Between(w, m.next, m.next + Space(r))
    BY <1>1 DEF Between
  <1> QED
    BY <1>1, <1>3, <1>4, <1>6, <1>7, <1>8, AppendChain

(* At next, of a buffer that wraps around and has room up to head.         *)
LEMMA AppendWrapped ==
  ASSUME NEW m, NEW q, NEW a, Offset(m), Chain(m, q, a), m.next <= m.head,
         NEW w, NEW r \in Record,
         w.head = m.head, w.next = m.next + Space(r), w.nomanland = m.nomanland,
         w.next <= m.head, m.head < m.nomanland
  PROVE  Chain(w, Append(q, r), Append(a, m.next))
  <1>1. /\ m.head \in Nat /\ m.next \in Nat /\ m.nomanland \in Nat
        /\ Space(r) \in Nat /\ Space(r) >= 2 /\ Len(q) \in Nat
    BY Numbers, ChainFacts DEF Offset
  <1>2. \A k \in 1 .. Len(q) :
          /\ a[k] \in Nat /\ Space(q[k]) \in Nat /\ Space(q[k]) >= 2
          /\ m.head <= a[k] \/ a[k] + Space(q[k]) <= m.next
    BY ChainFacts
  <1>3. \A k \in 1 .. Len(q) : Between(w, a[k], a[k] + Space(q[k]))
    BY <1>1, <1>2 DEF Between
  <1>4. \A k \in 1 .. Len(q) : a[k] + Space(q[k]) # w.next
    BY <1>1, <1>2, SMTT(30)
  <1>5. \A e \in Nat : e <= m.next \/ e > m.head => WrapHead(w, e) = WrapHead(m, e)
    BY <1>1 DEF WrapHead
  <1>6. \A k \in 1 .. Len(q) - 1 :
          WrapHead(w, a[k] + Space(q[k])) = WrapHead(m, a[k] + Space(q[k]))
    <2> TAKE k \in 1 .. Len(q) - 1
    <2>1. k \in 1 .. Len(q)
      BY <1>1
    <2> DEFINE e == a[k] + Space(q[k])
    <2>2. e \in Nat /\ (e <= m.next \/ e > m.head)
      BY <1>1, <1>2, <2>1, SMTT(30)
    <2> HIDE DEF e
    <2>3. WrapHead(w, e) = WrapHead(m, e)
      BY <1>5, <2>2
    <2> QED
      BY <2>3 DEF e
  <1>7. WrapHead(w, m.next) = m.next
    BY <1>1 DEF WrapHead
  <1>8. Between(w, m.next, m.next + Space(r))
    BY <1>1 DEF Between
  <1> QED
    BY <1>1, <1>3, <1>4, <1>6, <1>7, <1>8, AppendChain

(* At the beginning of the file, below head: next wraps around.            *)
LEMMA AppendOver ==
  ASSUME NEW m, NEW q, NEW a, Offset(m), Chain(m, q, a), m.head < m.next,
         NEW w, NEW r \in Record,
         w.head = m.head, w.next = MetaLen + Space(r), w.nomanland = m.next,
         w.next <= m.head
  PROVE  Chain(w, Append(q, r), Append(a, MetaLen))
  <1>1. /\ m.head \in Nat /\ m.next \in Nat /\ MetaLen \in Nat
        /\ Space(r) \in Nat /\ Space(r) >= 2 /\ Len(q) \in Nat
    BY Numbers, ChainFacts DEF Offset
  <1>2. \A k \in 1 .. Len(q) :
          /\ a[k] \in Nat /\ Space(q[k]) \in Nat /\ Space(q[k]) >= 2
          /\ m.head <= a[k] /\ a[k] + Space(q[k]) <= m.next
    BY ChainFacts
  <1>3. \A k \in 1 .. Len(q) : Between(w, a[k], a[k] + Space(q[k]))
    BY <1>1, <1>2 DEF Between
  <1>4. \A k \in 1 .. Len(q) : a[k] + Space(q[k]) # w.next
    BY <1>1, <1>2
  <1>5. \A e \in Nat : e < m.next => WrapHead(w, e) = e /\ WrapHead(m, e) = e
    BY <1>1 DEF WrapHead
  <1>6. \A k \in 1 .. Len(q) - 1 :
          WrapHead(w, a[k] + Space(q[k])) = WrapHead(m, a[k] + Space(q[k]))
    <2> TAKE k \in 1 .. Len(q) - 1
    <2>1. k \in 1 .. Len(q) /\ k # Len(q)
      BY <1>1
    <2> DEFINE e == a[k] + Space(q[k])
    <2>2. e # m.next
      BY <2>1, ChainFacts
    <2>3. e \in Nat /\ e < m.next
      <3>1. a[k] \in Nat /\ Space(q[k]) \in Nat /\ e <= m.next
        BY <1>2, <2>1
      <3> QED
        BY <1>1, <2>2, <3>1
    <2> HIDE DEF e
    <2>4. WrapHead(w, e) = WrapHead(m, e)
      BY <1>5, <2>3
    <2> QED
      BY <2>4 DEF e
  <1>7. WrapHead(w, m.next) = MetaLen
    BY <1>1 DEF WrapHead
  <1>8. Between(w, MetaLen, MetaLen + Space(r))
    BY <1>1 DEF Between
  <1> QED
    BY <1>1, <1>3, <1>4, <1>6, <1>7, <1>8, AppendChain

(* The only record.                                                        *)
LEMMA OneRecord ==
  ASSUME NEW w, NEW r \in Record, NEW at \in Nat,
         w.head = at, w.next = at + Space(r)
  PROVE  Chain(w, <<r>>, <<at>>)
  <1> DEFINE q == <<r>>
             a == <<at>>
  <1>1. /\ q \in Seq(Record) /\ a \in Seq(Nat) /\ Len(q) = 1 /\ Len(a) = 1
        /\ q[1] = r /\ a[1] = at
    OBVIOUS
  <1>2. Between(w, at, at + Space(r))
    BY Numbers DEF Between
  <1> HIDE DEF q, a
  <1>3. PICK n \in Nat : n = 1
    OBVIOUS
  <1>4. \A k \in 1 .. n : Between(w, a[k], a[k] + Space(q[k]))
    BY <1>1, <1>2, <1>3
  <1>5. \A k \in 1 .. n : a[k] + Space(q[k]) = w.next <=> k = n
    BY <1>1, <1>3
  <1>6. \A k \in 1 .. n - 1 : a[k + 1] = WrapHead(w, a[k] + Space(q[k]))
    BY <1>3
  <1>7. Len(q) = n /\ Len(a) = n /\ n >= 1 /\ a[1] = w.head
    BY <1>1, <1>3
  <1>8. Chain(w, q, a)
    BY <1>1, <1>4, <1>5, <1>6, <1>7, ChainIs
  <1> QED
    BY <1>8 DEF q, a
-----------------------------------------------------------------------------
(* A chain of records in the file is what a reader finds there.            *)
LEMMA StoredIsReadable ==
  ASSUME NEW f, NEW at \in Nat, NEW r \in Record, Stored(f, at, r)
  PROVE  /\ Readable(f, at) /\ RecordAt(f, at) = r
         /\ EndOf(f, at) = at + Space(r)
         /\ LengthsAt(f, at) = {RecordLen[r]}
  <1>1. /\ Cell(f, at).kind = "len" /\ Cell(f, at).len = RecordLen[r]
    BY DEF Stored, LenCell
  <1>2. RecordLen[r] \in Nat /\ RecordLen[r] >= 1 /\ Space(r) = 1 + RecordLen[r]
    BY Numbers
  <1>3. \A o \in at + 1 .. at + RecordLen[r] : Cell(f, o) = DataCell(r)
    BY DEF Stored
  <1>4. Readable(f, at)
    BY <1>1, <1>3 DEF Readable
  <1>5. RecordAt(f, at) = r
    <2>1. at + 1 \in at + 1 .. at + RecordLen[r]
      BY <1>2
    <2>2. Cell(f, at + 1) = DataCell(r)
      BY <1>3, <2>1
    <2> QED
      BY <2>2 DEF RecordAt, DataCell
  <1>6. EndOf(f, at) = at + Space(r)
    BY <1>1, <1>2 DEF EndOf
  <1>7. LengthsAt(f, at) = {RecordLen[r]}
    BY <1>1 DEF LengthsAt
  <1> QED
    BY <1>4, <1>5, <1>6, <1>7

LEMMA ReadableIsStored ==
  ASSUME NEW f \in [MetaLen .. FileEnd - 1 -> Cells], NEW at \in Nat, at >= MetaLen,
         Readable(f, at)
  PROVE  RecordAt(f, at) \in Record /\ Stored(f, at, RecordAt(f, at))
  <1>1. PICK r \in Record :
          /\ Cell(f, at).len = RecordLen[r]
          /\ \A o \in at + 1 .. at + RecordLen[r] : Cell(f, o) = DataCell(r)
    BY DEF Readable
  <1>2. RecordLen[r] \in Nat /\ RecordLen[r] >= 1
    BY Numbers
  <1>3. Cell(f, at) \in Cells
    <2>1. CASE at < FileEnd
      <3>1. at \in MetaLen .. FileEnd - 1
        BY <2>1, Numbers
      <3> QED
        BY <2>1, <3>1 DEF Cell
    <2>2. CASE ~(at < FileEnd)
      BY <2>2 DEF Cell, Cells, Zero, LenCell
    <2> QED
      BY <2>1, <2>2
  <1>4. Cell(f, at) = LenCell(RecordLen[r])
    BY <1>1, <1>3 DEF Readable, Cells, LenCell
  <1>5. RecordAt(f, at) = r
    <2>1. at + 1 \in at + 1 .. at + RecordLen[r]
      BY <1>2
    <2>2. Cell(f, at + 1) = DataCell(r)
      BY <1>1, <2>1
    <2> QED
      BY <2>2 DEF RecordAt, DataCell
  <1> QED
    BY <1>1, <1>4, <1>5 DEF Stored

LEMMA OffsetsExist ==
  ASSUME NEW f, NEW m, m.blockCnt \in Nat
  PROVE  \E g : g = [k \in 1 .. m.blockCnt |-> NextOffset(f, m, g, k)]
  <1> DEFINE Some(n) == \E g : g = [k \in 1 .. n |-> NextOffset(f, m, g, k)]
             None == {n \in Nat : ~Some(n)}
  <1>1. None = {}
    <2> SUFFICES ASSUME None # {} PROVE FALSE
      OBVIOUS
    <2>1. PICK n \in None : \A l \in None : n <= l
      <3>1. None \in SUBSET Nat
        OBVIOUS
      <3> HIDE DEF None
      <3> QED
        BY <3>1, Least
    <2>2. n \in Nat /\ ~Some(n)
      OBVIOUS
    <2>3. n # 0
      <3>1. Some(0)
        <4> DEFINE g == [k \in 1 .. 0 |-> 0]
        <4>1. g = [k \in 1 .. 0 |-> NextOffset(f, m, g, k)]
          OBVIOUS
        <4> HIDE DEF g
        <4> QED
          BY <4>1
      <3> HIDE DEF Some
      <3> QED
        BY <2>2, <3>1
    <2> DEFINE p == n - 1
    <2>4. p \in Nat /\ p < n /\ n = p + 1 /\ ~(n <= p)
      BY <2>2, <2>3
    <2> HIDE DEF p
    <2>5. PICK g : g = [k \in 1 .. p |-> NextOffset(f, m, g, k)]
      BY <2>1, <2>4
    <2> DEFINE h == [k \in 1 .. n |-> IF k = n THEN NextOffset(f, m, g, n) ELSE g[k]]
               e == [k \in 1 .. n |-> NextOffset(f, m, h, k)]
    <2>6. \A k \in 1 .. n : h[k] = NextOffset(f, m, h, k)
      <3> TAKE k \in 1 .. n
      <3>1. h[k] = NextOffset(f, m, g, k)
        <4>1. CASE k = n
          BY <4>1
        <4>2. CASE k # n
          <5>1. k \in 1 .. p
            BY <2>4, <4>2
          <5>2. g[k] = NextOffset(f, m, g, k)
            BY <2>5, <5>1
          <5> QED
            BY <4>2, <5>2
        <4> QED
          BY <4>1, <4>2
      <3>2. k # 1 => h[k - 1] = g[k - 1]
        <4> HAVE k # 1
        <4>1. k - 1 \in 1 .. n /\ k - 1 # n
          BY <2>4
        <4> QED
          BY <4>1
      <3>3. NextOffset(f, m, h, k) = NextOffset(f, m, g, k)
        <4>1. CASE k = 1
          BY <4>1 DEF NextOffset
        <4>2. CASE k # 1
          <5>1. h[k - 1] = g[k - 1]
            BY <3>2, <4>2
          <5> HIDE DEF h
          <5> QED
            BY <4>2, <5>1, Zenon DEF NextOffset
        <4> QED
          BY <4>1, <4>2
      <3> HIDE DEF h
      <3> QED
        BY <3>1, <3>3
    <2>7. h = e
      <3>1. \A k \in 1 .. n : e[k] = h[k]
        <4> HIDE DEF h
        <4> QED
          BY <2>6
      <3>2. h = [k \in 1 .. n |-> h[k]] /\ e = [k \in 1 .. n |-> e[k]]
        OBVIOUS
      <3> HIDE DEF h, e
      <3> QED
        BY <3>1, <3>2
    <2>8. Some(n)
      <3>1. h = [k \in 1 .. n |-> NextOffset(f, m, h, k)]
        BY <2>7
      <3> HIDE DEF h
      <3> QED
        BY <3>1
    <2> HIDE DEF Some
    <2> QED
      BY <2>2, <2>8
  <1>2. Some(m.blockCnt)
    <2> HIDE DEF Some
    <2> QED
      BY <1>1
  <1> QED
    BY <1>2

LEMMA OffsetsEquation ==
  ASSUME NEW f, NEW m, m.blockCnt \in Nat
  PROVE  \A k \in 1 .. m.blockCnt : Offsets(f, m)[k] = NextOffset(f, m, Offsets(f, m), k)
  <1> DEFINE o == Offsets(f, m)
  <1>1. PICK g : g = [k \in 1 .. m.blockCnt |-> NextOffset(f, m, g, k)]
    BY OffsetsExist
  <1>2. o = [k \in 1 .. m.blockCnt |-> NextOffset(f, m, o, k)]
    BY <1>1, OffsetsRecursion
  <1> HIDE DEF o
  <1>3. \A k \in 1 .. m.blockCnt : o[k] = NextOffset(f, m, o, k)
    BY <1>2
  <1> QED
    BY <1>3 DEF o

(* However many records blockCnt speaks of, successive pops read those of  *)
(* the chain first.                                                        *)
LEMMA ChainOffsets ==
  ASSUME NEW f, NEW m, NEW q, NEW a, Offset(m), m.blockCnt \in Nat,
         Chain(m, q, a), StoredAll(f, q, a)
  PROVE  \A k \in 1 .. Len(q) : k <= m.blockCnt => Offsets(f, m)[k] = a[k]
  <1> DEFINE n == Len(q)
             o == Offsets(f, m)
             Bad == {k \in 1 .. n : k <= m.blockCnt /\ o[k] # a[k]}
  <1> SUFFICES ASSUME Bad # {} PROVE FALSE
    OBVIOUS
  <1>1. /\ n \in Nat /\ a[1] = m.head
        /\ \A k \in 1 .. n : a[k] \in Nat /\ q[k] \in Record
        /\ \A k \in 1 .. n - 1 : a[k + 1] = WrapHead(m, a[k] + Space(q[k]))
    BY ChainFacts
  <1>2. PICK k \in Bad : \A l \in Bad : k <= l
    <2>1. Bad \in SUBSET Nat
      BY <1>1
    <2> HIDE DEF Bad
    <2> QED
      BY <2>1, Least
  <1>3. k \in 1 .. n /\ k \in 1 .. m.blockCnt /\ o[k] # a[k]
    BY <1>1
  <1>4. o[k] = NextOffset(f, m, o, k)
    BY <1>3, OffsetsEquation
  <1>5. CASE k = 1
    <2> HIDE DEF o
    <2> QED
      BY <1>1, <1>3, <1>4, <1>5 DEF NextOffset
  <1>6. CASE k # 1
    <2>1. k - 1 \in 1 .. n /\ k - 1 \in 1 .. n - 1 /\ (k - 1) + 1 = k
          /\ k - 1 <= m.blockCnt /\ ~(k <= k - 1)
      BY <1>1, <1>3, <1>6
    <2>2. o[k - 1] = a[k - 1]
      BY <1>2, <2>1
    <2>3. Stored(f, a[k - 1], q[k - 1])
      BY <2>1 DEF StoredAll
    <2>4. Readable(f, a[k - 1]) /\ EndOf(f, a[k - 1]) = a[k - 1] + Space(q[k - 1])
      BY <1>1, <2>1, <2>3, StoredIsReadable
    <2>5. a[k] = WrapHead(m, a[k - 1] + Space(q[k - 1]))
      BY <1>1, <2>1
    <2>6. NextOffset(f, m, o, k) = WrapHead(m, EndOf(f, a[k - 1]))
      <3> HIDE DEF o
      <3> QED
        BY <1>6, <2>2, <2>4, Zenon DEF NextOffset
    <2> HIDE DEF o
    <2> QED
      BY <1>3, <1>4, <2>4, <2>5, <2>6
  <1> QED
    BY <1>5, <1>6

LEMMA ChainIsView ==
  ASSUME NEW f, NEW m, NEW q, NEW a, Offset(m),
         Chain(m, q, a), StoredAll(f, q, a), m.blockCnt = Len(q)
  PROVE  Matches(f, m) /\ View(f, m).recs = q
  <1> DEFINE n == Len(q)
             o == Offsets(f, m)
  <1>1. n \in Nat /\ n >= 1 /\ \A k \in 1 .. n : a[k] \in Nat /\ q[k] \in Record
    BY ChainFacts
  <1>2. \A k \in 1 .. n : o[k] = a[k]
    <2>1. \A k \in 1 .. n : k <= m.blockCnt
      BY <1>1
    <2> QED
      BY <1>1, <2>1, ChainOffsets
  <1>3. \A k \in 1 .. n : /\ Readable(f, a[k]) /\ RecordAt(f, a[k]) = q[k]
                          /\ EndOf(f, a[k]) = a[k] + Space(q[k])
    BY <1>1, StoredIsReadable DEF StoredAll
  <1>4. \A k \in 1 .. n : /\ Between(m, a[k], a[k] + Space(q[k]))
                          /\ a[k] + Space(q[k]) = m.next <=> k = n
    BY DEF Chain
  <1>5. \A k \in 1 .. n : /\ Readable(f, o[k])
                          /\ Between(m, o[k], EndOf(f, o[k]))
                          /\ EndOf(f, o[k]) = m.next <=> k = m.blockCnt
    <2> HIDE DEF o
    <2> QED
      BY <1>2, <1>3, <1>4
  <1>6. Matches(f, m)
    BY <1>1, <1>5 DEF Matches
  <1>7. [k \in 1 .. m.blockCnt |-> RecordAt(f, o[k])] = q
    <2>1. \A k \in 1 .. n : RecordAt(f, o[k]) = q[k]
      <3> HIDE DEF o
      <3> QED
        BY <1>2, <1>3
    <2>2. q = [k \in 1 .. n |-> q[k]]
      BY DEF Chain
    <2> HIDE DEF o
    <2> QED
      BY <2>1, <2>2
  <1> QED
    BY <1>6, <1>7 DEF View

(* If blockCnt is not the number of records of the chain, no other reading *)
(* of the file makes it right.                                             *)
LEMMA MiscountIsMismatch ==
  ASSUME NEW f, NEW m, NEW q, NEW a, Offset(m), m.blockCnt \in Nat,
         Chain(m, q, a), StoredAll(f, q, a), m.blockCnt # Len(q), m.head # m.next
  PROVE  ~Matches(f, m)
  <1> DEFINE n == Len(q)
             o == Offsets(f, m)
             l == m.blockCnt
  <1>1. n \in Nat /\ n >= 1 /\ \A k \in 1 .. n : a[k] \in Nat /\ q[k] \in Record
    BY ChainFacts
  <1>2. CASE l = 0
    BY <1>2 DEF Matches
  <1>3. CASE l # 0
    <2> SUFFICES ASSUME Matches(f, m) PROVE FALSE
      OBVIOUS
    <2>1. \A k \in 1 .. l : EndOf(f, o[k]) = m.next <=> k = l
      BY <1>3 DEF Matches
    <2>2. PICK k \in 1 .. n : k <= l /\ (k = n \/ k = l)
      <3>1. n \in 1 .. n /\ (l < n => l \in 1 .. n)
        BY <1>1, <1>3
      <3>2. n <= l \/ l < n
        BY <1>1
      <3> HIDE DEF n, l
      <3> QED
        BY <3>1, <3>2, <1>1
    <2>3. k \in 1 .. l
      BY <1>1, <2>2
    <2>4. o[k] = a[k]
      BY <2>2, ChainOffsets
    <2>5. EndOf(f, a[k]) = a[k] + Space(q[k])
      BY <1>1, StoredIsReadable DEF StoredAll
    <2>6. a[k] + Space(q[k]) = m.next <=> k = n
      BY ChainFacts
    <2>7. k = l <=> k = n
      <3> HIDE DEF o, l, n
      <3> QED
        BY <2>1, <2>3, <2>4, <2>5, <2>6
    <2> QED
      BY <2>2, <2>7
  <1> QED
    BY <1>2, <1>3

LEMMA ViewIsChain ==
  ASSUME NEW f \in [MetaLen .. FileEnd - 1 -> Cells], NEW m, Offset(m),
         m.blockCnt \in Nat, m.blockCnt # 0, Matches(f, m)
  PROVE  LET q == View(f, m).recs
         IN  /\ q \in Seq(Record) /\ Len(q) = m.blockCnt
             /\ \E a : Chain(m, q, a) /\ StoredAll(f, q, a)
  <1> DEFINE n == m.blockCnt
             o == Offsets(f, m)
             q == [k \in 1 .. n |-> RecordAt(f, o[k])]
             a == [k \in 1 .. n |-> o[k]]
  <1>1. View(f, m).recs = q
    BY DEF View
  <1>2. \A k \in 1 .. n : /\ Readable(f, o[k])
                          /\ Between(m, o[k], EndOf(f, o[k]))
                          /\ EndOf(f, o[k]) = m.next <=> k = n
    BY DEF Matches
  <1>3. \A k \in 1 .. n : o[k] = NextOffset(f, m, o, k)
    BY OffsetsEquation
  <1>4. /\ n \in Nat /\ n >= 1 /\ MetaLen \in Nat /\ m.head \in Nat /\ m.head >= MetaLen
    BY Numbers DEF Offset
  <1> HIDE DEF o
  <1>5. o[1] = m.head
    BY <1>3, <1>4 DEF NextOffset
  <1>6. \A k \in 1 .. n - 1 : o[k + 1] = WrapHead(m, EndOf(f, o[k]))
    <2> TAKE k \in 1 .. n - 1
    <2>1. k + 1 \in 1 .. n /\ k + 1 # 1 /\ (k + 1) - 1 = k /\ k \in 1 .. n
      BY <1>4
    <2>2. o[k + 1] = NextOffset(f, m, o, k + 1) /\ Readable(f, o[k])
      BY <1>2, <1>3, <2>1
    <2> QED
      BY <2>1, <2>2, Zenon DEF NextOffset
  <1>7. \A k \in 1 .. n : o[k] \in Nat /\ o[k] >= MetaLen
    <2> DEFINE Bad == {k \in 1 .. n : ~(o[k] \in Nat /\ o[k] >= MetaLen)}
    <2> SUFFICES ASSUME Bad # {} PROVE FALSE
      OBVIOUS
    <2>1. PICK k \in Bad : \A l \in Bad : k <= l
      <3>1. Bad \in SUBSET Nat
        BY <1>4
      <3> HIDE DEF Bad
      <3> QED
        BY <3>1, Least
    <2>2. k \in 1 .. n /\ ~(o[k] \in Nat /\ o[k] >= MetaLen)
      OBVIOUS
    <2>3. k # 1
      BY <1>4, <1>5, <2>2
    <2> DEFINE p == k - 1
    <2>4. p \in 1 .. n - 1 /\ p \in 1 .. n /\ p + 1 = k /\ ~(k <= p)
      BY <1>4, <2>2, <2>3
    <2> HIDE DEF p
    <2>5. o[p] \in Nat /\ o[p] >= MetaLen /\ Readable(f, o[p])
      BY <1>2, <2>1, <2>4
    <2>6. EndOf(f, o[p]) \in Nat /\ EndOf(f, o[p]) >= MetaLen
      <3>1. Stored(f, o[p], RecordAt(f, o[p])) /\ RecordAt(f, o[p]) \in Record
        BY <2>5, ReadableIsStored
      <3>2. EndOf(f, o[p]) = o[p] + Space(RecordAt(f, o[p]))
        BY <2>5, <3>1, StoredIsReadable
      <3>3. Space(RecordAt(f, o[p])) \in Nat
        BY <3>1, Numbers
      <3> QED
        BY <1>4, <2>5, <3>2, <3>3
    <2>7. o[k] = WrapHead(m, EndOf(f, o[p]))
      BY <1>6, <2>4
    <2>8. o[k] \in Nat /\ o[k] >= MetaLen
      BY <1>4, <2>6, <2>7 DEF WrapHead
    <2> QED
      BY <2>2, <2>8
  <1>8. \A k \in 1 .. n : /\ RecordAt(f, o[k]) \in Record
                          /\ Stored(f, o[k], RecordAt(f, o[k]))
                          /\ EndOf(f, o[k]) = o[k] + Space(RecordAt(f, o[k]))
    BY <1>2, <1>7, ReadableIsStored, StoredIsReadable
  <1>9. /\ q \in Seq(Record) /\ Len(q) = n /\ a \in Seq(Nat) /\ Len(a) = n
        /\ \A k \in 1 .. n : q[k] = RecordAt(f, o[k]) /\ a[k] = o[k]
    BY <1>4, <1>7, <1>8, SMTT(30)
  <1> HIDE DEF q, a
  <1>10. \A k \in 1 .. n : Between(m, a[k], a[k] + Space(q[k]))
    BY <1>2, <1>8, <1>9
  <1>11. \A k \in 1 .. n : a[k] + Space(q[k]) = m.next <=> k = n
    BY <1>2, <1>8, <1>9
  <1>12. \A k \in 1 .. n - 1 : a[k + 1] = WrapHead(m, a[k] + Space(q[k]))
    <2> TAKE k \in 1 .. n - 1
    <2>1. k \in 1 .. n /\ k + 1 \in 1 .. n
      BY <1>4
    <2> QED
      BY <1>6, <1>8, <1>9, <2>1
  <1>13. a[1] = m.head
    BY <1>4, <1>5, <1>9
  <1>14. Chain(m, q, a)
    <2> HIDE DEF n
    <2> QED
      BY <1>4, <1>9, <1>10, <1>11, <1>12, <1>13, ChainIs
  <1>15. StoredAll(f, q, a)
    BY <1>8, <1>9 DEF StoredAll
  <1> QED
    BY <1>1, <1>9, <1>14, <1>15
-----------------------------------------------------------------------------
(***************************************************************************)
(* Where the record of a put lands, by the branch that put it there: the   *)
(* metadata afterwards, and the place of the record.                       *)
(***************************************************************************)
Lay(branch, m, s) ==
  IF branch = "empty" THEN Wrote(m, 1, m.next + s, m.next + s)
  ELSE IF branch = "wrap"
       THEN [head |-> IF m.head >= m.next THEN MetaLen ELSE m.head,
             next |-> MetaLen + s, nomanland |-> m.next,
             blockCnt |-> (m.blockCnt + 1) % Word]
       ELSE Wrote(m, (m.blockCnt + 1) % Word, m.next + s,
                  IF m.next + s > m.head THEN m.next + s ELSE m.nomanland)

PlaceOf(branch, m) == IF branch = "wrap" THEN MetaLen ELSE m.next

(* What the metadata of a buffer whose blockCnt is right looks like.       *)
(* nomanland lies at or behind next unless next wraps around; only a lone  *)
(* record longer than the lap before it may reach past nomanland.          *)
Sound(m) ==
  /\ m.head >= MetaLen /\ m.next >= MetaLen /\ m.nomanland >= MetaLen
  /\ m.next <= SizeLimit /\ m.nomanland <= SizeLimit
  /\ m.blockCnt = 0 => m = Reset
  /\ m.blockCnt > 0 => MetaLen < m.next /\ m.head < m.nomanland
  /\ m.head < m.next => m.next <= m.nomanland \/ (m.blockCnt = 1 /\ m.head = MetaLen)

Clear(K, b, at, s) ==
  \A k \in 1 .. Len(K) : b[k] + Space(K[k]) <= at \/ at + s <= b[k]

(* The record r follows the records K, and takes none of their space.      *)
Lands(branch, m, K, b, r) ==
  /\ Clear(K, b, PlaceOf(branch, m), Space(r))
  /\ Chain(Lay(branch, m, Space(r)), Append(K, r), Append(b, PlaceOf(branch, m)))

Counted(branch, m, K, r) ==
  /\ Sound(Lay(branch, m, Space(r)))
  /\ Lay(branch, m, Space(r)).blockCnt = Len(K) + 1

Miscounted(branch, m, K, r) ==
  LET w == Lay(branch, m, Space(r))
  IN  w.blockCnt # Len(K) + 1 /\ w.head # w.next

LEMMA LayIs ==
  ASSUME NEW m \in Meta, NEW s \in Nat, NEW branch
  PROVE  LET w == Lay(branch, m, s)
         IN  /\ branch = "empty" =>
                  /\ w.head = m.head /\ w.next = m.next + s
                  /\ w.nomanland = m.next + s /\ w.blockCnt = 1
             /\ branch = "wrap" =>
                  /\ w.head = (IF m.head >= m.next THEN MetaLen ELSE m.head)
                  /\ w.next = MetaLen + s /\ w.nomanland = m.next
                  /\ w.blockCnt = (m.blockCnt + 1) % Word
             /\ branch \notin {"empty", "wrap"} =>
                  /\ w.head = m.head /\ w.next = m.next + s
                  /\ w.nomanland = (IF m.next + s > m.head THEN m.next + s ELSE m.nomanland)
                  /\ w.blockCnt = (m.blockCnt + 1) % Word
  BY DEF Lay, Wrote, Meta

LEMMA CountMod ==
  ASSUME NEW n \in Nat, n <= SizeLimit
  PROVE  n % Word = n
  BY Numbers

(* At next, with the file free from there on.                              *)
LEMMA LandStraight ==
  ASSUME NEW m \in Meta, NEW K, NEW b, NEW r \in Record,
         NEW branch, branch \notin {"empty", "wrap"},
         Chain(m, K, b), MetaLen < m.next, m.head < m.next, m.blockCnt = Len(K),
         m.next + Space(r) <= SizeLimit
  PROVE  Lands(branch, m, K, b, r) /\ Counted(branch, m, K, r)
  <1> DEFINE w == Lay(branch, m, Space(r))
             s == Space(r)
  <1>1. /\ s \in Nat /\ s >= 2 /\ MetaLen \in Nat /\ SizeLimit \in Nat
        /\ m.head \in Nat /\ m.next \in Nat /\ m.head >= MetaLen /\ m.blockCnt \in Nat
    BY Numbers, MetaFields DEF Heads, Counts
  <1>2. /\ w.head = m.head /\ w.next = m.next + s
        /\ w.nomanland = (IF m.next + s > m.head THEN m.next + s ELSE m.nomanland)
        /\ w.blockCnt = (m.blockCnt + 1) % Word
    BY <1>1, LayIs
  <1>3. PlaceOf(branch, m) = m.next
    BY DEF PlaceOf
  <1>4. Offset(m)
    BY <1>1, MetaFields DEF Offset
  <1> HIDE DEF w, s
  <1>5. w.nomanland = m.next + s /\ m.next + s <= SizeLimit
    BY <1>1, <1>2 DEF s
  <1>6. Offset(w)
    BY <1>1, <1>2, <1>5 DEF Offset
  <1>7. Chain(w, Append(K, r), Append(b, m.next))
    BY <1>1, <1>2, <1>4, AppendStraight DEF s
  <1>8. K \in Seq(Record) /\ Len(K) \in Nat /\ Len(Append(K, r)) = Len(K) + 1
    BY DEF Chain
  <1>9. Len(K) + 1 <= SizeLimit - MetaLen
    <2>1. w.next <= SizeLimit /\ w.nomanland <= SizeLimit /\ w.head < w.next
      BY <1>1, <1>2, <1>5
    <2>2. Len(Append(K, r)) <= SizeLimit - MetaLen
      BY <1>6, <1>7, <2>1, ChainBound
    <2> QED
      BY <1>8, <2>2
  <1>10. w.blockCnt = Len(K) + 1
    <2>1. Len(K) + 1 <= SizeLimit /\ Len(K) + 1 \in Nat
      BY <1>1, <1>8, <1>9
    <2> QED
      BY <1>2, <2>1, CountMod
  <1>11. Clear(K, b, m.next, s)
    BY <1>1, <1>4, ChainFacts DEF Clear
  <1>12. Sound(w)
    BY <1>1, <1>2, <1>5, <1>8, <1>10 DEF Sound
  <1> QED
    BY <1>3, <1>7, <1>10, <1>11, <1>12 DEF Lands, Counted, w, s

(* At next, in the gap before head.                                        *)
LEMMA LandInGap ==
  ASSUME NEW m \in Meta, NEW K, NEW b, NEW r \in Record,
         NEW branch, branch \notin {"empty", "wrap"},
         Chain(m, K, b), MetaLen < m.next, m.next + Space(r) <= m.head,
         m.head < m.nomanland, m.nomanland <= SizeLimit, m.blockCnt = Len(K)
  PROVE  Lands(branch, m, K, b, r) /\ Counted(branch, m, K, r)
  <1> DEFINE w == Lay(branch, m, Space(r))
             s == Space(r)
  <1>1. /\ s \in Nat /\ s >= 2 /\ MetaLen \in Nat /\ SizeLimit \in Nat
        /\ m.head \in Nat /\ m.next \in Nat /\ m.nomanland \in Nat
        /\ m.head >= MetaLen /\ m.blockCnt \in Nat
    BY Numbers, MetaFields DEF Heads, Counts
  <1>2. /\ w.head = m.head /\ w.next = m.next + s
        /\ w.nomanland = (IF m.next + s > m.head THEN m.next + s ELSE m.nomanland)
        /\ w.blockCnt = (m.blockCnt + 1) % Word
    BY <1>1, LayIs
  <1>3. PlaceOf(branch, m) = m.next
    BY DEF PlaceOf
  <1>4. Offset(m)
    BY <1>1, MetaFields DEF Offset
  <1> HIDE DEF w, s
  <1>5. w.nomanland = m.nomanland /\ m.next + s <= m.head /\ m.next <= m.head
    BY <1>1, <1>2 DEF s
  <1>6. Offset(w)
    BY <1>1, <1>2, <1>5 DEF Offset
  <1>7. Chain(w, Append(K, r), Append(b, m.next))
    BY <1>1, <1>2, <1>4, <1>5, AppendWrapped DEF s
  <1>8. K \in Seq(Record) /\ Len(K) \in Nat /\ Len(Append(K, r)) = Len(K) + 1
    BY DEF Chain
  <1>9. Len(K) + 1 <= SizeLimit - MetaLen
    <2>1. w.next <= SizeLimit /\ w.nomanland <= SizeLimit /\ w.head < w.nomanland
      BY <1>1, <1>2, <1>5
    <2>2. Len(Append(K, r)) <= SizeLimit - MetaLen
      BY <1>6, <1>7, <2>1, ChainBound
    <2> QED
      BY <1>8, <2>2
  <1>10. w.blockCnt = Len(K) + 1
    <2>1. Len(K) + 1 <= SizeLimit /\ Len(K) + 1 \in Nat
      BY <1>1, <1>8, <1>9
    <2> QED
      BY <1>2, <2>1, CountMod
  <1>11. Clear(K, b, m.next, s)
    <2>1. \A k \in 1 .. Len(K) :
            /\ b[k] \in Nat /\ Space(K[k]) \in Nat
            /\ m.head <= b[k] \/ b[k] + Space(K[k]) <= m.next
      BY <1>4, <1>5, ChainFacts
    <2> QED
      BY <1>1, <1>5, <2>1 DEF Clear
  <1>12. Sound(w)
    BY <1>1, <1>2, <1>5, <1>8, <1>10 DEF Sound
  <1> QED
    BY <1>3, <1>7, <1>10, <1>11, <1>12 DEF Lands, Counted, w, s

(* At the beginning of the file, before the records that are left.         *)
LEMMA LandOver ==
  ASSUME NEW m \in Meta, NEW K, NEW b, NEW r \in Record,
         NEW branch, branch = "wrap",
         Chain(m, K, b), MetaLen < m.next, m.head < m.next, m.next <= SizeLimit,
         MetaLen + Space(r) <= m.head, m.blockCnt = Len(K)
  PROVE  Lands(branch, m, K, b, r) /\ Counted(branch, m, K, r)
  <1> DEFINE w == Lay(branch, m, Space(r))
             s == Space(r)
  <1>1. /\ s \in Nat /\ s >= 2 /\ MetaLen \in Nat /\ SizeLimit \in Nat
        /\ m.head \in Nat /\ m.next \in Nat /\ m.nomanland \in Nat
        /\ m.head >= MetaLen /\ m.blockCnt \in Nat
    BY Numbers, MetaFields DEF Heads, Counts
  <1>2. /\ w.head = (IF m.head >= m.next THEN MetaLen ELSE m.head)
        /\ w.next = MetaLen + s /\ w.nomanland = m.next
        /\ w.blockCnt = (m.blockCnt + 1) % Word
    BY <1>1, LayIs
  <1>3. PlaceOf(branch, m) = MetaLen
    BY DEF PlaceOf
  <1>4. Offset(m)
    BY <1>1, MetaFields DEF Offset
  <1> HIDE DEF w, s
  <1>5. w.head = m.head /\ MetaLen + s <= m.head
    BY <1>1, <1>2 DEF s
  <1>6. Offset(w)
    BY <1>1, <1>2, <1>5 DEF Offset
  <1>7. Chain(w, Append(K, r), Append(b, MetaLen))
    BY <1>1, <1>2, <1>4, <1>5, AppendOver DEF s
  <1>8. K \in Seq(Record) /\ Len(K) \in Nat /\ Len(Append(K, r)) = Len(K) + 1
    BY DEF Chain
  <1>9. Len(K) + 1 <= SizeLimit - MetaLen
    <2>1. w.next <= SizeLimit /\ w.nomanland <= SizeLimit /\ w.head < w.nomanland
      BY <1>1, <1>2, <1>5
    <2>2. Len(Append(K, r)) <= SizeLimit - MetaLen
      BY <1>6, <1>7, <2>1, ChainBound
    <2> QED
      BY <1>8, <2>2
  <1>10. w.blockCnt = Len(K) + 1
    <2>1. Len(K) + 1 <= SizeLimit /\ Len(K) + 1 \in Nat
      BY <1>1, <1>8, <1>9
    <2> QED
      BY <1>2, <2>1, CountMod
  <1>11. Clear(K, b, MetaLen, s)
    <2>1. \A k \in 1 .. Len(K) : b[k] \in Nat /\ m.head <= b[k]
      BY <1>4, ChainFacts
    <2> QED
      BY <1>1, <1>5, <2>1 DEF Clear
  <1>12. Sound(w)
    BY <1>1, <1>2, <1>5, <1>8, <1>10 DEF Sound
  <1> QED
    BY <1>3, <1>7, <1>10, <1>11, <1>12 DEF Lands, Counted, w, s

(* The only record, at the beginning of the file.                          *)
LEMMA LandAlone ==
  ASSUME NEW m \in Meta, NEW r \in Record, NEW branch,
         MetaLen + Space(r) <= SizeLimit,
         \/ branch = "wrap" /\ MetaLen < m.next /\ m.next <= SizeLimit /\ m.next <= m.head
         \/ branch \in {"empty", "reset"} /\ m.head = MetaLen /\ m.next = MetaLen
  PROVE  /\ Lands(branch, m, << >>, << >>, r)
         /\ m.blockCnt = 0 => Counted(branch, m, << >>, r)
         /\ branch = "wrap" /\ (m.blockCnt + 1) % Word # 1 =>
              Miscounted(branch, m, << >>, r)
  <1> DEFINE w == Lay(branch, m, Space(r))
             s == Space(r)
  <1>1. /\ s \in Nat /\ s >= 2 /\ MetaLen \in Nat /\ SizeLimit \in Nat
        /\ m.head \in Nat /\ m.next \in Nat /\ m.nomanland \in Nat
        /\ m.head >= MetaLen /\ m.blockCnt \in Nat
    BY Numbers, MetaFields DEF Heads, Counts
  <1>2. /\ w.head = MetaLen /\ w.next = MetaLen + s
        /\ w.nomanland = m.next \/ w.nomanland = MetaLen + s
        /\ branch = "wrap" => w.nomanland = m.next
        /\ branch # "wrap" => w.nomanland = MetaLen + s
        /\ w.blockCnt = (m.blockCnt + 1) % Word \/ (branch = "empty" /\ w.blockCnt = 1)
    BY <1>1, LayIs
  <1>3. PlaceOf(branch, m) = MetaLen
    BY DEF PlaceOf
  <1>4. 1 % Word = 1
    BY Numbers
  <1> HIDE DEF w, s
  <1>5. Chain(w, <<r>>, <<MetaLen>>)
    BY <1>1, <1>2, OneRecord DEF s
  <1>6. Append(<< >>, r) = <<r>> /\ Append(<< >>, MetaLen) = <<MetaLen>> /\ Len(<< >>) = 0
    OBVIOUS
  <1>7. Clear(<< >>, << >>, MetaLen, s)
    BY DEF Clear
  <1>8. Lands(branch, m, << >>, << >>, r)
    BY <1>3, <1>5, <1>6, <1>7, Zenon DEF Lands, w, s
  <1>9. ASSUME m.blockCnt = 0 PROVE w.blockCnt = 1 /\ Sound(w)
    <2>1. w.blockCnt = 1
      <3>1. m.blockCnt + 1 = 1
        BY <1>9
      <3> QED
        BY <1>2, <1>4, <3>1
    <2>2. MetaLen + s <= SizeLimit
      BY DEF s
    <2> QED
      BY <1>1, <1>2, <2>1, <2>2 DEF Sound
  <1>10. w.head # w.next
    BY <1>1, <1>2
  <1> QED
    BY <1>2, <1>6, <1>8, <1>9, <1>10 DEF Counted, Miscounted, w, s

(* At next, after putRingBuFiRecord erased records at the front: blockCnt  *)
(* still counts those it forgot.                                           *)
LEMMA LandBehindFront ==
  ASSUME NEW m \in Meta, NEW K \in Seq(Record), NEW b, NEW r \in Record,
         MetaLen < m.next, m.blockCnt > Len(K),
         (Chain(m, K, b) /\ m.head < m.next)
         \/ (K = << >> /\ b = << >> /\ m.head = m.next)
  PROVE  Lands("front", m, K, b, r) /\ Miscounted("front", m, K, r)
  <1> DEFINE w == Lay("front", m, Space(r))
             s == Space(r)
  <1>1. /\ s \in Nat /\ s >= 2 /\ MetaLen \in Nat /\ Word \in Nat
        /\ m.head \in Nat /\ m.next \in Nat /\ m.head >= MetaLen
        /\ m.blockCnt \in 0 .. Word - 1
    BY Numbers, MetaFields DEF Heads, Counts
  <1>2. /\ w.head = m.head /\ w.next = m.next + s
        /\ w.blockCnt = (m.blockCnt + 1) % Word
    BY <1>1, LayIs, SMTT(30)
  <1>3. PlaceOf("front", m) = m.next
    BY DEF PlaceOf
  <1> HIDE DEF w, s
  <1>4. w.blockCnt # Len(K) + 1
    <2>1. Len(K) \in Nat
      OBVIOUS
    <2>2. CASE m.blockCnt + 1 < Word
      <3>1. (m.blockCnt + 1) % Word = m.blockCnt + 1
        BY <1>1, <2>2
      <3> QED
        BY <1>1, <1>2, <2>1, <3>1
    <2>3. CASE ~(m.blockCnt + 1 < Word)
      <3>1. m.blockCnt + 1 = Word
        BY <1>1, <2>3
      <3>2. Word % Word = 0
        BY <1>1
      <3> QED
        BY <1>2, <2>1, <3>1, <3>2
    <2> QED
      BY <2>2, <2>3
  <1>5. w.head # w.next
    <2>1. m.head <= m.next
      BY <1>1, <1>2, ChainFacts
    <2> QED
      BY <1>1, <1>2, <2>1
  <1>6. CASE Chain(m, K, b) /\ m.head < m.next
    <2>1. Offset(m)
      BY <1>1, MetaFields DEF Offset
    <2>2. Chain(w, Append(K, r), Append(b, m.next))
      BY <1>1, <1>2, <1>6, <2>1, AppendStraight DEF s
    <2>3. Clear(K, b, m.next, s)
      BY <1>1, <1>6, <2>1, ChainFacts DEF Clear
    <2> QED
      BY <1>3, <1>4, <1>5, <2>2, <2>3 DEF Lands, Miscounted, w, s
  <1>7. CASE K = << >> /\ b = << >> /\ m.head = m.next
    <2>1. Append(K, r) = <<r>> /\ Append(b, m.next) = <<m.next>>
      BY <1>7
    <2>2. Chain(w, <<r>>, <<m.next>>)
      BY <1>1, <1>2, <1>7, OneRecord DEF s
    <2>3. Clear(K, b, m.next, s)
      BY <1>7 DEF Clear
    <2> QED
      BY <1>3, <1>4, <1>5, <2>1, <2>2, <2>3, Zenon DEF Lands, Miscounted, w, s
  <1> QED
    BY <1>6, <1>7
-----------------------------------------------------------------------------
(***************************************************************************)
(* The invariant for records of any lengths.                               *)
(***************************************************************************)
InFile(f, m, q) ==
  /\ m.blockCnt = Len(q)
  /\ q = << >> \/ \E a : Chain(m, q, a) /\ StoredAll(f, q, a)

(* Records of the cache that the operation has not erased.                 *)
Kept(K, b) ==
  /\ K \in Seq(Record) /\ b \in Seq(Nat) /\ Len(b) = Len(K)
  /\ IsSuffix(K, view.recs)
  /\ StoredAll(file, K, b)

(* The loop of eraseEnoughSpaceOrEof, by the branch that runs it.  If      *)
(* nomanland is left over from a longer lap the loop may run past next.    *)
ErasesForWrap(K, b) ==
  /\ op.branch = "wrap"
  /\ op.freed = meta.head - MetaLen /\ op.need = Space(op.rec)
  /\ \/ /\ Chain(meta, K, b) /\ meta.blockCnt = Len(K)
        /\ meta.head < meta.next /\ meta.head < meta.nomanland
        /\ meta.next <= meta.nomanland \/ Len(K) = 1
     \/ K = << >> /\ meta.blockCnt = 0 /\ meta.head = meta.next
     \/ /\ K = << >> /\ StaleEnd /\ meta.head > meta.next
        /\ \E k \in 1 .. meta.nomanland - meta.next :
             k <= meta.head - meta.next /\ meta.blockCnt = Word - k

ErasesToEnd(K, b) ==
  /\ \/ /\ op.branch = "reuse" /\ meta.next + Space(op.rec) <= meta.nomanland
        /\ op.freed = meta.head - meta.next /\ op.need = Space(op.rec)
     \/ /\ op.branch = "tail" /\ meta.next + Space(op.rec) <= SizeLimit
        /\ op.freed \in Nat /\ op.freed <= meta.head - MetaLen /\ op.need = SizeLimit
  /\ meta.blockCnt = Len(K)
  /\ \/ Chain(meta, K, b) /\ meta.next <= meta.head /\ meta.head < meta.nomanland
     \/ Chain(Moved(meta, MetaLen), K, b) /\ meta.nomanland <= meta.head

ErasesFront(K, b) ==
  /\ op.branch = "front"
  /\ meta.nomanland = meta.next /\ meta.blockCnt > Len(K)
  /\ \/ Chain(meta, K, b) /\ meta.head < meta.next
     \/ K = << >> /\ meta.head = meta.next

Erasing ==
  /\ op.step = "erase"
  /\ MetaLen < meta.next /\ meta.next <= SizeLimit /\ meta.nomanland <= SizeLimit
  /\ meta.next = saved.next /\ (op.branch = "wrap" => meta.nomanland = saved.nomanland)
  /\ \E K, b :
       /\ Kept(K, b)
       /\ ErasesForWrap(K, b) \/ ErasesToEnd(K, b) \/ ErasesFront(K, b)

Exempt == op.branch = "front" \/ (op.branch = "wrap" /\ StaleEnd)

Writing ==
  /\ op.step \in {"length", "payload"}
  /\ op.branch \in Branches
  /\ op.branch = "empty" => meta.head = MetaLen /\ meta.next = MetaLen
  /\ \E K, b :
       /\ Kept(K, b)
       /\ Lands(op.branch, meta, K, b, op.rec)
       /\ \/ Counted(op.branch, meta, K, op.rec)
          \/ Exempt /\ Miscounted(op.branch, meta, K, op.rec)
  /\ op.step = "payload" =>
       Cell(file, PlaceOf(op.branch, meta)) = LenCell(RecordLen[op.rec])

Saving ==
  /\ op.step = "save" /\ op.branch \in Branches /\ op.rec \in Record
  /\ MetaLen < meta.next
  /\ op.branch = "empty" => meta.head < meta.next /\ meta.nomanland = meta.next
  /\ \E K, a :
       /\ K \in Seq(Record) /\ IsSuffix(K, view.recs)
       /\ Chain(meta, Append(K, op.rec), a)
       /\ StoredAll(file, Append(K, op.rec), a)
       /\ \/ Sound(meta) /\ meta.blockCnt = Len(K) + 1
          \/ Exempt /\ meta.blockCnt # Len(K) + 1 /\ meta.head # meta.next

Popping ==
  /\ op.step = "save" /\ op.branch = "pop" /\ view.recs # << >>
  /\ Sound(meta) /\ InFile(file, meta, Tail(view.recs))

Resting ==
  /\ op = Idle /\ meta = saved /\ InFile(file, meta, view.recs)

Cached ==
  /\ Slots # 0
  /\ view.recs \in Seq(Record) /\ saved.blockCnt = Len(view.recs)
  /\ Sound(saved)

(* Until it is broken, the cache of the idle buffer is in the file.        *)
MixedInv ==
  view # Broken => Cached /\ (Resting \/ Popping \/ Erasing \/ Writing \/ Saving)

LEMMA Suffixes ==
  ASSUME NEW q \in Seq(Record)
  PROVE  /\ IsSuffix(q, q)
         /\ << >> \in Seq(Record) /\ IsSuffix(<< >>, q)
         /\ \A i \in 0 .. Len(q) : IsSuffix(SubSeq(q, i + 1, Len(q)), q)
         /\ \A K \in Seq(Record) :
              IsSuffix(K, q) /\ Len(K) > 0 => IsSuffix(Tail(K), q)
  <1>1. Len(q) \in Nat
    OBVIOUS
  <1>2. \A i \in 0 .. Len(q) : IsSuffix(SubSeq(q, i + 1, Len(q)), q)
    BY DEF IsSuffix
  <1>3. IsSuffix(q, q)
    <2>1. SubSeq(q, 0 + 1, Len(q)) = q
      BY <1>1
    <2>2. 0 \in 0 .. Len(q)
      BY <1>1
    <2> QED
      BY <2>1, <2>2 DEF IsSuffix
  <1>4. IsSuffix(<< >>, q)
    <2>1. SubSeq(q, Len(q) + 1, Len(q)) = << >>
      BY <1>1
    <2>2. Len(q) \in 0 .. Len(q)
      BY <1>1
    <2> QED
      BY <2>1, <2>2, Zenon DEF IsSuffix
  <1>5. ASSUME NEW K \in Seq(Record), IsSuffix(K, q), Len(K) > 0
        PROVE  IsSuffix(Tail(K), q)
    <2>1. PICK i \in 0 .. Len(q) : K = SubSeq(q, i + 1, Len(q))
      BY <1>5 DEF IsSuffix
    <2>2. Len(K) = Len(q) - i /\ \A k \in 1 .. Len(q) - i : K[k] = q[i + k]
      BY <2>1, SuffixOf
    <2>3. i + 1 \in 0 .. Len(q)
      BY <1>1, <1>5, <2>2
    <2> DEFINE t == SubSeq(q, (i + 1) + 1, Len(q))
    <2>4. /\ t \in Seq(Record) /\ Len(t) = Len(q) - (i + 1)
          /\ \A k \in 1 .. Len(q) - (i + 1) : t[k] = q[(i + 1) + k]
      BY <2>3, SuffixOf
    <2>5. /\ Tail(K) \in Seq(Record) /\ Len(Tail(K)) = Len(K) - 1
          /\ \A k \in 1 .. Len(K) - 1 : Tail(K)[k] = K[k + 1]
      BY <1>5
    <2>6. Len(t) = Len(Tail(K)) /\ \A k \in 1 .. Len(t) : t[k] = Tail(K)[k]
      <3> HIDE DEF t
      <3>1. Len(t) = Len(Tail(K))
        BY <1>1, <2>2, <2>4, <2>5
      <3>2. ASSUME NEW k \in 1 .. Len(t) PROVE t[k] = Tail(K)[k]
        <4>1. k + 1 \in 1 .. Len(q) - i /\ k \in 1 .. Len(q) - (i + 1) /\ k \in 1 .. Len(K) - 1
          BY <1>1, <2>2, <2>4, <3>2
        <4>2. K[k + 1] = q[i + (k + 1)] /\ t[k] = q[(i + 1) + k] /\ Tail(K)[k] = K[k + 1]
          BY <2>2, <2>4, <2>5, <4>1
        <4>3. i + (k + 1) = (i + 1) + k
          BY <4>1
        <4> QED
          BY <4>2, <4>3
      <3> QED
        BY <3>1, <3>2
    <2> HIDE DEF t
    <2>7. t = Tail(K)
      BY <2>4, <2>5, <2>6, SeqEqual
    <2> QED
      BY <2>3, <2>7 DEF IsSuffix, t
  <1> QED
    BY <1>2, <1>3, <1>4, <1>5

(* Every record of a chain begins behind the metadata.                     *)
LEMMA ChainAbove ==
  ASSUME NEW m, NEW q, NEW a, Offset(m), Chain(m, q, a)
  PROVE  \A k \in 1 .. Len(q) : a[k] >= MetaLen
  <1> DEFINE n == Len(q)
             Bad == {k \in 1 .. n : ~(a[k] >= MetaLen)}
  <1>1. /\ n \in Nat /\ a[1] = m.head /\ m.head >= MetaLen /\ MetaLen \in Nat
        /\ \A k \in 1 .. n : a[k] \in Nat /\ Space(q[k]) \in Nat /\ q[k] \in Record
        /\ \A k \in 1 .. n - 1 : a[k + 1] = WrapHead(m, a[k] + Space(q[k]))
    BY ChainFacts, Numbers DEF Offset
  <1> HIDE DEF n
  <1> SUFFICES ASSUME Bad # {} PROVE FALSE
    BY DEF n
  <1>2. PICK k \in Bad : \A j \in Bad : k <= j
    <2>1. Bad \in SUBSET Nat
      BY <1>1
    <2> HIDE DEF Bad
    <2> QED
      BY <2>1, Least
  <1>3. k \in 1 .. n /\ ~(a[k] >= MetaLen) /\ k # 1
    BY <1>1, <1>2
  <1>4. PICK p \in Nat : p = k - 1
    BY <1>3
  <1>5. p \in 1 .. n - 1 /\ p \in 1 .. n /\ p + 1 = k /\ ~(p \in Bad)
    BY <1>1, <1>2, <1>3, <1>4
  <1>6. a[p] >= MetaLen /\ a[p] \in Nat /\ Space(q[p]) \in Nat
        /\ a[k] = WrapHead(m, a[p] + Space(q[p]))
    BY <1>1, <1>5
  <1> QED
    BY <1>1, <1>3, <1>6 DEF WrapHead

LEMMA KeptIsSeq ==
  ASSUME NEW K, NEW b, Kept(K, b)
  PROVE  K \in Seq(Record) /\ b \in Seq(Nat) /\ Len(b) = Len(K) /\ Len(K) \in Nat
  BY DEF Kept

(* Forgetting the oldest of the records kept.                              *)
LEMMA KeepFewer ==
  ASSUME NEW K, NEW b, Kept(K, b), Len(K) > 0, view.recs \in Seq(Record)
  PROVE  Kept(Tail(K), Tail(b))
  <1>1. /\ K \in Seq(Record) /\ b \in Seq(Nat) /\ Len(b) = Len(K) /\ Len(K) \in Nat
        /\ IsSuffix(K, view.recs) /\ StoredAll(file, K, b)
    BY DEF Kept
  <1>2. /\ Tail(K) \in Seq(Record) /\ Len(Tail(K)) = Len(K) - 1
        /\ Tail(b) \in Seq(Nat) /\ Len(Tail(b)) = Len(K) - 1
        /\ \A k \in 1 .. Len(K) - 1 : Tail(K)[k] = K[k + 1] /\ Tail(b)[k] = b[k + 1]
    BY <1>1
  <1>3. IsSuffix(Tail(K), view.recs)
    BY <1>1, Suffixes
  <1>4. StoredAll(file, Tail(K), Tail(b))
    <2>1. \A k \in 1 .. Len(K) : Stored(file, b[k], K[k])
      BY <1>1 DEF StoredAll
    <2>2. \A k \in 1 .. Len(K) - 1 : Stored(file, Tail(b)[k], Tail(K)[k])
      <3> TAKE k \in 1 .. Len(K) - 1
      <3>1. k + 1 \in 1 .. Len(K)
        BY <1>1
      <3>2. Stored(file, b[k + 1], K[k + 1])
        BY <2>1, <3>1
      <3> QED
        BY <1>2, <3>2
    <2> QED
      BY <1>2, <2>2 DEF StoredAll
  <1> QED
    BY <1>2, <1>3, <1>4 DEF Kept

LEMMA KeepNone ==
  ASSUME view.recs \in Seq(Record)
  PROVE  Kept(<< >>, << >>)
  <1>1. << >> \in Seq(Nat) /\ << >> \in Seq(Record) /\ Len(<< >>) = 0
    OBVIOUS
  <1>2. StoredAll(file, << >>, << >>)
    BY DEF StoredAll
  <1> QED
    BY <1>1, <1>2, Suffixes DEF Kept
-----------------------------------------------------------------------------
(* How a put begins.                                                       *)
LEMMA KeptStays ==
  ASSUME NEW K, NEW b, Kept(K, b), view' = view, file' = file
  PROVE  Kept(K, b)'
  BY DEF Kept

LEMMA StartIs ==
  ASSUME NEW r \in Record, NEW branch, NEW step, NEW freed, NEW need,
         Start(r, branch, step, freed, need)
  PROVE  /\ op'.step = step /\ op'.branch = branch /\ op'.rec = r
         /\ op'.freed = freed /\ op'.need = need
         /\ saved' = saved /\ file' = file /\ view' = view /\ crashes' = crashes
         /\ op.step = "idle" /\ MetaLen + Space(r) <= SizeLimit
  <1>1. /\ op' = [step |-> step, branch |-> branch, rec |-> r, freed |-> freed,
                  need |-> need]
        /\ saved' = saved /\ file' = file /\ crashes' = crashes /\ view' = view
        /\ Fits(r) /\ op.step = "idle"
    BY DEF Start
  <1> QED
    BY <1>1, FitsInFile

LEMMA AtRest ==
  ASSUME Typed, MixedInv, view # Broken, op.step = "idle"
  PROVE  /\ meta = saved /\ Sound(meta) /\ meta \in Meta
         /\ view.recs \in Seq(Record) /\ meta.blockCnt = Len(view.recs)
         /\ meta.blockCnt > 0 =>
              /\ Offset(meta)
              /\ \E a : Kept(view.recs, a) /\ Chain(meta, view.recs, a)
  <1> DEFINE q == view.recs
  <1>1. Cached /\ Resting
    BY DEF MixedInv, Popping, Erasing, Writing, Saving
  <1>2. /\ meta = saved /\ Sound(meta) /\ meta \in Meta /\ q \in Seq(Record)
        /\ meta.blockCnt = Len(q) /\ InFile(file, meta, q)
    BY <1>1 DEF Cached, Resting, Typed
  <1>3. ASSUME meta.blockCnt > 0
        PROVE  Offset(meta) /\ \E a : Kept(q, a) /\ Chain(meta, q, a)
    <2>1. Offset(meta)
      BY <1>2, <1>3, MetaFields DEF Offset, Sound
    <2>2. q # << >>
      BY <1>2, <1>3
    <2>3. PICK a : Chain(meta, q, a) /\ StoredAll(file, q, a)
      BY <1>2, <2>2 DEF InFile
    <2>4. a \in Seq(Nat) /\ Len(a) = Len(q)
      BY <2>3 DEF Chain
    <2>5. Kept(q, a)
      BY <1>2, <2>3, <2>4, Suffixes DEF Kept
    <2> QED
      BY <2>1, <2>3, <2>5
  <1> QED
    BY <1>2, <1>3

LEMMA BeginsWriting ==
  ASSUME NEW r \in Record, NEW branch \in Branches, Start(r, branch, "length", 0, 0),
         NEW K, NEW b, Kept(K, b),
         branch = "empty" => meta'.head = MetaLen /\ meta'.next = MetaLen,
         Lands(branch, meta', K, b, r), Counted(branch, meta', K, r)
  PROVE  Writing'
  <1>1. /\ op'.step = "length" /\ op'.branch = branch /\ op'.rec = r
        /\ view' = view /\ file' = file
    BY StartIs
  <1>2. Kept(K, b)'
    BY <1>1, KeptStays
  <1>3. Lands(op'.branch, meta', K, b, op'.rec) /\ Counted(op'.branch, meta', K, op'.rec)
    BY <1>1
  <1> QED
    BY <1>1, <1>2, <1>3 DEF Writing

LEMMA PutWrites ==
  ASSUME Typed, Typed', MixedInv, view # Broken, NEW r \in Record,
         PutEmpty(r) \/ PutAppend(r) \/ PutGap(r) \/ PutReset(r)
  PROVE  Writing'
  <1>1. op.step = "idle"
    BY DEF PutEmpty, PutAppend, PutGap, PutReset, Start
  <1>2. /\ meta \in Meta /\ Sound(meta) /\ view.recs \in Seq(Record)
        /\ meta.blockCnt = Len(view.recs) /\ meta' \in Meta
        /\ MetaLen \in Nat /\ Space(r) \in Nat /\ SizeLimit \in Nat
        /\ meta.head \in Nat /\ meta.next \in Nat /\ meta.nomanland \in Nat
        /\ meta.blockCnt \in Nat
    BY <1>1, AtRest, Numbers, MetaFields DEF Typed, Counts
  <1>3. CASE PutEmpty(r)
    <2>1. /\ meta' = Begun(meta, MetaLen, MetaLen) /\ meta.blockCnt = 0
          /\ Start(r, "empty", "length", 0, 0)
      BY <1>3, Zenon DEF PutEmpty, Begun
    <2>2. meta'.head = MetaLen /\ meta'.next = MetaLen /\ meta'.blockCnt = 0
      BY <1>2, <2>1 DEF Begun, Meta
    <2>3. MetaLen + Space(r) <= SizeLimit
      BY <2>1, StartIs
    <2>4. PICK branch : branch = "empty"
      OBVIOUS
    <2>5. Lands(branch, meta', << >>, << >>, r) /\ Counted(branch, meta', << >>, r)
      BY <1>2, <2>2, <2>3, <2>4, LandAlone
    <2>6. Kept(<< >>, << >>)
      BY <1>2, KeepNone
    <2> QED
      BY <2>1, <2>2, <2>4, <2>5, <2>6, BeginsWriting DEF Branches
  <1>4. CASE PutReset(r)
    <2>1. meta' = Reset /\ Start(r, "reset", "length", 0, 0)
      BY <1>4 DEF PutReset
    <2>2. meta'.head = MetaLen /\ meta'.next = MetaLen /\ meta'.blockCnt = 0
      BY <2>1 DEF Reset
    <2>3. MetaLen + Space(r) <= SizeLimit
      BY <2>1, StartIs
    <2>4. PICK branch : branch = "reset"
      OBVIOUS
    <2>5. Lands(branch, meta', << >>, << >>, r) /\ Counted(branch, meta', << >>, r)
      BY <1>2, <2>2, <2>3, <2>4, LandAlone
    <2>6. Kept(<< >>, << >>)
      BY <1>2, KeepNone
    <2> QED
      BY <2>1, <2>2, <2>4, <2>5, <2>6, BeginsWriting DEF Branches
  <1>5. CASE PutAppend(r)
    <2>1. /\ meta' = meta /\ meta.blockCnt > 0 /\ meta.next > meta.head /\ ~Overflows(r)
          /\ Start(r, "append", "length", 0, 0)
      BY <1>5 DEF PutAppend
    <2>2. PICK a : Kept(view.recs, a) /\ Chain(meta, view.recs, a)
      BY <1>1, <2>1, AtRest
    <2>3. meta.next + Space(r) <= SizeLimit /\ MetaLen < meta.next
      BY <1>2, <2>1 DEF Overflows, Sound
    <2>4. PICK branch : branch = "append"
      OBVIOUS
    <2>5. Lands(branch, meta, view.recs, a, r) /\ Counted(branch, meta, view.recs, r)
      BY <1>2, <2>1, <2>2, <2>3, <2>4, LandStraight
    <2> QED
      BY <2>1, <2>2, <2>4, <2>5, BeginsWriting DEF Branches
  <1>6. CASE PutGap(r)
    <2>1. /\ meta' = meta /\ Behind /\ Gap >= Space(r)
          /\ Start(r, "gap", "length", 0, 0)
      BY <1>6 DEF PutGap
    <2>2. PICK a : Kept(view.recs, a) /\ Chain(meta, view.recs, a)
      BY <1>1, <2>1, AtRest DEF Behind
    <2>3. /\ meta.next + Space(r) <= meta.head /\ MetaLen < meta.next
          /\ meta.head < meta.nomanland /\ meta.nomanland <= SizeLimit
      BY <1>2, <2>1 DEF Gap, Behind, Sound
    <2>4. PICK branch : branch = "gap"
      OBVIOUS
    <2>5. Lands(branch, meta, view.recs, a, r) /\ Counted(branch, meta, view.recs, r)
      BY <1>2, <2>2, <2>3, <2>4, LandInGap
    <2> QED
      BY <2>1, <2>2, <2>4, <2>5, BeginsWriting DEF Branches
  <1> QED
    BY <1>3, <1>4, <1>5, <1>6

LEMMA PutErases ==
  ASSUME Typed, Typed', MixedInv, view # Broken, NEW r \in Record,
         PutWrap(r) \/ PutReuse(r) \/ PutTail(r) \/ PutFront(r)
  PROVE  Erasing'
  <1>a. PICK q : q = view.recs
    OBVIOUS
  <1>b. PICK s : s = Space(r)
    OBVIOUS
  <1>1. op.step = "idle" /\ meta.blockCnt > 0
    BY DEF PutWrap, PutReuse, PutTail, PutFront, Start, Behind
  <1>2. /\ meta \in Meta /\ Sound(meta) /\ q \in Seq(Record)
        /\ meta.blockCnt = Len(q) /\ meta' \in Meta /\ meta = saved
        /\ MetaLen \in Nat /\ s \in Nat /\ SizeLimit \in Nat /\ SizeLimit < Word
        /\ meta.head \in Nat /\ meta.next \in Nat /\ meta.nomanland \in Nat
        /\ meta.blockCnt \in Nat
    BY <1>a, <1>b, <1>1, AtRest, Numbers, MetaFields DEF Typed, Counts
  <1>3. /\ MetaLen < meta.next /\ meta.next <= SizeLimit /\ meta.nomanland <= SizeLimit
        /\ meta.head < meta.nomanland /\ MetaLen <= meta.head
        /\ meta.head < meta.next => meta.next <= meta.nomanland \/ Len(q) = 1
    BY <1>1, <1>2 DEF Sound
  <1>4. PICK a : Kept(q, a) /\ Chain(meta, q, a) /\ Offset(meta)
    BY <1>a, <1>1, AtRest
  <1>5. ASSUME NEW branch, NEW freed, NEW need, Start(r, branch, "erase", freed, need),
               meta'.next = meta.next, meta'.nomanland <= SizeLimit,
               branch = "wrap" => meta' = meta,
               NEW K, NEW b, Kept(K, b),
               (ErasesForWrap(K, b) \/ ErasesToEnd(K, b) \/ ErasesFront(K, b))'
        PROVE  Erasing'
    <2>1. /\ op'.step = "erase" /\ op'.branch = branch
          /\ view' = view /\ file' = file /\ saved' = saved
      BY <1>5, StartIs
    <2>2. Kept(K, b)'
      BY <1>5, <2>1, KeptStays
    <2> QED
      BY <1>2, <1>3, <1>5, <2>1, <2>2 DEF Erasing
  <1>6. CASE PutWrap(r)
    <2>1. /\ meta' = meta /\ meta.next > meta.head
          /\ Start(r, "wrap", "erase", meta.head - MetaLen, s)
      BY <1>b, <1>6 DEF PutWrap
    <2>2. /\ op'.branch = "wrap" /\ op'.freed = meta.head - MetaLen /\ op'.need = s
          /\ op'.rec = r
      BY <2>1, StartIs
    <2>3. ErasesForWrap(q, a)'
      BY <1>b, <1>2, <1>3, <1>4, <2>1, <2>2 DEF ErasesForWrap
    <2> QED
      BY <1>3, <1>4, <1>5, <2>1, <2>3
  <1>7. CASE PutReuse(r)
    <2>1. /\ meta' = meta /\ meta.next <= meta.head /\ Minus(meta.nomanland, meta.next) >= s
          /\ Start(r, "reuse", "erase", meta.head - meta.next, s)
      BY <1>b, <1>7 DEF PutReuse, Behind, Gap
    <2>2. /\ op'.branch = "reuse" /\ op'.freed = meta.head - meta.next /\ op'.need = s
          /\ op'.rec = r
      BY <2>1, StartIs
    <2>3. meta.next + s <= meta.nomanland
      <3>1. meta.next <= meta.nomanland /\ meta.nomanland < Word
        BY <1>2, <1>3, <2>1, Numbers
      <3>2. Minus(meta.nomanland, meta.next) = meta.nomanland - meta.next
        BY <1>2, <3>1, MinusIs
      <3> QED
        BY <1>2, <2>1, <3>2
    <2>4. ErasesToEnd(q, a)'
      BY <1>b, <1>2, <1>3, <1>4, <2>1, <2>2, <2>3 DEF ErasesToEnd
    <2> QED
      BY <1>3, <1>4, <1>5, <2>1, <2>4
  <1>8. CASE PutTail(r)
    <2>1. /\ meta' = meta /\ meta.next <= meta.head /\ Minus(SizeLimit, meta.next) >= s
          /\ Start(r, "tail", "erase", 0, SizeLimit)
      BY <1>b, <1>8 DEF PutTail, Behind, Gap
    <2>2. /\ op'.branch = "tail" /\ op'.freed = 0 /\ op'.need = SizeLimit
          /\ op'.rec = r
      BY <2>1, StartIs
    <2>3. meta.next + s <= SizeLimit
      <3>1. Minus(SizeLimit, meta.next) = SizeLimit - meta.next
        BY <1>2, <1>3, <2>1, Numbers, MinusIs
      <3> QED
        BY <1>2, <2>1, <3>1
    <2>4. ErasesToEnd(q, a)'
      BY <1>b, <1>2, <1>3, <1>4, <2>1, <2>2, <2>3 DEF ErasesToEnd
    <2> QED
      BY <1>3, <1>4, <1>5, <2>1, <2>4
  <1>9. CASE PutFront(r)
    <2>1. /\ meta' = Folded(meta, meta.next, MetaLen) /\ meta.next <= meta.head
          /\ Start(r, "front", "erase", 0, s)
      BY <1>b, <1>9, Zenon DEF PutFront, Behind, Folded
    <2>2. op'.branch = "front"
      BY <2>1, StartIs
    <2>3. /\ meta'.head = MetaLen /\ meta'.next = meta.next /\ meta'.nomanland = meta.next
          /\ meta'.blockCnt = meta.blockCnt
      BY <1>2, <2>1 DEF Folded, Meta
    <2>4. PICK i \in 1 .. Len(q) - 1 :
            Chain(meta', SubSeq(q, i + 1, Len(q)), SubSeq(a, i + 1, Len(q)))
      BY <1>3, <1>4, <2>1, <2>3, FrontPart
    <2>a. PICK K : K = SubSeq(q, i + 1, Len(q))
      OBVIOUS
    <2>b. PICK b : b = SubSeq(a, i + 1, Len(q))
      OBVIOUS
    <2>5. Kept(q, a) /\ Len(q) \in Nat /\ i \in Nat /\ i \in 0 .. Len(q) /\ Len(a) = Len(q)
          /\ a \in Seq(Nat)
      BY <1>2, <1>4, KeptIsSeq
    <2>6. /\ K \in Seq(Record) /\ Len(K) = Len(q) - i
          /\ \A k \in 1 .. Len(q) - i : K[k] = q[i + k]
      BY <2>a, <1>2, <2>5, SuffixOf
    <2>7. /\ b \in Seq(Nat) /\ Len(b) = Len(q) - i
          /\ \A k \in 1 .. Len(q) - i : b[k] = a[i + k]
      <3>1. b = SubSeq(a, i + 1, Len(a)) /\ i \in 0 .. Len(a)
        BY <2>b, <2>5
      <3> QED
        BY <2>5, <3>1, SuffixOf
    <2>8. IsSuffix(K, view.recs)
      BY <1>a, <2>a, <1>2, <2>5, Suffixes
    <2>9. StoredAll(file, K, b)
      <3>1. \A k \in 1 .. Len(q) : Stored(file, a[k], q[k])
        BY <2>5 DEF Kept, StoredAll
      <3> SUFFICES ASSUME NEW k \in 1 .. Len(K) PROVE Stored(file, b[k], K[k])
        BY DEF StoredAll
      <3>2. k \in 1 .. Len(q) - i /\ i + k \in 1 .. Len(q)
        BY <2>5, <2>6
      <3>3. Stored(file, a[i + k], q[i + k])
        BY <3>1, <3>2
      <3> QED
        BY <2>6, <2>7, <3>2, <3>3
    <2>10. Kept(K, b)
      BY <2>5, <2>6, <2>7, <2>8, <2>9 DEF Kept
    <2>11. Chain(meta', K, b)
      BY <2>a, <2>b, <2>4
    <2>12. ErasesFront(K, b)'
      BY <1>2, <1>3, <2>2, <2>3, <2>5, <2>6, <2>11, SMTT(30) DEF ErasesFront
    <2> QED
      BY <1>3, <1>5, <2>1, <2>3, <2>10, <2>12
  <1> QED
    BY <1>6, <1>7, <1>8, <1>9
-----------------------------------------------------------------------------
(* How a put erases.                                                       *)
LEMMA OldestLength ==
  ASSUME NEW K, NEW b, Kept(K, b), Offset(meta), Chain(meta, K, b),
         NEW len \in LengthsAt(file, meta.head)
  PROVE  K[1] \in Record /\ len = RecordLen[K[1]] /\ 1 + len = Space(K[1])
  <1>1. 1 \in 1 .. Len(K) /\ K[1] \in Record /\ b[1] = meta.head /\ meta.head \in Nat
    BY ChainFacts DEF Offset
  <1>2. Stored(file, meta.head, K[1])
    BY <1>1 DEF Kept, StoredAll
  <1>3. LengthsAt(file, meta.head) = {RecordLen[K[1]]}
    BY <1>1, <1>2, StoredIsReadable
  <1> QED
    BY <1>1, <1>3 DEF Space

LEMMA ChainSame ==
  ASSUME NEW m, NEW w, NEW q, NEW a, Offset(m), Chain(m, q, a),
         w.head = m.head, w.next = m.next, m.head < m.next \/ w.nomanland = m.nomanland
  PROVE  Chain(w, q, a)
  <1>1. PICK n : n = Len(q)
    OBVIOUS
  <1>2. /\ q \in Seq(Record) /\ a \in Seq(Nat) /\ Len(a) = n /\ n \in Nat /\ n >= 1
        /\ a[1] = m.head
        /\ \A k \in 1 .. n : /\ a[k] \in Nat /\ Space(q[k]) \in Nat
                             /\ Between(m, a[k], a[k] + Space(q[k]))
                             /\ a[k] + Space(q[k]) = m.next <=> k = n
                             /\ m.head < m.next => a[k] + Space(q[k]) <= m.next
        /\ \A k \in 1 .. n - 1 : a[k + 1] = WrapHead(m, a[k] + Space(q[k]))
        /\ m.head \in Nat /\ m.next \in Nat
    BY <1>1, ChainFacts DEF Chain, Offset
  <1>3. \A k \in 1 .. n : Between(w, a[k], a[k] + Space(q[k]))
    BY <1>2 DEF Between
  <1>4. \A k \in 1 .. n - 1 : a[k + 1] = WrapHead(w, a[k] + Space(q[k]))
    <2> TAKE k \in 1 .. n - 1
    <2>1. k \in 1 .. n
      BY <1>2
    <2>2. a[k + 1] = WrapHead(m, a[k] + Space(q[k]))
      BY <1>2
    <2>3. CASE w.nomanland = m.nomanland
      BY <2>2, <2>3 DEF WrapHead
    <2>4. CASE m.head < m.next
      <3>1. PICK e : e = a[k] + Space(q[k])
        OBVIOUS
      <3>2. e \in Nat /\ e <= m.next
        <4>1. /\ a[k] \in Nat /\ Space(q[k]) \in Nat
              /\ m.head < m.next => a[k] + Space(q[k]) <= m.next
          BY <1>2, <2>1
        <4> QED
          BY <2>4, <3>1, <4>1
      <3>3. WrapHead(m, e) = e /\ WrapHead(w, e) = e
        BY <1>2, <3>2 DEF WrapHead
      <3> QED
        BY <2>2, <3>1, <3>3
    <2> QED
      BY <2>3, <2>4
  <1> QED
    BY <1>1, <1>2, <1>3, <1>4, ChainIs

LEMMA WhileErasing ==
  ASSUME Typed, MixedInv, view # Broken, op.step = "erase"
  PROVE  /\ Cached /\ Erasing /\ Offset(meta) /\ meta \in Meta
         /\ op.rec \in Record /\ MetaLen + Space(op.rec) <= SizeLimit
         /\ op = [step |-> op.step, branch |-> op.branch, rec |-> op.rec,
                  freed |-> op.freed, need |-> op.need]
         /\ meta.head >= MetaLen /\ meta.nomanland >= MetaLen
         /\ meta.blockCnt \in Nat /\ meta.blockCnt < Word
         /\ Space(op.rec) \in Nat
  <1>1. Cached /\ Erasing
    BY DEF MixedInv, Resting, Popping, Writing, Saving, Idle
  <1>2. /\ meta \in Meta /\ op.rec \in Record /\ MetaLen + Space(op.rec) <= SizeLimit
        /\ op = [step |-> op.step, branch |-> op.branch, rec |-> op.rec,
                 freed |-> op.freed, need |-> op.need]
    BY DEF Typed, OpTyped
  <1>3. /\ Offset(meta) /\ meta.head >= MetaLen /\ meta.nomanland >= MetaLen
        /\ meta.blockCnt \in Nat /\ meta.blockCnt < Word
    BY <1>1, <1>2, MetaFields, Numbers DEF Erasing, Offset, Heads, Ends, Counts
  <1> QED
    BY <1>1, <1>2, <1>3, Numbers

LEMMA ForgetOne ==
  ASSUME NEW n \in Nat, n < Word, n > 0
  PROVE  Minus(n, 1) = n - 1
  BY Numbers, MinusIs

LEMMA EraseOneKeeps ==
  ASSUME Typed, Typed', MixedInv, view # Broken, EraseOne
  PROVE  Erasing'
  <1>1. PICK len \in LengthsAt(file, meta.head) :
          /\ op' = [op EXCEPT !.freed = @ + 1 + len]
          /\ meta' = Forgot(meta, meta.head + 1 + len, Minus(meta.blockCnt, 1))
    BY Zenon DEF EraseOne, Forgot
  <1>2. /\ op.step = "erase" /\ op.freed < op.need /\ meta.head < meta.nomanland
        /\ saved' = saved /\ file' = file /\ view' = view
    BY DEF EraseOne, MoreToErase
  <1>3. /\ Cached /\ Erasing /\ Offset(meta) /\ meta \in Meta /\ meta.head >= MetaLen
        /\ op.rec \in Record /\ meta.blockCnt \in Nat /\ meta.blockCnt < Word
        /\ op = [step |-> op.step, branch |-> op.branch, rec |-> op.rec,
                 freed |-> op.freed, need |-> op.need]
        /\ len \in Nat /\ MetaLen \in Nat /\ Word \in Nat /\ SizeLimit \in Nat
        /\ SizeLimit < Word
        /\ meta.head \in Nat /\ meta.next \in Nat /\ meta.nomanland \in Nat
    BY <1>1, <1>2, WhileErasing, LengthsAreNat, Numbers DEF Offset
  <1>4. /\ op'.step = "erase" /\ op'.branch = op.branch /\ op'.rec = op.rec
        /\ op'.need = op.need /\ op'.freed = op.freed + 1 + len
    BY <1>1, <1>2, <1>3
  <1>5. /\ meta'.head = meta.head + 1 + len /\ meta'.next = meta.next
        /\ meta'.nomanland = meta.nomanland /\ meta'.blockCnt = Minus(meta.blockCnt, 1)
    BY <1>1, <1>3 DEF Forgot, Meta
  <1>6. PICK K, b : /\ Kept(K, b)
                    /\ ErasesForWrap(K, b) \/ ErasesToEnd(K, b) \/ ErasesFront(K, b)
    BY <1>3 DEF Erasing
  <1>7. /\ MetaLen < meta.next /\ meta.next <= SizeLimit /\ meta.nomanland <= SizeLimit
        /\ meta.next = saved.next /\ (op.branch = "wrap" => meta.nomanland = saved.nomanland)
    BY <1>3 DEF Erasing
  <1>8. ASSUME NEW Q, NEW c, Kept(Q, c),
               (ErasesForWrap(Q, c) \/ ErasesToEnd(Q, c) \/ ErasesFront(Q, c))'
        PROVE  Erasing'
    <2>1. Kept(Q, c)'
      BY <1>2, <1>8, KeptStays
    <2> QED
      BY <1>2, <1>4, <1>5, <1>7, <1>8, <2>1 DEF Erasing
  <1>9. Kept(<< >>, << >>) /\ view.recs \in Seq(Record)
    BY <1>3, KeepNone DEF Cached
  <1>10. PICK e \in Nat : e = meta.head + 1 + len
    BY <1>3
  <1>n. PICK n \in Nat : n = Len(K)
    BY <1>6, KeptIsSeq
  (* What forgetting the oldest record comes to.                           *)
  <1>11. ASSUME Chain(meta, K, b)
         PROVE  /\ n > 0 /\ e > meta.head
                /\ meta.head < meta.next => e <= meta.next
                /\ n = 1 => e = meta.next
                /\ n > 1 =>
                     /\ Kept(Tail(K), Tail(b)) /\ Len(Tail(K)) = n - 1
                     /\ e # meta.next
                     /\ meta.head < meta.next => Chain(meta', Tail(K), Tail(b))
                     /\ meta.next <= meta.head /\ e < meta.nomanland =>
                          Chain(meta', Tail(K), Tail(b))
                     /\ meta.next <= meta.head /\ e >= meta.nomanland =>
                          Chain(Moved(meta', MetaLen), Tail(K), Tail(b))
    <2>1. K[1] \in Record /\ 1 + len = Space(K[1])
      BY <1>3, <1>6, <1>11, OldestLength
    <2>2. meta.head + Space(K[1]) = e
      BY <1>3, <1>10, <2>1
    <2>3. /\ n >= 1 /\ b[1] = meta.head /\ e > meta.head
          /\ (e = meta.next <=> 1 = n)
          /\ meta.head < meta.next => e <= meta.next
      <3>1. /\ n >= 1 /\ b[1] = meta.head
            /\ \A k \in 1 .. n :
                 /\ b[k] + Space(K[k]) = meta.next <=> k = n
                 /\ meta.head < meta.next => b[k] + Space(K[k]) <= meta.next
        BY <1>n, <1>3, <1>11, ChainFacts
      <3>2. 1 \in 1 .. n
        BY <3>1
      <3>3. /\ b[1] + Space(K[1]) = meta.next <=> 1 = n
            /\ meta.head < meta.next => b[1] + Space(K[1]) <= meta.next
        BY <3>1, <3>2
      <3> QED
        BY <1>3, <1>10, <2>2, <3>1, <3>3
    <2>4. ASSUME n > 1
          PROVE  /\ Kept(Tail(K), Tail(b)) /\ Len(Tail(K)) = n - 1
                 /\ meta.head < meta.next => Chain(meta', Tail(K), Tail(b))
                 /\ meta.next <= meta.head /\ e < meta.nomanland =>
                      Chain(meta', Tail(K), Tail(b))
                 /\ meta.next <= meta.head /\ e >= meta.nomanland =>
                      Chain(Moved(meta', MetaLen), Tail(K), Tail(b))
      <3>1. Kept(Tail(K), Tail(b)) /\ Len(Tail(K)) = n - 1
        <4>1. Len(K) > 0 /\ K \in Seq(Record)
          BY <1>n, <1>6, <2>3, KeptIsSeq
        <4>2. Kept(Tail(K), Tail(b))
          BY <1>6, <1>9, <4>1, KeepFewer
        <4>3. Len(Tail(K)) = Len(K) - 1
          BY <4>1
        <4> QED
          BY <1>n, <4>2, <4>3
      <3>2. ASSUME NEW w, w.next = meta.next, w.nomanland = meta.nomanland,
                   w.head = WrapHead(meta, e)
            PROVE  Chain(w, Tail(K), Tail(b))
        <4>1. w.head = WrapHead(meta, meta.head + Space(K[1]))
          BY <2>2, <3>2
        <4>2. Len(K) > 1
          BY <1>n, <2>4
        <4> QED
          BY <1>3, <1>11, <3>2, <4>1, <4>2, DropFirst
      <3>3. meta.next <= meta.head /\ e < meta.nomanland => WrapHead(meta, e) = e
        BY <1>3, <1>10, <2>3 DEF WrapHead
      <3>4. meta.head < meta.next => WrapHead(meta, e) = e
        BY <1>3, <1>10, <2>3 DEF WrapHead
      <3>5. meta.next <= meta.head /\ e >= meta.nomanland => WrapHead(meta, e) = MetaLen
        BY <1>3, <1>10, <2>3 DEF WrapHead
      <3>6. meta'.head = e
        BY <1>5, <1>10
      <3>7. meta' \in Meta
        BY DEF Typed
      <3>8. /\ Moved(meta', MetaLen).head = MetaLen
            /\ Moved(meta', MetaLen).next = meta.next
            /\ Moved(meta', MetaLen).nomanland = meta.nomanland
        BY <1>5, <3>7 DEF Moved, Meta
      <3>9. WrapHead(meta, e) = e => Chain(meta', Tail(K), Tail(b))
        BY <1>5, <3>2, <3>6
      <3>10. WrapHead(meta, e) = MetaLen => Chain(Moved(meta', MetaLen), Tail(K), Tail(b))
        BY <3>2, <3>8
      <3> QED
        BY <1>3, <3>1, <3>3, <3>4, <3>5, <3>9, <3>10
    <2>5. n > 1 => e # meta.next
      BY <2>3
    <2> QED
      BY <2>3, <2>4, <2>5
  <1>12. CASE ErasesForWrap(K, b)
    <2>1. /\ op.branch = "wrap" /\ op.freed = meta.head - MetaLen
          /\ op.need = Space(op.rec)
      BY <1>12 DEF ErasesForWrap
    <2>2. /\ op'.branch = "wrap" /\ op'.freed = meta'.head - MetaLen
          /\ op'.need = Space(op'.rec)
      BY <1>3, <1>4, <1>5, <2>1
    <2>3. CASE /\ Chain(meta, K, b) /\ meta.blockCnt = Len(K)
               /\ meta.head < meta.next /\ meta.head < meta.nomanland
               /\ meta.next <= meta.nomanland \/ Len(K) = 1
      <3>1. /\ n > 0 /\ meta'.blockCnt = n - 1
            /\ meta'.head = e /\ e <= meta.next
        <4>1. n > 0 /\ n = meta.blockCnt /\ e <= meta.next
          BY <1>n, <1>11, <2>3
        <4>2. Minus(n, 1) = n - 1
          BY <1>3, <4>1, ForgetOne
        <4> QED
          BY <1>5, <1>10, <4>1, <4>2
      <3>2. CASE n = 1
        <4>1. meta'.blockCnt = 0 /\ meta'.head = meta'.next
          BY <1>5, <1>11, <2>3, <3>1, <3>2
        <4>2. ErasesForWrap(<< >>, << >>)'
          BY <2>2, <4>1 DEF ErasesForWrap
        <4> QED
          BY <1>8, <1>9, <4>2
      <3>3. CASE n > 1
        <4>1. /\ Kept(Tail(K), Tail(b)) /\ Len(Tail(K)) = n - 1
              /\ Chain(meta', Tail(K), Tail(b)) /\ e # meta.next
          BY <1>11, <2>3, <3>3
        <4>2. meta'.head < meta'.next /\ meta'.next <= meta'.nomanland
              /\ meta'.head < meta'.nomanland
          <5>1. meta.next <= meta.nomanland
            BY <1>n, <2>3, <3>3
          <5>2. e < meta.next
            BY <1>3, <3>1, <4>1
          <5> QED
            BY <1>3, <1>5, <3>1, <5>1, <5>2
        <4>3. ErasesForWrap(Tail(K), Tail(b))'
          BY <2>2, <3>1, <4>1, <4>2 DEF ErasesForWrap
        <4> QED
          BY <1>8, <4>1, <4>3
      <3> QED
        BY <3>1, <3>2, <3>3
    <2>4. CASE K = << >> /\ meta.blockCnt = 0 /\ meta.head = meta.next
      <3>1. StaleEnd'
        BY <1>2, <1>3, <1>7, <2>1, <2>4 DEF StaleEnd
      <3>2. meta'.blockCnt = Word - 1
        <4>1. Minus(0, 1) = Word - 1
          BY <1>3 DEF Minus
        <4> QED
          BY <1>5, <2>4, <4>1
      <3>3. /\ 1 \in 1 .. meta'.nomanland - meta'.next /\ 1 <= meta'.head - meta'.next
            /\ meta'.head > meta'.next
        BY <1>2, <1>3, <1>5, <2>4
      <3>4. ErasesForWrap(<< >>, << >>)'
        BY <2>2, <3>1, <3>2, <3>3 DEF ErasesForWrap
      <3> QED
        BY <1>8, <1>9, <3>4
    <2>5. CASE /\ K = << >> /\ StaleEnd /\ meta.head > meta.next
               /\ \E k \in 1 .. meta.nomanland - meta.next :
                    k <= meta.head - meta.next /\ meta.blockCnt = Word - k
      <3>1. PICK k \in 1 .. meta.nomanland - meta.next :
                    k <= meta.head - meta.next /\ meta.blockCnt = Word - k
        BY <2>5
      <3>2. StaleEnd'
        BY <1>2, <2>5 DEF StaleEnd
      <3>3. k \in Nat /\ k >= 1 /\ k < Word
        BY <1>3, <1>7, <3>1
      <3>4. meta'.blockCnt = Word - (k + 1)
        <4>1. meta.blockCnt > 0
          BY <1>3, <3>1, <3>3
        <4>2. Minus(meta.blockCnt, 1) = meta.blockCnt - 1
          BY <1>3, <4>1, ForgetOne
        <4> QED
          BY <1>3, <1>5, <3>1, <3>3, <4>2
      <3>5. /\ k + 1 \in 1 .. meta'.nomanland - meta'.next
            /\ k + 1 <= meta'.head - meta'.next
            /\ meta'.head > meta'.next
        <4>1. meta.head > meta.next /\ k <= meta.head - meta.next
          BY <2>5, <3>1
        <4>2. k + 1 <= meta.nomanland - meta.next
          BY <1>2, <1>3, <3>3, <4>1
        <4>3. meta'.nomanland = meta.nomanland /\ meta'.next = meta.next
              /\ meta'.head = meta.head + 1 + len
          BY <1>5
        <4> QED
          BY <1>3, <3>3, <4>1, <4>2, <4>3
      <3>6. ErasesForWrap(<< >>, << >>)'
        BY <2>2, <3>2, <3>4, <3>5 DEF ErasesForWrap
      <3> QED
        BY <1>8, <1>9, <3>6
    <2> QED
      BY <1>12, <2>3, <2>4, <2>5 DEF ErasesForWrap
  <1>13. CASE ErasesToEnd(K, b)
    <2>1. /\ Chain(meta, K, b) /\ meta.next <= meta.head /\ meta.blockCnt = Len(K)
      BY <1>2, <1>3, <1>13 DEF ErasesToEnd
    <2>2. /\ n > 1 /\ meta'.head = e
          /\ Kept(Tail(K), Tail(b)) /\ Len(Tail(K)) = n - 1
      <3>1. n > 0 /\ (n = 1 => e = meta.next) /\ e > meta.head
        BY <1>11, <2>1
      <3>2. n > 1
        BY <1>3, <2>1, <3>1
      <3> QED
        BY <1>5, <1>10, <1>11, <2>1, <3>2
    <2>3. meta'.blockCnt = Len(Tail(K))
      <3>1. meta.blockCnt = n
        BY <1>n, <2>1
      <3>2. Minus(n, 1) = n - 1
        BY <1>3, <2>2, <3>1, ForgetOne
      <3> QED
        BY <1>5, <2>2, <3>1, <3>2
    <2>4. \/ /\ op'.branch = "reuse" /\ meta'.next + Space(op'.rec) <= meta'.nomanland
             /\ op'.freed = meta'.head - meta'.next /\ op'.need = Space(op'.rec)
          \/ /\ op'.branch = "tail" /\ meta'.next + Space(op'.rec) <= SizeLimit
             /\ op'.freed \in Nat /\ op'.freed <= meta'.head - MetaLen
             /\ op'.need = SizeLimit
      <3>1. CASE op.branch = "reuse"
        <4>1. /\ meta.next + Space(op.rec) <= meta.nomanland
              /\ op.freed = meta.head - meta.next /\ op.need = Space(op.rec)
          BY <1>13, <3>1 DEF ErasesToEnd
        <4>2. op'.freed = meta'.head - meta'.next
          BY <1>3, <1>4, <1>5, <4>1
        <4> QED
          BY <1>4, <1>5, <3>1, <4>1, <4>2
      <3>2. CASE op.branch = "tail"
        <4>1. /\ meta.next + Space(op.rec) <= SizeLimit
              /\ op.freed \in Nat /\ op.freed <= meta.head - MetaLen /\ op.need = SizeLimit
          BY <1>13, <3>2 DEF ErasesToEnd
        <4>2. op'.freed \in Nat /\ op'.freed <= meta'.head - MetaLen
          BY <1>3, <1>4, <1>5, <4>1
        <4> QED
          BY <1>4, <1>5, <3>2, <4>1, <4>2
      <3> QED
        BY <1>13, <3>1, <3>2 DEF ErasesToEnd
    <2>5. CASE e < meta.nomanland
      <3>1. Chain(meta', Tail(K), Tail(b))
        BY <1>11, <2>1, <2>2, <2>5
      <3>2. meta'.next <= meta'.head /\ meta'.head < meta'.nomanland
        BY <1>3, <1>5, <1>10, <2>1, <2>2, <2>5
      <3>3. ErasesToEnd(Tail(K), Tail(b))'
        BY <2>3, <2>4, <3>1, <3>2 DEF ErasesToEnd
      <3> QED
        BY <1>8, <2>2, <3>3
    <2>6. CASE e >= meta.nomanland
      <3>1. Chain(Moved(meta', MetaLen), Tail(K), Tail(b))
        BY <1>11, <2>1, <2>2, <2>6
      <3>2. meta'.nomanland <= meta'.head
        BY <1>5, <2>2, <2>6
      <3>3. ErasesToEnd(Tail(K), Tail(b))'
        BY <2>3, <2>4, <3>1, <3>2 DEF ErasesToEnd
      <3> QED
        BY <1>8, <2>2, <3>3
    <2> QED
      BY <1>3, <2>5, <2>6
  <1>14. CASE ErasesFront(K, b)
    <2>1. /\ op.branch = "front" /\ meta.nomanland = meta.next /\ meta.blockCnt > Len(K)
          /\ Chain(meta, K, b) /\ meta.head < meta.next
      BY <1>2, <1>3, <1>14 DEF ErasesFront
    <2>2. /\ n > 0 /\ meta'.head = e /\ e <= meta.next /\ meta.blockCnt > n
          /\ meta'.nomanland = meta'.next
      BY <1>n, <1>5, <1>10, <1>11, <2>1
    <2>3. meta'.blockCnt = meta.blockCnt - 1
      <3>1. Minus(meta.blockCnt, 1) = meta.blockCnt - 1
        BY <1>3, <2>2, ForgetOne
      <3> QED
        BY <1>5, <3>1
    <2>4. CASE n = 1
      <3>1. meta'.blockCnt > 0 /\ meta'.head = meta'.next
        BY <1>3, <1>5, <1>11, <2>1, <2>2, <2>3, <2>4
      <3>2. Len(<< >>) = 0
        OBVIOUS
      <3>3. ErasesFront(<< >>, << >>)'
        BY <1>4, <2>1, <2>2, <3>1, <3>2 DEF ErasesFront
      <3> QED
        BY <1>8, <1>9, <3>3
    <2>5. CASE n > 1
      <3>1. /\ Kept(Tail(K), Tail(b)) /\ Len(Tail(K)) = n - 1
            /\ Chain(meta', Tail(K), Tail(b)) /\ e # meta.next
        BY <1>11, <2>1, <2>5
      <3>2. meta'.head < meta'.next /\ meta'.blockCnt > Len(Tail(K))
        BY <1>3, <1>5, <1>10, <2>1, <2>2, <2>3, <3>1
      <3>3. ErasesFront(Tail(K), Tail(b))'
        BY <1>4, <2>1, <2>2, <3>1, <3>2 DEF ErasesFront
      <3> QED
        BY <1>8, <3>1, <3>3
    <2> QED
      BY <2>2, <2>4, <2>5
  <1> QED
    BY <1>6, <1>12, <1>13, <1>14
-----------------------------------------------------------------------------
(* How a put comes to write its record, and writes it.                     *)
LEMMA EraseEndKeeps ==
  ASSUME Typed, Typed', MixedInv, view # Broken, EraseEnd
  PROVE  Writing'
  <1>1. /\ op.step = "erase" /\ ~(op.freed < op.need /\ meta.head < meta.nomanland)
        /\ meta' = AfterErase(meta) /\ op' = [op EXCEPT !.step = "length"]
        /\ saved' = saved /\ file' = file /\ view' = view
    BY DEF EraseEnd, MoreToErase
  <1>2. /\ Cached /\ Erasing /\ Offset(meta) /\ meta \in Meta /\ meta' \in Meta
        /\ op.rec \in Record /\ meta.blockCnt \in Nat /\ meta.blockCnt < Word
        /\ op = [step |-> op.step, branch |-> op.branch, rec |-> op.rec,
                 freed |-> op.freed, need |-> op.need]
        /\ MetaLen \in Nat /\ Word \in Nat /\ SizeLimit \in Nat /\ SizeLimit < Word
        /\ MetaLen <= meta.head /\ MetaLen + Space(op.rec) <= SizeLimit
        /\ meta.head \in Nat /\ meta.next \in Nat /\ meta.nomanland \in Nat
    BY <1>1, WhileErasing, Numbers DEF Offset, Typed
  <1>3. op'.step = "length" /\ op'.branch = op.branch /\ op'.rec = op.rec
    BY <1>1, <1>2
  <1>4. /\ MetaLen < meta.next /\ meta.next <= SizeLimit /\ meta.nomanland <= SizeLimit
        /\ view.recs \in Seq(Record)
    BY <1>2 DEF Erasing, Cached
  <1>5. PICK r : r = op.rec
    OBVIOUS
  <1>6. PICK s : s = Space(r)
    OBVIOUS
  <1>7. r \in Record /\ s \in Nat /\ s >= 2
    BY <1>2, <1>5, <1>6, Numbers
  <1>8. PICK K, b : /\ Kept(K, b)
                    /\ ErasesForWrap(K, b) \/ ErasesToEnd(K, b) \/ ErasesFront(K, b)
    BY <1>2 DEF Erasing
  <1>9. ASSUME NEW branch, branch = op.branch, branch \in {"wrap", "reuse", "tail", "front"},
               NEW Q, NEW c, Kept(Q, c), Lands(branch, meta', Q, c, r),
               \/ Counted(branch, meta', Q, r)
               \/ Exempt /\ Miscounted(branch, meta', Q, r)
        PROVE  Writing'
    <2>1. Kept(Q, c)'
      BY <1>1, <1>9, KeptStays
    <2>2. Lands(op'.branch, meta', Q, c, op'.rec)
      BY <1>3, <1>5, <1>9
    <2>3. \/ Counted(op'.branch, meta', Q, op'.rec)
          \/ Exempt' /\ Miscounted(op'.branch, meta', Q, op'.rec)
      BY <1>1, <1>3, <1>5, <1>9 DEF Exempt, StaleEnd
    <2>4. op'.branch \in Branches /\ op'.branch # "empty"
      BY <1>3, <1>9 DEF Branches
    <2> QED
      BY <1>3, <2>1, <2>2, <2>3, <2>4 DEF Writing
  <1>10. CASE ErasesForWrap(K, b)
    <2>1. PICK branch : branch = "wrap"
      OBVIOUS
    <2>2. /\ op.branch = branch /\ op.freed = meta.head - MetaLen /\ op.need = s
      BY <1>5, <1>6, <1>10, <2>1 DEF ErasesForWrap
    <2>3. meta' = meta
      BY <1>1, <2>1, <2>2, Zenon DEF AfterErase
    <2>4. CASE /\ Chain(meta, K, b) /\ meta.blockCnt = Len(K)
               /\ meta.head < meta.next /\ meta.head < meta.nomanland
      <3>1. MetaLen + s <= meta.head
        BY <1>1, <1>2, <1>7, <2>2, <2>4
      <3>2. Lands(branch, meta, K, b, r) /\ Counted(branch, meta, K, r)
        BY <1>2, <1>4, <1>6, <1>7, <2>1, <2>4, <3>1, LandOver
      <3> QED
        BY <1>8, <1>9, <2>1, <2>2, <2>3, <3>2
    <2>5. CASE K = << >> /\ meta.blockCnt = 0 /\ meta.head = meta.next
      <3>1. Lands(branch, meta, << >>, << >>, r) /\ Counted(branch, meta, << >>, r)
        BY <1>2, <1>4, <1>5, <1>7, <2>1, <2>5, LandAlone
      <3> QED
        BY <1>4, <1>9, <2>1, <2>2, <2>3, <3>1, KeepNone
    <2>6. CASE /\ K = << >> /\ StaleEnd /\ meta.head > meta.next
               /\ \E k \in 1 .. meta.nomanland - meta.next :
                    k <= meta.head - meta.next /\ meta.blockCnt = Word - k
      <3>1. PICK k \in 1 .. meta.nomanland - meta.next : meta.blockCnt = Word - k
        BY <2>6
      <3>2. k \in Nat /\ k >= 1 /\ k < Word
        BY <1>2, <1>4, <3>1
      <3>3. (meta.blockCnt + 1) % Word # 1
        <4>1. CASE k = 1
          <5>1. meta.blockCnt + 1 = Word /\ Word % Word = 0
            BY <1>2, <3>1, <3>2, <4>1
          <5> QED
            BY <5>1
        <4>2. CASE k > 1
          <5>1. meta.blockCnt + 1 \in Nat /\ meta.blockCnt + 1 < Word
                /\ meta.blockCnt + 1 # 1
            BY <1>2, <3>1, <3>2, <4>2
          <5>2. (meta.blockCnt + 1) % Word = meta.blockCnt + 1
            BY <1>2, <5>1
          <5> QED
            BY <5>1, <5>2
        <4> QED
          BY <3>2, <4>1, <4>2
      <3>4. meta.next <= meta.head
        BY <1>2, <2>6
      <3>5. Lands(branch, meta, << >>, << >>, r) /\ Miscounted(branch, meta, << >>, r)
        BY <1>2, <1>4, <1>5, <1>7, <2>1, <3>3, <3>4, LandAlone
      <3>6. Exempt
        BY <2>1, <2>2, <2>6 DEF Exempt
      <3> QED
        BY <1>4, <1>9, <2>1, <2>2, <2>3, <3>5, <3>6, KeepNone
    <2> QED
      BY <1>10, <2>4, <2>5, <2>6 DEF ErasesForWrap
  <1>11. CASE ErasesToEnd(K, b) /\ op.branch = "reuse"
    <2>1. PICK branch : branch = "reuse"
      OBVIOUS
    <2>2. /\ meta.next + s <= meta.nomanland /\ op.freed = meta.head - meta.next
          /\ op.need = s /\ meta.blockCnt = Len(K)
      BY <1>5, <1>6, <1>11 DEF ErasesToEnd
    <2>3. meta' = Moved(meta, IF meta.head >= meta.nomanland THEN MetaLen ELSE meta.head)
      BY <1>1, <1>11, Zenon DEF AfterErase, Moved
    <2>4. /\ meta'.head = (IF meta.head >= meta.nomanland THEN MetaLen ELSE meta.head)
          /\ meta'.next = meta.next /\ meta'.nomanland = meta.nomanland
          /\ meta'.blockCnt = meta.blockCnt
      BY <1>2, <2>3 DEF Moved, Meta
    <2>5. CASE Chain(meta, K, b) /\ meta.next <= meta.head /\ meta.head < meta.nomanland
      <3>1. meta'.head = meta.head /\ meta'.next + s <= meta'.head
        BY <1>1, <1>2, <1>7, <2>2, <2>4, <2>5
      <3>2. Chain(meta', K, b)
        BY <1>2, <2>4, <2>5, <3>1, ChainSame
      <3>3. /\ MetaLen < meta'.next /\ meta'.head < meta'.nomanland
            /\ meta'.nomanland <= SizeLimit /\ meta'.blockCnt = Len(K)
        BY <1>4, <2>2, <2>4, <2>5, <3>1
      <3>4. Lands(branch, meta', K, b, r) /\ Counted(branch, meta', K, r)
        BY <1>2, <1>6, <1>7, <2>1, <3>1, <3>2, <3>3, LandInGap
      <3> QED
        BY <1>8, <1>9, <1>11, <2>1, <3>4
    <2>6. CASE Chain(Moved(meta, MetaLen), K, b) /\ meta.nomanland <= meta.head
      <3>1. Chain(meta', K, b) /\ meta'.head = MetaLen
        <4>1. meta' = Moved(meta, MetaLen)
          BY <1>2, <2>3, <2>6
        <4> QED
          BY <1>2, <2>4, <2>6, <4>1
      <3>2. /\ MetaLen < meta'.next /\ meta'.head < meta'.next
            /\ meta'.next + s <= SizeLimit /\ meta'.blockCnt = Len(K)
        BY <1>2, <1>4, <1>7, <2>2, <2>4, <3>1
      <3>3. Lands(branch, meta', K, b, r) /\ Counted(branch, meta', K, r)
        BY <1>2, <1>6, <1>7, <2>1, <3>1, <3>2, LandStraight
      <3> QED
        BY <1>8, <1>9, <1>11, <2>1, <3>3
    <2> QED
      BY <1>11, <2>5, <2>6 DEF ErasesToEnd
  <1>12. CASE ErasesToEnd(K, b) /\ op.branch = "tail"
    <2>1. PICK branch : branch = "tail"
      OBVIOUS
    <2>2. /\ meta.next + s <= SizeLimit /\ op.freed \in Nat
          /\ op.freed <= meta.head - MetaLen
          /\ op.need = SizeLimit /\ meta.blockCnt = Len(K)
      BY <1>5, <1>6, <1>12 DEF ErasesToEnd
    <2>3. meta' = FoldedBack(meta, MetaLen, meta.next)
      BY <1>1, <1>12, Zenon DEF AfterErase, FoldedBack
    <2>4. /\ meta'.head = MetaLen /\ meta'.next = meta.next
          /\ meta'.nomanland = meta.next /\ meta'.blockCnt = meta.blockCnt
      BY <1>2, <2>3 DEF FoldedBack, Meta
    <2>5. meta.head >= meta.nomanland
      BY <1>1, <1>2, <1>4, <2>2, Numbers
    <2>6. Chain(Moved(meta, MetaLen), K, b)
      BY <1>2, <1>12, <2>5 DEF ErasesToEnd
    <2>7. /\ Moved(meta, MetaLen).head = MetaLen /\ Moved(meta, MetaLen).next = meta.next
          /\ Moved(meta, MetaLen).nomanland = meta.nomanland
      BY <1>2 DEF Moved, Meta
    <2>8. PICK m : m = Moved(meta, MetaLen)
      OBVIOUS
    <2>9. m.head < m.next /\ Offset(m) /\ Chain(m, K, b)
          /\ meta'.head = m.head /\ meta'.next = m.next
      BY <1>2, <1>4, <2>4, <2>6, <2>7, <2>8 DEF Offset
    <2>10. Chain(meta', K, b)
      BY <2>9, ChainSame
    <2>11. /\ MetaLen < meta'.next /\ meta'.head < meta'.next
           /\ meta'.next + s <= SizeLimit /\ meta'.blockCnt = Len(K)
      BY <1>4, <2>2, <2>4
    <2>12. Lands(branch, meta', K, b, r) /\ Counted(branch, meta', K, r)
      BY <1>2, <1>6, <1>7, <2>1, <2>10, <2>11, LandStraight
    <2> QED
      BY <1>8, <1>9, <1>12, <2>1, <2>12
  <1>13. CASE ErasesFront(K, b)
    <2>1. PICK branch : branch = "front"
      OBVIOUS
    <2>2. op.branch = "front"
      BY <1>13 DEF ErasesFront
    <2>3. meta' = meta
      BY <1>1, <2>2, Zenon DEF AfterErase
    <2>4. Exempt
      BY <2>2 DEF Exempt
    <2>5. meta.blockCnt > Len(K) /\ K \in Seq(Record) /\ Len(b) = Len(K) /\ b \in Seq(Nat)
      BY <1>8, <1>13, KeptIsSeq DEF ErasesFront
    <2>6. \/ Chain(meta, K, b) /\ meta.head < meta.next
          \/ K = << >> /\ b = << >> /\ meta.head = meta.next
      BY <1>13, <2>5 DEF ErasesFront
    <2>7. Lands("front", meta, K, b, r) /\ Miscounted("front", meta, K, r)
      BY <1>2, <1>4, <1>7, <2>5, <2>6, LandBehindFront
    <2> QED
      BY <1>8, <1>9, <2>1, <2>2, <2>3, <2>4, <2>7
  <1>14. ErasesToEnd(K, b) => op.branch = "reuse" \/ op.branch = "tail"
    BY DEF ErasesToEnd
  <1> QED
    BY <1>8, <1>10, <1>11, <1>12, <1>13, <1>14

LEMMA LayOffset ==
  ASSUME NEW m \in Meta, NEW s \in Nat, s >= 2, NEW branch
  PROVE  Offset(Lay(branch, m, s))
  <1> DEFINE w == Lay(branch, m, s)
  <1>1. /\ m.head \in Nat /\ m.next \in Nat /\ m.nomanland \in Nat /\ MetaLen \in Nat
        /\ m.head >= MetaLen /\ m.next >= MetaLen
    BY MetaFields, Numbers DEF Heads, Ends
  <1>2. /\ w.head = m.head \/ w.head = MetaLen
        /\ w.next = m.next + s \/ w.next = MetaLen + s
        /\ \/ w.nomanland = m.next + s \/ w.nomanland = m.next
           \/ w.nomanland = m.nomanland
    BY <1>1, LayIs
  <1> HIDE DEF w
  <1>3. w.head \in Nat /\ w.next \in Nat /\ w.nomanland \in Nat
        /\ w.head >= MetaLen /\ w.next > MetaLen
    BY <1>1, <1>2
  <1> QED
    BY <1>3 DEF Offset, w

(* Writing to a space that is clear of records changes none of them.       *)
LEMMA StoredKept ==
  ASSUME NEW f, NEW g, NEW K \in Seq(Record), NEW b \in Seq(Nat), Len(b) = Len(K),
         StoredAll(f, K, b), \A k \in 1 .. Len(K) : b[k] >= MetaLen,
         NEW at \in Nat, NEW s \in Nat, Clear(K, b, at, s),
         \A o \in MetaLen .. FileEnd - 1 : o < at \/ o >= at + s => g[o] = f[o]
  PROVE  StoredAll(g, K, b)
  <1> SUFFICES ASSUME NEW k \in 1 .. Len(K) PROVE Stored(g, b[k], K[k])
    BY DEF StoredAll
  <1>1. K[k] \in Record /\ b[k] \in Nat /\ b[k] >= MetaLen /\ MetaLen \in Nat /\ FileEnd \in Nat
    BY Numbers
  <1>2. /\ Space(K[k]) = 1 + RecordLen[K[k]] /\ RecordLen[K[k]] \in Nat
        /\ b[k] + Space(K[k]) <= at \/ at + s <= b[k]
    BY <1>1, Numbers DEF Clear
  <1>3. \A o \in b[k] .. b[k] + RecordLen[K[k]] : Cell(g, o) = Cell(f, o)
    BY <1>1, <1>2, SMTT(30) DEF Cell
  <1>4. Stored(f, b[k], K[k])
    BY DEF StoredAll
  <1>5. Cell(g, b[k]) = Cell(f, b[k])
    BY <1>1, <1>2, <1>3
  <1>6. \A o \in b[k] + 1 .. b[k] + RecordLen[K[k]] : Cell(g, o) = Cell(f, o)
    BY <1>1, <1>2, <1>3
  <1> QED
    BY <1>4, <1>5, <1>6 DEF Stored

LEMMA WhileWriting ==
  ASSUME Typed, MixedInv, view # Broken, op.step \in {"length", "payload"}
  PROVE  /\ Cached /\ Writing /\ meta \in Meta /\ op.rec \in Record
         /\ file \in [MetaLen .. FileEnd - 1 -> Cells]
         /\ op = [step |-> op.step, branch |-> op.branch, rec |-> op.rec,
                  freed |-> op.freed, need |-> op.need]
         /\ WriteAt = PlaceOf(op.branch, meta)
         /\ WriteAt \in Nat /\ WriteAt >= MetaLen
         /\ WriteAt + Space(op.rec) <= FileEnd
         /\ Space(op.rec) \in Nat /\ Space(op.rec) >= 2
         /\ RecordLen[op.rec] \in Nat /\ Space(op.rec) = 1 + RecordLen[op.rec]
         /\ MetaLen \in Nat /\ FileEnd \in Nat
  <1>1. Cached /\ Writing
    BY DEF MixedInv, Resting, Popping, Erasing, Saving, Idle
  <1>2. /\ meta \in Meta /\ op.rec \in Record /\ MetaLen + Space(op.rec) <= SizeLimit
        /\ meta.next + Space(op.rec) <= FileEnd
        /\ file \in [MetaLen .. FileEnd - 1 -> Cells]
        /\ op = [step |-> op.step, branch |-> op.branch, rec |-> op.rec,
                 freed |-> op.freed, need |-> op.need]
    BY DEF Typed, OpTyped
  <1>3. WriteAt = PlaceOf(op.branch, meta)
    BY DEF WriteAt, PlaceOf
  <1>4. /\ meta.next \in Nat /\ meta.next >= MetaLen
        /\ Space(op.rec) \in Nat /\ Space(op.rec) >= 2
        /\ RecordLen[op.rec] \in Nat /\ Space(op.rec) = 1 + RecordLen[op.rec]
        /\ MetaLen \in Nat /\ FileEnd \in Nat /\ SizeLimit \in Nat /\ SizeLimit <= FileEnd
    BY <1>2, MetaFields, Numbers DEF Ends
  <1>5. WriteAt = MetaLen \/ WriteAt = meta.next
    BY DEF WriteAt
  <1>6. WriteAt \in Nat /\ WriteAt >= MetaLen /\ WriteAt + Space(op.rec) <= FileEnd
    BY <1>2, <1>4, <1>5
  <1> QED
    BY <1>1, <1>2, <1>3, <1>4, <1>6

(* The records kept while the new one is written.                          *)
LEMMA KeptAside ==
  ASSUME NEW m \in Meta, NEW r \in Record, NEW branch, NEW K, NEW b, Kept(K, b),
         Lands(branch, m, K, b, r)
  PROVE  \A k \in 1 .. Len(K) : b[k] >= MetaLen
  <1>1. PICK w : w = Lay(branch, m, Space(r))
    OBVIOUS
  <1>2. PICK at : at = PlaceOf(branch, m)
    OBVIOUS
  <1>3. Offset(w) /\ Chain(w, Append(K, r), Append(b, at))
    BY <1>1, <1>2, LayOffset, Numbers DEF Lands
  <1>4. \A k \in 1 .. Len(Append(K, r)) : Append(b, at)[k] >= MetaLen
    BY <1>3, ChainAbove
  <1>5. /\ K \in Seq(Record) /\ b \in Seq(Nat) /\ Len(b) = Len(K) /\ Len(K) \in Nat
        /\ Append(b, at) \in Seq(Nat)
    BY <1>3, KeptIsSeq DEF Chain
  <1>6. Len(Append(K, r)) = Len(K) + 1
    BY <1>5
  <1>7. at \in Nat
    BY <1>2, MetaFields, Numbers DEF PlaceOf
  <1>8. \A k \in 1 .. Len(K) : Append(b, at)[k] = b[k]
    BY <1>5, <1>7
  <1> QED
    BY <1>4, <1>5, <1>6, <1>8

LEMMA WriteLengthKeeps ==
  ASSUME Typed, Typed', MixedInv, view # Broken, WriteLength
  PROVE  Writing'
  <1>1. /\ op.step = "length" /\ op' = [op EXCEPT !.step = "payload"]
        /\ file' = [file EXCEPT ![WriteAt] = LenCell(RecordLen[op.rec])]
        /\ meta' = meta /\ saved' = saved /\ view' = view
    BY DEF WriteLength
  <1>2. PICK at : at = WriteAt
    OBVIOUS
  <1>3. PICK s : s = Space(op.rec)
    OBVIOUS
  <1>4. /\ Cached /\ Writing /\ meta \in Meta /\ op.rec \in Record
        /\ file \in [MetaLen .. FileEnd - 1 -> Cells]
        /\ op = [step |-> op.step, branch |-> op.branch, rec |-> op.rec,
                 freed |-> op.freed, need |-> op.need]
        /\ at = PlaceOf(op.branch, meta) /\ at \in Nat /\ at >= MetaLen
        /\ s \in Nat /\ s >= 2 /\ at + s <= FileEnd
        /\ MetaLen \in Nat /\ FileEnd \in Nat
    BY <1>1, <1>2, <1>3, WhileWriting
  <1>5. op'.step = "payload" /\ op'.branch = op.branch /\ op'.rec = op.rec
    BY <1>1, <1>4
  <1>6. PICK K, b :
          /\ Kept(K, b) /\ Lands(op.branch, meta, K, b, op.rec)
          /\ \/ Counted(op.branch, meta, K, op.rec)
             \/ Exempt /\ Miscounted(op.branch, meta, K, op.rec)
    BY <1>4 DEF Writing
  <1>7. /\ \A o \in MetaLen .. FileEnd - 1 : o < at \/ o >= at + s => file'[o] = file[o]
        /\ Cell(file', at) = LenCell(RecordLen[op.rec])
    BY <1>1, <1>2, <1>4 DEF Cell
  <1>8. Kept(K, b)'
    <2>1. /\ K \in Seq(Record) /\ b \in Seq(Nat) /\ Len(b) = Len(K)
          /\ IsSuffix(K, view.recs) /\ StoredAll(file, K, b)
      BY <1>6 DEF Kept
    <2>2. \A k \in 1 .. Len(K) : b[k] >= MetaLen
      BY <1>4, <1>6, KeptAside
    <2>3. Clear(K, b, at, s)
      BY <1>3, <1>4, <1>6 DEF Lands
    <2>4. StoredAll(file', K, b)
      BY <1>4, <1>7, <2>1, <2>2, <2>3, StoredKept
    <2> QED
      BY <1>1, <2>1, <2>4 DEF Kept
  <1>9. /\ Lands(op'.branch, meta', K, b, op'.rec)
        /\ \/ Counted(op'.branch, meta', K, op'.rec)
           \/ Exempt' /\ Miscounted(op'.branch, meta', K, op'.rec)
    BY <1>1, <1>5, <1>6 DEF Exempt, StaleEnd
  <1>10. Cell(file', PlaceOf(op'.branch, meta')) = LenCell(RecordLen[op'.rec])
    BY <1>1, <1>4, <1>5, <1>7
  <1>11. /\ op'.branch \in Branches
         /\ op'.branch = "empty" => meta'.head = MetaLen /\ meta'.next = MetaLen
    BY <1>1, <1>4, <1>5 DEF Writing
  <1> QED
    BY <1>5, <1>8, <1>9, <1>10, <1>11 DEF Writing

LEMMA WritePayloadKeeps ==
  ASSUME Typed, Typed', MixedInv, view # Broken, WritePayload
  PROVE  Saving'
  <1>1. /\ op.step = "payload" /\ op' = [op EXCEPT !.step = "save"]
        /\ file' = [o \in DOMAIN file |->
                      IF o \in WriteAt + 1 .. WriteAt + RecordLen[op.rec]
                      THEN DataCell(op.rec) ELSE file[o]]
        /\ meta' = AfterWrite(meta, Space(op.rec)) /\ saved' = saved /\ view' = view
    BY DEF WritePayload
  <1>2. PICK at : at = WriteAt
    OBVIOUS
  <1>3. PICK r : r = op.rec
    OBVIOUS
  <1>4. PICK s : s = Space(r)
    OBVIOUS
  <1>5. /\ Cached /\ Writing /\ meta \in Meta /\ r \in Record
        /\ file \in [MetaLen .. FileEnd - 1 -> Cells]
        /\ op = [step |-> op.step, branch |-> op.branch, rec |-> op.rec,
                 freed |-> op.freed, need |-> op.need]
        /\ at = PlaceOf(op.branch, meta) /\ at \in Nat /\ at >= MetaLen
        /\ s \in Nat /\ s >= 2 /\ at + s <= FileEnd
        /\ RecordLen[r] \in Nat /\ s = 1 + RecordLen[r]
        /\ MetaLen \in Nat /\ FileEnd \in Nat
    BY <1>1, <1>2, <1>3, <1>4, WhileWriting
  <1>6. op'.step = "save" /\ op'.branch = op.branch /\ op'.rec = r
    BY <1>1, <1>3, <1>5
  <1>7. PICK K, b :
          /\ Kept(K, b) /\ Lands(op.branch, meta, K, b, r)
          /\ \/ Counted(op.branch, meta, K, r)
             \/ Exempt /\ Miscounted(op.branch, meta, K, r)
    BY <1>3, <1>5 DEF Writing
  <1>8. meta' = Lay(op.branch, meta, s)
    BY <1>1, <1>3, <1>4, Zenon DEF AfterWrite, Lay, Wrote
  <1>9. /\ \A o \in MetaLen .. FileEnd - 1 : o < at \/ o >= at + s => file'[o] = file[o]
        /\ \A o \in at + 1 .. at + RecordLen[r] : Cell(file', o) = DataCell(r)
        /\ Cell(file', at) = LenCell(RecordLen[r])
    <2>1. DOMAIN file = MetaLen .. FileEnd - 1
      BY <1>5
    <2>2. \A o \in MetaLen .. FileEnd - 1 :
            file'[o] = IF o \in at + 1 .. at + RecordLen[r] THEN DataCell(r) ELSE file[o]
      BY <1>1, <1>2, <1>3, <2>1
    <2>3. Cell(file, at) = LenCell(RecordLen[r])
      BY <1>1, <1>3, <1>5 DEF Writing
    <2>4. at \in MetaLen .. FileEnd - 1 /\ ~(at \in at + 1 .. at + RecordLen[r])
      BY <1>5
    <2>5. \A o \in MetaLen .. FileEnd - 1 : o < at \/ o >= at + s => file'[o] = file[o]
      BY <1>5, <2>2
    <2>6. \A o \in at + 1 .. at + RecordLen[r] : Cell(file', o) = DataCell(r)
      BY <1>5, <2>2, SMTT(30) DEF Cell
    <2>7. Cell(file', at) = Cell(file, at)
      BY <1>5, <2>2, <2>4 DEF Cell
    <2> QED
      BY <2>3, <2>5, <2>6, <2>7
  <1>10. /\ K \in Seq(Record) /\ b \in Seq(Nat) /\ Len(b) = Len(K) /\ Len(K) \in Nat
         /\ IsSuffix(K, view.recs) /\ StoredAll(file, K, b)
    BY <1>7, KeptIsSeq DEF Kept
  <1>11. StoredAll(file', K, b)
    <2>1. \A k \in 1 .. Len(K) : b[k] >= MetaLen
      BY <1>5, <1>7, KeptAside
    <2>2. Clear(K, b, at, s)
      BY <1>4, <1>5, <1>7 DEF Lands
    <2> QED
      BY <1>5, <1>9, <1>10, <2>1, <2>2, StoredKept
  <1>12. StoredAll(file', Append(K, r), Append(b, at))
    <2>1. Stored(file', at, r)
      BY <1>9 DEF Stored
    <2>2. /\ Len(Append(K, r)) = Len(K) + 1
          /\ Append(K, r)[Len(K) + 1] = r /\ Append(b, at)[Len(K) + 1] = at
          /\ \A k \in 1 .. Len(K) : Append(K, r)[k] = K[k] /\ Append(b, at)[k] = b[k]
      BY <1>5, <1>10
    <2>3. \A k \in 1 .. Len(K) : Stored(file', b[k], K[k])
      BY <1>11 DEF StoredAll
    <2>4. ASSUME NEW k \in 1 .. Len(K) + 1
          PROVE  Stored(file', Append(b, at)[k], Append(K, r)[k])
      <3>1. CASE k = Len(K) + 1
        BY <2>1, <2>2, <3>1
      <3>2. CASE k \in 1 .. Len(K)
        BY <2>2, <2>3, <3>2
      <3> QED
        BY <1>10, <2>4, <3>1, <3>2
    <2> QED
      BY <2>2, <2>4 DEF StoredAll
  <1>13. Chain(meta', Append(K, r), Append(b, at))
    BY <1>4, <1>5, <1>7, <1>8 DEF Lands
  <1>14. \/ Sound(meta') /\ meta'.blockCnt = Len(K) + 1
         \/ Exempt' /\ meta'.blockCnt # Len(K) + 1 /\ meta'.head # meta'.next
    <2>1. Exempt' <=> Exempt
      BY <1>1, <1>6 DEF Exempt, StaleEnd
    <2> QED
      BY <1>4, <1>7, <1>8, <2>1 DEF Counted, Miscounted
  <1>15. op'.branch \in Branches
    BY <1>5, <1>6 DEF Writing
  <1>16. op'.branch = "empty" => meta'.head < meta'.next /\ meta'.nomanland = meta'.next
    <2> SUFFICES ASSUME op.branch = "empty"
                 PROVE  meta'.head < meta'.next /\ meta'.nomanland = meta'.next
      BY <1>6
    <2>1. meta.head = MetaLen /\ meta.next = MetaLen
      BY <1>5 DEF Writing
    <2>2. /\ meta'.head = meta.head /\ meta'.next = meta.next + s
          /\ meta'.nomanland = meta.next + s
      BY <1>5, <1>8, LayIs
    <2> QED
      BY <1>5, <2>1, <2>2
  <1>17. MetaLen < meta'.next
    BY <1>5, <1>8, LayOffset DEF Offset
  <1>18. /\ Chain(meta', Append(K, op'.rec), Append(b, at))
         /\ StoredAll(file', Append(K, op'.rec), Append(b, at))
         /\ IsSuffix(K, view'.recs) /\ op'.rec \in Record
    BY <1>1, <1>5, <1>6, <1>10, <1>12, <1>13
  <1> QED
    BY <1>6, <1>10, <1>14, <1>15, <1>16, <1>17, <1>18 DEF Saving
-----------------------------------------------------------------------------
(* What is in the file is what a reader of the idle buffer finds.          *)
LEMMA EmptyView ==
  ASSUME NEW f
  PROVE  Matches(f, Reset) /\ View(f, Reset) = [recs |-> << >>, slot |-> 0]
  <1>1. Reset.blockCnt = 0 /\ Reset.head = MetaLen /\ Reset.next = MetaLen
    BY DEF Reset
  <1>2. Matches(f, Reset)
    BY <1>1 DEF Matches
  <1>3. View(f, Reset) = [recs |-> [k \in 1 .. 0 |-> RecordAt(f, Offsets(f, Reset)[k])],
                          slot |-> (MetaLen - MetaLen) \div SlotLen]
    BY <1>1, <1>2 DEF View
  <1>4. SlotLen \in Nat /\ SlotLen > 0
    BY SlotLenIs
  <1>5. (MetaLen - MetaLen) \div SlotLen = 0
    BY <1>4, Numbers
  <1>6. [k \in 1 .. 0 |-> RecordAt(f, Offsets(f, Reset)[k])] = << >>
    OBVIOUS
  <1> QED
    BY <1>2, <1>3, <1>5, <1>6

LEMMA ReadsBack ==
  ASSUME NEW f, NEW m \in Meta, NEW q \in Seq(Record), InFile(f, m, q), Sound(m), Slots # 0
  PROVE  View(f, m) # Broken /\ View(f, m).recs = q
  <1>1. m.blockCnt = Len(q) /\ m.blockCnt \in Nat
    BY DEF InFile
  <1>2. CASE q = << >>
    <2>1. m = Reset
      BY <1>1, <1>2 DEF Sound
    <2>2. View(f, m) = [recs |-> << >>, slot |-> 0]
      BY <2>1, EmptyView
    <2> QED
      BY <1>2, <2>2 DEF Broken
  <1>3. CASE q # << >>
    <2>1. PICK a : Chain(m, q, a) /\ StoredAll(f, q, a)
      BY <1>3 DEF InFile
    <2>2. Offset(m)
      <3>1. m.blockCnt > 0
        BY <1>1, <2>1 DEF Chain
      <3> QED
        BY <3>1, MetaFields DEF Sound, Offset
    <2>3. View(f, m).recs = q
      BY <1>1, <2>1, <2>2, ChainIsView
    <2>4. Broken.recs = << >>
      BY DEF Broken
    <2> QED
      BY <1>3, <2>3, <2>4
  <1> QED
    BY <1>2, <1>3

LEMMA PopKeeps ==
  ASSUME Typed, Typed', MixedInv, view # Broken, Pop
  PROVE  Popping'
  <1>1. PICK len \in LengthsAt(file, meta.head) : meta' = AfterPop(meta, len)
    BY DEF Pop
  <1>2. /\ op.step = "idle" /\ meta.blockCnt # 0
        /\ file' = (IF meta.blockCnt = 1 THEN Truncate(file, MetaLen) ELSE file)
        /\ op' = [step |-> "save", branch |-> "pop"] /\ saved' = saved /\ view' = view
    BY DEF Pop
  <1>3. PICK q : q = view.recs
    OBVIOUS
  <1>4. /\ Sound(meta) /\ meta \in Meta /\ q \in Seq(Record) /\ meta.blockCnt = Len(q)
        /\ meta.head \in Nat /\ meta.next \in Nat /\ meta.nomanland \in Nat
        /\ meta.blockCnt \in Nat /\ MetaLen \in Nat /\ SizeLimit \in Nat /\ SizeLimit >= MetaLen
    BY <1>2, <1>3, AtRest, MetaFields, Numbers DEF Counts
  <1>5. meta.blockCnt > 0
    BY <1>2, <1>4
  <1>6. PICK a : Kept(q, a) /\ Chain(meta, q, a) /\ Offset(meta)
    BY <1>2, <1>3, <1>5, AtRest
  <1>7. PICK n \in Nat : n = Len(q)
    BY <1>4
  <1>8. q # << >> /\ Tail(q) \in Seq(Record) /\ Len(Tail(q)) = n - 1 /\ n >= 1
    <2>1. n >= 1 /\ Len(q) > 0
      BY <1>4, <1>5, <1>7
    <2>2. q # << >>
      BY <2>1
    <2> QED
      BY <1>4, <1>7, <2>1, <2>2
  <1>9. Sound(meta') /\ InFile(file', meta', Tail(q))
    <2>1. CASE n = 1
      <3>1. meta' = Reset
        BY <1>1, <1>4, <1>7, <2>1, Zenon DEF AfterPop
      <3>2. Sound(Reset) /\ Reset.blockCnt = 0
        BY <1>4 DEF Sound, Reset
      <3>3. Len(Tail(q)) = 0 /\ Tail(q) = << >>
        <4>1. PICK t : t = Tail(q)
          OBVIOUS
        <4>2. t \in Seq(Record) /\ Len(t) = 0
          BY <1>8, <2>1, <4>1
        <4>3. t = << >>
          BY <4>2, EmptySeq
        <4> QED
          BY <4>1, <4>2, <4>3
      <3> QED
        BY <3>1, <3>2, <3>3 DEF InFile
    <2>2. CASE n > 1
      <3>1. PICK h : h = WrapHead(meta, meta.head + len + 1)
        OBVIOUS
      <3>2. meta' = Forgot(meta, h, meta.blockCnt - 1) /\ file' = file
        <4>1. meta.blockCnt # 1
          BY <1>4, <1>7, <2>2
        <4> QED
          BY <1>1, <1>2, <3>1, <4>1, Zenon DEF AfterPop, Forgot
      <3>3. /\ meta'.head = h /\ meta'.next = meta.next /\ meta'.nomanland = meta.nomanland
            /\ meta'.blockCnt = n - 1
        BY <1>4, <1>7, <3>2 DEF Forgot, Meta
      <3>4. q[1] \in Record /\ 1 + len = Space(q[1])
        BY <1>1, <1>6, OldestLength
      <3>5. PICK e : e = meta.head + Space(q[1])
        OBVIOUS
      <3>6. e \in Nat /\ e > meta.head /\ h = WrapHead(meta, e)
        <4>1. Space(q[1]) \in Nat /\ Space(q[1]) >= 2
          BY <3>4, Numbers
        <4>2. len \in Nat
          BY <1>1, LengthsAreNat
        <4>3. meta.head + len + 1 = e
          BY <1>4, <3>4, <3>5, <4>1, <4>2
        <4> QED
          BY <1>4, <3>1, <3>5, <4>1, <4>3
      <3>7. /\ Chain(meta', Tail(q), Tail(a))
            /\ meta.head < meta.next => h < meta.next /\ h = e
            /\ meta.next <= meta.head /\ e >= meta.nomanland => h = MetaLen
            /\ meta.next <= meta.head /\ e < meta.nomanland => h = e
        <4>1. Len(q) > 1
          BY <1>7, <2>2
        <4>2. meta'.head = WrapHead(meta, meta.head + Space(q[1]))
          BY <3>3, <3>5, <3>6
        <4> QED
          BY <1>6, <3>3, <3>5, <4>1, <4>2, DropFirst
      <3>8. StoredAll(file', Tail(q), Tail(a))
        <4>1. Len(q) > 0
          BY <1>7, <2>2
        <4>2. Kept(Tail(q), Tail(a))
          BY <1>3, <1>4, <1>6, <4>1, KeepFewer
        <4> QED
          BY <3>2, <4>2 DEF Kept
      <3>9. Sound(meta')
        <4>1. /\ meta.head >= MetaLen /\ meta.next >= MetaLen /\ meta.nomanland >= MetaLen
              /\ meta.next <= SizeLimit /\ meta.nomanland <= SizeLimit
              /\ MetaLen < meta.next /\ meta.head < meta.nomanland
              /\ meta.head < meta.next => meta.next <= meta.nomanland
          BY <1>4, <1>5, <1>7, <2>2 DEF Sound
        <4>2. /\ h >= MetaLen /\ h < meta.nomanland
              /\ h < meta.next => meta.next <= meta.nomanland
          BY <1>4, <3>6, <3>7, <4>1
        <4>3. meta'.blockCnt > 0 /\ meta'.blockCnt # 0
          BY <2>2, <3>3
        <4> QED
          BY <3>3, <4>1, <4>2, <4>3 DEF Sound
      <3> QED
        BY <1>8, <3>3, <3>7, <3>8, <3>9 DEF InFile
    <2> QED
      BY <1>8, <2>1, <2>2
  <1>10. op'.step = "save" /\ op'.branch = "pop"
    BY <1>2
  <1> QED
    BY <1>2, <1>3, <1>8, <1>9, <1>10 DEF Popping

LEMMA SaveKeeps ==
  ASSUME Typed, MixedInv, view # Broken, Save
  PROVE  /\ MixedInv'
         /\ Exempt \/ (view' # Broken /\ KeepsYoungest(view.recs, view'.recs))
  <1>1. /\ op.step = "save" /\ saved' = meta /\ meta' = meta
        /\ file' = (IF op.branch = "empty" THEN Truncate(file, meta.nomanland) ELSE file)
        /\ op' = Idle /\ view' = View(file', meta)
    BY DEF Save
  <1>2. Cached /\ (Popping \/ Saving)
    BY <1>1 DEF MixedInv, Resting, Erasing, Writing, Idle
  <1>3. /\ meta \in Meta /\ Slots # 0 /\ view.recs \in Seq(Record)
        /\ file \in [MetaLen .. FileEnd - 1 -> Cells]
        /\ MetaLen \in Nat /\ FileEnd \in Nat
    BY <1>2, Numbers DEF Typed, Cached
  <1>4. ASSUME NEW q \in Seq(Record), InFile(file', meta, q), Sound(meta)
        PROVE  MixedInv' /\ view' # Broken /\ view'.recs = q
    <2>1. view' # Broken /\ view'.recs = q
      BY <1>1, <1>3, <1>4, ReadsBack
    <2>2. Cached'
      BY <1>1, <1>3, <1>4, <2>1 DEF Cached, InFile
    <2>3. Resting'
      BY <1>1, <1>4, <2>1 DEF Resting
    <2> QED
      BY <2>1, <2>2, <2>3 DEF MixedInv
  <1>5. CASE Popping
    <2>1. /\ op.branch = "pop" /\ view.recs # << >> /\ Sound(meta)
          /\ InFile(file, meta, Tail(view.recs))
      BY <1>5 DEF Popping
    <2>2. file' = file /\ Tail(view.recs) \in Seq(Record)
      BY <1>1, <1>3, <2>1
    <2>3. MixedInv' /\ view' # Broken /\ view'.recs = Tail(view.recs)
      BY <1>4, <2>1, <2>2
    <2> QED
      BY <2>1, <2>3 DEF KeepsYoungest
  <1>6. CASE Saving
    <2>1. PICK K, a :
            /\ K \in Seq(Record) /\ IsSuffix(K, view.recs)
            /\ Chain(meta, Append(K, op.rec), a)
            /\ StoredAll(file, Append(K, op.rec), a)
            /\ \/ Sound(meta) /\ meta.blockCnt = Len(K) + 1
               \/ Exempt /\ meta.blockCnt # Len(K) + 1 /\ meta.head # meta.next
      BY <1>6 DEF Saving
    <2>2. /\ op.branch \in Branches /\ op.rec \in Record /\ MetaLen < meta.next
          /\ op.branch = "empty" => meta.head < meta.next /\ meta.nomanland = meta.next
      BY <1>6 DEF Saving
    <2>3. PICK q : q = Append(K, op.rec)
      OBVIOUS
    <2>4. /\ q \in Seq(Record) /\ Len(q) = Len(K) + 1 /\ Len(K) \in Nat /\ Len(q) \in Nat
          /\ q # << >> /\ q[Len(q)] = op.rec
          /\ Chain(meta, q, a) /\ StoredAll(file, q, a)
      BY <2>1, <2>2, <2>3
    <2>5. Offset(meta)
      <3>1. /\ meta.head \in Nat /\ meta.head >= MetaLen /\ meta.next \in Nat
            /\ meta.nomanland \in Nat
        BY <1>3, MetaFields DEF Heads
      <3> QED
        BY <2>2, <3>1 DEF Offset
    <2>6. CASE Sound(meta) /\ meta.blockCnt = Len(K) + 1
      <3>1. StoredAll(file', q, a)
        <4>1. CASE op.branch # "empty"
          BY <1>1, <2>4, <4>1
        <4>2. CASE op.branch = "empty"
          <5>1. PICK at : at = meta.next
            OBVIOUS
          <5>2. /\ at \in Nat /\ meta.head < meta.next /\ meta.nomanland = at
            BY <1>3, <2>2, <4>2, <5>1, MetaFields
          <5>3. file' = [o \in DOMAIN file |-> IF o < at THEN file[o] ELSE Zero]
            BY <1>1, <4>2, <5>2 DEF Truncate
          <5>4. \A o \in MetaLen .. FileEnd - 1 :
                  o < at \/ o >= at + FileEnd => file'[o] = file[o]
            BY <1>3, <5>2, <5>3
          <5>5. Clear(q, a, at, FileEnd)
            BY <2>4, <2>5, <5>1, <5>2, ChainFacts DEF Clear
          <5>6. \A k \in 1 .. Len(q) : a[k] >= MetaLen
            BY <2>4, <2>5, ChainAbove
          <5>7. a \in Seq(Nat) /\ Len(a) = Len(q)
            BY <2>4 DEF Chain
          <5> QED
            BY <1>3, <2>4, <5>2, <5>4, <5>5, <5>6, <5>7, StoredKept
        <4> QED
          BY <4>1, <4>2
      <3>2. InFile(file', meta, q)
        BY <2>4, <2>6, <3>1 DEF InFile
      <3>3. MixedInv' /\ view' # Broken /\ view'.recs = q
        BY <1>4, <2>4, <2>6, <3>2
      <3>4. SubSeq(q, 1, Len(q) - 1) = K
        <4>1. SubSeq(q, 1, Len(K)) = K
          BY <2>1, <2>2, <2>3, AppendProperties
        <4> QED
          BY <2>4, <4>1
      <3>5. op.branch # "pop"
        BY <2>2 DEF Branches
      <3>6. KeepsYoungest(view.recs, q)
        BY <2>1, <2>4, <3>4, <3>5 DEF KeepsYoungest
      <3> QED
        BY <3>3, <3>6
    <2>7. CASE Exempt /\ meta.blockCnt # Len(K) + 1 /\ meta.head # meta.next
      <3>1. file' = file
        BY <1>1, <2>7 DEF Exempt
      <3>2. meta.blockCnt \in Nat
        BY <1>3, MetaFields, Numbers DEF Counts
      <3>3. ~Matches(file, meta)
        BY <2>4, <2>5, <2>7, <3>2, MiscountIsMismatch
      <3>4. view' = Broken
        BY <1>1, <3>1, <3>3, MismatchIsBroken
      <3> QED
        BY <2>7, <3>4 DEF MixedInv
    <2> QED
      BY <2>1, <2>6, <2>7
  <1> QED
    BY <1>2, <1>5, <1>6

LEMMA RestartKeeps ==
  ASSUME Typed, MixedInv, view # Broken, Restart
  PROVE  MixedInv'
  <1>1. /\ meta' = saved /\ op' = Idle /\ view' = View(file, saved)
        /\ saved' = saved /\ file' = file
    BY DEF Restart
  <1>2. /\ saved \in Meta /\ Slots # 0 /\ Sound(saved)
        /\ file \in [MetaLen .. FileEnd - 1 -> Cells]
    BY DEF MixedInv, Cached, Typed
  <1> SUFFICES ASSUME view' # Broken PROVE MixedInv'
    BY DEF MixedInv
  <1>3. PICK q : q = view'.recs
    OBVIOUS
  <1>4. q \in Seq(Record) /\ InFile(file, saved, q)
    <2>1. Matches(file, saved)
      BY <1>1, MismatchIsBroken
    <2>2. saved.blockCnt \in Nat
      BY <1>2, MetaFields, Numbers DEF Counts
    <2>3. CASE saved.blockCnt = 0
      <3>1. saved = Reset
        BY <1>2, <2>3 DEF Sound
      <3>2. q = << >>
        BY <1>1, <1>2, <1>3, <3>1, EmptyView
      <3>3. Len(<< >>) = 0 /\ << >> \in Seq(Record)
        OBVIOUS
      <3> QED
        BY <2>3, <3>2, <3>3 DEF InFile
    <2>4. CASE saved.blockCnt # 0
      <3>1. Offset(saved)
        BY <1>2, <2>2, <2>4, MetaFields DEF Sound, Offset
      <3>2. /\ q \in Seq(Record) /\ Len(q) = saved.blockCnt
            /\ \E a : Chain(saved, q, a) /\ StoredAll(file, q, a)
        BY <1>1, <1>2, <1>3, <2>1, <2>2, <2>4, <3>1, ViewIsChain
      <3> QED
        BY <3>2 DEF InFile
    <2> QED
      BY <2>3, <2>4
  <1>5. Cached'
    BY <1>1, <1>2, <1>3, <1>4 DEF Cached, InFile
  <1>6. Resting'
    BY <1>1, <1>3, <1>4 DEF Resting
  <1> QED
    BY <1>5, <1>6 DEF MixedInv

LEMMA MixedStep ==
  ASSUME Typed, Typed', MixedInv, Next
  PROVE  MixedInv'
  <1>1. CASE view = Broken
    <2>1. view' = Broken
      BY <1>1, BrokenStaysBroken
    <2> QED
      BY <2>1 DEF MixedInv
  <1>2. CASE view # Broken
    <2>1. ASSUME view' = view, saved' = saved, (Popping \/ Erasing \/ Writing \/ Saving)'
          PROVE  MixedInv'
      <3>1. Cached
        BY <1>2 DEF MixedInv
      <3>2. Cached'
        BY <2>1, <3>1 DEF Cached
      <3> QED
        BY <2>1, <3>2 DEF MixedInv
    <2>2. ASSUME NEW r \in Record, Put(r) PROVE MixedInv'
      <3>1. view' = view /\ saved' = saved
        BY <2>2 DEF Put, PutEmpty, PutWrap, PutAppend, PutGap, PutReuse, PutTail, PutFront,
                    PutReset, Start
      <3>2. Writing' \/ Erasing'
        BY <1>2, <2>2, PutWrites, PutErases DEF Put
      <3> QED
        BY <2>1, <3>1, <3>2
    <2>3. ASSUME EraseOne PROVE MixedInv'
      <3>1. Erasing'
        BY <1>2, <2>3, EraseOneKeeps
      <3> QED
        BY <2>1, <2>3, <3>1 DEF EraseOne
    <2>4. ASSUME EraseEnd PROVE MixedInv'
      <3>1. Writing'
        BY <1>2, <2>4, EraseEndKeeps
      <3> QED
        BY <2>1, <2>4, <3>1 DEF EraseEnd
    <2>5. ASSUME WriteLength PROVE MixedInv'
      <3>1. Writing'
        BY <1>2, <2>5, WriteLengthKeeps
      <3> QED
        BY <2>1, <2>5, <3>1 DEF WriteLength
    <2>6. ASSUME WritePayload PROVE MixedInv'
      <3>1. Saving'
        BY <1>2, <2>6, WritePayloadKeeps
      <3> QED
        BY <2>1, <2>6, <3>1 DEF WritePayload
    <2>7. ASSUME Pop PROVE MixedInv'
      <3>1. Popping'
        BY <1>2, <2>7, PopKeeps
      <3> QED
        BY <2>1, <2>7, <3>1 DEF Pop
    <2>8. Save \/ Restart => MixedInv'
      BY <1>2, SaveKeeps, RestartKeeps
    <2> QED
      BY <2>2, <2>3, <2>4, <2>5, <2>6, <2>7, <2>8 DEF Next
  <1> QED
    BY <1>1, <1>2

(* Records of any lengths, and crashes at any step: as long as the view is *)
(* not broken, head, next, nomanland, blockCnt and the file describe one   *)
(* run of whole records at every step of a put or a pop                    *)
(* (putRingBuFiRecord, eraseEnoughSpaceOrEof, popRingBuFiRecord).          *)
THEOREM MixedInvariant == Spec => [](Typed /\ MixedInv)
  <1>1. Init => MixedInv
    <2> SUFFICES ASSUME Init, view # Broken PROVE MixedInv
      BY DEF MixedInv
    <2>1. /\ meta = Reset /\ saved = Reset /\ op = Idle /\ view = View(file, Reset)
      BY DEF Init
    <2>2. Slots # 0
      BY <2>1, EmptyView DEF Broken
    <2>3. view.recs = << >>
      BY <2>1, <2>2, EmptyView
    <2>4. Len(<< >>) = 0 /\ << >> \in Seq(Record)
      OBVIOUS
    <2>5. Reset.blockCnt = 0 /\ Sound(Reset)
      BY Numbers DEF Reset, Sound
    <2>6. Cached
      BY <2>1, <2>2, <2>3, <2>4, <2>5 DEF Cached
    <2>7. Resting
      BY <2>1, <2>3, <2>4, <2>5 DEF Resting, InFile
    <2> QED
      BY <2>6, <2>7 DEF MixedInv
  <1>2. Typed /\ MixedInv /\ Typed' /\ [Next]_vars => MixedInv'
    <2> SUFFICES ASSUME Typed, MixedInv, Typed', [Next]_vars PROVE MixedInv'
      OBVIOUS
    <2>1. CASE UNCHANGED vars
      BY <2>1 DEF vars, MixedInv, Cached, Resting, Popping, Erasing, Writing, Saving, Kept,
                  ErasesForWrap, ErasesToEnd, ErasesFront, Exempt, StaleEnd
    <2>2. CASE Next
      BY <2>2, MixedStep
    <2> QED
      BY <2>1, <2>2
  <1> QED
    BY <1>1, <1>2, RingTyped, PTL DEF Spec

(* Records of any lengths, and crashes at any step: a pop that ends takes  *)
(* the oldest record, and a put that ends keeps a run of the youngest      *)
(* records in order and adds its own, but for the two ways in which        *)
(* putRingBuFiRecord loses count of its records.                           *)
THEOREM OldestGoFirstAlways == Spec => OldestGoFirst
  <1> DEFINE Go ==
        op.step = "save" /\ crashes' = crashes /\ view # Broken
        => \/ op.branch = "front"
           \/ op.branch = "wrap" /\ StaleEnd
           \/ view' # Broken /\ KeepsYoungest(view.recs, view'.recs)
  <1>1. Typed /\ MixedInv /\ [Next]_vars => [Go]_vars
    <2> SUFFICES ASSUME Typed, MixedInv, Next, op.step = "save", crashes' = crashes,
                        view # Broken
                 PROVE  \/ op.branch = "front"
                        \/ op.branch = "wrap" /\ StaleEnd
                        \/ view' # Broken /\ KeepsYoungest(view.recs, view'.recs)
      OBVIOUS
    <2>1. Save
      <3>1. ~Restart
        <4>1. crashes \in Nat
          BY Numbers DEF Typed
        <4> QED
          BY <4>1 DEF Restart
      <3> QED
        BY <3>1 DEF Next, Put, PutEmpty, PutWrap, PutAppend, PutGap, PutReuse, PutTail,
                    PutFront, PutReset, Start, EraseOne, EraseEnd, WriteLength,
                    WritePayload, Pop
    <2> QED
      BY <2>1, SaveKeeps DEF Exempt
  <1> QED
    BY <1>1, MixedInvariant, PTL DEF Spec, OldestGoFirst

(* Records of any lengths, and crashes at any step: as long as metadata    *)
(* and records match, next and nomanland stay within sizeLimit.            *)
THEOREM WithinLimitAlways == Spec => []WithinLimit
  <1>1. Typed /\ MixedInv => WithinLimit
    <2> SUFFICES ASSUME Typed, MixedInv, op.step = "idle", view # Broken
                 PROVE  meta.next <= SizeLimit /\ meta.nomanland <= SizeLimit
      BY DEF WithinLimit
    <2> QED
      BY AtRest DEF Sound
  <1> QED
    BY <1>1, MixedInvariant, PTL

=============================================================================
