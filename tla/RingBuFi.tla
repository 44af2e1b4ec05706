------------------------------ MODULE RingBuFi ------------------------------
(***************************************************************************)
(* The file-backed ring buffer of the Modbus gateway (ringbufi.c): five    *)
(* size_t of metadata followed by records, each an 8-byte length and its   *)
(* bytes.  The unit of every offset and length here is 8 bytes.            *)
(*                                                                         *)
(* A put or a pop is a sequence of steps, because the process can die      *)
(* between two of them: the in-memory metadata is lost, the file and the   *)
(* metadata last saved to it stay.  Only one thread calls the buffer.      *)
(***************************************************************************)
EXTENDS Integers, Sequences, FiniteSets

CONSTANTS
  Record,      \* the records a caller may put
  RecordLen,   \* RecordLen[r]: units of payload of record r
  SizeLimit,   \* pBuf->sizeLimit, the size of the cache file
  Word,        \* number of values of a size_t (2^64 in the code)
  GarbageLen,  \* lengths the payload of a record may be misread as
  FileEnd,     \* bound: offsets below FileEnd are modelled
  MaxCrashes   \* bound: crashes in a behaviour

VARIABLES
  meta,     \* the fields of RingBuFi in memory
  saved,    \* the metadata in the file
  file,     \* the content of the file after the metadata
  op,       \* the operation in progress
  crashes,  \* number of crashes so far
  view      \* the cache a reader of the idle buffer sees, or Broken for good
            \* once metadata and records no longer match (history)

vars == <<meta, saved, file, op, crashes, view>>

MetaLen == 5

ASSUME RingAssumption ==
  /\ Record # {} /\ RecordLen \in [Record -> Nat \ {0}]
  /\ SizeLimit \in Nat /\ MetaLen <= SizeLimit
  /\ Word \in Nat /\ SizeLimit < Word
  /\ GarbageLen \subseteq Nat
  /\ FileEnd \in Nat /\ SizeLimit <= FileEnd
  /\ MaxCrashes \in Nat

(* A cell holds the length of a record or one unit of its payload.  What   *)
(* was never written, or was truncated, reads as a length of zero.         *)
LenCell(n) == [kind |-> "len", len |-> n]
DataCell(r) == [kind |-> "data", rec |-> r]
Zero == LenCell(0)

Space(r) == 1 + RecordLen[r]

Minus(a, b) == (a - b) % Word     \* subtraction of two size_t

(* ftruncate: what is cut off reads as zero when the file grows again.     *)
Truncate(f, at) == [o \in DOMAIN f |-> IF o < at THEN f[o] ELSE Zero]

Fits(r) == Minus(SizeLimit, MetaLen) >= Space(r)

Reset == [head |-> MetaLen, next |-> MetaLen, nomanland |-> MetaLen, blockCnt |-> 0]

Cell(f, at) == IF at < FileEnd THEN f[at] ELSE Zero

(* readSizet: any length may come out of a cell that holds payload.        *)
LengthsAt(f, at) ==
  IF Cell(f, at).kind = "len" THEN {Cell(f, at).len} ELSE GarbageLen

-----------------------------------------------------------------------------
(***************************************************************************)
(* What a reader of the idle buffer finds.  Offsets are those at which     *)
(* blockCnt successive pops would read a record.                           *)
(***************************************************************************)
WrapHead(m, h) ==
  IF h > m.next /\ h >= m.nomanland THEN MetaLen ELSE h

Readable(f, at) ==
  /\ Cell(f, at).kind = "len"
  /\ \E r \in Record :
       /\ Cell(f, at).len = RecordLen[r]
       /\ \A o \in at + 1 .. at + RecordLen[r] : Cell(f, o) = DataCell(r)

RecordAt(f, at) == Cell(f, at + 1).rec

EndOf(f, at) == at + 1 + Cell(f, at).len

Offsets(f, m) ==
  LET at[k \in 1 .. m.blockCnt] ==
        IF k = 1 THEN m.head
        ELSE IF Readable(f, at[k - 1]) THEN WrapHead(m, EndOf(f, at[k - 1]))
        ELSE FileEnd
  IN  at

(* From head on up to next, or past the end of the file back to next.      *)
Between(m, at, end) ==
  IF m.head < m.next THEN m.head <= at /\ end <= m.next
  ELSE m.head <= at \/ end <= m.next

(* The metadata and the records belong together: blockCnt whole records    *)
(* lie between head and next, the last of them ending at next, and none if *)
(* blockCnt is 0.                                                          *)
Matches(f, m) ==
  IF m.blockCnt = 0 THEN m.head = m.next
  ELSE LET at == Offsets(f, m) IN
       \A k \in 1 .. m.blockCnt :
         /\ Readable(f, at[k])
         /\ Between(m, at[k], EndOf(f, at[k]))
         /\ EndOf(f, at[k]) = m.next <=> k = m.blockCnt

SlotLen == Space(CHOOSE r \in Record : \A q \in Record : RecordLen[r] <= RecordLen[q])

(* The cache as CacheFifo sees it; its slots make sense when all records   *)
(* have the same length.  There are none if no record fits the file.       *)
Slots == (SizeLimit - MetaLen) \div SlotLen

Broken == [recs |-> << >>, slot |-> Slots]

View(f, m) ==
  IF Matches(f, m)
  THEN [recs |-> [k \in 1 .. m.blockCnt |-> RecordAt(f, Offsets(f, m)[k])],
        slot |-> (m.head - MetaLen) \div SlotLen]
  ELSE Broken

Idle == [step |-> "idle"]

-----------------------------------------------------------------------------
Init ==
  /\ meta = Reset
  /\ saved = Reset
  /\ file = [o \in MetaLen .. FileEnd - 1 |-> Zero]
  /\ op = Idle
  /\ crashes = 0
  /\ view = View(file, meta)

(***************************************************************************)
(* putRingBuFiRecord.  The first step takes the branch of the code; branch *)
(* and the bytes already freed go with the operation.                      *)
(***************************************************************************)
Start(r, branch, step, freed, need) ==
  /\ op.step = "idle"
  /\ Fits(r)
  /\ meta.next + 2 * Space(r) <= FileEnd
  /\ op' = [step |-> step, branch |-> branch, rec |-> r, freed |-> freed, need |-> need]
  /\ UNCHANGED <<saved, file, crashes, view>>

OverflowsPayloadOnly(r) == meta.next + RecordLen[r] > SizeLimit   \* mutant

Overflows(r) == meta.next + Space(r) > SizeLimit

PutEmpty(r) ==
  /\ meta.blockCnt = 0
  /\ meta' = [meta EXCEPT !.next = MetaLen, !.head = MetaLen]
  /\ Start(r, "empty", "length", 0, 0)

PutWrap(r) ==
  /\ meta.blockCnt > 0 /\ meta.next > meta.head
  /\ Overflows(r)
  /\ UNCHANGED meta
  /\ Start(r, "wrap", "erase", meta.head - MetaLen, Space(r))

PutAppend(r) ==
  /\ meta.blockCnt > 0 /\ meta.next > meta.head
  /\ ~Overflows(r)
  /\ UNCHANGED meta
  /\ Start(r, "append", "length", 0, 0)

Behind == meta.blockCnt > 0 /\ meta.next <= meta.head   \* next is behind head

GapOneMore == meta.head - meta.next + 1   \* mutant

Gap == meta.head - meta.next

PutGap(r) ==
  /\ Behind /\ Gap >= Space(r)
  /\ UNCHANGED meta
  /\ Start(r, "gap", "length", 0, 0)

PutReuse(r) ==
  /\ Behind /\ Gap < Space(r)
  /\ Minus(meta.nomanland, meta.next) >= Space(r)
  /\ UNCHANGED meta
  /\ Start(r, "reuse", "erase", Gap, Space(r))

(* Only records of different lengths lead to the last three branches.      *)
PutTail(r) ==
  /\ Behind /\ Gap < Space(r)
  /\ Minus(meta.nomanland, meta.next) < Space(r)
  /\ Minus(SizeLimit, meta.next) >= Space(r)
  /\ UNCHANGED meta
  /\ Start(r, "tail", "erase", 0, SizeLimit)

PutFront(r) ==
  /\ Behind /\ Gap < Space(r)
  /\ Minus(meta.nomanland, meta.next) < Space(r)
  /\ Minus(SizeLimit, meta.next) < Space(r)
  /\ meta.next - MetaLen >= Space(r)
  /\ meta' = [meta EXCEPT !.nomanland = meta.next, !.head = MetaLen]
  /\ Start(r, "front", "erase", 0, Space(r))

PutReset(r) ==
  /\ Behind /\ Gap < Space(r)
  /\ Minus(meta.nomanland, meta.next) < Space(r)
  /\ Minus(SizeLimit, meta.next) < Space(r)
  /\ meta.next - MetaLen < Space(r)
  /\ meta' = Reset
  /\ Start(r, "reset", "length", 0, 0)

(***************************************************************************)
(* eraseEnoughSpaceOrEof: one turn of its loop, and what the branch does   *)
(* when the loop ends.                                                     *)
(***************************************************************************)
MoreToErase == op.freed < op.need /\ meta.head < meta.nomanland

EraseOne ==
  /\ op.step = "erase"
  /\ MoreToErase
  /\ \E len \in LengthsAt(file, meta.head) :
       /\ op' = [op EXCEPT !.freed = @ + 1 + len]
       /\ meta' = [meta EXCEPT !.head = @ + 1 + len, !.blockCnt = Minus(@, 1)]
  /\ UNCHANGED <<saved, file, crashes, view>>

AfterEraseKeepsHead(m) ==   \* mutant: head is left at the end of the data
  IF op.branch = "tail" THEN [m EXCEPT !.head = MetaLen, !.nomanland = m.next]
  ELSE m

AfterErase(m) ==
  CASE op.branch = "reuse" ->
         [m EXCEPT !.head = IF @ >= m.nomanland THEN MetaLen ELSE @]
    [] op.branch = "tail" -> [m EXCEPT !.head = MetaLen, !.nomanland = m.next]
    [] OTHER -> m

EraseEnd ==
  /\ op.step = "erase"
  /\ ~MoreToErase
  /\ meta' = AfterErase(meta)
  /\ op' = [op EXCEPT !.step = "length"]
  /\ UNCHANGED <<saved, file, crashes, view>>

(***************************************************************************)
(* The record goes to the file: its length, then its bytes.                *)
(***************************************************************************)
WriteAt == IF op.branch = "wrap" THEN MetaLen ELSE meta.next

WriteLength ==
  /\ op.step = "length"
  /\ file' = [file EXCEPT ![WriteAt] = LenCell(RecordLen[op.rec])]
  /\ op' = [op EXCEPT !.step = "payload"]
  /\ UNCHANGED <<meta, saved, crashes, view>>

AfterWrite(m, s) ==
  CASE op.branch = "empty" ->
         [m EXCEPT !.blockCnt = 1, !.next = @ + s, !.nomanland = m.next + s]
    [] op.branch = "wrap" ->
         [head |-> IF m.head >= m.next THEN MetaLen ELSE m.head,
          next |-> MetaLen + s, nomanland |-> m.next,
          blockCnt |-> (m.blockCnt + 1) % Word]
    [] OTHER ->
         [m EXCEPT !.blockCnt = (@ + 1) % Word, !.next = @ + s,
                   !.nomanland = IF m.next + s > m.head THEN m.next + s ELSE @]

WritePayload ==
  /\ op.step = "payload"
  /\ file' = [o \in DOMAIN file |->
                IF o \in WriteAt + 1 .. WriteAt + RecordLen[op.rec]
                THEN DataCell(op.rec) ELSE file[o]]
  /\ meta' = AfterWrite(meta, Space(op.rec))
  /\ op' = [op EXCEPT !.step = "save"]
  /\ UNCHANGED <<saved, crashes, view>>

(***************************************************************************)
(* popRingBuFiRecord, up to its saveMeta.  Popping the last record         *)
(* truncates the file before the metadata is saved.                        *)
(***************************************************************************)
AfterPop(m, len) ==
  IF m.blockCnt = 1 THEN Reset
  ELSE [m EXCEPT !.head = WrapHead(m, @ + len + 1), !.blockCnt = @ - 1]

Pop ==
  /\ op.step = "idle"
  /\ meta.blockCnt # 0
  /\ \E len \in LengthsAt(file, meta.head) : meta' = AfterPop(meta, len)
  /\ file' = IF meta.blockCnt = 1 THEN Truncate(file, MetaLen) ELSE file
  /\ op' = [step |-> "save", branch |-> "pop"]
  /\ UNCHANGED <<saved, crashes, view>>

(***************************************************************************)
(* saveMeta, the end of every put and pop.  A put into an empty buffer     *)
(* then truncates the file behind its record.                              *)
(***************************************************************************)
Save ==
  /\ op.step = "save"
  /\ saved' = meta
  /\ file' = IF op.branch = "empty" THEN Truncate(file, meta.nomanland) ELSE file
  /\ op' = Idle
  /\ view' = IF view = Broken THEN Broken ELSE View(file', meta)
  /\ UNCHANGED <<meta, crashes>>

(***************************************************************************)
(* The process dies, at any step, and newRingBuFi reads the file again.    *)
(***************************************************************************)
Restart ==
  /\ crashes < MaxCrashes
  /\ crashes' = crashes + 1
  /\ meta' = saved
  /\ op' = Idle
  /\ view' = IF view = Broken THEN Broken ELSE View(file, saved)
  /\ UNCHANGED <<saved, file>>

Put(r) ==
  \/ PutEmpty(r) \/ PutWrap(r) \/ PutAppend(r) \/ PutGap(r)
  \/ PutReuse(r) \/ PutTail(r) \/ PutFront(r) \/ PutReset(r)

Next ==
  \/ \E r \in Record : Put(r)
  \/ EraseOne \/ EraseEnd
  \/ WriteLength \/ WritePayload
  \/ Pop
  \/ Save
  \/ Restart

Spec == Init /\ [][Next]_vars

-----------------------------------------------------------------------------
(***************************************************************************)
(* Properties.                                                             *)
(***************************************************************************)
Fifo == INSTANCE CacheFifo WITH cache <- view, Capacity <- Slots

Meta == [head : {h \in Nat : h >= MetaLen}, next : MetaLen .. FileEnd,
         nomanland : MetaLen .. FileEnd, blockCnt : 0 .. Word - 1]

Cells == [kind : {"len"}, len : Nat] \cup [kind : {"data"}, rec : Record]

Steps == {"idle", "erase", "length", "payload", "save"}

(* The head leaves the file only when a length was read out of a payload,  *)
(* after the metadata stopped matching the records.                        *)
TypeOK ==
  /\ meta \in Meta
  /\ saved \in Meta
  /\ view # Broken => meta.head <= SizeLimit
  /\ file \in [MetaLen .. FileEnd - 1 -> Cells]
  /\ op.step \in Steps
  /\ crashes \in 0 .. MaxCrashes
  /\ Fifo!TypeOK

(* With records of one length the file is a FIFO that forgets its oldest   *)
(* record when full; a crash at any step of a put or pop touches at most   *)
(* the oldest record (putRingBuFiRecord, popRingBuFiRecord, newRingBuFi).  *)
FifoSpec == Fifo!Spec

(* peekRingBuFiRecord takes head = next for an empty buffer.  With records *)
(* of one length it is wrong about a non-empty buffer exactly when the     *)
(* buffer is full and its oldest record is not the first in the file.      *)
PeekAgrees ==
  op.step = "idle" /\ view # Broken =>
    ((meta.head # meta.next) <=> Fifo!Readable(view))

(* The buffer never uses the file beyond sizeLimit.  (With records of      *)
(* several lengths: until the metadata stops matching the records.)        *)
WithinLimit ==
  op.step = "idle" /\ view # Broken =>
    meta.next <= SizeLimit /\ meta.nomanland <= SizeLimit

(* Records of any lengths: a finished pop removes the oldest record; a     *)
(* finished put keeps a run of the youngest records, in order, and adds    *)
(* its own.  There are two exceptions, after which blockCnt is wrong: the  *)
(* branch that starts erasing at the front, and wrapping around while      *)
(* nomanland is left over from a lap that was longer than this one.        *)
StaleEnd == saved.nomanland > saved.next

IsSuffix(s, t) == \E i \in 0 .. Len(t) : s = SubSeq(t, i + 1, Len(t))

KeepsYoungest(old, new) ==
  IF op.branch = "pop" THEN new = Tail(old)
  ELSE /\ new # << >>
       /\ new[Len(new)] = op.rec
       /\ IsSuffix(SubSeq(new, 1, Len(new) - 1), old)

OldestGoFirst ==
  [][ /\ op.step = "save" /\ crashes' = crashes /\ view # Broken
      => \/ op.branch = "front"
         \/ op.branch = "wrap" /\ StaleEnd
         \/ view' # Broken /\ KeepsYoungest(view.recs, view'.recs) ]_vars

(* "blockCnt  // number of records" (ringbufi.h): blockCnt whole records   *)
(* lie between head and next whenever no operation is under way.           *)
BlockCntIsNumberOfRecords == op.step = "idle" => Matches(file, meta)
=============================================================================
