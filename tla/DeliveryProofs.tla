--------------------------- MODULE DeliveryProofs ---------------------------
(***************************************************************************)
(* For files of any length, any Slack and any server: the entries of a     *)
(* patch rebuild the new file, so do its bytes in the hands of the reader, *)
(* the steps taken to make it are bounded, the file of a download is the   *)
(* beginning of the published one, and a good patch is kept, unless the    *)
(* system takes the file from under a running update().                    *)
(***************************************************************************)
EXTENDS Delivery, BipatchProofs, SequenceTheorems, FiniteSetTheorems, TLAPS

-----------------------------------------------------------------------------
(***************************************************************************)
(* The transfer.  FileIsPrefix alone is not inductive: an append keeps it  *)
(* because the next item to come is the one after the last on disk, which  *)
(* is so as long as the file opened is still the file planned with.        *)
(***************************************************************************)
InPlace ==
    /\ up.pc \in {"open", "answer"} =>
          /\ rec = "downloading" /\ up.first = 0 /\ up.next = 0
          /\ up.from \in {0, Len(file)} \/ lost
          /\ up.pc = "answer" /\ up.from = 0 => file = <<>>
    /\ up.pc = "receive" =>
          /\ rec = "downloading" /\ up.next <= size
          /\ up.next = Len(file) \/ lost
    /\ up.pc = "check" => rec = "downloading" /\ (Len(file) = size \/ fault \/ lost)
    /\ up.pc \in {"answer", "receive", "check", "inflate"} => there \/ lost

TransferInv ==
    /\ TransferTypeOK /\ FileIsPrefix
    /\ ~there => file = <<>>
    /\ size = 0 => up.pc = "idle" /\ rec = "none"
    /\ InPlace

(* A file is a sequence, the empty one too. *)
LEMMA FileLength == Len(<<>>) = 0 /\ <<>> \in Seq(Nat) /\ \A f \in Seq(Nat) : Len(f) \in Nat
BY EmptySeq, LenProperties

LEMMA TransferInit_Inv == TransferInit => TransferInv
<1> SUFFICES ASSUME TransferInit PROVE TransferInv
  OBVIOUS
<1>1. TransferTypeOK
  BY FileLength DEF TransferInit, TransferTypeOK, Waiting
<1>2. FileIsPrefix
  BY FileLength DEF TransferInit, FileIsPrefix, IsBeginning
<1>3. QED BY <1>1, <1>2 DEF TransferInit, TransferInv, InPlace, Waiting

LEMMA TransferStep_Inv == TransferInv /\ [TransferNext]_tvars => TransferInv'
<1> SUFFICES ASSUME TransferInv, [TransferNext]_tvars PROVE TransferInv'
  OBVIOUS
<1> USE DEF TransferInv, TransferTypeOK, FileIsPrefix, IsBeginning, InPlace, Waiting
<1>1. ASSUME NEW n \in Nat \ {0}, PublishFrame(n) PROVE TransferInv'
  BY <1>1, FileLength DEF PublishFrame
<1>2. ASSUME NEW sameUrl \in BOOLEAN, Plan(sameUrl) PROVE TransferInv'
  <2>1. TransferTypeOK'
    BY <1>2, FileLength DEF Plan
  <2>2. FileIsPrefix' /\ (~there => file = <<>>)'
    BY <1>2, FileLength DEF Plan
  <2>3. (size = 0 => up.pc = "idle" /\ rec = "none")'
    BY <1>2 DEF Plan
  <2>4. InPlace'
    BY <1>2, FileLength DEF Plan
  <2>5. QED BY <2>1, <2>2, <2>3, <2>4
<1>3. CASE Open
  <2>1. TransferTypeOK'
    BY <1>3, FileLength DEF Open
  <2>2. FileIsPrefix' /\ (~there => file = <<>>)'
    BY <1>3, FileLength DEF Open
  <2>3. InPlace'
    BY <1>3, FileLength DEF Open
  <2>4. QED BY <1>3, <2>1, <2>2, <2>3 DEF Open
<1>4. CASE AnswerWhole
  <2>1. TransferTypeOK'
    <3>1. CASE up.from = 0
      <4>1. PICK total \in {size, Unknown} : up' = [up EXCEPT !.pc = "receive", !.total = total]
        BY <1>4, <3>1 DEF AnswerWhole
      <4>2. total \in Nat \cup {Unknown}
        OBVIOUS
      <4>3. up' \in [pc : {"idle", "open", "answer", "receive", "check", "inflate"},
                     from : Nat, first : Nat, next : Nat, total : Nat \cup {Unknown}]
        BY <4>1, <4>2
      <4>4. QED BY <1>4, <3>1, <4>3 DEF AnswerWhole
    <3>2. CASE up.from # 0
      BY <1>4, <3>2, FileLength DEF AnswerWhole
    <3>3. QED BY <3>1, <3>2
  <2>2. FileIsPrefix' /\ (~there => file = <<>>)'
    <3>1. CASE up.from = 0
      BY <1>4, <3>1, FileLength DEF AnswerWhole
    <3>2. CASE up.from # 0
      BY <1>4, <3>2, FileLength DEF AnswerWhole
    <3>3. QED BY <3>1, <3>2
  <2>3. InPlace'
    <3>1. up'.pc = "receive" /\ up'.next = 0 /\ rec' = "downloading" /\ file' = <<>>
      BY <1>4 DEF AnswerWhole
    <3>2. there' \/ lost'
      BY <1>4 DEF AnswerWhole
    <3>3. size' \in Nat
      BY <1>4 DEF AnswerWhole
    <3>4. QED BY <3>1, <3>2, <3>3, FileLength
  <2>4. QED BY <1>4, <2>1, <2>2, <2>3 DEF AnswerWhole
<1>5. CASE AnswerRest
  <2>1. TransferTypeOK'
    <3>1. PICK total \in {size, Unknown} :
            up' = [up EXCEPT !.pc = "receive", !.first = up.from, !.next = up.from, !.total = total]
      BY <1>5 DEF AnswerRest
    <3>2. total \in Nat \cup {Unknown} /\ up.from \in Nat
      OBVIOUS
    <3>3. up' \in [pc : {"idle", "open", "answer", "receive", "check", "inflate"},
                   from : Nat, first : Nat, next : Nat, total : Nat \cup {Unknown}]
      BY <3>1, <3>2
    <3>4. QED BY <1>5, <3>3 DEF AnswerRest
  <2>2. FileIsPrefix' /\ (~there => file = <<>>)'
    BY <1>5 DEF AnswerRest
  <2>3. InPlace'
    BY <1>5, UnknownAssumption DEF AnswerRest
  <2>4. QED BY <1>5, <2>1, <2>2, <2>3 DEF AnswerRest
<1>6. CASE ReceiveItem
  <2>1. CASE there
    <3>1. /\ file' = Append(file, up.next) /\ file \in Seq(Nat)
          /\ up.next \in Nat /\ up.next < size /\ (up.next = Len(file) \/ lost)
      BY <1>6, <2>1 DEF ReceiveItem
    <3>2. /\ file' \in Seq(Nat) /\ Len(file') = Len(file) + 1
          /\ \A i \in 1 .. Len(file) : file'[i] = file[i]
          /\ file'[Len(file) + 1] = up.next
      BY <3>1, AppendProperties
    <3>3. TransferTypeOK'
      BY SMTT(40), <1>6, <3>1, <3>2 DEF ReceiveItem
    <3>4. lost \/ \A i \in 1 .. Len(file') : file'[i] = i - 1
      BY <3>1, <3>2
    <3>5. FileIsPrefix' /\ (~there => file = <<>>)'
      BY <1>6, <2>1, <3>1, <3>2, <3>4 DEF ReceiveItem
    <3>6. InPlace'
      BY <1>6, <2>1, <3>1, <3>2 DEF ReceiveItem
    <3>7. QED BY <1>6, <3>3, <3>5, <3>6 DEF ReceiveItem
  <2>2. CASE ~there
    <3>1. file' = file /\ lost
      BY <1>6, <2>2 DEF ReceiveItem
    <3>2. TransferTypeOK'
      BY <1>6, <3>1 DEF ReceiveItem
    <3>3. QED BY <1>6, <3>1, <3>2 DEF ReceiveItem
  <2>3. QED BY <2>1, <2>2
<1>7. CASE EndOfBody
  BY <1>7, UnknownAssumption DEF EndOfBody
<1>8. CASE Abandon
  BY <1>8 DEF Abandon
<1>9. CASE CheckLength
  <2>1. CASE /\ rec' = "none" /\ up' = Waiting
             /\ file' = <<>> /\ there' = FALSE /\ fault' = FALSE /\ lost' = FALSE
    <3>1. TransferTypeOK'
      BY <1>9, <2>1, FileLength DEF CheckLength
    <3>2. QED BY <1>9, <2>1, <3>1, FileLength DEF CheckLength
  <2>2. CASE /\ rec' = "downloaded" /\ up' = [Waiting EXCEPT !.pc = "inflate"]
             /\ UNCHANGED <<file, there, fault, lost>>
    <3>1. TransferTypeOK'
      BY <1>9, <2>2 DEF CheckLength
    <3>2. QED BY <1>9, <2>2, <3>1 DEF CheckLength
  <2>3. QED BY <1>9, <2>1, <2>2 DEF CheckLength
<1>10. ASSUME NEW good \in BOOLEAN, InflateEnds(good), fault' \in {fault, TRUE}
       PROVE TransferInv'
  <2>1. TransferTypeOK'
    BY <1>10, FileLength DEF InflateEnds
  <2>2. FileIsPrefix'
    BY <1>10, FileLength DEF InflateEnds
  <2>3. QED BY <1>10, <2>1, <2>2, FileLength DEF InflateEnds
<1>11. CASE FlushFails
  <2> DEFINE n == Len(file) - 1
  <2>1. file \in Seq(Nat) /\ n \in Nat /\ n <= Len(file) /\ file' = SubSeq(file, 1, n)
    BY <1>11, FileLength, EmptySeq DEF FlushFails
  <2>2. \A i \in 1 .. n : file[i] \in Nat
    BY SMTT(40), <2>1, ElementOfSeq
  <2> HIDE DEF n
  <2>3. file' \in Seq(Nat) /\ Len(file') = n /\ \A i \in 1 .. n : file'[i] = file[i]
    BY SMTT(40), <2>1, <2>2, SubSeqProperties
  <2>4. TransferTypeOK'
    BY <1>11, <2>3 DEF FlushFails
  <2>5. FileIsPrefix' /\ (~there => file = <<>>)'
    BY <1>11, <2>1, <2>3 DEF FlushFails
  <2>6. QED BY <1>11, <2>4, <2>5 DEF FlushFails
<1>12. CASE LoseFile
  <2>1. TransferTypeOK'
    BY <1>12, FileLength DEF LoseFile
  <2>2. FileIsPrefix'
    BY <1>12, FileLength DEF LoseFile
  <2>3. InPlace'
    BY <1>12, FileLength DEF LoseFile
  <2>4. QED BY <1>12, <2>1, <2>2, <2>3 DEF LoseFile
<1>13. CASE UNCHANGED tvars
  BY <1>13 DEF tvars
<1>14. QED
  BY <1>1, <1>2, <1>3, <1>4, <1>5, <1>6, <1>7, <1>8, <1>9, <1>10, <1>11, <1>12, <1>13 DEF TransferNext

(***************************************************************************)
(* Whatever sequence of transfers is cut, resumed and started again, the   *)
(* file on disk is the beginning of the published one, and all of it when  *)
(* recorded as complete without a fault, unless the file went while an     *)
(* update() was using it.  Between updates it may go at any time.          *)
(***************************************************************************)
THEOREM DownloadIsPrefix == TransferSpec => []FileIsPrefix
<1>1. TransferInv => FileIsPrefix
  BY DEF TransferInv
<1>2. QED BY TransferInit_Inv, TransferStep_Inv, <1>1, PTL DEF TransferSpec

-----------------------------------------------------------------------------
(***************************************************************************)
(* The maker.  PatchRebuilds is inductive once every index is known to lie *)
(* in its file and the rounds are known not to run past the new file.      *)
(***************************************************************************)
(* What holds of the locals when they are m. *)
Sound(m) ==
    /\ m \in Locals
    /\ m.pc \in {"round", "search", "emit"} =>
          /\ new_size > 0 /\ old_size > 0
          /\ m.pos < old_size /\ m.last_pos < old_size /\ m.last_scan <= m.scan
    /\ m.pc \in {"round", "emit"} /\ m.scan < new_size => m.scan + m.len <= new_size
    /\ m.pc = "round" /\ m.scan = new_size => m.last_scan = new_size
    /\ m.pc = "search" => m.scan < new_size /\ m.st <= m.en /\ m.en < old_size

Reader ==
    /\ out \in Seq(Bytes) /\ cursor \in Nat
    /\ mk.pc = "start" => mk = Idle /\ out = <<>> /\ cursor = 0

FilesTyped ==
    /\ older \in Seq(Bytes) /\ newer \in Seq(Bytes)
    /\ sa \in [0 .. old_size - 1 -> 0 .. old_size - 1]

MakerInv == FilesTyped /\ Sound(mk) /\ Reader /\ PatchRebuilds

LEMMA BytesAreNaturals == Base \in Nat \ {0} /\ \A b \in Bytes : b \in Nat /\ b < Base
BY RadixAssumption DEF Base, Bytes

(* The reader's addition undoes the maker's subtraction. *)
LEMMA PlusMinus ==
    ASSUME NEW a \in Bytes, NEW b \in Bytes
    PROVE  Minus(a, b) \in Bytes /\ Plus(b, Minus(a, b)) = a
BY BytesAreNaturals DEF Bytes, Minus, Plus

LEMMA FilesAreSequences ==
    ASSUME NEW n \in Nat, NEW f \in Files(n)
    PROVE  f \in Seq(Bytes)
<1>1. PICK k \in 0 .. n : f \in [1 .. k -> Data]
  BY DEF Files
<1>2. QED BY <1>1, DataAssumption

LEMMA LengthsAreNaturals ==
    ASSUME older \in Seq(Bytes), newer \in Seq(Bytes)
    PROVE  /\ old_size \in Nat /\ new_size \in Nat
           /\ \A i \in 0 .. old_size - 1 : At(older, i) \in Bytes
           /\ \A i \in 0 .. new_size - 1 : At(newer, i) \in Bytes
BY LenProperties, ElementOfSeq DEF old_size, new_size, At

LEMMA MakeInit_Inv == MakeInit => MakerInv
<1> SUFFICES ASSUME MakeInit PROVE MakerInv
  OBVIOUS
<1>1. older \in Seq(Bytes) /\ newer \in Seq(Bytes)
  BY FilesAreSequences, BoundsAssumption DEF MakeInit
<1>2. sa \in [0 .. old_size - 1 -> 0 .. old_size - 1]
  BY DEF MakeInit, SuffixArrays, old_size
<1>3. mk = Idle /\ out = <<>> /\ cursor = 0
  BY DEF MakeInit
<1>4. Sound(mk) /\ Reader
  BY <1>1, <1>3, LengthsAreNaturals, EmptySeq DEF Sound, Locals, Reader, Idle
<1>5. QED BY <1>1, <1>2, <1>3, <1>4 DEF MakerInv, FilesTyped, PatchRebuilds, Idle

LEMMA IndexInside ==
    ASSUME NEW a \in Nat, NEW b \in Nat, NEW i \in 1 .. b, NEW n \in Nat, a + b <= n
    PROVE  a + i - 1 \in 0 .. n - 1
OBVIOUS

(* A file read up to a, then b bytes of it, then the rest up to c. *)
LEMMA Rejoin ==
    ASSUME NEW f \in Seq(Bytes), NEW a \in Nat, NEW b \in Nat, NEW c \in Nat,
           a + b <= c, c <= Len(f), NEW t, t = [i \in 1 .. b |-> f[a + i]]
    PROVE  (SubSeq(f, 1, a) \o t) \o SubSeq(f, a + b + 1, c) = SubSeq(f, 1, c)
<1>1. Len(f) \in Nat
  BY LenProperties
<1>2. SubSeq(f, 1, a) \o SubSeq(f, a + 1, a + b) = SubSeq(f, 1, a + b)
  <2>1. 1 \in 1 .. Len(f) + 1 /\ a \in 1 - 1 .. Len(f) /\ a + b \in a .. Len(f)
    BY <1>1
  <2>2. QED BY <2>1, ConcatAdjacentSubSeq
<1>3. SubSeq(f, 1, a + b) \o SubSeq(f, a + b + 1, c) = SubSeq(f, 1, c)
  <2>1. 1 \in 1 .. Len(f) + 1 /\ a + b \in 1 - 1 .. Len(f) /\ c \in a + b .. Len(f)
    BY <1>1
  <2>2. QED BY <2>1, ConcatAdjacentSubSeq
<1>4. t = SubSeq(f, a + 1, a + b)
  <2>1. \A i \in 1 .. b : f[a + i] \in Bytes
    BY <1>1, ElementOfSeq
  <2>2. t \in Seq(Bytes) /\ Len(t) = b
    BY <2>1
  <2>3. \A i \in a + 1 .. a + b : f[i] \in Bytes
    BY <1>1, ElementOfSeq
  <2>4. /\ SubSeq(f, a + 1, a + b) \in Seq(Bytes)
        /\ Len(SubSeq(f, a + 1, a + b)) = b
        /\ \A i \in 1 .. b : SubSeq(f, a + 1, a + b)[i] = f[a + i]
    <3>1. a + 1 \in Int /\ a + b \in Int /\ (a + b) - (a + 1) + 1 = b
          /\ \A i \in 1 .. b : a + 1 + i - 1 = a + i
      OBVIOUS
    <3>2. /\ SubSeq(f, a + 1, a + b) \in Seq(Bytes)
          /\ Len(SubSeq(f, a + 1, a + b)) = IF a + 1 <= a + b THEN (a + b) - (a + 1) + 1 ELSE 0
          /\ \A i \in 1 .. (a + b) - (a + 1) + 1 : SubSeq(f, a + 1, a + b)[i] = f[a + 1 + i - 1]
      BY <2>3, <3>1, SubSeqProperties
    <3>3. QED BY <3>1, <3>2
  <2>5. QED BY <2>2, <2>4, SeqEqual
<1>5. QED BY <1>2, <1>3, <1>4

(***************************************************************************)
(* What one entry does to the reader: it was at byte s of newer and at p   *)
(* of older; after lenf differences, the bytes up to e and the seek it has *)
(* written newer up to e.                                                  *)
(***************************************************************************)
LEMMA EntryRebuilds ==
    ASSUME FilesTyped, mk \in Locals, out = SubSeq(newer, 1, mk.last_scan), cursor = mk.last_pos,
           NEW lenf \in Nat, NEW lenb \in Nat, lenb <= mk.scan, lenb <= mk.pos,
           mk.last_scan + lenf <= mk.scan - lenb, mk.last_pos + lenf <= old_size,
           Rebuild(Entry(lenf, lenb))
    PROVE  out' = SubSeq(newer, 1, mk.scan - lenb) /\ cursor' = mk.pos - lenb
<1> DEFINE e == Entry(lenf, lenb)
<1>1. /\ older \in Seq(Bytes) /\ newer \in Seq(Bytes) /\ mk.last_scan \in Nat
      /\ mk.scan \in Nat /\ mk.scan <= new_size /\ mk.last_pos \in Nat /\ mk.pos \in Nat
      /\ old_size \in Nat /\ new_size \in Nat
  BY LengthsAreNaturals DEF FilesTyped, Locals
<1>2. e.copy = SubSeq(newer, mk.last_scan + lenf + 1, mk.scan - lenb)
  BY DEF Entry
<1>21. e.seek = (mk.pos - lenb) - (mk.last_pos + lenf)
  BY DEF Entry
<1>22. e.add = [i \in 1 .. lenf |-> Minus(At(newer, mk.last_scan + i - 1), At(older, mk.last_pos + i - 1))]
  BY DEF Entry
<1>23. Len(e.add) = lenf
  <2> HIDE DEF e
  <2>1. QED BY <1>22
<1>24. mk.last_scan + lenf <= new_size /\ mk.last_pos + lenf <= old_size
  BY SMTT(40), <1>1
<1>3. \A i \in 1 .. lenf : Plus(At(older, cursor + i - 1), e.add[i]) = newer[mk.last_scan + i]
  <2> SUFFICES ASSUME NEW i \in 1 .. lenf
               PROVE  Plus(At(older, cursor + i - 1), e.add[i]) = newer[mk.last_scan + i]
    OBVIOUS
  <2> HIDE DEF e
  <2> DEFINE a == At(newer, mk.last_scan + i - 1)
             b == At(older, mk.last_pos + i - 1)
  <2>1. mk.last_scan + i - 1 \in 0 .. new_size - 1 /\ mk.last_pos + i - 1 \in 0 .. old_size - 1
    BY <1>1, <1>24, IndexInside
  <2>2. a \in Bytes /\ b \in Bytes
    BY <1>1, <2>1, LengthsAreNaturals
  <2>3. e.add[i] = Minus(a, b)
    BY <1>22
  <2>4. At(older, cursor + i - 1) = b
    OBVIOUS
  <2> HIDE DEF b
  <2>5. Plus(b, Minus(a, b)) = a
    BY <2>2, PlusMinus
  <2>6. a = newer[mk.last_scan + i]
    <3>1. mk.last_scan + i - 1 + 1 = mk.last_scan + i
      BY <1>1
    <3>2. QED BY <3>1 DEF At
  <2>7. QED BY <2>3, <2>4, <2>5, <2>6
<1> DEFINE sum == [i \in 1 .. Len(e.add) |-> Plus(At(older, cursor + i - 1), e.add[i])]
<1> HIDE DEF e
<1>4. sum = [i \in 1 .. lenf |-> newer[mk.last_scan + i]]
  BY <1>3, <1>23
<1>5. out' = (out \o sum) \o e.copy /\ cursor' = cursor + Len(e.add) + e.seek
  BY DEF Rebuild, e
<1> HIDE DEF sum
<1>6. (SubSeq(newer, 1, mk.last_scan) \o sum) \o SubSeq(newer, mk.last_scan + lenf + 1, mk.scan - lenb)
      = SubSeq(newer, 1, mk.scan - lenb)
  <2>1. mk.scan - lenb \in Nat /\ mk.last_scan + lenf <= mk.scan - lenb /\ mk.scan - lenb <= Len(newer)
    BY SMTT(40), <1>1 DEF new_size
  <2> DEFINE c == mk.scan - lenb
             a == mk.last_scan
  <2>2. newer \in Seq(Bytes) /\ a \in Nat /\ c \in Nat /\ a + lenf <= c /\ c <= Len(newer)
        /\ sum = [i \in 1 .. lenf |-> newer[a + i]]
    BY <1>1, <1>4, <2>1
  <2> HIDE DEF c, a
  <2>3. (SubSeq(newer, 1, a) \o sum) \o SubSeq(newer, a + lenf + 1, c) = SubSeq(newer, 1, c)
    BY <2>2, Rejoin
  <2>4. QED BY <2>3 DEF a, c
<1>7. out' = SubSeq(newer, 1, mk.scan - lenb)
  BY <1>2, <1>5, <1>6
<1>8. cursor' = mk.pos - lenb
  <2>1. cursor' = mk.last_pos + lenf + ((mk.pos - lenb) - (mk.last_pos + lenf))
    BY <1>21, <1>23, <1>5
  <2>2. QED BY <1>1, <2>1
<1>9. QED BY <1>7, <1>8

(* The sizes do not change: what is Sound stays so in the next state. *)
LEMMA FilesStay ==
    ASSUME FilesTyped, UNCHANGED <<older, newer, sa>>
    PROVE  /\ FilesTyped' /\ old_size' = old_size /\ new_size' = new_size /\ Locals' = Locals
           /\ old_size \in Nat /\ new_size \in Nat
BY LengthsAreNaturals DEF FilesTyped, Locals, old_size, new_size

(* A step inside the loop that emits no entry. *)
LEMMA InnerStep ==
    ASSUME MakerInv, UNCHANGED <<older, newer, sa, patch, out, cursor>>,
           mk.pc \in {"round", "search", "emit"},
           NEW m, mk' = m, Sound(m), m.pc \in {"round", "search", "emit"},
           m.last_scan = mk.last_scan, m.last_pos = mk.last_pos
    PROVE  MakerInv'
<1>1. FilesTyped' /\ Sound(mk)'
  <2>1. old_size' = old_size /\ new_size' = new_size /\ Locals' = Locals /\ FilesTyped'
    BY FilesStay DEF MakerInv
  <2>2. QED BY <2>1 DEF Sound
<1>2. Reader'
  BY DEF MakerInv, Reader
<1>3. PatchRebuilds'
  BY DEF MakerInv, PatchRebuilds
<1>4. QED BY <1>1, <1>2, <1>3 DEF MakerInv

(* What the head of the inner loop needs of the locals, and leaves. *)
LEMMA LookupKeeps ==
    ASSUME NEW m \in Locals, old_size \in Nat, new_size \in Nat, new_size > 0, old_size > 0,
           m.pos < old_size, m.last_pos < old_size, m.last_scan <= m.scan
    PROVE  /\ Sound(Lookup(m)) /\ Lookup(m).pc \in {"search", "emit"}
           /\ Lookup(m).last_scan = m.last_scan /\ Lookup(m).last_pos = m.last_pos
<1>1. CASE m.scan < new_size
  <2> DEFINE n == [m EXCEPT !.pc = "search", !.st = 0, !.en = old_size - 1]
  <2>1. n \in Locals
    <3>1. old_size - 1 \in Int
      OBVIOUS
    <3> DEFINE last == old_size - 1
    <3> HIDE DEF last
    <3>2. last \in Int => [m EXCEPT !.pc = "search", !.st = 0, !.en = last] \in Locals
      BY DEF Locals
    <3>3. QED BY <3>1, <3>2 DEF last
  <2>2. Lookup(m) = n
    BY <1>1 DEF Lookup
  <2>3. /\ n.pc = "search" /\ n.st = 0 /\ n.en = old_size - 1 /\ n.scan = m.scan
        /\ n.pos = m.pos /\ n.last_pos = m.last_pos /\ n.last_scan = m.last_scan
    BY DEF Locals
  <2> HIDE DEF n
  <2>4. QED BY <1>1, <2>1, <2>2, <2>3 DEF Sound
<1>2. CASE ~(m.scan < new_size)
  <2> DEFINE n == [m EXCEPT !.pc = "emit"]
  <2>1. n \in Locals
    BY DEF Locals
  <2>2. Lookup(m) = n
    BY <1>2 DEF Lookup
  <2>3. /\ n.pc = "emit" /\ n.scan = m.scan /\ n.pos = m.pos /\ n.last_pos = m.last_pos
        /\ n.last_scan = m.last_scan
    BY DEF Locals
  <2> HIDE DEF n
  <2>4. QED BY <1>2, <2>1, <2>2, <2>3 DEF Sound
<1>3. QED BY <1>1, <1>2

LEMMA StartStep ==
    ASSUME MakerInv, Start
    PROVE  MakerInv'
<1>1. /\ mk = Idle /\ out = <<>> /\ cursor = 0 /\ UNCHANGED <<older, newer, sa>>
      /\ older \in Seq(Bytes) /\ newer \in Seq(Bytes) /\ old_size \in Nat /\ new_size \in Nat
      /\ FilesTyped' /\ old_size' = old_size /\ new_size' = new_size /\ Locals' = Locals
  BY FilesStay DEF Start, MakerInv, Reader, FilesTyped
<1>2. CASE mk' = [mk EXCEPT !.pc = "done"] /\ out' = newer /\ cursor' = 0
  <2>1. Sound(mk)'
    BY <1>1, <1>2 DEF Sound, Locals, Idle
  <2>2. Reader' /\ PatchRebuilds'
    BY <1>1, <1>2 DEF Reader, PatchRebuilds, Idle
  <2>3. QED BY <1>1, <2>1, <2>2 DEF MakerInv
<1>3. CASE new_size = 0 /\ mk' = [mk EXCEPT !.pc = "done"] /\ UNCHANGED <<patch, out, cursor>>
  <2>1. newer = <<>>
    BY <1>1, <1>3, EmptySeq DEF new_size
  <2>2. QED BY <1>1, <1>2, <1>3, <2>1
<1>4. CASE /\ new_size > 0 /\ old_size = 0 /\ mk' = [mk EXCEPT !.pc = "done"]
           /\ Rebuild([add |-> <<>>, copy |-> newer, seek |-> 0])
  <2> DEFINE nothing == [i \in 1 .. Len(<<>>) |-> Plus(At(older, cursor + i - 1), <<>>[i])]
  <2>1. nothing = <<>>
    BY EmptySeq
  <2>2. out' = (out \o nothing) \o newer /\ cursor' = cursor + Len(<<>>) + 0
    BY <1>4 DEF Rebuild
  <2>3. (<<>> \o <<>>) \o newer = newer
    BY <1>1, ConcatEmptySeq, EmptySeq
  <2>4. out' = newer /\ cursor' = 0
    BY <1>1, <2>1, <2>2, <2>3, EmptySeq
  <2>5. QED BY <1>2, <1>4, <2>4
<1>5. CASE /\ new_size > 0 /\ old_size > 0 /\ mk' = [mk EXCEPT !.pc = "round"]
           /\ UNCHANGED <<patch, out, cursor>>
  <2>1. Sound(mk)'
    BY <1>1, <1>5 DEF Sound, Locals, Idle
  <2>2. SubSeq(newer, 1, 0) = <<>>
    BY SubSeqEmpty
  <2>3. Reader' /\ PatchRebuilds'
    BY <1>1, <1>5, <2>2, EmptySeq DEF Reader, PatchRebuilds, Idle
  <2>4. QED BY <1>1, <2>1, <2>3 DEF MakerInv
<1>6. QED BY <1>3, <1>4, <1>5 DEF Start

(* What MakerInv says inside the loop, field by field. *)
LEMMA LoopFacts ==
    ASSUME MakerInv, mk.pc \in {"round", "search", "emit"}
    PROVE  /\ FilesTyped /\ mk \in Locals /\ Sound(mk)
           /\ old_size \in Nat /\ new_size \in Nat /\ new_size > 0 /\ old_size > 0
           /\ mk.scan \in Nat /\ mk.scan <= new_size /\ mk.len \in Nat /\ mk.len <= new_size
           /\ mk.pos \in Nat /\ mk.pos < old_size
           /\ mk.last_pos \in Nat /\ mk.last_pos < old_size
           /\ mk.last_scan \in Nat /\ mk.last_scan <= mk.scan
           /\ mk.scsc \in Nat /\ mk.scsc <= new_size /\ mk.oldscore \in Int
           /\ mk.st \in Nat /\ mk.en \in Int
           /\ out = SubSeq(newer, 1, mk.last_scan) /\ cursor = mk.last_pos
           /\ out \in Seq(Bytes)
<1>1. FilesTyped /\ Sound(mk) /\ Reader /\ PatchRebuilds
  BY DEF MakerInv
<1>2. old_size \in Nat /\ new_size \in Nat
  BY <1>1, LengthsAreNaturals DEF FilesTyped
<1>3. mk \in Locals
  BY <1>1 DEF Sound
<1>4. /\ mk.scan \in 0 .. new_size /\ mk.len \in 0 .. new_size /\ mk.pos \in Nat
      /\ mk.last_pos \in Nat /\ mk.last_scan \in 0 .. new_size /\ mk.scsc \in 0 .. new_size
      /\ mk.oldscore \in Int /\ mk.st \in Nat /\ mk.en \in Int
  BY <1>3 DEF Locals
<1>5. /\ new_size > 0 /\ old_size > 0 /\ mk.pos < old_size /\ mk.last_pos < old_size
      /\ mk.last_scan <= mk.scan
  BY <1>1 DEF Sound
<1>6. out = SubSeq(newer, 1, mk.last_scan) /\ cursor = mk.last_pos /\ out \in Seq(Bytes)
  BY <1>1 DEF PatchRebuilds, Reader
<1>7. QED BY <1>1, <1>2, <1>3, <1>4, <1>5, <1>6

LEMMA RoundStep ==
    ASSUME MakerInv, Round
    PROVE  MakerInv'
<1>1. UNCHANGED <<older, newer, sa, patch, out, cursor>> /\ mk.pc = "round"
  BY DEF Round
<1>2. CASE mk.scan < new_size
  <2> DEFINE m == [mk EXCEPT !.scan = @ + mk.len, !.scsc = mk.scan + mk.len, !.oldscore = 0]
  <2>1. mk' = Lookup(m)
    BY <1>2 DEF Round
  <2>2. mk.scan + mk.len <= new_size
    BY <1>1, <1>2 DEF MakerInv, Sound
  <2>3. mk.scan + mk.len \in 0 .. new_size
    BY <1>1, <2>2, LoopFacts
  <2>4. m \in Locals
    <3> DEFINE to == mk.scan + mk.len
    <3>1. to \in 0 .. new_size
      BY <2>3
    <3>2. mk \in Locals
      BY <1>1, LoopFacts
    <3> HIDE DEF to
    <3> DEFINE one == [mk EXCEPT !.scan = to]
               two == [one EXCEPT !.scsc = to]
    <3>3. one \in Locals
      BY <3>1, <3>2 DEF Locals
    <3> HIDE DEF one
    <3>4. two \in Locals
      BY <3>1, <3>3 DEF Locals
    <3> HIDE DEF two
    <3>5. [two EXCEPT !.oldscore = 0] \in Locals
      BY <3>4 DEF Locals
    <3>6. QED BY <3>2, <3>5 DEF to, one, two, Locals
  <2>5. /\ m.scan = mk.scan + mk.len /\ m.pos = mk.pos /\ m.last_pos = mk.last_pos
        /\ m.last_scan = mk.last_scan
    BY <1>1, LoopFacts DEF Locals
  <2> HIDE DEF m
  <2>6. m.last_scan <= m.scan
    BY <1>1, <2>5, LoopFacts
  <2>7. /\ Sound(Lookup(m)) /\ Lookup(m).pc \in {"search", "emit"}
        /\ Lookup(m).last_scan = m.last_scan /\ Lookup(m).last_pos = m.last_pos
    BY <1>1, <2>4, <2>5, <2>6, LoopFacts, LookupKeeps
  <2>8. QED BY <1>1, <2>1, <2>5, <2>7, InnerStep
<1>3. CASE ~(mk.scan < new_size)
  <2>1. mk' = [mk EXCEPT !.pc = "done"] /\ mk.scan = new_size
    BY <1>1, <1>3, LoopFacts DEF Round
  <2>2. mk.last_scan = new_size
    BY <1>1, <2>1 DEF MakerInv, Sound
  <2>3. out = newer /\ cursor < old_size /\ out \in Seq(Bytes) /\ cursor \in Nat
    BY <1>1, <2>2, SubSeqFull, LoopFacts DEF new_size, FilesTyped
  <2>4. mk' \in Locals /\ mk'.pc = "done"
    BY <1>1, <2>1, LoopFacts DEF Locals
  <2>5. FilesTyped' /\ old_size' = old_size /\ new_size' = new_size /\ Locals' = Locals
        /\ old_size \in Nat
    BY <1>1, FilesStay, LoopFacts
  <2>6. Sound(mk)'
    BY <2>4, <2>5 DEF Sound
  <2>7. Reader' /\ PatchRebuilds'
    BY <1>1, <2>3, <2>4, <2>5 DEF Reader, PatchRebuilds
  <2>8. QED BY <2>5, <2>6, <2>7 DEF MakerInv
<1>4. QED BY <1>2, <1>3

LEMMA HalveStep ==
    ASSUME MakerInv, Halve
    PROVE  MakerInv'
<1>1. UNCHANGED <<older, newer, sa, patch, out, cursor>> /\ mk.pc = "search" /\ mk.en - mk.st >= 2
  BY DEF Halve
<1>2. mk.scan < new_size /\ mk.st <= mk.en /\ mk.en < old_size
  BY <1>1 DEF MakerInv, Sound
<1> DEFINE mid == mk.st + (mk.en - mk.st) \div 2
<1>3. mid \in Nat /\ mk.st <= mid /\ mid <= mk.en
  <2>1. mk.st \in Nat /\ mk.en \in Int
    BY <1>1, LoopFacts
  <2>2. QED BY <1>1, <2>1
<1>4. mk' = [mk EXCEPT !.st = mid] \/ mk' = [mk EXCEPT !.en = mid]
  BY DEF Halve
<1> HIDE DEF mid
<1>5. mk \in Locals
  BY <1>1, LoopFacts
<1>6. CASE mk' = [mk EXCEPT !.st = mid]
  <2> DEFINE m == [mk EXCEPT !.st = mid]
  <2>1. m \in Locals
    BY <1>3, <1>5 DEF Locals
  <2>2. /\ m.pc = "search" /\ m.scan = mk.scan /\ m.pos = mk.pos /\ m.last_pos = mk.last_pos
        /\ m.last_scan = mk.last_scan /\ m.st = mid /\ m.en = mk.en
    BY <1>1, <1>5 DEF Locals
  <2> HIDE DEF m
  <2>3. Sound(m)
    BY <1>1, <1>2, <1>3, <2>1, <2>2, LoopFacts DEF Sound
  <2>4. QED BY <1>1, <1>6, <2>2, <2>3, InnerStep DEF m
<1>7. CASE mk' = [mk EXCEPT !.en = mid]
  <2> DEFINE m == [mk EXCEPT !.en = mid]
  <2>1. m \in Locals
    BY <1>3, <1>5 DEF Locals
  <2>2. /\ m.pc = "search" /\ m.scan = mk.scan /\ m.pos = mk.pos /\ m.last_pos = mk.last_pos
        /\ m.last_scan = mk.last_scan /\ m.en = mid /\ m.st = mk.st
    BY <1>1, <1>5 DEF Locals
  <2> HIDE DEF m
  <2>3. mid < old_size
    BY <1>1, <1>2, <1>3, LoopFacts
  <2>4. Sound(m)
    BY <1>1, <1>2, <1>3, <2>1, <2>2, <2>3, LoopFacts DEF Sound
  <2>5. QED BY <1>1, <1>7, <2>2, <2>4, InnerStep DEF m
<1>8. QED BY <1>4, <1>6, <1>7

(* The bytes a match covers are counted by a number. *)
LEMMA CountIsNatural ==
    ASSUME NEW a \in Int, NEW b \in Int, NEW S, S \subseteq a .. b
    PROVE  Cardinality(S) \in Nat
BY FS_Interval, FS_Subset, FS_CardinalityType

LEMMA MatchStep ==
    ASSUME MakerInv, Match
    PROVE  MakerInv'
<1>1. UNCHANGED <<older, newer, sa, patch, out, cursor>> /\ mk.pc = "search" /\ mk.en - mk.st < 2
  BY DEF Match
<1>2. mk.scan < new_size /\ mk.st <= mk.en /\ mk.en < old_size
  BY <1>1 DEF MakerInv, Sound
<1>3. PICK x \in 0 .. new_size - mk.scan, y \in 0 .. new_size - mk.scan :
        LET len == IF x > y THEN x ELSE y
            covered == {i \in mk.scsc .. mk.scan + len - 1 : Aligned(i, mk.last_offset)}
            m == [mk EXCEPT !.len = len,
                            !.pos = IF x > y THEN sa[mk.st] ELSE sa[mk.en],
                            !.oldscore = @ + Cardinality(covered),
                            !.scsc = IF mk.scan + len > @ THEN mk.scan + len ELSE @]
        IN  mk' = IF GoodEnough(len, m.oldscore) THEN [m EXCEPT !.pc = "emit"]
                                                 ELSE Lookup(LeaveByte(m))
  BY DEF Match
<1> DEFINE len == IF x > y THEN x ELSE y
           at == IF x > y THEN sa[mk.st] ELSE sa[mk.en]
           covered == {i \in mk.scsc .. mk.scan + len - 1 : Aligned(i, mk.last_offset)}
           score == mk.oldscore + Cardinality(covered)
           to == IF mk.scan + len > mk.scsc THEN mk.scan + len ELSE mk.scsc
           m == [mk EXCEPT !.len = len, !.pos = at, !.oldscore = score, !.scsc = to]
<1>4. mk \in Locals /\ mk.scan \in Nat /\ mk.scsc \in Nat /\ mk.scsc <= new_size
      /\ new_size \in Nat /\ old_size \in Nat /\ mk.st \in Nat /\ mk.en \in Int
      /\ mk.oldscore \in Int
  BY <1>1, LoopFacts
<1>5. mk' = IF GoodEnough(len, m.oldscore) THEN [m EXCEPT !.pc = "emit"] ELSE Lookup(LeaveByte(m))
  <2>1. m = [mk EXCEPT !.len = len, !.pos = at, !.oldscore = @ + Cardinality(covered),
                       !.scsc = IF mk.scan + len > @ THEN mk.scan + len ELSE @]
    BY <1>4 DEF Locals
  <2>2. QED BY <1>3, <2>1
<1>6. len \in Nat /\ mk.scan + len <= new_size /\ len <= new_size
  BY <1>4
<1>7. at \in Nat /\ at < old_size
  <2>1. mk.st \in 0 .. old_size - 1 /\ mk.en \in 0 .. old_size - 1
    BY <1>2, <1>4
  <2>2. sa[mk.st] \in 0 .. old_size - 1 /\ sa[mk.en] \in 0 .. old_size - 1
    BY <1>1, <2>1, LoopFacts DEF FilesTyped
  <2>3. QED BY <2>2, <1>4
<1> HIDE DEF len, at
<1>8. score \in Int
  <2>1. mk.scan + len - 1 \in Int /\ mk.scsc \in Int
    BY <1>4, <1>6
  <2>2. Cardinality(covered) \in Nat
    BY <2>1, CountIsNatural
  <2>3. QED BY <1>4, <2>2
<1>9. to \in Nat /\ to <= new_size
  BY <1>4, <1>6
<1> HIDE DEF score, to, covered
<1>10. m \in Locals
  <2> DEFINE one == [mk EXCEPT !.len = len]
             two == [one EXCEPT !.pos = at]
             three == [two EXCEPT !.oldscore = score]
  <2>1. len \in 0 .. new_size /\ to \in 0 .. new_size
    BY <1>4, <1>6, <1>9
  <2>2. one \in Locals
    BY <1>4, <2>1 DEF Locals
  <2> HIDE DEF one
  <2>3. two \in Locals
    BY <1>7, <2>2 DEF Locals
  <2> HIDE DEF two
  <2>4. three \in Locals
    BY <1>8, <2>3 DEF Locals
  <2> HIDE DEF three
  <2>5. [three EXCEPT !.scsc = to] \in Locals
    BY <2>1, <2>4 DEF Locals
  <2>6. QED BY <1>4, <2>5 DEF one, two, three, Locals
<1>11. /\ m.scan = mk.scan /\ m.len = len /\ m.pos = at /\ m.last_pos = mk.last_pos
       /\ m.last_scan = mk.last_scan /\ m.oldscore = score
  BY <1>4 DEF Locals
<1> HIDE DEF m
<1>12. CASE mk' = [m EXCEPT !.pc = "emit"]
  <2> DEFINE n == [m EXCEPT !.pc = "emit"]
  <2>1. n \in Locals
    BY <1>10 DEF Locals
  <2>2. /\ n.pc = "emit" /\ n.scan = mk.scan /\ n.len = len /\ n.pos = at
        /\ n.last_pos = mk.last_pos /\ n.last_scan = mk.last_scan
    BY <1>10, <1>11 DEF Locals
  <2> HIDE DEF n
  <2>3. Sound(n)
    BY <1>1, <1>2, <1>6, <1>7, <2>1, <2>2, LoopFacts DEF Sound
  <2>4. QED BY <1>1, <1>12, <2>2, <2>3, InnerStep DEF n
<1>13. CASE mk' = Lookup(LeaveByte(m))
  <2> DEFINE left == IF Aligned(m.scan, m.last_offset) THEN score - 1 ELSE score
             next == mk.scan + 1
             n == [m EXCEPT !.scan = next, !.oldscore = left]
  <2>1. left \in Int /\ next \in 0 .. new_size
    BY <1>2, <1>4, <1>8
  <2>2. LeaveByte(m) = n
    BY <1>10, <1>11 DEF LeaveByte, Locals
  <2> HIDE DEF left, next
  <2>3. n \in Locals
    <3> DEFINE one == [m EXCEPT !.scan = next]
    <3>1. one \in Locals
      BY <1>10, <2>1 DEF Locals
    <3> HIDE DEF one
    <3>2. [one EXCEPT !.oldscore = left] \in Locals
      BY <2>1, <3>1 DEF Locals
    <3>3. QED BY <1>10, <3>2 DEF one, Locals
  <2>4. /\ n.scan = mk.scan + 1 /\ n.pos = at /\ n.last_pos = mk.last_pos
        /\ n.last_scan = mk.last_scan
    BY <1>10, <1>11 DEF Locals, next
  <2> HIDE DEF n
  <2>5. n.last_scan <= n.scan
    BY <1>1, <2>4, LoopFacts
  <2>6. /\ Sound(Lookup(n)) /\ Lookup(n).pc \in {"search", "emit"}
        /\ Lookup(n).last_scan = n.last_scan /\ Lookup(n).last_pos = n.last_pos
    BY <1>1, <1>7, <2>3, <2>4, <2>5, LoopFacts, LookupKeeps
  <2>7. QED BY <1>1, <1>13, <2>2, <2>4, <2>6, InnerStep
<1>14. QED BY <1>5, <1>12, <1>13

LEMMA ContinueStep ==
    ASSUME MakerInv, Continue
    PROVE  MakerInv'
<1> DEFINE m == [mk EXCEPT !.pc = "round"]
<1>1. /\ UNCHANGED <<older, newer, sa, patch, out, cursor>> /\ mk.pc = "emit"
      /\ mk.scan # new_size /\ mk' = m
  BY DEF Continue
<1>2. mk \in Locals /\ mk.scan < new_size
  BY <1>1, LoopFacts
<1>3. mk.scan + mk.len <= new_size
  BY <1>1, <1>2 DEF MakerInv, Sound
<1>4. m \in Locals
  BY <1>2 DEF Locals
<1>5. /\ m.pc = "round" /\ m.scan = mk.scan /\ m.len = mk.len /\ m.pos = mk.pos
      /\ m.last_pos = mk.last_pos /\ m.last_scan = mk.last_scan
  BY <1>2 DEF Locals
<1> HIDE DEF m
<1>6. Sound(m)
  BY <1>1, <1>2, <1>3, <1>4, <1>5, LoopFacts DEF Sound
<1>7. QED BY <1>1, <1>5, <1>6, InnerStep

(* The lengths of the two windows, once their overlap is split: they meet, or leave a gap. *)
LEMMA WindowsMeet ==
    ASSUME NEW l \in Nat, NEW s \in Nat, l <= s, NEW n \in Nat, NEW p \in Nat,
           NEW f \in Nat, f <= s - l, f <= n, NEW b \in Nat, b <= s - l, b <= p,
           NEW o, o = (IF l + f > s - b THEN l + f - (s - b) ELSE 0), NEW k \in 0 .. o
    PROVE  /\ f + k - o \in Nat /\ b - k \in Nat /\ b - k <= p /\ b - k <= s
           /\ f + k - o <= n /\ l + (f + k - o) <= s - (b - k)
           /\ b = 0 => b - k = 0
OBVIOUS

(* An entry: its windows lie in the two files, and meet or leave a gap. *)
LEMMA EmitWindows ==
    ASSUME MakerInv, Emit
    PROVE  \E lenf, lenb \in Nat :
              /\ lenb <= mk.pos /\ lenb <= mk.scan /\ lenf <= old_size - mk.last_pos
              /\ mk.last_scan + lenf <= mk.scan - lenb
              /\ mk.scan = new_size => lenb = 0
              /\ patch' = Append(patch, Entry(lenf, lenb)) /\ Rebuild(Entry(lenf, lenb))
              /\ mk' = [mk EXCEPT !.pc = "round", !.last_scan = mk.scan - lenb,
                                  !.last_pos = mk.pos - lenb, !.last_offset = mk.pos - mk.scan]
<1>1. mk.pc = "emit"
  BY DEF Emit
<1>2. /\ old_size \in Nat /\ new_size \in Nat
      /\ mk.scan \in Nat /\ mk.scan <= new_size /\ mk.pos \in Nat /\ mk.pos < old_size
      /\ mk.last_pos \in Nat /\ mk.last_pos < old_size
      /\ mk.last_scan \in Nat /\ mk.last_scan <= mk.scan
  BY <1>1, LoopFacts
<1>4. PICK f \in DOMAIN ForwardScore, b \in DOMAIN BackwardScore :
        \E split \in DOMAIN SplitScore(f, b) :
            LET w == Split(f, b, split)
            IN  /\ patch' = Append(patch, Entry(w.lenf, w.lenb)) /\ Rebuild(Entry(w.lenf, w.lenb))
                /\ mk' = [mk EXCEPT !.pc = "round", !.last_scan = mk.scan - w.lenb,
                                    !.last_pos = mk.pos - w.lenb,
                                    !.last_offset = mk.pos - mk.scan]
  BY DEF Emit
<1>5. PICK split \in 0 .. Overlap(f, b) :
            LET w == Split(f, b, split)
            IN  /\ patch' = Append(patch, Entry(w.lenf, w.lenb)) /\ Rebuild(Entry(w.lenf, w.lenb))
                /\ mk' = [mk EXCEPT !.pc = "round", !.last_scan = mk.scan - w.lenb,
                                    !.last_pos = mk.pos - w.lenb,
                                    !.last_offset = mk.pos - mk.scan]
  BY <1>4 DEF SplitScore
<1> DEFINE lenf == f + split - Overlap(f, b)
           lenb == b - split
<1>6. /\ patch' = Append(patch, Entry(lenf, lenb)) /\ Rebuild(Entry(lenf, lenb))
      /\ mk' = [mk EXCEPT !.pc = "round", !.last_scan = mk.scan - lenb,
                          !.last_pos = mk.pos - lenb, !.last_offset = mk.pos - mk.scan]
  BY <1>5 DEF Split
<1>7. f \in Nat /\ f <= mk.scan - mk.last_scan /\ f <= old_size - mk.last_pos
  <2>1. f \in 0 .. Least(mk.scan - mk.last_scan, old_size - mk.last_pos)
    BY DEF ForwardScore
  <2>2. QED BY <1>2, <2>1 DEF Least
<1>8. /\ b \in Nat /\ b <= mk.scan - mk.last_scan /\ b <= mk.pos
      /\ mk.scan = new_size => b = 0
  <2>1. b \in 0 .. IF mk.scan < new_size THEN Least(mk.scan - mk.last_scan, mk.pos) ELSE 0
    BY DEF BackwardScore
  <2>2. QED BY <1>2, <2>1 DEF Least
<1>9. /\ lenf \in Nat /\ lenb \in Nat /\ lenb <= mk.pos /\ lenb <= mk.scan
      /\ lenf <= old_size - mk.last_pos /\ mk.last_scan + lenf <= mk.scan - lenb
      /\ mk.scan = new_size => lenb = 0
  <2> DEFINE l == mk.last_scan
             s == mk.scan
             n == old_size - mk.last_pos
             p == mk.pos
             o == Overlap(f, b)
  <2>1. o = (IF l + f > s - b THEN l + f - (s - b) ELSE 0)
    BY DEF Overlap
  <2>2. l \in Nat /\ s \in Nat /\ l <= s /\ n \in Nat /\ p \in Nat
        /\ f <= s - l /\ f <= n /\ b <= s - l /\ b <= p /\ split \in 0 .. o
    BY <1>2, <1>7, <1>8
  <2> HIDE DEF l, s, n, p, o
  <2>3. /\ f + split - o \in Nat /\ b - split \in Nat /\ b - split <= p /\ b - split <= s
        /\ f + split - o <= n /\ l + (f + split - o) <= s - (b - split)
        /\ b = 0 => b - split = 0
    BY <1>7, <1>8, <2>1, <2>2, WindowsMeet
  <2>4. QED BY <1>8, <2>3 DEF l, s, n, p, o
<1> HIDE DEF lenf, lenb
<1>10. QED BY <1>6, <1>9

LEMMA EmitStep ==
    ASSUME MakerInv, Emit
    PROVE  MakerInv'
<1>1. UNCHANGED <<older, newer, sa>> /\ mk.pc = "emit"
  BY DEF Emit
<1>2. /\ mk \in Locals /\ FilesTyped /\ old_size \in Nat /\ new_size \in Nat
      /\ mk.scan \in Nat /\ mk.scan <= new_size /\ mk.pos \in Nat /\ mk.pos < old_size
      /\ mk.last_pos \in Nat /\ mk.last_pos < old_size
      /\ mk.last_scan \in Nat /\ mk.last_scan <= mk.scan
      /\ out = SubSeq(newer, 1, mk.last_scan) /\ cursor = mk.last_pos
  BY <1>1, LoopFacts
<1>3. mk.scan < new_size => mk.scan + mk.len <= new_size
  BY <1>1 DEF MakerInv, Sound
<1>4. PICK lenf \in Nat, lenb \in Nat :
              /\ lenb <= mk.pos /\ lenb <= mk.scan /\ lenf <= old_size - mk.last_pos
              /\ mk.last_scan + lenf <= mk.scan - lenb
              /\ mk.scan = new_size => lenb = 0
              /\ Rebuild(Entry(lenf, lenb))
              /\ mk' = [mk EXCEPT !.pc = "round", !.last_scan = mk.scan - lenb,
                                  !.last_pos = mk.pos - lenb, !.last_offset = mk.pos - mk.scan]
  BY EmitWindows
<1> DEFINE from == mk.scan - lenb
           place == mk.pos - lenb
           offset == mk.pos - mk.scan
           m == [mk EXCEPT !.pc = "round", !.last_scan = from, !.last_pos = place,
                           !.last_offset = offset]
<1>6. Rebuild(Entry(lenf, lenb)) /\ mk' = m
  BY <1>4
<1>9. /\ lenf \in Nat /\ lenb \in Nat /\ lenb <= mk.pos /\ lenb <= mk.scan
      /\ lenf <= old_size - mk.last_pos /\ mk.last_scan + lenf <= mk.scan - lenb
      /\ mk.scan = new_size => lenb = 0
  BY <1>4
<1>10. out' = SubSeq(newer, 1, from) /\ cursor' = place
  <2>1. mk.last_pos + lenf <= old_size
    BY <1>2, <1>9
  <2>2. QED BY <1>2, <1>6, <1>9, <2>1, EntryRebuilds
<1>11. /\ from \in Nat /\ from <= mk.scan /\ from <= new_size /\ place \in Nat /\ place < old_size
       /\ offset \in Int
       /\ mk.scan = new_size => from = new_size
  <2>1. from \in Nat /\ from <= mk.scan /\ (mk.scan = new_size => from = new_size)
    BY <1>2, <1>9
  <2>2. place \in Nat /\ place <= mk.pos
    BY SMTT(40), <1>2, <1>9
  <2>3. offset \in Int
    BY <1>2
  <2> HIDE DEF from, place, offset
  <2>4. QED BY <1>2, <2>1, <2>2, <2>3
<1> HIDE DEF from, place, offset
<1>12. m \in Locals
  <2> DEFINE one == [mk EXCEPT !.pc = "round"]
             two == [one EXCEPT !.last_scan = from]
             three == [two EXCEPT !.last_pos = place]
  <2>1. one \in Locals
    BY <1>2 DEF Locals
  <2> HIDE DEF one
  <2>2. from \in 0 .. new_size
    BY <1>2, <1>11
  <2>3. two \in Locals
    BY <2>1, <2>2 DEF Locals
  <2> HIDE DEF two
  <2>4. three \in Locals
    BY <1>11, <2>3 DEF Locals
  <2> HIDE DEF three
  <2>5. [three EXCEPT !.last_offset = offset] \in Locals
    BY <1>11, <2>4 DEF Locals
  <2>6. QED BY <1>2, <2>5 DEF one, two, three, Locals
<1>13. /\ m.pc = "round" /\ m.scan = mk.scan /\ m.len = mk.len /\ m.pos = mk.pos
       /\ m.last_pos = place /\ m.last_scan = from
  BY <1>2 DEF Locals
<1> HIDE DEF m
<1>14. Sound(m)
  BY <1>1, <1>2, <1>3, <1>11, <1>12, <1>13, LoopFacts DEF Sound
<1>15. FilesTyped' /\ old_size' = old_size /\ new_size' = new_size /\ Locals' = Locals
  BY <1>1, <1>2, FilesStay
<1>16. Sound(mk)'
  BY <1>6, <1>14, <1>15 DEF Sound
<1>17. newer' = newer /\ mk'.pc = "round" /\ mk'.last_scan = from /\ mk'.last_pos = place
  BY <1>1, <1>6, <1>13
<1>18. PatchRebuilds'
  BY <1>10, <1>17 DEF PatchRebuilds
<1>19. Reader'
  <2>1. newer \in Seq(Bytes) /\ new_size = Len(newer)
    BY <1>2 DEF FilesTyped, new_size
  <2>2. \A i \in 1 .. from : newer[i] \in Bytes
    BY <1>2, <1>11, <2>1, ElementOfSeq
  <2>3. SubSeq(newer, 1, from) \in Seq(Bytes)
    BY <1>11, <2>2, SubSeqProperties
  <2>4. QED BY <1>10, <1>11, <1>17, <2>3 DEF Reader
<1>20. QED BY <1>15, <1>16, <1>18, <1>19 DEF MakerInv

LEMMA MakerStep_Inv == MakerInv /\ [MakeNext]_mvars => MakerInv'
<1> SUFFICES ASSUME MakerInv, [MakeNext]_mvars PROVE MakerInv'
  OBVIOUS
<1>1. CASE UNCHANGED mvars
  <2>1. FilesTyped' /\ Sound(mk)'
    <3>1. Locals' = Locals /\ new_size' = new_size /\ old_size' = old_size
      BY <1>1 DEF mvars, Locals, new_size, old_size
    <3>2. QED BY <1>1, <3>1 DEF mvars, MakerInv, FilesTyped, Sound
  <2>2. Reader' /\ PatchRebuilds'
    BY <1>1 DEF mvars, MakerInv, Reader, PatchRebuilds, old_size
  <2>3. QED BY <2>1, <2>2 DEF MakerInv
<1>2. QED
  BY <1>1, StartStep, RoundStep, HalveStep, MatchStep, ContinueStep, EmitStep DEF MakeNext

(***************************************************************************)
(* For any two files, any alphabet and any Slack, the entries of the patch *)
(* rebuild the new file from the old one, and no index leaves its file.    *)
(***************************************************************************)
THEOREM PatchIsRight == MakeSpec => []PatchRebuilds
<1>1. MakerInv => PatchRebuilds
  BY DEF MakerInv
<1>2. QED BY MakeInit_Inv, MakerStep_Inv, <1>1, PTL DEF MakeSpec

-----------------------------------------------------------------------------
(***************************************************************************)
(* The score.  A byte scan leaves is taken off the score, so it must have  *)
(* been counted: the window must not be empty when the byte is aligned.    *)
(* That is so because the byte then occurs in the old file, and the binary *)
(* search, over suffixes in order, finds a match of at least one byte.     *)
(***************************************************************************)
Window(m) == {i \in m.scan .. m.scsc - 1 : Aligned(i, m.last_offset)}

(* What is known of the score and of the ends of the search when the locals are m. *)
Scored(m) ==
    /\ m.pc \in {"round", "search", "emit"} => m.scan + m.last_offset >= 0
    /\ m.pc = "search" =>
          /\ m.oldscore = Cardinality(Window(m))
          /\ \A i \in m.scsc .. m.scan - 1 : ~Aligned(i, m.last_offset)
          /\ m.st > 0 => Below(older, sa[m.st], newer, m.scan)
          /\ m.en < old_size - 1 => ~Below(older, sa[m.en], newer, m.scan)

ScoreInv == MakerInv /\ sa \in SuffixArrays(older) /\ Scored(mk)

(* The first byte of what memcmp finds lower is not higher. *)
LEMMA FirstBytes ==
    ASSUME NEW a \in Seq(Bytes), NEW b \in Seq(Bytes),
           NEW i \in 0 .. Len(a) - 1, NEW j \in 0 .. Len(b) - 1
    PROVE  /\ Below(a, i, b, j) => At(a, i) <= At(b, j)
           /\ ~Below(a, i, b, j) => At(b, j) <= At(a, i)
<1>1. Len(a) \in Nat /\ Len(b) \in Nat /\ i \in Nat /\ j \in Nat /\ i < Len(a) /\ j < Len(b)
  BY LenProperties
<1>2. At(a, i) \in Nat /\ At(b, j) \in Nat
  <2>1. i + 1 \in 1 .. Len(a) /\ j + 1 \in 1 .. Len(b)
    BY <1>1
  <2>2. At(a, i) \in Bytes /\ At(b, j) \in Bytes
    BY <2>1, ElementOfSeq DEF At
  <2>3. QED BY <2>2, BytesAreNaturals
<1>3. ASSUME Below(a, i, b, j) PROVE At(a, i) <= At(b, j)
  <2>1. PICK n \in 0 .. Least(Len(a) - i, Len(b) - j) - 1 :
            IsMatchLen(n, a, i, b, j) /\ At(a, i + n) < At(b, j + n)
    BY <1>3 DEF Below
  <2>2. CASE n = 0
    BY <1>1, <1>2, <2>1, <2>2
  <2>3. CASE n # 0
    <3>1. n \in Nat
      BY <1>1, <2>1 DEF Least
    <3>2. 0 \in 0 .. n - 1
      BY <2>3, <3>1
    <3>3. At(a, i + 0) = At(b, j + 0)
      BY <2>1, <3>2 DEF IsMatchLen
    <3>4. QED BY <1>1, <1>2, <3>3
  <2>4. QED BY <2>2, <2>3
<1>4. ASSUME At(a, i) < At(b, j) PROVE Below(a, i, b, j)
  <2>1. 0 \in 0 .. Least(Len(a) - i, Len(b) - j) - 1
    BY <1>1 DEF Least
  <2>2. At(a, i + 0) < At(b, j + 0) /\ At(a, i + 0) # At(b, j + 0)
    BY <1>1, <1>2, <1>4
  <2>3. IsMatchLen(0, a, i, b, j)
    BY <1>1, <2>2 DEF IsMatchLen
  <2>4. QED BY <2>1, <2>2, <2>3 DEF Below
<1>5. QED BY <1>2, <1>3, <1>4

LEMMA InOrder ==
    ASSUME NEW text \in Seq(Bytes), NEW i \in 0 .. Len(text) - 1, NEW j \in 0 .. Len(text) - 1,
           SuffixLess(text, i, j)
    PROVE  At(text, i) <= At(text, j)
BY FirstBytes DEF SuffixLess

(* Equal first bytes are a match. *)
LEMMA MatchesFirst ==
    ASSUME NEW n \in Nat, NEW a \in Seq(Bytes), NEW b \in Seq(Bytes),
           NEW i \in 0 .. Len(a) - 1, NEW j \in 0 .. Len(b) - 1,
           IsMatchLen(n, a, i, b, j), At(a, i) = At(b, j)
    PROVE  n > 0
<1>1. Len(a) \in Nat /\ Len(b) \in Nat
  BY LenProperties
<1>2. ASSUME n = 0 PROVE FALSE
  <2>1. n < Len(a) - i /\ n < Len(b) - j
    BY <1>1, <1>2
  <2>2. At(a, i + 0) # At(b, j + 0)
    BY <1>2, <2>1 DEF IsMatchLen
  <2>3. QED BY <1>1, <2>2
<1>3. QED BY <1>2

(* No suffix is before itself, so a suffix array has each of them once. *)
LEMMA EverySuffix ==
    ASSUME NEW text \in Seq(Bytes), NEW s \in SuffixArrays(text), NEW p \in 0 .. Len(text) - 1
    PROVE  \E k \in 0 .. Len(text) - 1 : s[k] = p
<1> DEFINE I == 0 .. Len(text) - 1
<1>1. s \in [I -> I] /\ \A i, j \in I : i < j => SuffixLess(text, s[i], s[j])
  BY DEF SuffixArrays
<1>2. I \subseteq Int /\ \A i \in I : text[i + 1] \in Nat
  <2>1. Len(text) \in Nat
    BY LenProperties
  <2>2. \A i \in I : text[i + 1] \in Bytes
    BY <2>1, ElementOfSeq
  <2>3. QED BY <2>1, <2>2, BytesAreNaturals
<1>3. \A i \in I : ~SuffixLess(text, i, i)
  <2> SUFFICES ASSUME NEW i \in I, SuffixLess(text, i, i) PROVE FALSE
    OBVIOUS
  <2>1. Len(text) \in Nat /\ i \in Nat
    BY LenProperties
  <2>2. Below(text, i, text, i)
    BY <2>1 DEF SuffixLess
  <2>3. PICK n \in 0 .. Least(Len(text) - i, Len(text) - i) - 1 : At(text, i + n) < At(text, i + n)
    BY <2>2 DEF Below
  <2>4. i + n \in I
    BY <2>1, <2>3 DEF Least
  <2>5. At(text, i + n) \in Nat
    BY <1>2, <2>4 DEF At
  <2>6. QED BY <2>3, <2>5
<1>4. s \in Injection(I, I)
  <2>1. \A a, b \in I : s[a] = s[b] => a = b
    <3> SUFFICES ASSUME NEW a \in I, NEW b \in I, s[a] = s[b], a # b PROVE FALSE
      OBVIOUS
    <3>1. a < b \/ b < a
      BY <1>2
    <3>2. SuffixLess(text, s[a], s[b]) \/ SuffixLess(text, s[b], s[a])
      BY <1>1, <3>1
    <3>3. QED BY <1>1, <1>3, <3>2
  <2>2. DOMAIN s = I
    BY <1>1
  <2> HIDE DEF I
  <2>3. QED BY <1>1, <2>1, <2>2 DEF Injection, IsInjective
<1>5. IsFiniteSet(I)
  BY LenProperties, FS_Interval
<1>6. s \in Surjection(I, I)
  <2> HIDE DEF I
  <2>1. QED BY <1>4, <1>5, FS_Injection
<1>7. QED BY <1>6 DEF Surjection

(* Once the search ends, one of its two matches shares the byte, if the old file has it. *)
LEMMA SearchFindsByte ==
    ASSUME ScoreInv, mk.pc = "search", mk.en - mk.st < 2,
           NEW p \in 0 .. old_size - 1, At(older, p) = At(newer, mk.scan),
           NEW x \in Nat, IsMatchLen(x, older, sa[mk.st], newer, mk.scan),
           NEW y \in Nat, IsMatchLen(y, older, sa[mk.en], newer, mk.scan)
    PROVE  x > 0 \/ y > 0
<1> DEFINE st == mk.st
           en == mk.en
           scan == mk.scan
<1>1. /\ older \in Seq(Bytes) /\ newer \in Seq(Bytes) /\ scan \in 0 .. Len(newer) - 1
      /\ st \in 0 .. Len(older) - 1 /\ en \in 0 .. Len(older) - 1 /\ st <= en /\ en <= st + 1
      /\ sa \in [0 .. Len(older) - 1 -> 0 .. Len(older) - 1] /\ p \in 0 .. Len(older) - 1
      /\ Len(older) \in Nat
  <2>1. MakerInv
    BY DEF ScoreInv
  <2>2. /\ old_size \in Nat /\ new_size \in Nat /\ mk.scan \in Nat /\ mk.st \in Nat /\ mk.en \in Int
        /\ FilesTyped
    BY <2>1, LoopFacts
  <2>3. mk.scan < new_size /\ mk.st <= mk.en /\ mk.en < old_size
    BY <2>1 DEF MakerInv, Sound
  <2>4. scan \in 0 .. new_size - 1 /\ st \in 0 .. old_size - 1 /\ en \in 0 .. old_size - 1
        /\ st <= en /\ en <= st + 1
    BY <2>2, <2>3
  <2>5. QED BY <2>2, <2>4 DEF FilesTyped, old_size, new_size
<1>2. PICK k \in 0 .. Len(older) - 1 : sa[k] = p
  BY <1>1, EverySuffix DEF ScoreInv
<1>3. \A i, j \in 0 .. Len(older) - 1 : i < j => At(older, sa[i]) <= At(older, sa[j])
  <2> SUFFICES ASSUME NEW i \in 0 .. Len(older) - 1, NEW j \in 0 .. Len(older) - 1, i < j
               PROVE  At(older, sa[i]) <= At(older, sa[j])
    OBVIOUS
  <2>1. SuffixLess(older, sa[i], sa[j])
    BY <1>1 DEF ScoreInv, SuffixArrays
  <2>2. QED BY <1>1, <2>1, InOrder
<1>4. At(older, sa[st]) \in Nat /\ At(older, sa[en]) \in Nat /\ At(older, p) \in Nat
  <2>1. \A i \in 0 .. Len(older) - 1 : At(older, i) \in Nat
    BY <1>1, LengthsAreNaturals, BytesAreNaturals DEF old_size
  <2>2. QED BY <1>1, <2>1
<1>5. st > 0 => At(older, sa[st]) <= At(newer, scan)
  BY <1>1, FirstBytes DEF ScoreInv, Scored
<1>6. en < Len(older) - 1 => At(newer, scan) <= At(older, sa[en])
  BY <1>1, FirstBytes DEF ScoreInv, Scored, old_size
<1>7. CASE k <= st
  <2>1. At(older, sa[st]) = At(newer, scan)
    <3>1. CASE k = st
      BY <1>2, <3>1
    <3>2. CASE k < st
      <4>1. At(older, sa[k]) <= At(older, sa[st])
        BY <1>1, <1>3, <3>2
      <4>2. st > 0
        BY <1>1, <3>2
      <4>3. QED BY <1>2, <1>4, <1>5, <4>1, <4>2
    <3>3. QED BY <1>1, <1>7, <3>1, <3>2
  <2>2. x > 0
    BY <1>1, <2>1, MatchesFirst
  <2>3. QED BY <2>2
<1>8. CASE k >= en
  <2>1. At(older, sa[en]) = At(newer, scan)
    <3>1. CASE k = en
      BY <1>2, <3>1
    <3>2. CASE en < k
      <4>1. At(older, sa[en]) <= At(older, sa[k])
        BY <1>1, <1>3, <3>2
      <4>2. en < Len(older) - 1
        BY <1>1, <3>2
      <4>3. QED BY <1>2, <1>4, <1>6, <4>1, <4>2
    <3>3. QED BY <1>1, <1>8, <3>1, <3>2
  <2>2. y > 0
    BY <1>1, <2>1, MatchesFirst
  <2>3. QED BY <2>2
<1>9. k <= st \/ k >= en
  <2>1. k \in Int /\ st \in Int /\ en \in Int /\ en <= st + 1
    BY <1>1
  <2> HIDE DEF st, en
  <2>2. QED BY <2>1
<1>10. QED BY <1>7, <1>8, <1>9

(* The score does not look at what a step inside a round leaves alone. *)
LEMMA ScoreStays ==
    ASSUME UNCHANGED <<older, newer, sa>>, NEW m, mk' = m, Scored(m)
    PROVE  Scored(mk)'
BY DEF Scored, Window, Aligned, At, old_size

(* What two windows hold apart is counted apart. *)
LEMMA CountsAdd ==
    ASSUME NEW L, NEW R, IsFiniteSet(L), IsFiniteSet(R), L \cap R = {}
    PROVE  Cardinality(L \cup R) = Cardinality(L) + Cardinality(R)
<1>1. Cardinality(L) \in Nat /\ Cardinality(R) \in Nat
  BY FS_CardinalityType
<1>2. Cardinality(L \cap R) = 0
  BY FS_EmptySet
<1>3. Cardinality(L \cup R) = Cardinality(L) + Cardinality(R) - Cardinality(L \cap R)
  BY FS_Union
<1>4. QED BY <1>1, <1>2, <1>3

(* A window that leaves its first byte loses it. *)
LEMMA WindowMoves ==
    ASSUME NEW a \in Int, NEW b \in Int, NEW Good, a \in Good => a < b
    PROVE  Cardinality((a + 1 .. b - 1) \cap Good)
               = IF a \in Good THEN Cardinality((a .. b - 1) \cap Good) - 1
                               ELSE Cardinality((a .. b - 1) \cap Good)
<1> DEFINE W == (a .. b - 1) \cap Good
<1>1. IsFiniteSet(W)
  <2>1. IsFiniteSet(a .. b - 1)
    BY FS_Interval
  <2>2. QED BY <2>1, FS_Subset
<1>2. W \ {a} = (a + 1 .. b - 1) \cap Good /\ (a \in W <=> a \in Good)
  OBVIOUS
<1> HIDE DEF W
<1>3. Cardinality(W \ {a}) = IF a \in W THEN Cardinality(W) - 1 ELSE Cardinality(W)
  BY <1>1, FS_RemoveElement
<1>4. QED BY <1>2, <1>3 DEF W

LEMMA MakeInit_Score == MakeInit => ScoreInv
<1> SUFFICES ASSUME MakeInit PROVE ScoreInv
  OBVIOUS
<1>1. MakerInv /\ sa \in SuffixArrays(older)
  BY MakeInit_Inv DEF MakeInit
<1>2. Scored(mk)
  BY DEF MakeInit, Scored, Idle
<1>3. QED BY <1>1, <1>2 DEF ScoreInv

(* The search starts with the whole array, and nothing yet known of its ends. *)
LEMMA LookupScored ==
    ASSUME NEW m \in Locals, old_size \in Nat, m.scan + m.last_offset >= 0,
           m.oldscore = Cardinality(Window(m)),
           \A i \in m.scsc .. m.scan - 1 : ~Aligned(i, m.last_offset)
    PROVE  Scored(Lookup(m))
<1>1. CASE m.scan < new_size
  <2> DEFINE n == [m EXCEPT !.pc = "search", !.st = 0, !.en = old_size - 1]
  <2>1. /\ n.pc = "search" /\ n.st = 0 /\ n.en = old_size - 1 /\ n.scan = m.scan
        /\ n.scsc = m.scsc /\ n.oldscore = m.oldscore /\ n.last_offset = m.last_offset
    BY DEF Locals
  <2>2. Lookup(m) = n
    BY <1>1 DEF Lookup
  <2> HIDE DEF n
  <2>3. Window(n) = Window(m)
    BY <2>1 DEF Window
  <2>4. Scored(n)
    BY <2>1, <2>3 DEF Scored
  <2>5. QED BY <2>2, <2>4
<1>2. CASE ~(m.scan < new_size)
  <2> DEFINE n == [m EXCEPT !.pc = "emit"]
  <2>1. n.pc = "emit" /\ n.scan = m.scan /\ n.last_offset = m.last_offset
    BY DEF Locals
  <2>2. Lookup(m) = n
    BY <1>2 DEF Lookup
  <2> HIDE DEF n
  <2>3. QED BY <2>1, <2>2 DEF Scored
<1>3. QED BY <1>1, <1>2

LEMMA HalveScored ==
    ASSUME ScoreInv, Halve
    PROVE  Scored(mk')
<1> DEFINE mid == mk.st + (mk.en - mk.st) \div 2
<1>1. mk.pc = "search" /\ mk \in Locals
  <2>1. mk.pc = "search" /\ MakerInv
    BY DEF Halve, ScoreInv
  <2>2. QED BY <2>1, LoopFacts
<1>2. \/ Below(older, sa[mid], newer, mk.scan) /\ mk' = [mk EXCEPT !.st = mid]
      \/ ~Below(older, sa[mid], newer, mk.scan) /\ mk' = [mk EXCEPT !.en = mid]
  BY DEF Halve
<1> HIDE DEF mid
<1>3. /\ mk'.pc = "search" /\ mk'.scan = mk.scan /\ mk'.scsc = mk.scsc
      /\ mk'.oldscore = mk.oldscore /\ mk'.last_offset = mk.last_offset
      /\ \/ Below(older, sa[mid], newer, mk.scan) /\ mk'.st = mid /\ mk'.en = mk.en
         \/ ~Below(older, sa[mid], newer, mk.scan) /\ mk'.st = mk.st /\ mk'.en = mid
  BY <1>1, <1>2 DEF Locals
<1>4. Window(mk') = Window(mk)
  BY <1>3 DEF Window
<1>5. QED BY <1>1, <1>3, <1>4 DEF ScoreInv, Scored

LEMMA MatchScored ==
    ASSUME ScoreInv, Match
    PROVE  Scored(mk')
<1>1. MakerInv /\ mk.pc = "search" /\ mk.en - mk.st < 2
  BY DEF Match, ScoreInv
<1>2. PICK x \in 0 .. new_size - mk.scan, y \in 0 .. new_size - mk.scan :
        /\ IsMatchLen(x, older, sa[mk.st], newer, mk.scan)
        /\ IsMatchLen(y, older, sa[mk.en], newer, mk.scan)
        /\ LET len == IF x > y THEN x ELSE y
               covered == {i \in mk.scsc .. mk.scan + len - 1 : Aligned(i, mk.last_offset)}
               m == [mk EXCEPT !.len = len,
                               !.pos = IF x > y THEN sa[mk.st] ELSE sa[mk.en],
                               !.oldscore = @ + Cardinality(covered),
                               !.scsc = IF mk.scan + len > @ THEN mk.scan + len ELSE @]
           IN  mk' = IF GoodEnough(len, m.oldscore) THEN [m EXCEPT !.pc = "emit"]
                                                    ELSE Lookup(LeaveByte(m))
  BY DEF Match
<1> DEFINE len == IF x > y THEN x ELSE y
           at == IF x > y THEN sa[mk.st] ELSE sa[mk.en]
           covered == {i \in mk.scsc .. mk.scan + len - 1 : Aligned(i, mk.last_offset)}
           score == mk.oldscore + Cardinality(covered)
           to == IF mk.scan + len > mk.scsc THEN mk.scan + len ELSE mk.scsc
           m == [mk EXCEPT !.len = len, !.pos = at, !.oldscore = score, !.scsc = to]
           Good == {i \in Int : Aligned(i, mk.last_offset)}
<1>3. /\ mk \in Locals /\ mk.scan \in Nat /\ mk.scsc \in Nat /\ new_size \in Nat /\ old_size \in Nat
      /\ mk.oldscore \in Int /\ mk.last_offset \in Int /\ mk.scan + mk.last_offset >= 0
      /\ mk.scsc <= new_size /\ mk.scan < new_size
  <2>1. mk.last_offset \in Int
    BY <1>1, LoopFacts DEF Locals
  <2>2. QED BY <1>1, <2>1, LoopFacts DEF ScoreInv, Scored, MakerInv, Sound
<1>4. mk' = IF GoodEnough(len, m.oldscore) THEN [m EXCEPT !.pc = "emit"] ELSE Lookup(LeaveByte(m))
  <2>1. m = [mk EXCEPT !.len = len, !.pos = at, !.oldscore = @ + Cardinality(covered),
                       !.scsc = IF mk.scan + len > @ THEN mk.scan + len ELSE @]
    BY <1>3 DEF Locals
  <2>2. QED BY <1>2, <2>1
<1>5. len \in Nat /\ mk.scan + len <= new_size /\ (x > 0 \/ y > 0 => len > 0)
  BY <1>3
<1>6. mk.scan \in Good => len > 0
  <2> SUFFICES ASSUME mk.scan \in Good PROVE len > 0
    OBVIOUS
  <2> DEFINE p == mk.scan + mk.last_offset
  <2>1. p < old_size /\ At(older, p) = At(newer, mk.scan)
    BY DEF Aligned
  <2>2. p \in 0 .. old_size - 1
    BY <1>3, <2>1
  <2> HIDE DEF p, len
  <2>3. x \in Nat /\ y \in Nat
    BY <1>3
  <2>4. x > 0 \/ y > 0
    BY <1>1, <1>2, <2>1, <2>2, <2>3, SearchFindsByte
  <2>5. QED BY <1>5, <2>4
<1>7. score = Cardinality((mk.scan .. to - 1) \cap Good) /\ to \in Nat /\ to <= new_size
      /\ to >= mk.scan + len
  <2>1. mk.oldscore = Cardinality((mk.scan .. mk.scsc - 1) \cap Good)
    <3>1. Window(mk) = (mk.scan .. mk.scsc - 1) \cap Good
      BY DEF Window
    <3>2. QED BY <1>1, <3>1 DEF ScoreInv, Scored
  <2>2. covered = (mk.scsc .. mk.scan + len - 1) \cap Good
    OBVIOUS
  <2>3. (mk.scsc .. mk.scan - 1) \cap Good = {}
    BY <1>1 DEF ScoreInv, Scored
  <2>4. mk.scan + len \in Int /\ mk.scan <= mk.scan + len /\ mk.scan \in Int /\ mk.scsc \in Int
    BY <1>3, <1>5
  <2> DEFINE reach == mk.scan + len
             first == mk.scan
             last == mk.scsc
  <2> HIDE DEF Good, covered, len
  <2>5. to \in Nat /\ to <= new_size /\ to >= mk.scan + len
    BY <1>3, <1>5, <2>4
  <2>6. /\ first \in Int /\ last \in Int /\ reach \in Int /\ first <= reach
        /\ \A i \in last .. first - 1 : i \notin Good
        /\ to \in Int /\ (reach > last => to = reach) /\ (~(reach > last) => to = last)
    BY <2>3, <2>4, <2>5
  <2> DEFINE L == (first .. last - 1) \cap Good
             R == (last .. reach - 1) \cap Good
             W == (first .. to - 1) \cap Good
  <2> HIDE DEF first, last, reach, to
  <2>7. IsFiniteSet(L) /\ IsFiniteSet(R)
    <3>1. IsFiniteSet(first .. last - 1) /\ IsFiniteSet(last .. reach - 1)
      BY <2>6, FS_Interval
    <3>2. L \subseteq first .. last - 1 /\ R \subseteq last .. reach - 1
      OBVIOUS
    <3> HIDE DEF L, R
    <3>3. QED BY <3>1, <3>2, FS_Subset
  <2>8. L \cap R = {} /\ L \cup R = W
    BY <2>6
  <2>9. Cardinality((mk.scan .. to - 1) \cap Good) = Cardinality(W)
    BY DEF first
  <2>10. Cardinality(L) = mk.oldscore /\ R = covered
    <3>1. Cardinality(L) = mk.oldscore
      BY <2>1 DEF first, last
    <3>2. R = covered
      <4>1. (last .. reach - 1) \cap Good = (mk.scsc .. mk.scan + len - 1) \cap Good
        BY <1>3, <1>5, <2>4 DEF last, reach
      <4>2. QED BY <2>2, <4>1, Zenon
    <3>3. QED BY <3>1, <3>2
  <2> HIDE DEF L, R, W
  <2>11. Cardinality(W) = mk.oldscore + Cardinality(covered)
    <3>1. Cardinality(L \cup R) = Cardinality(L) + Cardinality(R)
      BY <2>7, <2>8, CountsAdd
    <3>2. QED BY <2>8, <2>10, <3>1
  <2>12. QED BY <2>5, <2>9, <2>11
<1> DEFINE left == IF mk.scan \in Good THEN score - 1 ELSE score
           next == mk.scan + 1
<1>8. left = Cardinality((next .. to - 1) \cap Good)
  <2>1. mk.scan \in Good => mk.scan < to
    BY <1>3, <1>5, <1>6, <1>7
  <2>2. mk.scan \in Int /\ to \in Int
    BY <1>3, <1>7
  <2> HIDE DEF Good, score, to
  <2>3. QED BY <1>7, <2>1, <2>2, WindowMoves
<1>9. \A i \in to .. next - 1 : ~Aligned(i, mk.last_offset)
  <2> SUFFICES ASSUME NEW i \in to .. next - 1, Aligned(i, mk.last_offset) PROVE FALSE
    OBVIOUS
  <2>1. i = mk.scan /\ len = 0
    BY <1>3, <1>5, <1>7
  <2>2. mk.scan \in Good
    BY <1>3, <2>1
  <2>3. QED BY <1>6, <2>1, <2>2
<1>10. mk.scan \in Good <=> Aligned(mk.scan, mk.last_offset)
  BY <1>3
<1>11. score \in Int
  <2> DEFINE W == (mk.scan .. to - 1) \cap Good
  <2>1. mk.scan \in Int /\ to - 1 \in Int /\ W \subseteq mk.scan .. to - 1
    BY <1>3, <1>7
  <2>2. score = Cardinality(W)
    BY <1>7
  <2> HIDE DEF score, Good, to, W
  <2>3. Cardinality(W) \in Nat
    BY <2>1, CountIsNatural
  <2>4. QED BY <2>2, <2>3
<1>12. at \in Nat
  <2>1. mk.st \in Nat /\ mk.en \in Int /\ FilesTyped
    BY <1>1, LoopFacts
  <2>2. mk.st <= mk.en /\ mk.en < old_size
    BY <1>1 DEF MakerInv, Sound
  <2>3. mk.st \in 0 .. old_size - 1 /\ mk.en \in 0 .. old_size - 1
    BY <1>3, <2>1, <2>2
  <2>4. sa[mk.st] \in Nat /\ sa[mk.en] \in Nat
    BY <2>1, <2>3 DEF FilesTyped
  <2> HIDE DEF covered, score, to, m, Good, len
  <2>5. QED BY <2>4
<1> HIDE DEF Good, covered, score, to, len, at
<1>13. m \in Locals
  <2> DEFINE one == [mk EXCEPT !.len = len]
             two == [one EXCEPT !.pos = at]
             three == [two EXCEPT !.oldscore = score]
  <2>1. len \in 0 .. new_size /\ to \in 0 .. new_size
    BY <1>3, <1>5, <1>7
  <2>2. one \in Locals
    BY <1>3, <2>1 DEF Locals
  <2> HIDE DEF one
  <2>3. two \in Locals
    BY <1>12, <2>2 DEF Locals
  <2> HIDE DEF two
  <2>4. three \in Locals
    BY <1>11, <2>3 DEF Locals
  <2> HIDE DEF three
  <2>5. [three EXCEPT !.scsc = to] \in Locals
    BY <2>1, <2>4 DEF Locals
  <2>6. QED BY <1>3, <2>5 DEF one, two, three, Locals
<1>14. /\ m.scan = mk.scan /\ m.last_offset = mk.last_offset /\ m.oldscore = score /\ m.scsc = to
  BY <1>3 DEF Locals
<1> HIDE DEF m
<1>15. CASE mk' = [m EXCEPT !.pc = "emit"]
  <2>1. mk'.pc = "emit" /\ mk'.scan = mk.scan /\ mk'.last_offset = mk.last_offset
    BY <1>13, <1>14, <1>15 DEF Locals
  <2>2. QED BY <1>3, <2>1 DEF Scored
<1>16. CASE mk' = Lookup(LeaveByte(m))
  <2> DEFINE n == [m EXCEPT !.scan = next, !.oldscore = left]
  <2>1. left \in Int /\ next \in 0 .. new_size
    BY <1>3, <1>11
  <2>2. LeaveByte(m) = n
    BY <1>10, <1>13, <1>14 DEF LeaveByte, Locals
  <2>3. next + mk.last_offset >= 0
    BY <1>3
  <2> HIDE DEF left, next
  <2>4. n \in Locals
    <3> DEFINE one == [m EXCEPT !.scan = next]
    <3>1. one \in Locals
      BY <1>13, <2>1 DEF Locals
    <3> HIDE DEF one
    <3>2. [one EXCEPT !.oldscore = left] \in Locals
      BY <2>1, <3>1 DEF Locals
    <3>3. QED BY <1>13, <3>2 DEF one, Locals
  <2>5. n.scan = next /\ n.scsc = to /\ n.last_offset = mk.last_offset /\ n.oldscore = left
    BY <1>13, <1>14 DEF Locals
  <2> HIDE DEF n
  <2>6. n.oldscore = Cardinality(Window(n))
    <3>1. next \in Int /\ to \in Int
      BY <1>7, <2>1
    <3>2. Window(n) = (next .. to - 1) \cap Good
      BY <2>5, <3>1 DEF Window, Good
    <3>3. QED BY <1>8, <2>5, <3>2
  <2>7. Scored(Lookup(n))
    BY <1>3, <1>9, <2>3, <2>4, <2>5, <2>6, LookupScored
  <2>8. QED BY <1>16, <2>2, <2>7
<1>17. QED BY <1>4, <1>15, <1>16

(* The other steps of the maker either start a window anew or do not look at it. *)
LEMMA ScoreStep ==
    ASSUME ScoreInv, MakeNext
    PROVE  Scored(mk')
<1>1. MakerInv
  BY DEF ScoreInv
<1>2. CASE Start
  <2>1. mk = Idle \/ mk.pc # "start"
    BY <1>1 DEF MakerInv, Reader
  <2>2. mk' = [Idle EXCEPT !.pc = "done"] \/ mk' = [Idle EXCEPT !.pc = "round"]
    BY <1>2, <2>1 DEF Start
  <2>3. QED BY <2>2 DEF Scored, Idle
<1>3. CASE Round
  <2>1. mk.pc = "round"
    BY <1>3 DEF Round
  <2>2. /\ mk \in Locals /\ mk.scan \in Nat /\ mk.len \in Nat /\ new_size \in Nat /\ old_size \in Nat
        /\ mk.last_offset \in Int /\ mk.scan + mk.last_offset >= 0
    <3>1. mk.last_offset \in Int
      BY <1>1, <2>1, LoopFacts DEF Locals
    <3>2. QED BY <1>1, <2>1, <3>1, LoopFacts DEF ScoreInv, Scored
  <2>3. CASE mk.scan < new_size
    <3> DEFINE to == mk.scan + mk.len
               m == [mk EXCEPT !.scan = to, !.scsc = to, !.oldscore = 0]
    <3>1. mk' = Lookup(m)
      BY <1>3, <2>2, <2>3 DEF Round, Locals
    <3>2. to \in 0 .. new_size /\ to + mk.last_offset >= 0
      BY <1>1, <2>1, <2>2, <2>3 DEF MakerInv, Sound
    <3> HIDE DEF to
    <3>3. m \in Locals
      <4> DEFINE one == [mk EXCEPT !.scan = to]
                 two == [one EXCEPT !.scsc = to]
      <4>1. one \in Locals
        BY <2>2, <3>2 DEF Locals
      <4> HIDE DEF one
      <4>2. two \in Locals
        BY <3>2, <4>1 DEF Locals
      <4> HIDE DEF two
      <4>3. [two EXCEPT !.oldscore = 0] \in Locals
        BY <4>2 DEF Locals
      <4>4. QED BY <2>2, <4>3 DEF one, two, Locals
    <3>4. m.scan = to /\ m.scsc = to /\ m.oldscore = 0 /\ m.last_offset = mk.last_offset
      BY <2>2 DEF Locals
    <3> HIDE DEF m
    <3>5. Window(m) = {} /\ \A i \in m.scsc .. m.scan - 1 : ~Aligned(i, m.last_offset)
      BY <3>2, <3>4 DEF Window
    <3>6. m.oldscore = Cardinality(Window(m))
      BY <3>4, <3>5, FS_EmptySet
    <3>7. Scored(Lookup(m))
      BY <2>2, <3>2, <3>3, <3>4, <3>5, <3>6, LookupScored
    <3>8. QED BY <3>1, <3>7
  <2>4. CASE ~(mk.scan < new_size)
    <3>1. mk'.pc = "done"
      BY <1>3, <2>2, <2>4 DEF Round, Locals
    <3>2. QED BY <3>1 DEF Scored
  <2>5. QED BY <2>3, <2>4
<1>4. CASE Continue
  <2>1. mk.pc = "emit" /\ mk' = [mk EXCEPT !.pc = "round"]
    BY <1>4 DEF Continue
  <2>2. mk \in Locals
    BY <1>1, <2>1, LoopFacts
  <2>3. mk'.pc = "round" /\ mk'.scan = mk.scan /\ mk'.last_offset = mk.last_offset
    BY <2>1, <2>2 DEF Locals
  <2>4. QED BY <2>1, <2>3 DEF ScoreInv, Scored
<1>5. CASE Emit
  <2>1. mk.pc = "emit"
    BY <1>5 DEF Emit
  <2>2. mk \in Locals /\ mk.scan \in Nat /\ mk.pos \in Nat
    BY <1>1, <2>1, LoopFacts
  <2>3. \E from, place : mk' = [mk EXCEPT !.pc = "round", !.last_scan = from, !.last_pos = place,
                                          !.last_offset = mk.pos - mk.scan]
    BY <1>5 DEF Emit
  <2>4. mk'.pc = "round" /\ mk'.scan = mk.scan /\ mk'.last_offset = mk.pos - mk.scan
    BY <2>2, <2>3 DEF Locals
  <2>5. mk'.scan + mk'.last_offset >= 0
    BY <2>2, <2>4
  <2>6. QED BY <2>4, <2>5 DEF Scored
<1>6. QED BY <1>2, <1>3, <1>4, <1>5, HalveScored, MatchScored DEF MakeNext

LEMMA ScoreStep_Inv == ScoreInv /\ [MakeNext]_mvars => ScoreInv'
<1> SUFFICES ASSUME ScoreInv, [MakeNext]_mvars PROVE ScoreInv'
  OBVIOUS
<1>1. MakerInv'
  BY MakerStep_Inv DEF ScoreInv
<1>2. UNCHANGED <<older, newer, sa>>
  BY DEF MakeNext, Start, Round, Halve, Match, Continue, Emit, mvars
<1>3. Scored(mk')
  <2>1. CASE UNCHANGED mvars
    BY <2>1 DEF ScoreInv, mvars
  <2>2. QED BY <2>1, ScoreStep
<1>4. Scored(mk)'
  BY <1>2, <1>3, ScoreStays
<1>5. (sa \in SuffixArrays(older))'
  BY <1>2 DEF ScoreInv
<1>6. QED BY <1>1, <1>4, <1>5 DEF ScoreInv

(***************************************************************************)
(* For any two files and any sorted index of the old one, oldscore is the  *)
(* number of aligned bytes in the window at each look-up: what is added    *)
(* ahead and taken off behind never gets out of step                       *)
(* (make_patch.cpp:190-204).                                               *)
(***************************************************************************)
THEOREM ScoreIsCount == MakeSpec => []ScoreIsWindow
<1>1. ScoreInv => ScoreIsWindow
  BY DEF ScoreInv, Scored, Window, ScoreIsWindow
<1>2. QED BY MakeInit_Score, ScoreStep_Inv, <1>1, PTL DEF MakeSpec

-----------------------------------------------------------------------------
(***************************************************************************)
(* make_patch ends.  EveryStepAdvances needs one more fact of the locals:  *)
(* where bytes are left, the inner loop stops only at a match of one byte  *)
(* or more, because the score it is weighed against is never negative.     *)
(***************************************************************************)
Matched(m) == m.pc = "emit" /\ m.scan < new_size => m.len > 0

AdvanceInv == ScoreInv /\ Matched(mk)

(* StepsLeft when the locals are m. *)
Left(m) ==
    LET perByte == old_size + 3
        bytes == (new_size - m.scan) * perByte
    IN  CASE m.pc = "start"  -> bytes + perByte + 2
          [] m.pc = "round"  -> bytes + 1 + (IF m.len = 0 /\ m.scan < new_size THEN perByte ELSE 0)
          [] m.pc = "emit"   -> bytes + 2
          [] m.pc = "search" -> bytes + 3 + m.en - m.st
          [] m.pc = "done"   -> 0

(* What the bytes left count for. *)
BytesLeft(m) == (new_size - m.scan) * (old_size + 3)

LEMMA LeftAtStart == ASSUME NEW m, m.pc = "start" PROVE Left(m) = BytesLeft(m) + (old_size + 3) + 2
BY DEF Left, BytesLeft

LEMMA LeftAtRound ==
    ASSUME NEW m, m.pc = "round"
    PROVE  Left(m) = BytesLeft(m) + 1 + (IF m.len = 0 /\ m.scan < new_size THEN old_size + 3 ELSE 0)
BY DEF Left, BytesLeft

LEMMA LeftAtEmit == ASSUME NEW m, m.pc = "emit" PROVE Left(m) = BytesLeft(m) + 2
BY DEF Left, BytesLeft

LEMMA LeftAtSearch == ASSUME NEW m, m.pc = "search" PROVE Left(m) = BytesLeft(m) + 3 + m.en - m.st
BY DEF Left, BytesLeft

LEMMA LeftAtDone == ASSUME NEW m, m.pc = "done" PROVE Left(m) = 0
BY DEF Left

LEMMA Fewer ==
    ASSUME NEW a \in Nat, NEW b \in Nat, NEW w \in Nat
    PROVE  /\ a * w \in Nat
           /\ a < b => a * w + w <= b * w
<1>1. a * w \in Nat
  OBVIOUS
<1>2. ASSUME a < b PROVE a * w + w <= b * w
  <2>1. PICK k \in Nat : b = a + 1 + k
    <3>1. b - a - 1 \in Nat /\ b = a + 1 + (b - a - 1)
      BY <1>2
    <3>2. QED BY <3>1
  <2>2. b * w = a * w + w + k * w
    BY <2>1
  <2>3. a * w \in Nat /\ k * w \in Nat
    BY <2>1
  <2>4. QED BY <2>2, <2>3
<1>3. QED BY <1>1, <1>2

(* Fewer bytes ahead count for less, by the share of one at least. *)
LEMMA BytesCount ==
    ASSUME old_size \in Nat, new_size \in Nat,
           NEW m, NEW n, m.scan \in 0 .. new_size, n.scan \in 0 .. new_size
    PROVE  /\ BytesLeft(m) \in Nat /\ BytesLeft(n) \in Nat
           /\ m.scan = n.scan => BytesLeft(n) = BytesLeft(m)
           /\ m.scan < n.scan => BytesLeft(n) + (old_size + 3) <= BytesLeft(m)
<1> DEFINE a == new_size - n.scan
           b == new_size - m.scan
           w == old_size + 3
<1>1. a \in Nat /\ b \in Nat /\ w \in Nat /\ (m.scan < n.scan => a < b)
      /\ (m.scan = n.scan => a = b)
  OBVIOUS
<1> HIDE DEF a, b, w
<1>2. /\ a * w \in Nat /\ b * w \in Nat
      /\ a < b => a * w + w <= b * w
  BY <1>1, Fewer
<1>3. BytesLeft(n) = a * w /\ BytesLeft(m) = b * w
  BY DEF BytesLeft, a, b, w
<1>4. QED BY <1>1, <1>2, <1>3 DEF w

(* The head of the inner loop, in the fields that count. *)
LEMMA LookupGives ==
    ASSUME NEW m, {"pc", "scan", "len", "st", "en"} \subseteq DOMAIN m
    PROVE  /\ Lookup(m).scan = m.scan /\ Lookup(m).len = m.len
           /\ m.scan < new_size => /\ Lookup(m).pc = "search"
                                   /\ Lookup(m).st = 0 /\ Lookup(m).en = old_size - 1
           /\ ~(m.scan < new_size) => Lookup(m).pc = "emit"
<1>1. CASE m.scan < new_size
  BY <1>1 DEF Lookup
<1>2. CASE ~(m.scan < new_size)
  BY <1>2 DEF Lookup
<1>3. QED BY <1>1, <1>2

(* A search that is over: a match to work with, or one byte further. *)
LEMMA MatchGives ==
    ASSUME ScoreInv, Match
    PROVE  /\ mk.pc = "search" /\ mk.scan < new_size
           /\ \/ mk'.pc = "emit" /\ mk'.scan = mk.scan /\ mk'.len > 0
              \/ mk'.scan = mk.scan + 1 /\ mk'.scan < new_size /\ mk'.pc = "search"
                 /\ mk'.st = 0 /\ mk'.en = old_size - 1
              \/ mk'.scan = mk.scan + 1 /\ ~(mk'.scan < new_size) /\ mk'.pc = "emit"
<1>1. MakerInv /\ mk.pc = "search" /\ mk.scan < new_size
  BY DEF Match, ScoreInv, MakerInv, Sound
<1>2. mk \in Locals /\ mk.scan \in Nat /\ new_size \in Nat /\ mk.oldscore \in Int
      /\ mk.scsc \in Nat
  BY <1>1, LoopFacts
<1>3. PICK x \in 0 .. new_size - mk.scan, y \in 0 .. new_size - mk.scan :
        LET len == IF x > y THEN x ELSE y
            covered == {i \in mk.scsc .. mk.scan + len - 1 : Aligned(i, mk.last_offset)}
            m == [mk EXCEPT !.len = len,
                            !.pos = IF x > y THEN sa[mk.st] ELSE sa[mk.en],
                            !.oldscore = @ + Cardinality(covered),
                            !.scsc = IF mk.scan + len > @ THEN mk.scan + len ELSE @]
        IN  mk' = IF GoodEnough(len, m.oldscore) THEN [m EXCEPT !.pc = "emit"]
                                                 ELSE Lookup(LeaveByte(m))
  BY Zenon DEF Match
<1> DEFINE len == IF x > y THEN x ELSE y
           at == IF x > y THEN sa[mk.st] ELSE sa[mk.en]
           covered == {i \in mk.scsc .. mk.scan + len - 1 : Aligned(i, mk.last_offset)}
           score == mk.oldscore + Cardinality(covered)
           to == IF mk.scan + len > mk.scsc THEN mk.scan + len ELSE mk.scsc
           m == [mk EXCEPT !.len = len, !.pos = at, !.oldscore = score, !.scsc = to]
<1>4. mk' = IF GoodEnough(len, m.oldscore) THEN [m EXCEPT !.pc = "emit"] ELSE Lookup(LeaveByte(m))
  <2>1. m = [mk EXCEPT !.len = len, !.pos = at, !.oldscore = @ + Cardinality(covered),
                       !.scsc = IF mk.scan + len > @ THEN mk.scan + len ELSE @]
    BY <1>2 DEF Locals
  <2>2. QED BY <1>3, <2>1
<1>5. len \in Nat
  BY <1>2
<1> HIDE DEF len, at
<1>6. score \in Nat
  <2>1. mk.scan + len - 1 \in Int /\ mk.scsc \in Int
    BY <1>2, <1>5
  <2>2. Cardinality(covered) \in Nat
    BY <2>1, CountIsNatural
  <2>3. mk.oldscore \in Nat
    <3>1. mk.scan \in Int /\ mk.scsc - 1 \in Int /\ Window(mk) \subseteq mk.scan .. mk.scsc - 1
      BY <1>2 DEF Window
    <3>2. mk.oldscore = Cardinality(Window(mk))
      BY <1>1 DEF ScoreInv, Scored
    <3>3. QED BY <3>1, <3>2, CountIsNatural
  <2> HIDE DEF covered
  <2>4. QED BY <2>2, <2>3
<1> HIDE DEF score, to
<1> DEFINE Names == {"pc", "scan", "len", "st", "en", "oldscore"}
<1>7. Names \subseteq DOMAIN m /\ m.scan = mk.scan /\ m.len = len /\ m.oldscore = score
  BY <1>2 DEF Locals
<1> HIDE DEF m
<1>8. CASE GoodEnough(len, m.oldscore) /\ mk' = [m EXCEPT !.pc = "emit"]
  <2>1. len > 0
    BY <1>5, <1>6, <1>7, <1>8, BoundsAssumption DEF GoodEnough
  <2>2. mk'.pc = "emit" /\ mk'.scan = m.scan /\ mk'.len = m.len
    BY <1>7, <1>8
  <2>3. QED BY <1>1, <1>7, <2>1, <2>2
<1>9. CASE mk' = Lookup(LeaveByte(m))
  <2> DEFINE n == LeaveByte(m)
  <2>1. n.scan = mk.scan + 1 /\ {"pc", "scan", "len", "st", "en"} \subseteq DOMAIN n
    BY <1>7 DEF LeaveByte
  <2> HIDE DEF n
  <2>2. mk' = Lookup(n)
    BY <1>9 DEF n
  <2>3. QED BY <1>1, <2>1, <2>2, LookupGives
<1>10. QED BY <1>4, <1>8, <1>9


(* The facts of the sizes and of scan before and after a step. *)
LEMMA ScanInside ==
    ASSUME ScoreInv, MakeNext
    PROVE  /\ UNCHANGED <<older, newer, sa>>
           /\ old_size \in Nat /\ new_size \in Nat
           /\ mk.scan \in 0 .. new_size /\ mk'.scan \in 0 .. new_size
<1>1. UNCHANGED <<older, newer, sa>> /\ FilesTyped
  BY DEF MakeNext, Start, Round, Halve, Match, Continue, Emit, ScoreInv, MakerInv
<1>2. Locals' = Locals /\ old_size \in Nat /\ new_size \in Nat
  BY <1>1, FilesStay
<1>3. mk \in Locals /\ mk' \in Locals
  <2>1. MakerInv'
    BY MakerStep_Inv DEF ScoreInv
  <2>2. QED BY <1>2, <2>1 DEF ScoreInv, MakerInv, Sound
<1>4. QED BY <1>1, <1>2, <1>3 DEF Locals

LEMMA AdvanceStep ==
    ASSUME AdvanceInv, MakeNext
    PROVE  Left(mk') \in 0 .. Left(mk) - 1 /\ Matched(mk')
<1> DEFINE before == BytesLeft(mk)
           after == BytesLeft(mk')
           share == old_size + 3
<1>1. ScoreInv /\ MakerInv /\ Matched(mk)
  BY DEF AdvanceInv, ScoreInv
<1>2. /\ old_size \in Nat /\ new_size \in Nat
      /\ mk.scan \in 0 .. new_size /\ mk'.scan \in 0 .. new_size
  BY <1>1, ScanInside
<1>3. /\ before \in Nat /\ after \in Nat /\ share \in Nat /\ share = old_size + 3
      /\ mk.scan = mk'.scan => after = before
      /\ mk.scan < mk'.scan => after + share <= before
  BY <1>2, BytesCount
<1>4. /\ mk.pc = "start" => Left(mk) = before + share + 2
      /\ mk.pc = "round" => Left(mk) = before + 1 + (IF mk.len = 0 /\ mk.scan < new_size
                                                     THEN share ELSE 0)
      /\ mk.pc = "emit" => Left(mk) = before + 2
      /\ mk.pc = "search" => Left(mk) = before + 3 + mk.en - mk.st
  BY LeftAtStart, LeftAtRound, LeftAtEmit, LeftAtSearch
<1>5. /\ mk'.pc = "round" => Left(mk') = after + 1 + (IF mk'.len = 0 /\ mk'.scan < new_size
                                                      THEN share ELSE 0)
      /\ mk'.pc = "emit" => Left(mk') = after + 2
      /\ mk'.pc = "search" => Left(mk') = after + 3 + mk'.en - mk'.st
      /\ mk'.pc = "done" => Left(mk') = 0
  BY LeftAtRound, LeftAtEmit, LeftAtSearch, LeftAtDone
<1> HIDE DEF before, after, share
<1>6. CASE Start
  <2>1. mk.pc = "start" /\ mk = Idle
    BY <1>1, <1>6 DEF Start, MakerInv, Reader
  <2>2. mk' = [mk EXCEPT !.pc = "done"] \/ mk' = [mk EXCEPT !.pc = "round"]
    BY <1>6, Zenon DEF Start
  <2>3. mk'.pc \in {"done", "round"} /\ mk'.scan = mk.scan
    BY <2>1, <2>2 DEF Idle
  <2>4. QED BY <1>3, <1>4, <1>5, <2>1, <2>3 DEF Matched
<1>7. CASE Round
  <2>1. mk.pc = "round" /\ mk \in Locals /\ mk.len \in Nat /\ mk.scan \in Nat /\ Sound(mk)
        /\ old_size > 0
    BY <1>1, <1>7, LoopFacts DEF Round
  <2>2. CASE mk.scan < new_size
    <3> DEFINE m == [mk EXCEPT !.scan = @ + mk.len, !.scsc = mk.scan + mk.len, !.oldscore = 0]
    <3>1. mk' = Lookup(m)
      BY <1>7, <2>2 DEF Round
    <3>2. m.scan = mk.scan + mk.len /\ {"pc", "scan", "len", "st", "en"} \subseteq DOMAIN m
          /\ m.len = mk.len
      BY <2>1 DEF Locals
    <3> HIDE DEF m
    <3>3. mk'.scan = mk.scan + mk.len /\ mk'.len = mk.len
          /\ (mk'.scan < new_size => mk'.pc = "search" /\ mk'.st = 0 /\ mk'.en = old_size - 1)
          /\ (~(mk'.scan < new_size) => mk'.pc = "emit")
      BY <3>1, <3>2, LookupGives
    <3>4. CASE mk.len = 0
      <4>1. mk'.scan = mk.scan /\ after = before
        BY <1>3, <2>1, <3>3, <3>4
      <4>2. mk'.pc = "search" /\ mk'.st = 0 /\ mk'.en = old_size - 1
        BY <2>2, <3>3, <4>1
      <4>3. Left(mk) = before + 1 + share
        BY <1>4, <2>1, <2>2, <3>4
      <4>4. Left(mk') = after + 3 + old_size - 1 - 0
        BY <1>2, <1>3, <1>5, <4>2
      <4>5. QED BY <1>2, <1>3, <2>1, <4>1, <4>2, <4>3, <4>4 DEF Matched
    <3>5. CASE mk.len > 0
      <4>1. after + share <= before
        BY <1>3, <2>1, <3>3, <3>5
      <4>2. Left(mk) = before + 1
        BY <1>3, <1>4, <2>1, <3>5
      <4>3. CASE mk'.pc = "search" /\ mk'.st = 0 /\ mk'.en = old_size - 1
        <5>1. Left(mk') = after + 3 + old_size - 1 - 0
          BY <1>2, <1>3, <1>5, <4>3
        <5>2. QED BY <1>2, <1>3, <2>1, <4>1, <4>2, <4>3, <5>1 DEF Matched
      <4>4. CASE mk'.pc = "emit" /\ ~(mk'.scan < new_size)
        BY <1>2, <1>3, <1>5, <4>1, <4>2, <4>4 DEF Matched
      <4>5. QED BY <3>3, <4>3, <4>4
    <3>6. QED BY <2>1, <3>4, <3>5
  <2>3. CASE ~(mk.scan < new_size)
    <3>1. mk' = [mk EXCEPT !.pc = "done"]
      BY <1>7, <2>3 DEF Round
    <3>2. mk'.pc = "done"
      BY <2>1, <3>1 DEF Locals
    <3>3. QED BY <1>3, <1>4, <1>5, <2>1, <3>2 DEF Matched
  <2>4. QED BY <2>2, <2>3
<1>8. CASE Halve
  <2>1. mk.pc = "search" /\ mk.en - mk.st >= 2 /\ mk \in Locals
    BY <1>1, <1>8, LoopFacts DEF Halve
  <2>2. mk.st \in Nat /\ mk.en \in Int
    BY <2>1 DEF Locals
  <2> DEFINE mid == mk.st + (mk.en - mk.st) \div 2
  <2>3. mid \in Int /\ mk.st < mid /\ mid < mk.en
    BY <2>1, <2>2
  <2>4. mk' = [mk EXCEPT !.st = mid] \/ mk' = [mk EXCEPT !.en = mid]
    BY <1>8 DEF Halve
  <2> HIDE DEF mid
  <2>5. mk'.pc = "search" /\ mk'.scan = mk.scan
        /\ \/ mk'.st = mid /\ mk'.en = mk.en
           \/ mk'.st = mk.st /\ mk'.en = mid
    BY <2>1, <2>4 DEF Locals
  <2>6. QED BY <1>3, <1>4, <1>5, <2>1, <2>2, <2>3, <2>5 DEF Matched
<1>9. CASE Match
  <2>1. /\ mk.pc = "search" /\ mk.scan < new_size
        /\ \/ mk'.pc = "emit" /\ mk'.scan = mk.scan /\ mk'.len > 0
           \/ mk'.scan = mk.scan + 1 /\ mk'.scan < new_size /\ mk'.pc = "search"
              /\ mk'.st = 0 /\ mk'.en = old_size - 1
           \/ mk'.scan = mk.scan + 1 /\ ~(mk'.scan < new_size) /\ mk'.pc = "emit"
    BY <1>1, <1>9, MatchGives
  <2>2. mk.st \in Nat /\ mk.en \in Int /\ mk.st <= mk.en /\ old_size > 0
    BY <1>1, <2>1, LoopFacts DEF Sound
  <2>3. Left(mk) = before + 3 + mk.en - mk.st
    BY <1>4, <2>1
  <2>4. CASE mk'.pc = "emit" /\ mk'.scan = mk.scan /\ mk'.len > 0
    BY <1>3, <1>5, <2>2, <2>3, <2>4 DEF Matched
  <2>5. CASE mk'.scan = mk.scan + 1 /\ mk'.pc = "search" /\ mk'.st = 0 /\ mk'.en = old_size - 1
    <3>1. after + share <= before
      BY <1>2, <1>3, <2>5
    <3>2. Left(mk') = after + 3 + old_size - 1 - 0
      BY <1>2, <1>3, <1>5, <2>5
    <3>3. QED BY <1>2, <1>3, <2>2, <2>3, <2>5, <3>1, <3>2 DEF Matched
  <2>6. CASE mk'.scan = mk.scan + 1 /\ ~(mk'.scan < new_size) /\ mk'.pc = "emit"
    <3>1. after + share <= before
      BY <1>2, <1>3, <2>6
    <3>2. QED BY <1>2, <1>3, <1>5, <2>2, <2>3, <2>6, <3>1 DEF Matched
  <2>7. QED BY <2>1, <2>4, <2>5, <2>6
<1>10. CASE Continue \/ Emit
  <2>1. mk.pc = "emit" /\ mk \in Locals
    BY <1>1, <1>10, LoopFacts DEF Continue, Emit
  <2>2. mk'.pc = "round" /\ mk'.scan = mk.scan /\ mk'.len = mk.len
    <3>1. CASE Continue
      BY <2>1, <3>1 DEF Continue, Locals
    <3>2. CASE Emit
      <4>1. PICK lenb \in Nat :
              mk' = [mk EXCEPT !.pc = "round", !.last_scan = mk.scan - lenb,
                               !.last_pos = mk.pos - lenb, !.last_offset = mk.pos - mk.scan]
        <5>1. MakerInv /\ Emit
          BY <1>1, <3>2
        <5>2. QED BY <5>1, EmitWindows
      <4>2. QED BY <2>1, <4>1 DEF Locals
    <3>3. QED BY <1>10, <3>1, <3>2
  <2>3. ~(mk'.len = 0 /\ mk'.scan < new_size)
    BY <1>1, <2>1, <2>2 DEF Matched
  <2>4. QED BY <1>3, <1>4, <1>5, <2>1, <2>2, <2>3 DEF Matched
<1>11. QED BY <1>6, <1>7, <1>8, <1>9, <1>10 DEF MakeNext

LEMMA MakeInit_Advance == MakeInit => AdvanceInv
BY MakeInit_Score DEF AdvanceInv, Matched, MakeInit, Idle

LEMMA AdvanceStep_Inv == AdvanceInv /\ [MakeNext]_mvars => AdvanceInv'
<1> SUFFICES ASSUME AdvanceInv, [MakeNext]_mvars PROVE AdvanceInv'
  OBVIOUS
<1>1. ScoreInv'
  BY ScoreStep_Inv DEF AdvanceInv
<1>2. CASE MakeNext
  <2>1. Matched(mk')
    BY <1>2, AdvanceStep
  <2>2. new_size' = new_size
    BY <1>2, ScanInside DEF AdvanceInv, new_size
  <2>3. QED BY <1>1, <2>1, <2>2 DEF AdvanceInv, Matched
<1>3. CASE UNCHANGED mvars
  BY <1>1, <1>3 DEF AdvanceInv, Matched, mvars, new_size
<1>4. QED BY <1>2, <1>3

LEMMA StepsLeftFall == AdvanceInv /\ [MakeNext]_mvars => [StepsLeft' \in 0 .. StepsLeft - 1]_mvars
<1> SUFFICES ASSUME AdvanceInv, MakeNext PROVE StepsLeft' \in 0 .. StepsLeft - 1
  OBVIOUS
<1>1. Left(mk') \in 0 .. Left(mk) - 1
  BY AdvanceStep
<1>2. old_size' = old_size /\ new_size' = new_size
  BY ScanInside DEF AdvanceInv, old_size, new_size
<1>3. StepsLeft = Left(mk)
  BY DEF StepsLeft, Left
<1>4. StepsLeft' = Left(mk')
  BY <1>2 DEF StepsLeft, Left
<1>5. QED BY <1>1, <1>3, <1>4

(***************************************************************************)
(* For any two files, any sorted index and any Slack, every step of        *)
(* make_patch brings it nearer its end: between an old file of length o    *)
(* and a new one of length n it takes at most (n + 1) * (o + 3) + 2 steps. *)
(***************************************************************************)
THEOREM MakerAdvances == MakeSpec => EveryStepAdvances
BY MakeInit_Advance, AdvanceStep_Inv, StepsLeftFall, PTL DEF MakeSpec, EveryStepAdvances

-----------------------------------------------------------------------------
(***************************************************************************)
(* The delivery implements both its parts: whatever is uploaded, cut or    *)
(* applied does not reach back into make_patch, and everything make_patch  *)
(* and inflate do is to the transfer a file to send and an end to it.      *)
(***************************************************************************)
LEMMA DeliveryMakes == [DeliveryNext]_dvars => [MakeNext]_mvars
<1>1. ASSUME DeliveryNext PROVE [MakeNext]_mvars
  BY <1>1 DEF DeliveryNext, Make, Publish, Download, Inflate, InflateDamaged, InflateFails
<1>2. ASSUME UNCHANGED dvars PROVE UNCHANGED mvars
  BY <1>2 DEF dvars
<1>3. QED BY <1>1, <1>2

LEMMA VerdictsAreTruths ==
    ASSUME NEW f, NEW stream, NEW good \in Verdicts(f, stream)
    PROVE  good \in BOOLEAN
BY Zenon DEF Verdicts

LEMMA DeliveryTransfers == [DeliveryNext]_dvars => [TransferNext]_tvars
<1>1. ASSUME DeliveryNext PROVE [TransferNext]_tvars
  <2>1. CASE Make
    BY <2>1 DEF Make
  <2>2. CASE Publish
    <3>1. Len(Body(patch)) + 1 \in Nat \ {0} /\ PublishFrame(Len(Body(patch)) + 1)
      BY <2>2, ShippedAssumption DEF Publish
    <3>2. QED BY <3>1 DEF TransferNext
  <2>3. CASE Download
    BY <2>3 DEF Download, TransferNext
  <2>4. CASE Inflate
    <3>1. PICK good \in Verdicts(file, Decompress(file)) : InflateEnds(good)
      BY <2>4 DEF Inflate
    <3>2. good \in BOOLEAN
      BY VerdictsAreTruths
    <3>3. fault' \in {fault, TRUE}
      BY <2>4 DEF Inflate
    <3>4. QED BY <3>1, <3>2, <3>3 DEF TransferNext
  <2>5. CASE InflateDamaged
    <3>1. PICK s : \E good \in Verdicts(file, s) : InflateEnds(good)
      BY <2>5 DEF InflateDamaged
    <3>2. PICK good \in Verdicts(file, s) : InflateEnds(good)
      BY <3>1
    <3>3. good \in BOOLEAN
      BY VerdictsAreTruths
    <3>4. fault' \in {fault, TRUE}
      BY <2>5 DEF InflateDamaged
    <3>5. QED BY <3>2, <3>3, <3>4 DEF TransferNext
  <2>6. CASE InflateFails
    BY <2>6 DEF InflateFails, TransferNext
  <2>7. QED BY <1>1, <2>1, <2>2, <2>3, <2>4, <2>5, <2>6 DEF DeliveryNext
<1>2. ASSUME UNCHANGED dvars PROVE UNCHANGED tvars
  BY <1>2 DEF dvars
<1>3. QED BY <1>1, <1>2

THEOREM DeliveryImplementsParts == DeliverySpec => MakeSpec /\ TransferSpec
<1>1. DeliveryInit => MakeInit /\ TransferInit
  BY DEF DeliveryInit
<1>2. QED
  BY <1>1, DeliveryMakes, DeliveryTransfers, PTL DEF DeliverySpec, MakeSpec, TransferSpec

(* So what is proved of the parts holds of a delivery: types and index ranges, ... *)
THEOREM DeliveryTypes == DeliverySpec => []DeliveryTypeOK
<1>1. MakerInv => MakeTypeOK
  BY DEF MakerInv, FilesTyped, Sound, Reader, MakeTypeOK
<1>2. TransferInv => TransferTypeOK
  BY DEF TransferInv
<1>3. MakeTypeOK /\ TransferTypeOK => DeliveryTypeOK
  BY DEF DeliveryTypeOK
<1>4. QED
  BY <1>1, <1>2, <1>3, DeliveryImplementsParts, MakeInit_Inv, MakerStep_Inv, TransferInit_Inv,
     TransferStep_Inv, PTL DEF MakeSpec, TransferSpec

(* ... the patch is right, and what is on the disk is its beginning. *)
THEOREM DeliveryIsRight == DeliverySpec => [](PatchRebuilds /\ FileIsPrefix)
BY DeliveryImplementsParts, PatchIsRight, DownloadIsPrefix, PTL

(* ... and nothing that happens to a patch once it is made puts its making back. *)
THEOREM DeliveryAdvances == DeliverySpec => EveryStepAdvances
BY MakerAdvances, DeliveryImplementsParts, PTL

-----------------------------------------------------------------------------
(***************************************************************************)
(* The bytes of the patch.  BipatchProofs brings the reader from one       *)
(* boundary between entries to the next; PatchIsRead keeps it there, with  *)
(* the place and the output that Rebuild gives.                            *)
(***************************************************************************)
Entries == [add : Seq(Bytes), copy : Seq(Bytes), seek : Int]

FilesBounded == old_size <= MaxOld /\ new_size <= MaxNew

PatchIsRead ==
    /\ patch \in Seq(Entries) /\ Body(patch) \in Seq(Bytes)
    /\ Read(older, Body(patch)) = AtNumber("AddLen", cursor, out)

ReadInv ==
    /\ MakerInv /\ FilesBounded /\ PatchIsRead
    /\ mk.pc = "start" => patch = <<>>

(* The numbers of an entry are below 2^64: files of up to MaxOld and MaxNew bytes are that short. *)
NumbersFit == MaxNew < Word /\ 2 * MaxOld < Word

LEMMA FilesAreBounded ==
    ASSUME NEW n \in Nat, NEW f \in Files(n)
    PROVE  Len(f) <= n
<1>1. PICK k \in 0 .. n : f \in [1 .. k -> Data]
  BY DEF Files
<1>2. Len(f) = k
  BY <1>1
<1>3. QED BY <1>1, <1>2

LEMMA MakeInit_Read == MakeInit => ReadInv
<1> SUFFICES ASSUME MakeInit PROVE ReadInv
  OBVIOUS
<1>1. MakerInv
  BY MakeInit_Inv
<1>2. FilesBounded
  BY FilesAreBounded, BoundsAssumption DEF MakeInit, FilesBounded, old_size, new_size
<1>3. patch = <<>> /\ out = <<>> /\ cursor = 0
  BY DEF MakeInit
<1>4. <<>> \in Seq(Entries)
  BY EmptySeq
<1>5. Body(<<>>) \in Seq(Bytes) /\ Read(older, Body(<<>>)) = AtNumber("AddLen", 0, <<>>)
  BY EmptyBodyIsRead
<1>6. PatchIsRead
  BY <1>3, <1>4, <1>5 DEF PatchIsRead
<1>7. QED BY <1>1, <1>2, <1>3, <1>6 DEF ReadInv

(* A round that adds an entry the reader can follow. *)
LEMMA EntryKeepsRead ==
    ASSUME PatchIsRead, older \in Seq(Bytes), out \in Seq(Bytes), cursor \in Nat, older' = older,
           NEW e, e \in Entries, Readable(older, cursor, e), patch' = Append(patch, e), Rebuild(e)
    PROVE  PatchIsRead'
<1>1. /\ patch \in Seq(Entries) /\ Body(patch) \in Seq(Bytes)
      /\ Read(older, Body(patch)) = AtNumber("AddLen", cursor, out)
  BY DEF PatchIsRead
<1>2. /\ Body(Append(patch, e)) \in Seq(Bytes)
      /\ Read(older, Body(Append(patch, e)))
         = AtNumber("AddLen", cursor + Len(e.add) + e.seek,
                    (out \o Sums(older, cursor, e.add)) \o e.copy)
  BY <1>1, BodyGrows
<1>3. /\ out' = (out \o Sums(older, cursor, e.add)) \o e.copy
      /\ cursor' = cursor + Len(e.add) + e.seek
  BY DEF Rebuild, Sums
<1>4. Append(patch, e) \in Seq(Entries)
  BY <1>1, AppendProperties
<1>5. /\ patch' \in Seq(Entries) /\ Body(patch') \in Seq(Bytes)
      /\ Read(older', Body(patch')) = AtNumber("AddLen", cursor', out')
  BY <1>2, <1>3, <1>4
<1>6. QED BY <1>5 DEF PatchIsRead

LEMMA BytesCounted == \A s \in Seq(Bytes) : Len(s) \in Nat
BY LenProperties

(* emit_loop writes differences and bytes, and numbers that fit. *)
LEMMA EntryFits ==
    ASSUME NumbersFit, FilesBounded, FilesTyped, mk.pos \in Nat, mk.pos < old_size,
           mk.last_pos \in Nat, mk.last_scan \in Nat, mk.scan \in Nat, mk.scan <= new_size,
           old_size \in Nat, new_size \in Nat,
           NEW lenf \in Nat, NEW lenb \in Nat, lenb <= mk.scan, lenb <= mk.pos,
           mk.last_scan + lenf <= mk.scan - lenb, mk.last_pos + lenf <= old_size
    PROVE  Entry(lenf, lenb) \in Entries /\ Readable(older, mk.last_pos, Entry(lenf, lenb))
<1> DEFINE e == Entry(lenf, lenb)
           add == [i \in 1 .. lenf |-> Minus(At(newer, mk.last_scan + i - 1),
                                             At(older, mk.last_pos + i - 1))]
           copy == SubSeq(newer, mk.last_scan + lenf + 1, mk.scan - lenb)
           seek == (mk.pos - lenb) - (mk.last_pos + lenf)
<1>1. e = [add |-> add, copy |-> copy, seek |-> seek]
  BY DEF Entry
<1>2. older \in Seq(Bytes) /\ newer \in Seq(Bytes) /\ Len(older) = old_size /\ Len(newer) = new_size
      /\ MaxOld \in Nat /\ MaxNew \in Nat /\ Word \in Nat
      /\ old_size <= MaxOld /\ new_size <= MaxNew /\ MaxNew < Word /\ 2 * MaxOld < Word
  BY BoundsAssumption, WordAssumption DEF FilesTyped, FilesBounded, NumbersFit, old_size, new_size
<1>3. add \in Seq(Bytes) /\ Len(add) = lenf
  <2>1. \A i \in 1 .. lenf : Minus(At(newer, mk.last_scan + i - 1), At(older, mk.last_pos + i - 1))
                             \in Bytes
    <3> SUFFICES ASSUME NEW i \in 1 .. lenf
                 PROVE  Minus(At(newer, mk.last_scan + i - 1), At(older, mk.last_pos + i - 1)) \in Bytes
      OBVIOUS
    <3>1. mk.last_scan + lenf <= new_size
      OBVIOUS
    <3>2. mk.last_scan + i - 1 \in 0 .. new_size - 1 /\ mk.last_pos + i - 1 \in 0 .. old_size - 1
      BY <3>1, IndexInside
    <3>3. At(newer, mk.last_scan + i - 1) \in Bytes /\ At(older, mk.last_pos + i - 1) \in Bytes
      BY <1>2, <3>2, LengthsAreNaturals
    <3>4. QED BY <3>3, PlusMinus
  <2>2. QED BY <2>1
<1>4. copy \in Seq(Bytes) /\ Len(copy) <= new_size
  <2> DEFINE from == mk.last_scan + lenf + 1
             to == mk.scan - lenb
  <2>1. from \in Nat /\ to \in Nat /\ 1 <= from /\ to <= new_size
    OBVIOUS
  <2>2. \A i \in from .. to : newer[i] \in Bytes
    BY <1>2, <2>1, ElementOfSeq
  <2>3. copy = SubSeq(newer, from, to)
    OBVIOUS
  <2> HIDE DEF from, to
  <2>4. SubSeq(newer, from, to) \in Seq(Bytes)
        /\ Len(SubSeq(newer, from, to)) = IF from <= to THEN to - from + 1 ELSE 0
    BY <2>1, <2>2, SubSeqProperties
  <2> HIDE DEF copy
  <2>5. QED BY <2>1, <2>3, <2>4
<1>5. seek \in Int /\ mk.last_pos + lenf + seek \in 0 .. old_size /\ -old_size <= seek /\ seek <= old_size
  OBVIOUS
<1> HIDE DEF add, copy, seek
<1>6. Zigzag(seek) < Word
  BY <1>2, <1>5 DEF Zigzag
<1>7. 1 < Word /\ lenf < Word /\ Len(copy) < Word
  <2>1. Len(copy) \in Nat
    BY <1>4, BytesCounted
  <2>2. Len(copy) < Word
    BY <1>2, <1>4, <2>1
  <2>3. lenf <= new_size /\ 1 <= old_size
    OBVIOUS
  <2>4. QED BY <1>2, <2>2, <2>3
<1>8. e.add = add /\ e.copy = copy /\ e.seek = seek
  BY <1>1
<1>9. e \in Entries
  BY <1>1, <1>3, <1>4, <1>5 DEF Entries
<1> HIDE DEF e
<1>10. Readable(older, mk.last_pos, e)
  BY <1>2, <1>3, <1>4, <1>5, <1>6, <1>7, <1>8 DEF Readable
<1>11. QED BY <1>9, <1>10 DEF e

LEMMA EmitReads ==
    ASSUME NumbersFit, ReadInv, Emit
    PROVE  PatchIsRead'
<1>1. UNCHANGED older /\ mk.pc = "emit" /\ MakerInv /\ FilesBounded /\ PatchIsRead
  BY DEF Emit, ReadInv
<1>2. /\ FilesTyped /\ old_size \in Nat /\ new_size \in Nat
      /\ mk.scan \in Nat /\ mk.scan <= new_size /\ mk.pos \in Nat /\ mk.pos < old_size
      /\ mk.last_pos \in Nat /\ mk.last_pos < old_size /\ mk.last_scan \in Nat
      /\ cursor = mk.last_pos /\ out \in Seq(Bytes)
  BY <1>1, LoopFacts
<1>3. PICK lenf \in Nat, lenb \in Nat :
              /\ lenb <= mk.pos /\ lenb <= mk.scan /\ lenf <= old_size - mk.last_pos
              /\ mk.last_scan + lenf <= mk.scan - lenb
              /\ patch' = Append(patch, Entry(lenf, lenb)) /\ Rebuild(Entry(lenf, lenb))
  BY <1>1, EmitWindows
<1> DEFINE e == Entry(lenf, lenb)
<1>4. mk.last_pos + lenf <= old_size
  BY <1>2, <1>3
<1>5. e \in Entries /\ Readable(older, mk.last_pos, e)
  BY <1>1, <1>2, <1>3, <1>4, EntryFits
<1>6. patch' = Append(patch, e) /\ Rebuild(e)
  BY <1>3
<1> HIDE DEF e
<1>7. older \in Seq(Bytes)
  BY <1>2 DEF FilesTyped
<1>8. QED BY <1>1, <1>2, <1>5, <1>6, <1>7, EntryKeepsRead

(* The single copy of an empty old file. *)
LEMMA StartReads ==
    ASSUME NumbersFit, ReadInv, Start
    PROVE  PatchIsRead'
<1>1. /\ mk.pc = "start" /\ UNCHANGED older /\ MakerInv /\ FilesBounded /\ PatchIsRead
  BY DEF Start, ReadInv
<1>2. /\ out = <<>> /\ cursor = 0 /\ older \in Seq(Bytes) /\ newer \in Seq(Bytes)
      /\ old_size \in Nat /\ new_size \in Nat
  BY <1>1, LengthsAreNaturals DEF MakerInv, Reader, FilesTyped
<1>3. CASE UNCHANGED <<patch, out, cursor>>
  BY <1>1, <1>3 DEF PatchIsRead
<1>4. CASE /\ new_size > 0 /\ old_size = 0
           /\ patch' = <<[add |-> <<>>, copy |-> newer, seek |-> 0]>>
           /\ Rebuild([add |-> <<>>, copy |-> newer, seek |-> 0])
  <2> DEFINE e == [add |-> <<>>, copy |-> newer, seek |-> 0]
  <2>1. e.add = <<>> /\ e.copy = newer /\ e.seek = 0 /\ e \in Entries
    BY <1>2, EmptySeq DEF Entries
  <2>2. patch' = Append(patch, e) /\ Rebuild(e)
    <3>1. patch = <<>>
      BY <1>1 DEF ReadInv
    <3>2. patch' = <<e>> /\ Rebuild(e)
      BY <1>4
    <3> HIDE DEF e
    <3>3. Append(<<>>, e) = <<e>>
      OBVIOUS
    <3>4. QED BY <3>1, <3>2, <3>3
  <2> HIDE DEF e
  <2>3. Readable(older, cursor, e)
    <3>1. /\ Len(older) = old_size /\ Len(newer) = new_size /\ Len(<<>>) = 0 /\ Word \in Nat
          /\ new_size <= MaxNew /\ MaxNew < Word /\ MaxNew \in Nat
      BY <1>1, EmptySeq, BoundsAssumption, WordAssumption
         DEF FilesBounded, NumbersFit, old_size, new_size
    <3>2. <<>> \in Seq(Bytes)
      BY EmptySeq
    <3>3. Zigzag(0) = 0
      BY DEF Zigzag
    <3>4. QED BY <1>2, <1>4, <2>1, <3>1, <3>2, <3>3 DEF Readable
  <2>4. out \in Seq(Bytes) /\ cursor \in Nat
    BY <1>2, EmptySeq
  <2>5. QED BY <1>1, <1>2, <2>1, <2>2, <2>3, <2>4, EntryKeepsRead
<1>5. QED BY <1>3, <1>4 DEF Start

(* No step leads back to the beginning. *)
LEMMA NeverBack ==
    ASSUME MakerInv, MakeNext
    PROVE  mk'.pc # "start"
<1>1. mk \in Locals
  BY DEF MakerInv, Sound
<1>2. CASE Start \/ Continue
  BY <1>1, <1>2 DEF Start, Continue, Locals
<1>3. "pc" \in DOMAIN mk
  BY <1>1 DEF Locals
<1>4. \A m : "pc" \in DOMAIN m => Lookup(m).pc # "start"
  BY DEF Lookup
<1>5. CASE Round
  <2> DEFINE m == [mk EXCEPT !.scan = @ + mk.len, !.scsc = mk.scan + mk.len, !.oldscore = 0]
  <2>1. "pc" \in DOMAIN m
    BY <1>3
  <2>2. mk' = Lookup(m) \/ mk' = [mk EXCEPT !.pc = "done"]
    BY <1>5 DEF Round
  <2> HIDE DEF m
  <2>3. QED BY <1>3, <1>4, <2>1, <2>2
<1>6. CASE Halve
  <2>1. mk.pc = "search" /\ \E n : mk' = [mk EXCEPT !.st = n] \/ mk' = [mk EXCEPT !.en = n]
    BY <1>6 DEF Halve
  <2>2. QED BY <1>1, <2>1 DEF Locals
<1>7. CASE Match
  <2>1. \E m : "pc" \in DOMAIN m /\ (mk' = [m EXCEPT !.pc = "emit"] \/ mk' = Lookup(LeaveByte(m)))
    <3>1. PICK x, y :
            LET len == IF x > y THEN x ELSE y
                covered == {i \in mk.scsc .. mk.scan + len - 1 : Aligned(i, mk.last_offset)}
                m == [mk EXCEPT !.len = len,
                                !.pos = IF x > y THEN sa[mk.st] ELSE sa[mk.en],
                                !.oldscore = @ + Cardinality(covered),
                                !.scsc = IF mk.scan + len > @ THEN mk.scan + len ELSE @]
            IN  mk' = IF GoodEnough(len, m.oldscore) THEN [m EXCEPT !.pc = "emit"]
                                                     ELSE Lookup(LeaveByte(m))
      BY <1>7, Zenon DEF Match
    <3> DEFINE len == IF x > y THEN x ELSE y
               covered == {i \in mk.scsc .. mk.scan + len - 1 : Aligned(i, mk.last_offset)}
               m == [mk EXCEPT !.len = len,
                               !.pos = IF x > y THEN sa[mk.st] ELSE sa[mk.en],
                               !.oldscore = @ + Cardinality(covered),
                               !.scsc = IF mk.scan + len > @ THEN mk.scan + len ELSE @]
    <3>2. mk' = IF GoodEnough(len, m.oldscore) THEN [m EXCEPT !.pc = "emit"] ELSE Lookup(LeaveByte(m))
      BY <3>1
    <3>3. "pc" \in DOMAIN m
      BY <1>3
    <3> HIDE DEF m, len
    <3>4. QED BY <3>2, <3>3
  <2>2. PICK m : "pc" \in DOMAIN m /\ (mk' = [m EXCEPT !.pc = "emit"] \/ mk' = Lookup(LeaveByte(m)))
    BY <2>1
  <2>3. mk' = [m EXCEPT !.pc = "emit"] \/ mk' = Lookup(LeaveByte(m))
    BY <2>2
  <2>4. "pc" \in DOMAIN LeaveByte(m)
    BY <2>2 DEF LeaveByte
  <2>5. QED BY <1>4, <2>2, <2>3, <2>4
<1>8. CASE Emit
  BY <1>1, <1>8, EmitWindows DEF Locals
<1>9. QED BY <1>2, <1>5, <1>6, <1>7, <1>8 DEF MakeNext

LEMMA MakerStep_Read == NumbersFit /\ ReadInv /\ [MakeNext]_mvars => ReadInv'
<1> SUFFICES ASSUME NumbersFit, ReadInv, [MakeNext]_mvars PROVE ReadInv'
  OBVIOUS
<1>1. MakerInv'
  BY MakerStep_Inv DEF ReadInv
<1>2. UNCHANGED <<older, newer>>
  BY DEF MakeNext, mvars, Start, Round, Halve, Match, Continue, Emit
<1>3. FilesBounded'
  BY <1>2 DEF ReadInv, FilesBounded, old_size, new_size
<1>4. PatchIsRead'
  <2>1. CASE UNCHANGED <<patch, out, cursor>>
    BY <1>2, <2>1 DEF ReadInv, PatchIsRead
  <2>2. CASE Round \/ Halve \/ Match \/ Continue \/ UNCHANGED mvars
    BY <2>1, <2>2 DEF Round, Halve, Match, Continue, mvars
  <2>3. QED BY <2>2, StartReads, EmitReads DEF MakeNext
<1>5. (mk.pc = "start" => patch = <<>>)'
  <2>1. CASE UNCHANGED mvars
    BY <2>1 DEF mvars, ReadInv
  <2>2. CASE MakeNext
    <3>1. mk'.pc # "start"
      BY <2>2, NeverBack DEF ReadInv
    <3>2. QED BY <3>1
  <2>3. QED BY <2>1, <2>2
<1>6. QED BY <1>1, <1>3, <1>4, <1>5 DEF ReadInv

(* What the reader makes of the patch. *)
LEMMA ReadAtEnd ==
    ASSUME ReadInv, mk.pc = "done"
    PROVE  LET r == Read(older, Body(patch))
           IN  finalize(r) /\ ~r.undefined /\ r.out = newer /\ r.pos = cursor
<1> DEFINE r == Read(older, Body(patch))
<1>1. r = AtNumber("AddLen", cursor, out) /\ out = newer
  BY DEF ReadInv, PatchIsRead, MakerInv, PatchRebuilds
<1> HIDE DEF r
<1>2. finalize(r) /\ ~r.undefined /\ r.out = out /\ r.pos = cursor
  BY <1>1, BoundaryIsAccepted
<1>3. QED BY <1>1, <1>2 DEF r

(***************************************************************************)
(* For files of any bytes and any length a 64-bit word can count, what the *)
(* writer of make_patch.cpp makes of them, the reader of inflate.cpp turns *)
(* into the new file: no error, nothing read or sought outside the old     *)
(* file, no undefined shift, and the end is where it accepts one.          *)
(***************************************************************************)
THEOREM PatchRoundTrips ==
    ASSUME NumbersFit
    PROVE  DeliverySpec => []RoundTrip
<1>1. MakeInit => ReadInv
  BY MakeInit_Read
<1>2. ReadInv /\ [MakeNext]_mvars => ReadInv'
  BY MakerStep_Read
<1>3. ReadInv => RoundTrip
  BY ReadAtEnd DEF RoundTrip
<1>4. QED BY <1>1, <1>2, <1>3, DeliveryImplementsParts, PTL DEF MakeSpec

-----------------------------------------------------------------------------
(***************************************************************************)
(* Made, sent and inflated.  What is published is the finished patch, so a *)
(* whole file inflates to the stream that PatchIsRead speaks of.           *)
(***************************************************************************)
SentIsPatch == size # 0 => mk.pc = "done" /\ size = Len(Body(patch)) + 1

CauseInv ==
    /\ ReadInv /\ TransferInv /\ SentIsPatch
    /\ up.pc = "inflate" => rec = "downloaded"
    /\ TombstoneHasCause

LEMMA CauseInit == DeliveryInit => CauseInv
<1> SUFFICES ASSUME DeliveryInit PROVE CauseInv
  OBVIOUS
<1>1. ReadInv /\ TransferInv
  BY MakeInit_Read, TransferInit_Inv DEF DeliveryInit
<1>2. QED BY <1>1 DEF DeliveryInit, TransferInit, Waiting, CauseInv, SentIsPatch, TombstoneHasCause

(* The blocks of a whole file, decompressed, are the bytes of the patch. *)
LEMMA WholeFileInflates ==
    ASSUME NEW f \in Seq(Nat), Body(patch) \in Seq(Bytes), Len(f) = Len(Body(patch)) + 1,
           \A i \in 1 .. Len(f) : f[i] = i - 1
    PROVE  HasHeader(f) /\ Decompress(f) = Body(patch)
<1> DEFINE body == Body(patch)
           n == Len(body)
           blocks == SubSeq(f, 2, Len(f))
<1>1. n \in Nat /\ Len(f) = n + 1 /\ Len(f) \in Nat
  BY LenProperties
<1>2. Len(blocks) = n /\ blocks \in Seq(Nat) /\ \A i \in 1 .. n : blocks[i] = f[i + 1]
  <2>1. \A i \in 2 .. Len(f) : f[i] \in Nat
    BY <1>1, ElementOfSeq
  <2>2. /\ SubSeq(f, 2, Len(f)) \in Seq(Nat)
        /\ Len(SubSeq(f, 2, Len(f))) = IF 2 <= Len(f) THEN Len(f) - 2 + 1 ELSE 0
        /\ \A i \in 1 .. Len(f) - 2 + 1 : SubSeq(f, 2, Len(f))[i] = f[2 + i - 1]
    BY <1>1, <2>1, SubSeqProperties
  <2> HIDE DEF n
  <2>3. Len(blocks) = n
    BY <1>1, <2>2
  <2>4. \A i \in 1 .. n : blocks[i] = f[i + 1]
    <3> SUFFICES ASSUME NEW i \in 1 .. n PROVE blocks[i] = f[i + 1]
      OBVIOUS
    <3>1. 2 + i - 1 = i + 1 /\ i \in 1 .. Len(f) - 2 + 1
      BY <1>1
    <3>2. QED BY <2>2, <3>1
  <2>5. QED BY <2>2, <2>3, <2>4
<1>3. Decompress(f) = [i \in DOMAIN blocks |-> body[blocks[i]]]
  BY DEF Decompress
<1> HIDE DEF body, blocks
<1>4. DOMAIN blocks = 1 .. n /\ \A i \in 1 .. n : blocks[i] = i
  <2>1. DOMAIN blocks = 1 .. n
    BY <1>2
  <2> HIDE DEF n
  <2>2. ASSUME NEW i \in 1 .. n PROVE f[i + 1] = i
    <3>1. i + 1 \in 1 .. Len(f) /\ i + 1 - 1 = i
      BY <1>1
    <3>2. QED BY <3>1
  <2>3. QED BY <1>2, <2>1, <2>2
<1>5. body = [i \in 1 .. n |-> body[i]]
  <2>1. body \in Seq(Bytes)
    BY DEF body
  <2>2. QED BY <2>1
<1>6. Decompress(f) = [i \in 1 .. n |-> body[i]]
  <2> HIDE DEF n
  <2>1. QED BY <1>3, <1>4
<1>7. HasHeader(f)
  <2>1. f # <<>> /\ 1 \in 1 .. Len(f)
    BY <1>1, EmptySeq
  <2>2. f[1] = 1 - 1
    BY <2>1
  <2>3. QED BY <2>1, <2>2 DEF HasHeader
<1>8. QED BY <1>5, <1>6, <1>7 DEF body

(* Without a fault or a loss, inflate and the hash check have only one answer. *)
LEMMA GoodPatchInflates ==
    ASSUME CauseInv, up.pc = "inflate", ~fault, ~lost,
           NEW good, good \in Verdicts(file, Decompress(file))
    PROVE  good = TRUE
<1>1. ReadInv /\ TransferInv /\ SentIsPatch /\ rec = "downloaded"
  BY DEF CauseInv
<1>2. /\ file \in Seq(Nat) /\ Len(file) = size /\ size # 0
      /\ \A i \in 1 .. Len(file) : file[i] = i - 1
  BY <1>1 DEF TransferInv, TransferTypeOK, FileIsPrefix, IsBeginning, InPlace
<1>3. mk.pc = "done" /\ Len(file) = Len(Body(patch)) + 1 /\ Body(patch) \in Seq(Bytes)
  BY <1>1, <1>2 DEF SentIsPatch, ReadInv, PatchIsRead
<1>4. HasHeader(file) /\ Decompress(file) = Body(patch)
  BY <1>2, <1>3, WholeFileInflates
<1> DEFINE r == Read(older, Body(patch))
<1>5. finalize(r) /\ ~r.undefined /\ r.out = newer
  BY <1>1, <1>3, ReadAtEnd
<1>6. good \in IF ~HasHeader(file) THEN {FALSE}
               ELSE IF r.undefined THEN BOOLEAN
               ELSE {finalize(r) /\ r.out = newer}
  BY <1>4, Zenon DEF Verdicts
<1> HIDE DEF r
<1>7. good \in {finalize(r) /\ r.out = newer}
  BY <1>4, <1>5, <1>6, Zenon
<1>8. QED BY <1>5, <1>7, Zenon

LEMMA CauseStep == NumbersFit /\ CauseInv /\ [DeliveryNext]_dvars => CauseInv'
<1> SUFFICES ASSUME NumbersFit, CauseInv, [DeliveryNext]_dvars PROVE CauseInv'
  OBVIOUS
<1>1. ReadInv' /\ TransferInv'
  BY DeliveryMakes, DeliveryTransfers, MakerStep_Read, TransferStep_Inv DEF CauseInv
<1>2. /\ ReadInv /\ TransferInv /\ SentIsPatch
      /\ up.pc = "inflate" => rec = "downloaded"
      /\ rec = "bad" => fault \/ lost
  BY DEF CauseInv, TombstoneHasCause
<1>3. (size = 0 => up.pc = "idle" /\ rec = "none")
      /\ (up.pc \in {"open", "answer", "receive", "check"} => rec = "downloading")
  BY <1>2 DEF TransferInv, InPlace
<1> USE DEF SentIsPatch, TombstoneHasCause
<1>4. CASE UNCHANGED dvars
  BY <1>1, <1>2, <1>4 DEF CauseInv, dvars, mvars, tvars
<1>5. CASE Make
  <2>1. mk.pc # "done"
    BY <1>5 DEF Make, MakeNext, Start, Round, Halve, Match, Continue, Emit
  <2>2. size = 0 /\ UNCHANGED tvars
    BY <1>2, <1>5, <2>1 DEF Make
  <2>3. QED BY <1>1, <1>2, <2>2 DEF CauseInv, tvars
<1>6. CASE Publish
  BY <1>1, <1>2, <1>3, <1>6 DEF CauseInv, Publish, PublishFrame, mvars
<1>7. CASE Download
  <2>1. SentIsPatch'
    BY <1>2, <1>7 DEF Download, Plan, Open, AnswerWhole, AnswerRest, ReceiveItem, EndOfBody,
                      FlushFails, Abandon, CheckLength, LoseFile, mvars
  <2>2. (up.pc = "inflate" => rec = "downloaded")' /\ TombstoneHasCause'
    <3>1. ASSUME NEW sameUrl \in BOOLEAN, Plan(sameUrl)
          PROVE  (up.pc = "inflate" => rec = "downloaded")' /\ TombstoneHasCause'
      BY <3>1 DEF Plan, Waiting
    <3>2. CASE Open \/ AnswerWhole \/ AnswerRest \/ ReceiveItem \/ EndOfBody \/ FlushFails
      <4>1. rec = "downloading" /\ rec' = rec
        BY <1>3, <3>2 DEF Open, AnswerWhole, AnswerRest, ReceiveItem, EndOfBody, FlushFails
      <4>2. up'.pc \in {"answer", "receive", "check"}
        BY <1>2, <3>2 DEF Open, AnswerWhole, AnswerRest, ReceiveItem, EndOfBody, FlushFails,
                          TransferInv, InPlace, TransferTypeOK
      <4>3. QED BY <4>1, <4>2
    <3>3. CASE Abandon
      BY <1>2, <3>3 DEF Abandon, Waiting
    <3>4. CASE CheckLength
      BY <1>3, <3>4 DEF CheckLength, Waiting
    <3>5. CASE LoseFile
      BY <1>2, <3>5 DEF LoseFile
    <3>6. QED BY <1>7, <3>1, <3>2, <3>3, <3>4, <3>5 DEF Download
  <2>3. QED BY <1>1, <2>1, <2>2 DEF CauseInv
<1>8. ASSUME NEW good, InflateEnds(good), UNCHANGED mvars, good = TRUE \/ fault' \/ lost
      PROVE  CauseInv'
  <2>1. up'.pc = "idle" /\ (rec' = "bad" => fault' \/ lost') /\ UNCHANGED <<size, mvars>>
    BY <1>8 DEF InflateEnds, Waiting
  <2>2. SentIsPatch'
    BY <1>2, <2>1 DEF mvars
  <2>3. QED BY <1>1, <2>1, <2>2 DEF CauseInv
<1>9. CASE Inflate
  <2>1. PICK good \in Verdicts(file, Decompress(file)) : InflateEnds(good)
    BY <1>9 DEF Inflate
  <2>2. up.pc = "inflate" /\ UNCHANGED mvars /\ fault' = fault
    BY <1>9 DEF Inflate
  <2>3. ~fault /\ ~lost => good = TRUE
    BY <2>2, GoodPatchInflates
  <2>4. QED BY <1>8, <2>1, <2>2, <2>3
<1>10. CASE InflateDamaged \/ InflateFails
  <2>1. fault' = TRUE /\ UNCHANGED mvars
    BY <1>10 DEF InflateDamaged, InflateFails
  <2>2. \E good : InflateEnds(good)
    BY <1>10, Zenon DEF InflateDamaged, InflateFails
  <2>3. QED BY <1>8, <2>1, <2>2
<1>11. QED BY <1>4, <1>5, <1>6, <1>7, <1>9, <1>10 DEF DeliveryNext

(***************************************************************************)
(* From the two files to the device, for files and transfers of any kind:  *)
(* a patch is given up for good only when its bytes were damaged or cut    *)
(* without notice, its output could not be written, or its download went   *)
(* while the update() that was to inflate it was running.                  *)
(***************************************************************************)
THEOREM GoodPatchIsKept ==
    ASSUME NumbersFit
    PROVE  DeliverySpec => []TombstoneHasCause
<1>1. CauseInv /\ [DeliveryNext]_dvars => CauseInv'
  BY CauseStep
<1>2. CauseInv => TombstoneHasCause
  BY DEF CauseInv
<1>3. QED BY CauseInit, <1>1, <1>2, PTL DEF DeliverySpec

=============================================================================
