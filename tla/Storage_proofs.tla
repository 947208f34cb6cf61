--------------------------- MODULE Storage_proofs ---------------------------
(* What the storage boards promise of raw sectors, for every size of       *)
(* sector, of image and of disk and whatever the host refuses: the bytes   *)
(* the SymbiFace drive's data register moves are those of the sectors it   *)
(* was asked for, and so are the units the Albireo's buffer moves, whose   *)
(* mouse reports lose no motion.                                           *)
EXTENDS MCStorage, NatFacts, TLAPS

MovedByte == Bytes \cup {IdentByte}
IdeType == /\ I!TypeOK
           /\ lba \in Nat /\ count \in Nat /\ first \in Nat
           /\ moved \in Seq(MovedByte)

Running == "DRQ" \in status
OfSectors == cmd \in {"read", "write"}

(* While bytes may move, the task file says which command moves them, and  *)
(* the buffer up to pos is the sector's part that was moved.               *)
Transfer == /\ error = "none" /\ pos < SectorBytes
            /\ cmd \in {"read", "write", "identify"}
            /\ writing = (cmd = "write")
            /\ OfSectors => /\ left > 0
                            /\ \A i \in 1 .. pos : buf[i] = moved[(cur - first) * SectorBytes + i]
            /\ cmd = "read" => cur < NumSectors /\ buf = image[cur]
            /\ writing => \A i \in 1 .. pos : buf[i] \in Bytes

(* The first q sectors of the command are those that were moved, but for   *)
(* those the host refused.                                                 *)
Exact(q) == \A k \in 0 .. q - 1 :
               first + k < NumSectors /\ (first + k \in unsaved \/ image[first + k] = I!Piece(k))

(* So many bytes were moved: whole sectors up to cur, and part of it. *)
Progress(part) == /\ cur >= first
                  /\ Len(moved) = (cur - first) * SectorBytes + part
                  /\ Exact(cur - first)

IdeInv == /\ Running => Transfer
          /\ OfSectors /\ Running => Progress(pos)
          /\ OfSectors /\ ~Running /\ error = "none" /\ moved # <<>> => Progress(0) /\ left = 0

-----------------------------------------------------------------------------
(* Sectors and offsets *)

(* A transfer of q sectors and r bytes more *)
LEMMA SplitLength ==
    ASSUME NEW n \in Nat, NEW d \in Nat \ {0}, NEW q \in Nat, NEW r \in Nat,
           r < d, n = q * d + r
    PROVE  n \div d = q /\ n % d = r
OBVIOUS

LEMMA PieceFits ==
    ASSUME NEW d \in Nat \ {0}, NEW q \in Nat, NEW k \in 0 .. q - 1
    PROVE  k * d \in Nat /\ k * d + d <= q * d
OBVIOUS

LEMMA OneMore ==
    ASSUME NEW d \in Nat \ {0}, NEW q \in Nat
    PROVE  (q + 1) * d = q * d + d /\ q * d \in Nat
OBVIOUS

-----------------------------------------------------------------------------
(* The invariant at rest and at the start of a command *)

(* A state with nothing moved and no data request promises nothing. *)
LEMMA QuietInv ==
    ASSUME ~Running', moved' = <<>>
    PROVE  IdeInv'
BY DEF IdeInv

LEMMA NoDataRequest == "DRQ" \notin I!Idle /\ "DRQ" \notin I!Failing /\ "DRQ" \in I!DataReady
BY DEF I!Idle, I!Failing, I!DataReady

(* A command begins with nothing moved. *)
LEMMA BeginInv ==
    ASSUME I!IdeAssumption, IdeType, IdeType',
           moved' = <<>>, error' = "none", pos' = 0, first' = lba,
           \/ cmd' = "identify" /\ writing' = FALSE
           \/ cur' = lba /\ left' > 0 /\ cmd' = "write" /\ writing' = TRUE
           \/ /\ cur' = lba /\ left' > 0 /\ cmd' = "read" /\ writing' = FALSE
              /\ lba < NumSectors /\ buf' = image'[lba]
    PROVE  IdeInv'
<1>1. SectorBytes \in Nat \ {0} /\ lba \in Nat  BY DEF I!IdeAssumption, IdeType
<1>2. Transfer'
  <2>1. 1 .. pos' = {} /\ pos' < SectorBytes  BY <1>1
  <2>2. OfSectors' => left' > 0  BY DEF OfSectors
  <2>3. cmd' = "read" => cur' < NumSectors /\ buf' = image'[cur']  OBVIOUS
  <2>4. cmd' \in {"read", "write", "identify"} /\ writing' = (cmd' = "write")  OBVIOUS
  <2>. QED  BY <2>1, <2>2, <2>3, <2>4 DEF Transfer
<1>3. OfSectors' => Progress(0)'
  <2>. SUFFICES ASSUME OfSectors' PROVE Progress(0)'  OBVIOUS
  <2>1. cur' = lba /\ cur' - first' = 0  BY <1>1 DEF OfSectors
  <2>2. Exact(cur - first)'  BY <2>1 DEF Exact
  <2>3. 0 * SectorBytes + 0 = 0  BY <1>1
  <2>. QED  BY <1>1, <2>1, <2>2, <2>3 DEF Progress
<1>. QED  BY <1>2, <1>3 DEF IdeInv

-----------------------------------------------------------------------------
(* One byte through the data register *)

(* What was moved stays moved, and one byte comes after it. *)
LEMMA Grown ==
    ASSUME I!IdeAssumption, NEW old \in Seq(MovedByte), NEW v \in MovedByte,
           NEW q \in Nat, NEW k \in 0 .. q - 1, q * SectorBytes <= Len(old)
    PROVE  \A i \in 1 .. SectorBytes :
               Append(old, v)[k * SectorBytes + i] = old[k * SectorBytes + i]
<1>1. SectorBytes \in Nat \ {0}  BY DEF I!IdeAssumption
<1>2. k * SectorBytes \in Nat /\ k * SectorBytes + SectorBytes <= q * SectorBytes
  BY <1>1, PieceFits
<1>3. q * SectorBytes \in Nat /\ Len(old) \in Nat  BY <1>1
<1>. SUFFICES ASSUME NEW i \in 1 .. SectorBytes
              PROVE  Append(old, v)[k * SectorBytes + i] = old[k * SectorBytes + i]
  OBVIOUS
<1>. DEFINE n == k * SectorBytes + i
<1>4. n \in 1 .. Len(old)  BY <1>1, <1>2, <1>3
<1>. HIDE DEF n
<1>5. Append(old, v)[n] = old[n]  BY <1>4
<1>. QED  BY <1>5 DEF n

(* The sectors moved before stay exact, if the image keeps them. *)
LEMMA ExactKept ==
    ASSUME I!IdeAssumption, IdeType, NEW v \in MovedByte, moved' = Append(moved, v),
           NEW q \in Nat, q * SectorBytes <= Len(moved), Exact(q), first' = first,
           \A k \in 0 .. q - 1 : image'[first + k] = image[first + k],
           unsaved \subseteq unsaved'
    PROVE  Exact(q)'
<1>. SUFFICES ASSUME NEW k \in 0 .. q - 1
              PROVE  /\ first' + k < NumSectors
                     /\ first' + k \in unsaved' \/ image'[first' + k] = I!Piece(k)'
  BY DEF Exact
<1>1. \A i \in 1 .. SectorBytes :
         moved'[k * SectorBytes + i] = moved[k * SectorBytes + i]
  BY Grown DEF IdeType
<1>2. I!Piece(k)' = I!Piece(k)  BY <1>1 DEF I!Piece
<1>. QED  BY <1>2 DEF Exact

(* Within a sector *)
LEMMA ByteMoved ==
    ASSUME I!IdeAssumption, IdeType, Running, Transfer, OfSectors, Progress(pos),
           NEW v \in MovedByte, moved' = Append(moved, v), first' = first
    PROVE  LET base == (cur - first) * SectorBytes
           IN  /\ base \in Nat /\ Len(moved) = base + pos /\ Len(moved') = base + pos + 1
               /\ moved'[base + pos + 1] = v
               /\ \A i \in 1 .. pos : moved'[base + i] = moved[base + i]
<1>. DEFINE base == (cur - first) * SectorBytes
<1>1. /\ SectorBytes \in Nat \ {0} /\ cur \in Nat /\ first \in Nat /\ cur >= first
      /\ pos \in Nat /\ moved \in Seq(MovedByte)
  BY DEF I!IdeAssumption, IdeType, I!TypeOK, Progress
<1>2. cur - first \in Nat  BY <1>1
<1>3. base \in Nat /\ Len(moved) = base + pos
  BY <1>1, <1>2, OneMore DEF Progress
<1>. HIDE DEF base
<1>4. /\ Len(moved') = base + pos + 1 /\ moved'[base + pos + 1] = v
      /\ \A i \in 1 .. pos : moved'[base + i] = moved[base + i]
  <2>1. /\ Len(moved') = Len(moved) + 1 /\ moved'[Len(moved) + 1] = v
        /\ \A i \in 1 .. Len(moved) : moved'[i] = moved[i]
    BY <1>1
  <2>2. \A i \in 1 .. pos : base + i \in 1 .. Len(moved)  BY <1>1, <1>3
  <2>. QED  BY <1>1, <1>3, <2>1, <2>2
<1>. QED  BY <1>3, <1>4 DEF base
-----------------------------------------------------------------------------
(* Every variable keeps its range *)

LEMMA ReadType ==
    ASSUME I!IdeAssumption, IdeType, IdeInv, I!ReadData
    PROVE  IdeType'
<1>1. /\ buf \in [1 .. SectorBytes -> MovedByte] /\ pos \in Nat /\ SectorBytes \in Nat
      /\ moved \in Seq(MovedByte) /\ pos < SectorBytes
      /\ image \in [0 .. NumSectors - 1 -> I!Sector] /\ cur \in Nat /\ left \in Nat
      /\ NumSectors \in Nat
  BY DEF I!IdeAssumption, IdeType, I!TypeOK, MovedByte, I!ReadData
<1>2. moved' \in Seq(MovedByte)
  <2>1. buf[pos + 1] \in MovedByte  BY <1>1
  <2>. QED  BY <1>1, <2>1 DEF I!ReadData
<1>3. /\ pos' \in 0 .. SectorBytes /\ status' \in {I!Idle, status} /\ cur' \in Nat /\ left' \in Nat
      /\ error' \in {"none", "IDNF", "ABRT"} /\ buf' \in [1 .. SectorBytes -> MovedByte]
  <2>1. CASE pos + 1 < SectorBytes /\ pos' = pos + 1 /\ UNCHANGED <<status, error, buf, cur, left>>
    BY <1>1, <2>1 DEF IdeType, I!TypeOK
  <2>2. CASE pos + 1 = SectorBytes /\ cmd = "identify" /\ pos' = pos + 1 /\ status' = I!Idle
             /\ UNCHANGED <<error, buf, cur, left>>
    BY <1>1, <2>2 DEF IdeType, I!TypeOK
  <2>3. CASE pos + 1 = SectorBytes /\ cmd # "identify" /\ I!NextSector
    <3>1. left > 0
      <4>1. Running /\ ~writing  BY DEF I!ReadData, Running
      <4>. QED  BY <2>3, <4>1 DEF IdeInv, Transfer, OfSectors
    <3>2. cur' \in Nat /\ left' \in Nat  BY <1>1, <2>3, <3>1 DEF I!NextSector
    <3>3. CASE left' > 0
      <4>1. PICK o \in I!Outcomes(cur') :
               IF o = "none" THEN buf' = image[cur'] /\ pos' = 0 /\ UNCHANGED <<status, error>>
               ELSE pos' = pos + 1 /\ I!Ended(I!Idle, o)
        BY <2>3, <3>3 DEF I!NextSector
      <4>2. CASE o = "none"
        <5>1. cur' < NumSectors  BY <1>1, <3>2, <4>1, <4>2 DEF I!Outcomes
        <5>2. image[cur'] \in I!Sector  BY <1>1, <3>2, <5>1
        <5>3. image[cur'] \in [1 .. SectorBytes -> MovedByte]
          BY <5>2 DEF I!Sector, MovedByte
        <5>. QED  BY <1>1, <3>2, <4>1, <4>2, <5>3 DEF IdeType, I!TypeOK
      <4>3. CASE o # "none"
        BY <1>1, <2>3, <3>2, <4>1, <4>3 DEF I!Ended, I!Outcomes, IdeType, I!TypeOK
      <4>. QED  BY <4>2, <4>3
    <3>4. CASE ~(left' > 0)
      BY <1>1, <2>3, <3>2, <3>4 DEF I!NextSector, I!Ended, IdeType, I!TypeOK
    <3>. QED  BY <3>3, <3>4
  <2>. QED  BY <2>1, <2>2, <2>3 DEF I!ReadData
<1>4. UNCHANGED <<image, fp, count, lba, cmd, writing, first, unsaved>>  BY DEF I!ReadData
<1>. QED  BY <1>2, <1>3, <1>4 DEF IdeType, I!TypeOK, MovedByte

(* A sector is written when the guest has given all its bytes. *)
LEMMA WriteType ==
    ASSUME I!IdeAssumption, IdeType, IdeInv, NEW c \in Bytes, I!WriteData(c)
    PROVE  /\ IdeType'
           /\ pos + 1 = SectorBytes => buf' \in I!Sector
<1>1. /\ buf \in [1 .. SectorBytes -> MovedByte] /\ pos \in Nat /\ SectorBytes \in Nat
      /\ moved \in Seq(MovedByte) /\ pos < SectorBytes /\ c \in MovedByte
      /\ image \in [0 .. NumSectors - 1 -> I!Sector] /\ cur \in Nat /\ left \in Nat
      /\ NumSectors \in Nat /\ buf' = [buf EXCEPT ![pos + 1] = c]
  BY DEF I!IdeAssumption, IdeType, I!TypeOK, MovedByte, I!WriteData
<1>2. moved' \in Seq(MovedByte)  BY <1>1 DEF I!WriteData
<1>3. Transfer /\ writing /\ left > 0
  BY DEF I!WriteData, IdeInv, Running, Transfer, OfSectors
<1>4. buf' \in [1 .. SectorBytes -> MovedByte]  BY <1>1
<1>5. ASSUME pos + 1 = SectorBytes PROVE buf' \in I!Sector
  <2>1. ASSUME NEW i \in 1 .. SectorBytes PROVE buf'[i] \in Bytes
    BY <1>1, <1>3, <1>5 DEF Transfer
  <2>. QED  BY <1>4, <2>1 DEF I!Sector
<1>6. /\ image' \in [0 .. NumSectors - 1 -> I!Sector]
      /\ pos' \in 0 .. SectorBytes /\ status' \in {I!Idle, I!Failing, status}
      /\ error' \in {"none", "IDNF", "ABRT"} /\ cur' \in Nat /\ left' \in Nat
      /\ unsaved' \subseteq 0 .. NumSectors - 1
  <2>1. CASE pos + 1 < SectorBytes /\ pos' = pos + 1 /\ UNCHANGED <<image, status, error, cur, left, unsaved>>
    BY <1>1, <2>1 DEF IdeType, I!TypeOK
  <2>2. CASE pos + 1 = SectorBytes /\ \E o \in I!Flushes(cur) : I!FlushSector(o, buf')
    <3>1. PICK o \in I!Flushes(cur) : I!FlushSector(o, buf')  BY <2>2
    <3>2. image' \in [0 .. NumSectors - 1 -> I!Sector]
      BY <1>1, <1>5, <2>2, <3>1 DEF I!FlushSector, I!Flushes, I!Outcomes
    <3>3. error' \in {"none", "IDNF", "ABRT"}
      BY <3>1 DEF I!FlushSector, I!Flushes, I!Outcomes, IdeType, I!TypeOK
    <3>5. unsaved' \subseteq 0 .. NumSectors - 1
      <4>1. unsaved \subseteq 0 .. NumSectors - 1  BY DEF IdeType, I!TypeOK
      <4>2. CASE o = "lost"
        <5>1. cur < NumSectors  BY <1>1, <3>1, <4>2 DEF I!Flushes, I!Outcomes
        <5>. QED  BY <1>1, <3>1, <4>1, <4>2, <5>1 DEF I!FlushSector
      <4>3. CASE o # "lost"  BY <3>1, <4>1, <4>3 DEF I!FlushSector
      <4>. QED  BY <4>2, <4>3
    <3>4. cur' = cur + 1 /\ left' = left - 1 /\ pos' \in {0, pos + 1}
          /\ status' \in {I!Idle, I!Failing, status}
      BY <3>1 DEF I!FlushSector
    <3>. QED  BY <1>1, <1>3, <2>2, <3>2, <3>3, <3>4, <3>5
  <2>. QED  BY <2>1, <2>2 DEF I!WriteData
<1>7. UNCHANGED <<fp, count, lba, cmd, writing, first>>  BY DEF I!WriteData
<1>8. IdeType'  BY <1>2, <1>4, <1>6, <1>7 DEF IdeType, I!TypeOK, MovedByte
<1>. QED  BY <1>5, <1>8

LEMMA TypeStep ==
    ASSUME I!IdeAssumption, IdeType, IdeInv, [I!Next]_(I!vars)
    PROVE  IdeType'
<1>1. /\ Lbas \subseteq Nat /\ Counts \subseteq Nat /\ SectorBytes \in Nat \ {0}
      /\ ZeroCount \in Nat \ {0} /\ NumSectors \in Nat /\ 0 \in 0 .. SectorBytes
      /\ lba \in Nat /\ count \in Nat
      /\ image \in [0 .. NumSectors - 1 -> I!Sector]
  BY DEF I!IdeAssumption, IdeType, I!TypeOK
<1>2. I!Wanted \in Nat \ {0}  BY <1>1 DEF I!Wanted
<1>3. I!Blank \in [1 .. SectorBytes -> MovedByte]  BY <1>1 DEF I!Blank, MovedByte
<1>4. <<>> \in Seq(MovedByte)  OBVIOUS
<1>5. ASSUME NEW n \in Counts, I!SetCount(n) PROVE IdeType'
  BY <1>1, <1>5 DEF I!SetCount, IdeType, I!TypeOK
<1>6. ASSUME NEW l \in Lbas, I!SetLba(l) PROVE IdeType'
  BY <1>1, <1>6 DEF I!SetLba, IdeType, I!TypeOK
<1>7. CASE I!ReadSectors
  <2>1. PICK o \in I!Outcomes(lba) :
         /\ I!Begin("read", o)
         /\ buf' = IF o = "none" THEN image[lba] ELSE buf
         /\ status' = IF o = "none" THEN I!DataReady ELSE I!Failing
    BY <1>7 DEF I!ReadSectors
  <2>2. buf' \in [1 .. SectorBytes -> MovedByte]
    <3>1. CASE o = "none"
      <4>1. lba < NumSectors  BY <1>1, <2>1, <3>1 DEF I!Outcomes
      <4>2. image[lba] \in I!Sector  BY <1>1, <4>1
      <4>. QED  BY <2>1, <3>1, <4>2 DEF I!Sector, MovedByte
    <3>2. CASE o # "none"  BY <2>1, <3>2 DEF IdeType, I!TypeOK, MovedByte
    <3>. QED  BY <3>1, <3>2
  <2>3. error' \in {"none", "IDNF", "ABRT"}  BY <2>1 DEF I!Begin, I!Outcomes
  <2>4. status' \in {I!DataReady, I!Failing}  BY <2>1
  <2>. QED
    BY <1>1, <1>2, <1>4, <1>7, <2>1, <2>2, <2>3, <2>4
    DEF I!ReadSectors, I!Begin, IdeType, I!TypeOK, MovedByte
<1>8. CASE I!WriteSectors
  BY <1>1, <1>2, <1>4, <1>8 DEF I!WriteSectors, I!Begin, IdeType, I!TypeOK
<1>9. CASE I!Identify
  BY <1>1, <1>3, <1>4, <1>9 DEF I!Identify, I!Begin, IdeType, I!TypeOK, MovedByte
<1>10. CASE I!OtherCommand
  BY <1>1, <1>4, <1>10 DEF I!OtherCommand, I!Begin, IdeType, I!TypeOK
<1>11. CASE I!CommandWithoutImage
  BY <1>1, <1>11 DEF I!CommandWithoutImage, IdeType, I!TypeOK
<1>12. CASE I!ReadData  BY <1>12, ReadType
<1>13. ASSUME NEW c \in Bytes, I!WriteData(c) PROVE IdeType'  BY <1>13, WriteType
<1>14. CASE I!Reset
  BY <1>1, <1>3, <1>4, <1>14 DEF I!Reset, I!Fresh, IdeType, I!TypeOK, MovedByte
<1>15. CASE I!Swap
  BY <1>1, <1>4, <1>15 DEF I!Swap, IdeType, I!TypeOK
<1>16. CASE UNCHANGED I!vars
  BY <1>16 DEF I!vars, IdeType, I!TypeOK
<1>. QED
  BY <1>5, <1>6, <1>7, <1>8, <1>9, <1>10, <1>11, <1>12, <1>13, <1>14, <1>15, <1>16 DEF I!Next
-----------------------------------------------------------------------------
(* What was moved stays what the sectors hold *)

(* A byte in the middle of a sector leaves the image alone. *)
LEMMA MiddleInv ==
    ASSUME I!IdeAssumption, IdeType, IdeInv, NEW v \in MovedByte,
           Running, moved' = Append(moved, v), pos + 1 < SectorBytes, pos' = pos + 1,
           UNCHANGED <<image, status, error, cur, left, first, cmd, writing, unsaved>>,
           \/ OfSectors /\ buf'[pos + 1] = v /\ (writing => v \in Bytes)
           \/ cmd = "identify",
           cmd = "read" => buf' = buf,
           \A i \in 1 .. pos : buf'[i] = buf[i]
    PROVE  IdeInv'
<1>1. Transfer /\ pos \in Nat  BY DEF IdeInv, IdeType, I!TypeOK
<1>2. ASSUME OfSectors
      PROVE  /\ Progress(pos)'
             /\ \A i \in 1 .. pos' : buf'[i] = moved'[(cur' - first') * SectorBytes + i]
  <2>1. Progress(pos)  BY <1>2 DEF IdeInv
  <2>. DEFINE base == (cur - first) * SectorBytes
  <2>2. /\ base \in Nat /\ Len(moved) = base + pos /\ Len(moved') = base + pos + 1
        /\ moved'[base + pos + 1] = v
        /\ \A i \in 1 .. pos : moved'[base + i] = moved[base + i]
    BY <1>1, <1>2, <2>1, ByteMoved
  <2>3. cur \in Nat /\ first \in Nat /\ cur - first \in Nat /\ base <= Len(moved)
    BY <2>1, <2>2, <1>1 DEF IdeType, I!TypeOK, Progress
  <2>4. Exact(cur - first)'
    <3>1. Exact(cur - first)  BY <2>1 DEF Progress
    <3>2. PICK q \in Nat : q = cur - first  BY <2>3
    <3>3. q * SectorBytes <= Len(moved) /\ Exact(q)  BY <2>3, <3>1, <3>2
    <3>4. \A k \in 0 .. q - 1 : image'[first + k] = image[first + k]  OBVIOUS
    <3>5. Exact(q)'  BY <3>3, <3>4, ExactKept
    <3>6. cur' - first' = q  BY <3>2
    <3>. QED  BY <3>5, <3>6
  <2>5. (cur' - first') * SectorBytes = base  OBVIOUS
  <2>6. \A i \in 1 .. pos : buf[i] = moved[base + i]
    BY <1>1, <1>2 DEF Transfer
  <2>7. buf'[pos + 1] = v  BY <1>2 DEF OfSectors
  <2>. HIDE DEF base
  <2>8. Progress(pos)'  BY <1>1, <2>2, <2>3, <2>4, <2>5, <2>1 DEF Progress
  <2>9. ASSUME NEW i \in 1 .. pos' PROVE buf'[i] = moved'[base + i]
    <3>1. CASE i = pos + 1  BY <2>2, <2>7, <3>1, <1>1
    <3>2. CASE i # pos + 1
      <4>1. i \in 1 .. pos  BY <3>2, <1>1
      <4>. QED  BY <2>2, <2>6, <4>1
    <3>. QED  BY <3>1, <3>2
  <2>. QED  BY <2>5, <2>8, <2>9
<1>3. Running' /\ OfSectors' = OfSectors  BY DEF Running, OfSectors
<1>4. writing => \A i \in 1 .. pos' : buf'[i] \in Bytes
  <2>. SUFFICES ASSUME writing, NEW i \in 1 .. pos' PROVE buf'[i] \in Bytes  OBVIOUS
  <2>1. OfSectors /\ \A j \in 1 .. pos : buf[j] \in Bytes  BY <1>1 DEF Transfer, OfSectors
  <2>2. CASE i = pos + 1  BY <2>1, <2>2 DEF OfSectors
  <2>3. CASE i # pos + 1
    <3>1. i \in 1 .. pos  BY <2>3, <1>1
    <3>. QED  BY <2>1, <3>1
  <2>. QED  BY <2>2, <2>3
<1>5. Transfer'
  BY <1>1, <1>2, <1>3, <1>4 DEF Transfer, OfSectors
<1>. QED  BY <1>2, <1>3, <1>5 DEF IdeInv

(* The last byte of a sector completes it. *)
LEMMA SectorDone ==
    ASSUME I!IdeAssumption, IdeType, IdeInv, NEW v \in MovedByte,
           Running, OfSectors, moved' = Append(moved, v), pos + 1 = SectorBytes,
           first' = first, cur' = cur + 1, unsaved \subseteq unsaved', cur < NumSectors,
           \/ cur \in unsaved'
           \/ image'[cur] = [i \in 1 .. SectorBytes |-> IF i <= pos THEN buf[i] ELSE v],
           \A l \in 0 .. NumSectors - 1 : l # cur => image'[l] = image[l]
    PROVE  Progress(0)'
<1>1. Transfer /\ pos \in Nat /\ Progress(pos)  BY DEF IdeInv, IdeType, I!TypeOK
<1>2. /\ cur \in Nat /\ first \in Nat /\ cur >= first /\ cur - first \in Nat
      /\ SectorBytes \in Nat \ {0}
  <2>1. cur \in Nat /\ first \in Nat /\ SectorBytes \in Nat \ {0}
    BY DEF IdeType, I!TypeOK, I!IdeAssumption
  <2>2. cur >= first  BY <1>1 DEF Progress
  <2>. QED  BY <2>1, <2>2
<1>3. PICK q \in Nat : q = cur - first  BY <1>2
<1>4. PICK base \in Nat : base = q * SectorBytes  BY <1>2, <1>3, OneMore
<1>5. /\ Len(moved) = base + pos /\ Len(moved') = base + pos + 1
      /\ moved'[base + pos + 1] = v
      /\ \A i \in 1 .. pos : moved'[base + i] = moved[base + i]
  BY <1>1, <1>3, <1>4, ByteMoved
<1>6. \A i \in 1 .. pos : buf[i] = moved[base + i]  BY <1>1, <1>3, <1>4 DEF Transfer
<1>7. ASSUME NEW i \in 1 .. SectorBytes
      PROVE  moved'[q * SectorBytes + i] = IF i <= pos THEN buf[i] ELSE v
  <2>1. moved'[q * SectorBytes + i] = moved'[base + i]  BY <1>4
  <2>2. CASE i <= pos  BY <1>1, <1>5, <1>6, <2>1, <2>2
  <2>3. CASE ~(i <= pos)
    <3>1. i = pos + 1 /\ base + i = base + pos + 1  BY <1>1, <2>3
    <3>. QED  BY <1>5, <2>1, <2>3, <3>1
  <2>. QED  BY <2>2, <2>3
<1>8. cur \in unsaved' \/ image'[cur] = I!Piece(q)'
  <2>1. I!Piece(q)' = [i \in 1 .. SectorBytes |-> moved'[q * SectorBytes + i]]  BY DEF I!Piece
  <2>. QED  BY <1>7, <2>1
<1>9. Exact(q)  BY <1>1, <1>3 DEF Progress
<1>10. first + q = cur /\ cur' - first' = q + 1 /\ q * SectorBytes <= Len(moved)
  BY <1>1, <1>2, <1>3, <1>4, <1>5
<1>11. Exact(q)'
  <2>1. ASSUME NEW k \in 0 .. q - 1 PROVE image'[first + k] = image[first + k]
    <3>1. first + k \in 0 .. NumSectors - 1 /\ first + k # cur
      BY <1>9, <1>10, <1>2 DEF Exact, I!IdeAssumption
    <3>. QED  BY <3>1
  <2>. QED  BY <2>1, <1>9, <1>10, ExactKept
<1>12. Exact(q + 1)'
  <2>1. ASSUME NEW k \in 0 .. (q + 1) - 1
        PROVE  /\ first' + k < NumSectors
               /\ first' + k \in unsaved' \/ image'[first' + k] = I!Piece(k)'
    <3>1. CASE k = q  BY <1>8, <1>10, <3>1
    <3>2. CASE k # q
      <4>1. k \in 0 .. q - 1  BY <3>2
      <4>. QED  BY <1>11, <4>1 DEF Exact
    <3>. QED  BY <3>1, <3>2
  <2>. QED  BY <2>1 DEF Exact
<1>13. Len(moved') = (q + 1) * SectorBytes + 0
  <2>1. (q + 1) * SectorBytes = base + SectorBytes  BY <1>2, <1>4, OneMore
  <2>. QED  BY <1>1, <1>2, <1>5, <2>1
<1>14. Exact(cur - first)'
  <2>1. ASSUME NEW k \in 0 .. (cur' - first') - 1
        PROVE  /\ first' + k < NumSectors
               /\ first' + k \in unsaved' \/ image'[first' + k] = I!Piece(k)'
    <3>1. k \in 0 .. (q + 1) - 1  BY <1>10
    <3>. QED  BY <1>12, <3>1 DEF Exact
  <2>. QED  BY <2>1 DEF Exact
<1>15. cur' >= first' /\ Len(moved') = (cur' - first') * SectorBytes + 0
  <2>1. cur' >= first'  BY <1>2
  <2>2. Len(moved') = (cur' - first') * SectorBytes + 0  BY <1>10, <1>13, Zenon
  <2>. QED  BY <2>1, <2>2
<1>. QED  BY <1>14, <1>15 DEF Progress

LEMMA ReadInv ==
    ASSUME I!IdeAssumption, IdeType, IdeInv, I!ReadData
    PROVE  IdeInv'
<1>1. /\ Running /\ Transfer /\ ~writing /\ moved' = Append(moved, buf[pos + 1])
      /\ UNCHANGED <<image, first, cmd, writing, unsaved>>
  BY DEF I!ReadData, IdeInv, Running
<1>2. /\ pos \in Nat /\ SectorBytes \in Nat \ {0} /\ pos < SectorBytes /\ cur \in Nat
      /\ left \in Nat /\ buf[pos + 1] \in MovedByte
  <2>1. buf \in [1 .. SectorBytes -> MovedByte] /\ pos \in Nat /\ pos + 1 \in 1 .. SectorBytes
    BY DEF I!IdeAssumption, IdeType, I!TypeOK, MovedByte, I!ReadData
  <2>. QED  BY <2>1, <1>1 DEF I!IdeAssumption, IdeType, I!TypeOK, Transfer
<1>3. CASE pos + 1 < SectorBytes /\ pos' = pos + 1 /\ UNCHANGED <<status, error, buf, cur, left>>
  <2>1. \/ OfSectors /\ buf'[pos + 1] = buf[pos + 1]
        \/ cmd = "identify"
    BY <1>1, <1>3 DEF Transfer, OfSectors
  <2>. QED  BY <1>1, <1>2, <1>3, <2>1, MiddleInv
<1>4. CASE pos + 1 = SectorBytes /\ cmd = "identify" /\ pos' = pos + 1 /\ status' = I!Idle
           /\ UNCHANGED <<error, buf, cur, left>>
  BY <1>1, <1>4, NoDataRequest DEF IdeInv, Running, OfSectors
<1>5. CASE pos + 1 = SectorBytes /\ cmd # "identify" /\ I!NextSector
  <2>1. /\ OfSectors /\ cmd = "read" /\ cur < NumSectors /\ buf = image[cur] /\ left > 0
        /\ cur' = cur + 1 /\ left' = left - 1 /\ error = "none"
    BY <1>1, <1>5 DEF Transfer, OfSectors, I!NextSector
  <2>2. Progress(0)'
    <3>1. cur \in 0 .. NumSectors - 1 /\ NumSectors \in Nat
      BY <1>2, <2>1 DEF I!IdeAssumption
    <3>2. buf \in [1 .. SectorBytes -> Bytes]
      BY <2>1, <3>1 DEF IdeType, I!TypeOK, I!Sector
    <3>3. image'[cur] = [i \in 1 .. SectorBytes |-> IF i <= pos THEN buf[i] ELSE buf[pos + 1]]
      <4>1. \A i \in 1 .. SectorBytes : i <= pos \/ i = pos + 1  BY <1>2, <1>5
      <4>. QED  BY <1>1, <2>1, <3>2, <4>1
    <3>. QED  BY <1>1, <1>2, <1>5, <2>1, <3>3, SectorDone
  <2>3. CASE left' > 0
    <3>1. PICK o \in I!Outcomes(cur') :
             IF o = "none" THEN buf' = image[cur'] /\ pos' = 0 /\ UNCHANGED <<status, error>>
             ELSE pos' = pos + 1 /\ I!Ended(I!Idle, o)
      BY <1>5, <2>3 DEF I!NextSector
    <3>2. CASE o = "none"
      <4>1. cur' < NumSectors  BY <1>2, <2>1, <3>1, <3>2 DEF I!Outcomes, I!IdeAssumption
      <4>2. 1 .. pos' = {} /\ pos' < SectorBytes  BY <1>2, <3>1, <3>2
      <4>3. Transfer'
        BY <1>1, <2>1, <2>3, <3>1, <3>2, <4>1, <4>2 DEF Transfer, OfSectors
      <4>. QED  BY <1>1, <2>2, <3>1, <3>2, <4>3 DEF IdeInv, Running, OfSectors
    <3>3. CASE o # "none"
      BY <3>1, <3>3, NoDataRequest DEF I!Ended, IdeInv, Running
    <3>. QED  BY <3>2, <3>3
  <2>4. CASE ~(left' > 0)
    <3>1. left' = 0  BY <1>2, <2>1, <2>4
    <3>2. ~Running'
      BY <1>5, <2>4, NoDataRequest DEF I!NextSector, I!Ended, Running
    <3>. QED  BY <2>2, <3>1, <3>2 DEF IdeInv
  <2>. QED  BY <2>3, <2>4
<1>. QED  BY <1>3, <1>4, <1>5 DEF I!ReadData

LEMMA WriteInv ==
    ASSUME I!IdeAssumption, IdeType, IdeInv, NEW c \in Bytes, I!WriteData(c)
    PROVE  IdeInv'
<1>1. /\ Running /\ Transfer /\ writing /\ OfSectors /\ cmd = "write"
      /\ moved' = Append(moved, c) /\ buf' = [buf EXCEPT ![pos + 1] = c]
      /\ UNCHANGED <<first, cmd, writing>>
  BY DEF I!WriteData, IdeInv, Running, Transfer, OfSectors
<1>2. /\ pos \in Nat /\ SectorBytes \in Nat \ {0} /\ pos < SectorBytes /\ cur \in Nat
      /\ left \in Nat /\ c \in MovedByte /\ buf \in [1 .. SectorBytes -> MovedByte]
      /\ pos + 1 \in 1 .. SectorBytes
  BY <1>1 DEF I!IdeAssumption, IdeType, I!TypeOK, MovedByte, Transfer
<1>3. buf'[pos + 1] = c /\ \A i \in 1 .. pos : buf'[i] = buf[i]  BY <1>1, <1>2
<1>4. CASE pos + 1 < SectorBytes /\ pos' = pos + 1 /\ UNCHANGED <<image, status, error, cur, left, unsaved>>
  BY <1>1, <1>2, <1>3, <1>4, MiddleInv
<1>5. CASE pos + 1 = SectorBytes /\ \E o \in I!Flushes(cur) : I!FlushSector(o, buf')
  <2>1. PICK o \in I!Flushes(cur) : I!FlushSector(o, buf')  BY <1>5
  <2>2. CASE o \notin {"none", "lost"}
    <3>1. status' \in {I!Idle, I!Failing} /\ error' # "none"
      BY <2>1, <2>2 DEF I!FlushSector
    <3>. QED  BY <3>1, NoDataRequest DEF IdeInv, Running
  <2>3. CASE o \in {"none", "lost"}
    <3>1. cur \in 0 .. NumSectors - 1 /\ cur < NumSectors /\ NumSectors \in Nat
      BY <1>2, <2>1, <2>3 DEF I!Flushes, I!Outcomes, I!IdeAssumption
    <3>2. /\ error' = error /\ cur' = cur + 1 /\ left' = left - 1
          /\ unsaved \subseteq unsaved'
          /\ \/ cur \in unsaved' /\ image' = image
             \/ image' = [image EXCEPT ![cur] = buf']
      BY <2>1, <2>3 DEF I!FlushSector
    <3>3. image \in [0 .. NumSectors - 1 -> I!Sector]  BY DEF IdeType, I!TypeOK
    <3>4. cur \in unsaved' \/ image'[cur] = [i \in 1 .. SectorBytes |-> IF i <= pos THEN buf[i] ELSE c]
      <4>1. \A i \in 1 .. SectorBytes : i <= pos \/ i = pos + 1  BY <1>2, <1>5
      <4>2. cur \in unsaved' \/ image'[cur] = buf'  BY <3>1, <3>2, <3>3
      <4>3. \A i \in 1 .. SectorBytes : buf'[i] = IF i <= pos THEN buf[i] ELSE c
        BY <1>2, <1>3, <4>1
      <4>4. buf' \in [1 .. SectorBytes -> MovedByte]  BY <1>1, <1>2
      <4>. QED  BY <4>2, <4>3, <4>4
    <3>5. \A l \in 0 .. NumSectors - 1 : l # cur => image'[l] = image[l]
      BY <3>2, <3>3
    <3>6. Progress(0)'
      BY <1>1, <1>2, <1>5, <3>1, <3>2, <3>4, <3>5, SectorDone
    <3>7. CASE left' > 0
      <4>1. pos' = 0 /\ status' = status  BY <2>1, <2>3, <3>7 DEF I!FlushSector
      <4>2. 1 .. pos' = {} /\ pos' < SectorBytes  BY <1>2, <4>1
      <4>3. Transfer'  BY <1>1, <3>2, <3>7, <4>1, <4>2 DEF Transfer, OfSectors
      <4>. QED  BY <1>1, <3>6, <4>1, <4>3 DEF IdeInv, Running, OfSectors
    <3>8. CASE ~(left' > 0)
      <4>1. left > 0  BY <1>1 DEF Transfer
      <4>2. left' = 0  BY <1>2, <3>2, <3>8, <4>1
      <4>3. ~Running'  BY <2>1, <3>8, NoDataRequest DEF I!FlushSector, Running
      <4>. QED  BY <3>6, <4>2, <4>3 DEF IdeInv
    <3>. QED  BY <3>7, <3>8
  <2>. QED  BY <2>2, <2>3
<1>. QED  BY <1>4, <1>5 DEF I!WriteData

(* What the invariant speaks of. *)
Transferring == <<image, status, error, cmd, writing, buf, pos, cur, left, first, moved, unsaved>>

LEMMA Untouched ==
    ASSUME IdeInv, UNCHANGED Transferring
    PROVE  IdeInv'
BY DEF Transferring, IdeInv, Running, Transfer, OfSectors, Progress, Exact, I!Piece

LEMMA InvStep ==
    ASSUME I!IdeAssumption, IdeType, IdeInv, [I!Next]_(I!vars)
    PROVE  IdeInv'
<1>1. IdeType'  BY TypeStep
<1>2. I!Wanted > 0
  BY DEF I!Wanted, IdeType, I!IdeAssumption
<1>3. ASSUME NEW n \in Counts, I!SetCount(n) PROVE IdeInv'
  BY <1>3, Untouched DEF I!SetCount, Transferring
<1>4. ASSUME NEW l \in Lbas, I!SetLba(l) PROVE IdeInv'
  BY <1>4, Untouched DEF I!SetLba, Transferring
<1>5. CASE I!ReadSectors
  <2>1. PICK o \in I!Outcomes(lba) :
         /\ I!Begin("read", o)
         /\ buf' = IF o = "none" THEN image[lba] ELSE buf
         /\ status' = IF o = "none" THEN I!DataReady ELSE I!Failing
    BY <1>5 DEF I!ReadSectors
  <2>2. CASE o = "none"
    <3>1. lba < NumSectors
      BY <2>1, <2>2 DEF I!Outcomes, I!IdeAssumption, IdeType
    <3>. QED
      BY <1>1, <1>2, <1>5, <2>1, <2>2, <3>1, BeginInv DEF I!ReadSectors, I!Begin
  <2>3. CASE o # "none"
    BY <2>1, <2>3, NoDataRequest, QuietInv DEF I!Begin, Running
  <2>. QED  BY <2>2, <2>3
<1>6. CASE I!WriteSectors
  BY <1>1, <1>2, <1>6, BeginInv DEF I!WriteSectors, I!Begin
<1>7. CASE I!Identify
  BY <1>1, <1>7, BeginInv DEF I!Identify, I!Begin
<1>8. CASE I!OtherCommand
  BY <1>8, NoDataRequest, QuietInv DEF I!OtherCommand, I!Begin, Running
<1>9. CASE I!CommandWithoutImage
  BY <1>9, NoDataRequest DEF I!CommandWithoutImage, IdeInv, Running
<1>10. CASE I!ReadData  BY <1>10, ReadInv
<1>11. ASSUME NEW c \in Bytes, I!WriteData(c) PROVE IdeInv'  BY <1>11, WriteInv
<1>12. CASE I!Reset
  BY <1>12, NoDataRequest, QuietInv DEF I!Reset, I!Fresh, Running
<1>13. CASE I!Swap
  BY <1>13, NoDataRequest, QuietInv DEF I!Swap, Running
<1>14. CASE UNCHANGED I!vars
  BY <1>14, Untouched DEF I!vars, Transferring
<1>. QED
  BY <1>3, <1>4, <1>5, <1>6, <1>7, <1>8, <1>9, <1>10, <1>11, <1>12, <1>13, <1>14 DEF I!Next

-----------------------------------------------------------------------------
(* What the drive promises *)

LEMMA Start ==
    ASSUME I!IdeAssumption, I!Init
    PROVE  IdeType /\ IdeInv
<1>1. /\ SectorBytes \in Nat \ {0} /\ NumSectors \in Nat /\ 0 \in 0 .. SectorBytes
      /\ <<>> \in Seq(MovedByte)
  BY DEF I!IdeAssumption
<1>2. I!Blank \in [1 .. SectorBytes -> MovedByte]  BY <1>1 DEF I!Blank, MovedByte
<1>3. status \in {{}, I!Idle}  BY DEF I!Init
<1>4. IdeType  BY <1>1, <1>2, <1>3 DEF I!Init, IdeType, I!TypeOK, MovedByte
<1>5. IdeInv  BY <1>3, NoDataRequest DEF I!Init, IdeInv, Running
<1>. QED  BY <1>4, <1>5

(* The invariant says what the data register moved. *)
LEMMA InvExact ==
    ASSUME I!IdeAssumption, IdeType, IdeInv
    PROVE  I!SectorsExact
<1>. SUFFICES ASSUME cmd \in {"read", "write"}, error = "none", moved # <<>>
              PROVE  /\ \A k \in 0 .. I!Complete - 1 :
                           first + k \in unsaved \/ image[first + k] = I!Piece(k)
                     /\ cmd = "read" => \A i \in 1 .. Len(moved) % SectorBytes :
                                 image[first + I!Complete][i] = moved[I!Complete * SectorBytes + i]
                     /\ "DRQ" \notin status => left = 0
  BY DEF I!SectorsExact
<1>1. PICK r \in Nat : r < SectorBytes /\ Progress(r) /\ (Running => r = pos /\ Transfer)
                       /\ (~Running => r = 0 /\ left = 0)
  <2>1. CASE Running
    BY <2>1 DEF IdeInv, OfSectors, Transfer, IdeType, I!TypeOK
  <2>2. CASE ~Running
    <3>1. 0 < SectorBytes  BY DEF I!IdeAssumption
    <3>. QED  BY <2>2, <3>1 DEF IdeInv, OfSectors
  <2>. QED  BY <2>1, <2>2
<1>2. cur \in Nat /\ first \in Nat /\ cur >= first /\ SectorBytes \in Nat \ {0}
      /\ Len(moved) \in Nat
  BY <1>1 DEF I!IdeAssumption, IdeType, I!TypeOK, Progress
<1>3. PICK q \in Nat : q = cur - first  BY <1>2
<1>4. Len(moved) = q * SectorBytes + r  BY <1>1, <1>3 DEF Progress
<1>5. I!Complete = q /\ Len(moved) % SectorBytes = r
  BY <1>1, <1>2, <1>4, SplitLength DEF I!Complete
<1>6. \A k \in 0 .. I!Complete - 1 : first + k \in unsaved \/ image[first + k] = I!Piece(k)
  BY <1>1, <1>3, <1>5 DEF Progress, Exact
<1>7. ASSUME cmd = "read", NEW i \in 1 .. r
      PROVE  image[first + q][i] = moved[q * SectorBytes + i]
  <2>1. Running  BY <1>1, <1>7
  <2>2. r = pos /\ Transfer /\ OfSectors /\ first + q = cur
    BY <1>1, <1>2, <1>3, <1>7, <2>1 DEF OfSectors
  <2>. QED  BY <1>3, <1>7, <2>2 DEF Transfer
<1>8. "DRQ" \notin status => left = 0  BY <1>1 DEF Running
<1>. QED  BY <1>5, <1>6, <1>7, <1>8

(* What the data register moved is what the sectors of the image hold, for *)
(* every sector size, image and sequence of commands, resets and swaps,    *)
(* unless the error register tells otherwise (ide.c:204-262).              *)
THEOREM DriveSound ==
    ASSUME I!IdeAssumption
    PROVE  I!Spec => [](I!TypeOK /\ I!SectorsExact)
<1>1. I!Init => IdeType /\ IdeInv  BY Start
<1>2. IdeType /\ IdeInv /\ [I!Next]_(I!vars) => IdeType' /\ IdeInv'  BY TypeStep, InvStep
<1>3. IdeType /\ IdeInv => I!TypeOK /\ I!SectorsExact  BY InvExact DEF IdeType
<1>. QED  BY <1>1, <1>2, <1>3, PTL DEF I!Spec
-----------------------------------------------------------------------------
(* The storage boards share no state: only the drive's own steps touch its *)
(* variables.                                                              *)
LEMMA DriveRuns == StorageSpec => I!Spec
<1>1. StorageInit => I!Init  BY DEF StorageInit, AtRest
<1>2. [StorageNext]_<<board, m4Vars, ideVars, chVars>> => [I!Next]_(I!vars)
  <2>. SUFFICES ASSUME [StorageNext]_<<board, m4Vars, ideVars, chVars>>
                PROVE  I!Next \/ UNCHANGED I!vars
    OBVIOUS
  <2>1. CASE UNCHANGED ideVars  BY <2>1 DEF ideVars, I!vars
  <2>2. CASE StorageNext
    <3>1. I!Next \/ UNCHANGED ideVars  BY <2>2 DEF StorageNext
    <3>. QED  BY <2>1, <3>1
  <2>. QED  BY <2>1, <2>2
<1>. QED  BY <1>1, <1>2, PTL DEF StorageSpec, I!Spec

(* What the data register of the drive moved is what the sectors of the    *)
(* image hold, whatever commands, resets, swaps and failures came between  *)
(* (ide.c:204-262), and whatever the other boards do.                      *)
THEOREM DriveStaysExact == StorageSpec => []DriveExact
<1>1. I!Spec => [](I!TypeOK /\ I!SectorsExact)  BY DriveAssumption, DriveSound
<1>2. I!SectorsExact => DriveExact  BY DEF DriveExact
<1>. QED  BY <1>1, <1>2, DriveRuns, PTL

-----------------------------------------------------------------------------
(* The Albireo: raw sectors.  Part n of a transfer is in its sector, by    *)
(* quotient and remainder.                                                 *)
PartValue == Parts \cup {0}
SectorType == [1 .. SecChunks -> PartValue]

(* The first n units moved from sector l on are those of d, but for the    *)
(* sectors in e *)
Matching(d, l, m, n, e) ==
    \A i \in 1 .. n : LET s == l + (i - 1) \div SecChunks
                          part == ((i - 1) % SecChunks) + 1
                      IN  s \in C!Sectors \ e => d[s][part] = m[i]

LEMMA MoreExcused ==
    ASSUME NEW d, NEW l, NEW m, NEW n, NEW e, NEW f, Matching(d, l, m, n, e), e \subseteq f
    PROVE  Matching(d, l, m, n, f)
BY DEF Matching

LEMMA RawWidths == SecChunks \in Nat \ {0} /\ DiskSectors \in Nat \ {0} /\ MouseMax \in Nat \ {0}
BY ChipAssumption DEF C!Ch376Assumption

LEMMA PlaceOf ==
    ASSUME NEW q \in Nat, NEW p \in 0 .. SecChunks - 1, NEW i \in Nat, i = q * SecChunks + p + 1
    PROVE  (i - 1) \div SecChunks = q /\ (i - 1) % SecChunks = p
<1>1. i - 1 = q * SecChunks + p  BY RawWidths
<1>2. SecChunks \in Nat \ {0} /\ q \in Int  BY RawWidths
<1>. QED  BY <1>1, <1>2, DivModIs

LEMMA HasPlace ==
    ASSUME NEW q \in Nat, NEW i \in 1 .. q * SecChunks
    PROVE  (i - 1) \div SecChunks \in 0 .. q - 1 /\ (i - 1) % SecChunks \in 0 .. SecChunks - 1
<1>1. SecChunks \in Nat \ {0} /\ i - 1 \in Int  BY RawWidths
<1>2. PICK t \in Int, p \in 0 .. SecChunks - 1 :
         i - 1 = t * SecChunks + p /\ t = (i - 1) \div SecChunks /\ p = (i - 1) % SecChunks
  BY <1>1, DivMod
<1>3. i - 1 < q * SecChunks /\ i - 1 >= 0  BY RawWidths
<1>4. t < q
  <2>. SUFFICES ASSUME t >= q PROVE FALSE  BY <1>2
  <2>1. q * SecChunks <= t * SecChunks  BY TimesMonotone, RawWidths
  <2>. QED  BY <1>2, <1>3, <2>1, RawWidths
<1>5. t >= 0
  <2>. SUFFICES ASSUME t < 0 PROVE FALSE  BY <1>2
  <2>1. t * SecChunks + SecChunks <= 0
    <3>1. PICK r \in Nat : r = -(t + 1)  BY <1>2
    <3>2. t = -(r + 1)  BY <1>2, <3>1
    <3>3. (r + 1) * SecChunks = r * SecChunks + SecChunks /\ r * SecChunks \in Nat  BY RawWidths, NextTimes
    <3>4. t * SecChunks = -((r + 1) * SecChunks)  BY <3>2, RawWidths
    <3>. QED  BY <3>3, <3>4, RawWidths
  <2>. QED  BY <1>2, <1>3, <2>1, RawWidths
<1>. QED  BY <1>2, <1>4, <1>5

(* One part further, which is the disk's unless its sector is excused *)
PartOf(d, s, p, v, e) == s \in e \/ v = d[s][p + 1]
LEMMA PartMoved ==
    ASSUME NEW d, NEW e, NEW l \in Nat, NEW m \in Seq(PartValue), NEW q \in Nat,
           NEW p \in 0 .. SecChunks - 1, Len(m) = q * SecChunks + p, Matching(d, l, m, Len(m), e),
           NEW v \in PartValue, PartOf(d, l + q, p, v, e)
    PROVE  /\ m \o <<v>> \in Seq(PartValue) /\ Len(m \o <<v>>) = q * SecChunks + (p + 1)
           /\ Matching(d, l, m \o <<v>>, Len(m \o <<v>>), e)
<1>1. PICK n \in Nat : n = q * SecChunks + p /\ n = Len(m)  OBVIOUS
<1>2. PICK w \in Seq(PartValue) : w = m \o <<v>> /\ Len(w) = n + 1 /\ w[n + 1] = v /\ \A i \in 1 .. n : w[i] = m[i]
  <2>0. <<v>> \in Seq(PartValue) /\ Len(<<v>>) = 1 /\ <<v>>[1] = v  OBVIOUS
  <2>1. PICK u \in Seq(PartValue) : u = <<v>> /\ Len(u) = 1 /\ u[1] = v  BY <2>0, Zenon
  <2>2. m \o u \in Seq(PartValue) /\ Len(m \o u) = n + 1  BY <1>1, <2>1
  <2>3. (m \o u)[n + 1] = v /\ \A i \in 1 .. n : (m \o u)[i] = m[i]  BY <1>1, <2>1
  <2>. QED  BY <2>1, <2>2, <2>3
<1>3. Len(w) = n + 1 /\ w[n + 1] = v /\ \A i \in 1 .. n : w[i] = m[i]  BY <1>2
<1>4. Matching(d, l, w, n + 1, e)
  <2>. SUFFICES ASSUME NEW i \in 1 .. n + 1, l + (i - 1) \div SecChunks \in C!Sectors \ e
                PROVE  d[l + (i - 1) \div SecChunks][((i - 1) % SecChunks) + 1] = w[i]
    BY DEF Matching
  <2>1. CASE i = n + 1
    <3>1. (i - 1) \div SecChunks = q /\ (i - 1) % SecChunks = p  BY <1>1, <2>1, PlaceOf
    <3>. QED  BY <1>3, <2>1, <3>1 DEF PartOf
  <2>2. CASE i # n + 1
    <3>1. i \in 1 .. n  BY <1>1, <2>2
    <3>. QED  BY <1>1, <1>3, <3>1 DEF Matching
  <2>. QED  BY <2>1, <2>2
<1>5. n + 1 = q * SecChunks + (p + 1)
  <2>1. q * SecChunks \in Nat  BY RawWidths
  <2>. QED  BY <1>1, <2>1, RawWidths
<1>. QED  BY <1>2, <1>3, <1>4, <1>5

(* One sector further: the disk with it stored *)
Stored(d, s, bf) == IF s \in C!Sectors THEN [d EXCEPT ![s] = bf] ELSE d
Holds(bf, m, k) == \A j \in 1 .. SecChunks : bf[j] = m[k + j]
LEMMA SectorMoved ==
    ASSUME NEW d \in [C!Sectors -> SectorType], NEW l \in Nat, NEW m \in Seq(PartValue), NEW q \in Nat, NEW bf \in SectorType,
           NEW x1, Len(m) = q * SecChunks + SecChunks, Matching(d, l, m, q * SecChunks, x1),
           NEW x2, x1 \subseteq x2, Holds(bf, m, q * SecChunks),
           NEW e, e = Stored(d, l + q, bf) \/ (e = d /\ l + q \in x2)
    PROVE  Matching(e, l, m, Len(m), x2) /\ Len(m) = (q + 1) * SecChunks
<1>1. PICK k \in Nat : k = q * SecChunks  BY RawWidths
<1>2. (q + 1) * SecChunks = k + SecChunks  BY <1>1, NextTimes, RawWidths
<1>3. Matching(e, l, m, Len(m), x2)
  <2>. SUFFICES ASSUME NEW i \in 1 .. (q + 1) * SecChunks, l + (i - 1) \div SecChunks \in C!Sectors \ x2
                PROVE  e[l + (i - 1) \div SecChunks][((i - 1) % SecChunks) + 1] = m[i]
    BY <1>1, <1>2 DEF Matching
  <2>1. CASE i <= k
    <3>1. i \in 1 .. k  BY <1>1, <1>2, <2>1, RawWidths
    <3>2. (i - 1) \div SecChunks \in 0 .. q - 1  BY <1>1, <3>1, HasPlace
    <3>3. PICK t \in 0 .. q - 1 : t = (i - 1) \div SecChunks  BY <3>2
    <3>4. e[l + t] = d[l + t]
      <4>1. CASE e = d /\ l + q \in x2  BY <4>1
      <4>2. CASE e = Stored(d, l + q, bf)
        <5>1. CASE l + q \in C!Sectors  BY <3>3, <4>2, <5>1 DEF Stored
        <5>2. CASE l + q \notin C!Sectors  BY <4>2, <5>2 DEF Stored
        <5>. QED  BY <5>1, <5>2
      <4>. QED  BY <4>1, <4>2
    <3>. QED  BY <1>1, <3>1, <3>3, <3>4 DEF Matching
  <2>2. CASE i > k
    <3>1. PICK p \in 0 .. SecChunks - 1 : p = i - 1 - k  BY <1>1, <1>2, <2>2, RawWidths
    <3>2. i = q * SecChunks + p + 1 /\ i \in Nat /\ i = k + (p + 1)  BY <1>1, <1>2, <2>2, <3>1, RawWidths
    <3>3. (i - 1) \div SecChunks = q /\ (i - 1) % SecChunks = p  BY <3>2, PlaceOf
    <3>4. e[l + q] = bf
      <4>1. l + q \in C!Sectors /\ l + q \notin x2  BY <3>3
      <4>2. e = [d EXCEPT ![l + q] = bf]  BY <4>1 DEF Stored
      <4>. QED  BY <4>1, <4>2
    <3>5. p + 1 \in 1 .. SecChunks  BY <3>1, RawWidths
    <3>6. bf[p + 1] = m[i]  BY <1>1, <3>2, <3>5 DEF Holds
    <3>. QED  BY <3>3, <3>4, <3>6
  <2>. QED  BY <1>1, <1>2, <2>1, <2>2, RawWidths
<1>. QED  BY <1>1, <1>2, <1>3

-----------------------------------------------------------------------------
(* What the chip keeps of a transfer.  A read and a write share its buffer *)
(* and counters, and the flags of one outlive the start of the other: what *)
(* they mean depends on which was begun last.                              *)
RawType ==
    /\ disk \in [C!Sectors -> SectorType] /\ secBuf \in SectorType
    /\ chLba \in Nat /\ from \in Nat /\ secLeft \in Nat /\ secPos \in 0 .. SecChunks
    /\ secReading \in BOOLEAN /\ secWriting \in BOOLEAN
    /\ chMoved \in Seq(PartValue) /\ flow \in {"none", "read", "write"} /\ astray \subseteq Nat
RawCount ==
    /\ flow = "none" => ~secWriting
    /\ flow # "write" /\ secReading => secLeft >= 1
    /\ flow = "write" /\ secWriting => secLeft >= 1
(* read so far: whole sectors, and secPos parts of the one in the buffer *)
ReadOn ==
    flow = "read" =>
        /\ Matching(disk, from, chMoved, Len(chMoved), astray)
        /\ secReading => \E q \in Nat : /\ chLba = from + q /\ chLba \in C!Sectors
                                        /\ chLba \in astray \/ secBuf = disk[chLba]
                                        /\ Len(chMoved) = q * SecChunks + secPos
(* written so far: whole sectors, and secPos parts that wait in the buffer *)
WriteOn ==
    flow = "write" =>
        /\ Matching(disk, from, chMoved, Len(chMoved) - secPos, astray)
        /\ secWriting => \E q \in Nat : /\ chLba = from + q /\ Len(chMoved) = q * SecChunks + secPos
                                        /\ \A j \in 1 .. secPos : secBuf[j] = chMoved[q * SecChunks + j]
RawInv == RawType /\ RawCount /\ ReadOn /\ WriteOn

LEMMA BlankParts == C!NoParts \in SectorType
BY DEF C!NoParts, SectorType, PartValue

LEMMA NothingMoved ==
    ASSUME NEW d, NEW l, NEW e
    PROVE  <<>> \in Seq(PartValue) /\ Len(<<>>) = 0 /\ Matching(d, l, <<>>, 0, e)
BY DEF Matching

LEMMA SectorPart ==
    ASSUME NEW bf \in SectorType, NEW p \in 1 .. SecChunks
    PROVE  bf[p] \in PartValue
BY DEF SectorType

(* What the host gave of a sector, over what the buffer held *)
LEMMA FetchedSector ==
    ASSUME RawInv, NEW s \in C!Sectors, NEW n \in 0 .. SecChunks
    PROVE  C!Fetched(s, n) \in SectorType /\ (n = SecChunks => C!Fetched(s, n) = disk[s])
<1>1. disk[s] \in SectorType /\ secBuf \in SectorType /\ SecChunks \in Nat  BY RawWidths DEF RawInv, RawType
<1>2. C!Fetched(s, n) = [i \in 1 .. SecChunks |-> IF i <= n THEN disk[s][i] ELSE secBuf[i]]  BY DEF C!Fetched
<1>3. C!Fetched(s, n) \in SectorType  BY <1>1, <1>2 DEF SectorType
<1>4. ASSUME n = SecChunks PROVE C!Fetched(s, n) = disk[s]
  <2>1. \A i \in 1 .. SecChunks : i <= n  BY <1>1, <1>4
  <2>2. C!Fetched(s, n) = [i \in 1 .. SecChunks |-> disk[s][i]]  BY <1>2, <2>1
  <2>. QED  BY <1>1, <2>2 DEF SectorType
<1>. QED  BY <1>3, <1>4

(* A sector fetched, whole or not, and its first part served *)
LEMMA Served ==
    ASSUME RawInv, NEW s \in C!Sectors, NEW lost, lost \subseteq Nat, NEW n \in 0 .. SecChunks,
           secBuf' = C!Fetched(s, n), astray' = IF n < SecChunks THEN lost \cup {s} ELSE lost,
           disk' = disk
    PROVE  /\ secBuf' \in SectorType /\ secBuf'[1] \in PartValue
           /\ astray' \subseteq Nat /\ lost \subseteq astray'
           /\ s \in astray' \/ secBuf' = disk[s]
<1>1. SecChunks \in Nat /\ 1 <= SecChunks /\ s \in Nat  BY RawWidths DEF C!Sectors
<1>2. secBuf' \in SectorType /\ (n = SecChunks => secBuf' = disk[s])  BY FetchedSector
<1>3. secBuf'[1] \in PartValue  BY <1>1, <1>2, SectorPart
<1>4. CASE n < SecChunks  BY <1>1, <1>2, <1>3, <1>4
<1>5. CASE n = SecChunks  BY <1>1, <1>2, <1>3, <1>5
<1>. QED  BY <1>1, <1>4, <1>5

(* A read begins: the first part of a sector, or none. *)
LEMMA ReadBegins ==
    ASSUME RawInv, NEW l \in C!Sectors, NEW n \in 1 .. 2, C!DISK_READ(l, n)
    PROVE  RawInv'
<1>1. /\ chLba' = l /\ secLeft' = n /\ flow' = "read" /\ from' = l /\ disk' = disk /\ secWriting' = secWriting
      /\ C!FetchSector(l, 0, <<>>, {})
  BY DEF C!DISK_READ
<1>2. l \in Nat /\ n \in Nat /\ n >= 1 /\ SecChunks \in Nat /\ 1 <= SecChunks  BY RawWidths DEF C!Sectors
<1>3. CASE /\ secReading' = TRUE /\ C!ServePart(secBuf', 1) /\ chMoved' = <<>> \o resp'
           /\ \E k \in 0 .. SecChunks : /\ secBuf' = C!Fetched(l, k)
                                        /\ astray' = IF k < SecChunks THEN {} \cup {l} ELSE {}
  <2>1. secPos' = 1 /\ chMoved' = <<>> \o <<secBuf'[1]>>  BY <1>3 DEF C!ServePart
  <2>2. /\ secBuf' \in SectorType /\ secBuf'[1] \in PartValue /\ astray' \subseteq Nat
        /\ l \in astray' \/ secBuf' = disk[l]
    <3>1. PICK k \in 0 .. SecChunks : /\ secBuf' = C!Fetched(l, k)
                                     /\ astray' = IF k < SecChunks THEN {} \cup {l} ELSE {}
      BY <1>3
    <3>2. {} \subseteq Nat  OBVIOUS
    <3>. QED  BY <1>1, <3>1, <3>2, Served
  <2>4. PICK q \in Nat : q = 0  OBVIOUS
  <2>5. l + q = l /\ Len(<<>>) = q * SecChunks + 0 /\ 0 \in 0 .. SecChunks - 1 /\ q * SecChunks = 0
    BY <1>2, <2>4, NothingMoved
  <2>6. PICK m \in Seq(PartValue) : /\ m = <<>> \o <<secBuf'[1]>> /\ Len(m) = q * SecChunks + 1
                                    /\ Matching(disk, l, m, Len(m), astray')
    <3>. DEFINE e == astray'
    <3>0. Matching(disk, l, <<>>, 0, e) /\ <<>> \in Seq(PartValue) /\ Len(<<>>) = 0  BY NothingMoved
    <3>1. PICK none \in Seq(PartValue) : none = <<>> /\ Len(none) = 0 /\ Matching(disk, l, none, Len(none), e)
      BY <3>0, Zenon
    <3>2. PICK v \in PartValue : v = secBuf'[1] /\ PartOf(disk, l + q, 0, v, e)  BY <2>2, <2>5 DEF PartOf
    <3>3. Len(none) = q * SecChunks + 0 /\ 0 \in 0 .. SecChunks - 1  BY <2>5, <3>1
    <3>. HIDE DEF e
    <3>4. /\ none \o <<v>> \in Seq(PartValue) /\ Len(none \o <<v>>) = q * SecChunks + (0 + 1)
          /\ Matching(disk, l, none \o <<v>>, Len(none \o <<v>>), e)
      <4>1. l \in Nat /\ Matching(disk, l, none, Len(none), e) /\ PartOf(disk, l + q, 0, v, e)
        BY <1>2, <3>1, <3>2
      <4>. QED  BY <3>3, <4>1, PartMoved
    <3>5. 0 + 1 = 1 /\ e = astray'  BY DEF e
    <3>. QED  BY <3>1, <3>2, <3>4, <3>5, Zenon
  <2>7. RawType'
    <3>1. secReading' \in BOOLEAN /\ secWriting' \in BOOLEAN  BY <1>1, <1>3, Zenon DEF RawInv, RawType
    <3>2. chMoved' \in Seq(PartValue)  BY <2>1, <2>6, Zenon
    <3>3. secPos' \in 0 .. SecChunks  BY <1>2, <2>1
    <3>. QED  BY <1>1, <1>2, <1>3, <2>2, <3>1, <3>2, <3>3 DEF RawInv, RawType
  <2>8. RawCount'  BY <1>1, <1>2 DEF RawCount
  <2>9. ReadOn'  BY <1>1, <1>2, <1>3, <2>1, <2>2, <2>5, <2>6 DEF ReadOn
  <2>. QED  BY <1>1, <2>7, <2>8, <2>9 DEF RawInv, WriteOn
<1>4. CASE /\ secReading' = FALSE /\ secPos' = 0 /\ chMoved' = <<>> /\ secBuf' = secBuf /\ astray' = {}
  <2>1. RawType'
    <3>1. secReading' \in BOOLEAN /\ secWriting' \in BOOLEAN  BY <1>1, <1>4, Zenon DEF RawInv, RawType
    <3>2. chMoved' \in Seq(PartValue)  BY <1>4, NothingMoved, Zenon
    <3>3. secPos' \in 0 .. SecChunks  BY <1>2, <1>4
    <3>. QED  BY <1>1, <1>2, <1>4, <3>1, <3>2, <3>3 DEF RawInv, RawType
  <2>2. RawCount'  BY <1>1, <1>2 DEF RawCount
  <2>3. ReadOn'
    <3>1. Matching(disk, l, <<>>, 0, {}) /\ Len(<<>>) = 0  BY NothingMoved
    <3>. QED  BY <1>1, <1>4, <3>1 DEF ReadOn
  <2>. QED  BY <1>1, <2>1, <2>2, <2>3 DEF RawInv, WriteOn
<1>. QED  BY <1>1, <1>3, <1>4 DEF C!FetchSector

(* The next part of the sector, the end of the last, or the next sector. *)
LEMMA ReadGoesOn ==
    ASSUME RawInv, C!DISK_RD_GO
    PROVE  RawInv'
<1>1. /\ disk' = disk /\ secWriting' = secWriting /\ flow' = flow /\ from' = from /\ flow \in {"read", "none"}
  BY DEF C!DISK_RD_GO, C!GoesOn
<1>2. SecChunks \in Nat /\ 1 <= SecChunks  BY RawWidths
<1>3. WriteOn'  BY <1>1 DEF WriteOn
<1>4. CASE UNCHANGED <<chLba, secLeft, secPos, secBuf, secReading, astray, resp, chMoved>>
  <2>1. RawType' /\ RawCount' /\ ReadOn'  BY <1>1, <1>4 DEF RawInv, RawType, RawCount, ReadOn
  <2>. QED  BY <1>3, <2>1 DEF RawInv
<1>5. CASE /\ secReading /\ secPos < SecChunks /\ C!ServePart(secBuf, secPos + 1)
           /\ chMoved' = chMoved \o resp' /\ UNCHANGED <<chLba, secLeft, secBuf, secReading, astray>>
  <2>1. PICK p \in 0 .. SecChunks - 1 : p = secPos /\ p + 1 \in 1 .. SecChunks
    BY <1>2, <1>5 DEF RawInv, RawType
  <2>2. PICK v \in PartValue : v = secBuf[p + 1]  BY <2>1, SectorPart DEF RawInv, RawType
  <2>3. secPos' = p + 1 /\ chMoved' = chMoved \o <<v>>  BY <1>5, <2>1, <2>2 DEF C!ServePart
  <2>4. chMoved \o <<v>> \in Seq(PartValue)
    <3>1. <<v>> \in Seq(PartValue)  OBVIOUS
    <3>. QED  BY <3>1 DEF RawInv, RawType
  <2>5. RawType'  BY <1>1, <1>2, <1>5, <2>1, <2>3, <2>4 DEF RawInv, RawType
  <2>6. RawCount'  BY <1>1, <1>5 DEF RawInv, RawCount
  <2>7. ReadOn'
    <3>. SUFFICES ASSUME flow = "read" PROVE ReadOn'  BY <1>1 DEF ReadOn
    <3>1. PICK q \in Nat : /\ chLba = from + q /\ chLba \in C!Sectors
                           /\ chLba \in astray \/ secBuf = disk[chLba]
                           /\ Len(chMoved) = q * SecChunks + p
      BY <1>5, <2>1 DEF RawInv, ReadOn
    <3>2. Matching(disk, from, chMoved, Len(chMoved), astray) /\ from \in Nat /\ chMoved \in Seq(PartValue)
      BY DEF RawInv, ReadOn, RawType
    <3>3. PartOf(disk, from + q, p, v, astray)  BY <2>2, <3>1 DEF PartOf
    <3>4. /\ Len(chMoved \o <<v>>) = q * SecChunks + (p + 1)
          /\ Matching(disk, from, chMoved \o <<v>>, Len(chMoved \o <<v>>), astray)
      BY <3>1, <3>2, <3>3, PartMoved
    <3>. QED  BY <1>1, <1>5, <2>3, <3>1, <3>4 DEF ReadOn
  <2>. QED  BY <1>3, <2>5, <2>6, <2>7 DEF RawInv
<1>6. CASE /\ secLeft' = 0 /\ secReading' = FALSE /\ UNCHANGED <<chLba, secPos, secBuf, astray, resp, chMoved>>
  <2>1. RawType' /\ RawCount' /\ ReadOn'  BY <1>1, <1>6 DEF RawInv, RawType, RawCount, ReadOn
  <2>. QED  BY <1>3, <2>1 DEF RawInv
<1>7. CASE /\ secReading /\ secPos = SecChunks /\ secLeft # 1
           /\ secLeft' = secLeft - 1 /\ chLba' = chLba + 1 /\ C!FetchSector(chLba + 1, secPos, chMoved, astray)
  <2>1. PICK k \in Nat, l \in Nat : k = secLeft /\ k >= 2 /\ l = chLba /\ l + 1 \in Nat
    BY <1>1, <1>7 DEF RawInv, RawType, RawCount
  <2>2. secLeft' = k - 1 /\ k - 1 \in Nat /\ k - 1 >= 1 /\ chLba' = l + 1  BY <1>7, <2>1
  <2>3. RawCount'  BY <1>1, <2>2 DEF RawInv, RawCount
  <2>4. CASE secReading' = FALSE /\ secPos' = secPos /\ chMoved' = chMoved /\ secBuf' = secBuf /\ astray' = astray
    <3>1. RawType' /\ ReadOn'  BY <1>1, <2>1, <2>2, <2>4 DEF RawInv, RawType, ReadOn
    <3>. QED  BY <1>3, <2>3, <3>1 DEF RawInv
  <2>5. CASE /\ l + 1 \in C!Sectors /\ secReading' = TRUE /\ C!ServePart(secBuf', 1)
             /\ chMoved' = chMoved \o resp'
             /\ \E n \in 0 .. SecChunks : /\ secBuf' = C!Fetched(l + 1, n)
                                          /\ astray' = IF n < SecChunks THEN astray \cup {l + 1} ELSE astray
    <3>1. /\ secBuf' \in SectorType /\ secBuf'[1] \in PartValue
          /\ astray' \subseteq Nat /\ astray \subseteq astray'
          /\ l + 1 \in astray' \/ secBuf' = disk[l + 1]
      <4>1. PICK n \in 0 .. SecChunks :
               /\ secBuf' = C!Fetched(l + 1, n)
               /\ astray' = IF n < SecChunks THEN astray \cup {l + 1} ELSE astray
        BY <2>5
      <4>2. astray \subseteq Nat  BY DEF RawInv, RawType
      <4>. QED  BY <1>1, <2>5, <4>1, <4>2, Served
    <3>2. PICK v \in PartValue : v = secBuf'[1]  BY <3>1
    <3>3. secPos' = 1 /\ chMoved' = chMoved \o <<v>>  BY <2>5, <3>2 DEF C!ServePart
    <3>4. chMoved \o <<v>> \in Seq(PartValue)
      <4>1. <<v>> \in Seq(PartValue)  OBVIOUS
      <4>. QED  BY <4>1 DEF RawInv, RawType
    <3>5. RawType'  BY <1>1, <1>2, <2>2, <2>5, <3>1, <3>3, <3>4, <2>1 DEF RawInv, RawType
    <3>6. ReadOn'
      <4>. SUFFICES ASSUME flow = "read" PROVE ReadOn'  BY <1>1 DEF ReadOn
      <4>1. PICK q \in Nat : l = from + q /\ Len(chMoved) = q * SecChunks + SecChunks
        BY <1>7, <2>1 DEF RawInv, ReadOn
      <4>2. /\ Matching(disk, from, chMoved, Len(chMoved), astray')
            /\ from \in Nat /\ chMoved \in Seq(PartValue)
        <5>1. Matching(disk, from, chMoved, Len(chMoved), astray)  BY DEF RawInv, ReadOn
        <5>. QED  BY <3>1, <5>1, MoreExcused DEF RawInv, RawType
      <4>3. PICK r \in Nat : r = q + 1 /\ from + r = l + 1 /\ r * SecChunks = q * SecChunks + SecChunks
        BY <1>2, <4>1, <4>2, NextTimes
      <4>. DEFINE e == astray'
      <4>4. /\ Len(chMoved) = r * SecChunks + 0 /\ 0 \in 0 .. SecChunks - 1
            /\ PartOf(disk, from + r, 0, v, e)
        BY <1>2, <3>1, <3>2, <4>1, <4>3 DEF PartOf
      <4>. HIDE DEF e
      <4>5. /\ Len(chMoved \o <<v>>) = r * SecChunks + (0 + 1)
            /\ Matching(disk, from, chMoved \o <<v>>, Len(chMoved \o <<v>>), e)
        <5>1. Matching(disk, from, chMoved, Len(chMoved), e) /\ from \in Nat /\ chMoved \in Seq(PartValue)
          BY <4>2 DEF e
        <5>. QED  BY <4>4, <5>1, PartMoved
      <4>6. e = astray'  BY DEF e
      <4>. QED  BY <1>1, <2>2, <2>5, <3>1, <3>3, <4>3, <4>5, <4>6 DEF ReadOn
    <3>. QED  BY <1>3, <2>3, <3>5, <3>6 DEF RawInv
  <2>. QED  BY <1>7, <2>1, <2>4, <2>5 DEF C!FetchSector
<1>. QED  BY <1>4, <1>5, <1>6, <1>7 DEF C!DISK_RD_GO

(* A write begins, with an empty buffer. *)
LEMMA WriteBegins ==
    ASSUME RawInv, NEW l \in C!Sectors, NEW n \in 1 .. 2, C!DISK_WRITE(l, n)
    PROVE  RawInv'
<1>1. /\ chLba' = l /\ secLeft' = n /\ secPos' = 0 /\ secBuf' = C!NoParts /\ secWriting' = TRUE
      /\ flow' = "write" /\ from' = l /\ chMoved' = <<>> /\ disk' = disk /\ secReading' = secReading
      /\ astray' = {}
  BY DEF C!DISK_WRITE, C!Flow
<1>2. l \in Nat /\ n \in Nat /\ n >= 1 /\ SecChunks \in Nat /\ 1 <= SecChunks  BY RawWidths DEF C!Sectors
<1>3. RawType'
  <2>1. secReading' \in BOOLEAN /\ secWriting' \in BOOLEAN  BY <1>1, Zenon DEF RawInv, RawType
  <2>2. chMoved' \in Seq(PartValue) /\ secBuf' \in SectorType  BY <1>1, NothingMoved, BlankParts, Zenon
  <2>. QED  BY <1>1, <1>2, <2>1, <2>2 DEF RawInv, RawType
<1>4. RawCount'  BY <1>1, <1>2 DEF RawCount
<1>5. WriteOn'
  <2>1. Len(chMoved') = 0 /\ Matching(disk', from', chMoved', 0, astray')  BY <1>1, NothingMoved, Zenon
  <2>2. PICK q \in Nat : q = 0 /\ l = l + q /\ q * SecChunks + 0 = 0  BY <1>2
  <2>3. 1 .. secPos' = {} /\ Len(chMoved') - secPos' = 0  BY <1>1, <2>1
  <2>. QED  BY <1>1, <2>1, <2>2, <2>3 DEF WriteOn
<1>. QED  BY <1>1, <1>3, <1>4, <1>5 DEF RawInv, ReadOn

(* The guest's parts, as far as the sector has room for them *)
LEMMA PartsTaken ==
    ASSUME RawInv, NEW ps \in Seq(Parts), C!WR_HOST_DATA(ps)
    PROVE  RawInv'
<1>1. /\ disk' = disk /\ chLba' = chLba /\ secLeft' = secLeft /\ secReading' = secReading /\ secWriting' = secWriting
      /\ flow' = flow /\ from' = from /\ flow \in {"write", "none"} /\ astray' = astray
  BY DEF C!WR_HOST_DATA, C!GoesOn
<1>2. SecChunks \in Nat /\ 1 <= SecChunks  BY RawWidths
<1>3. ReadOn' /\ RawCount'  BY <1>1 DEF RawInv, ReadOn, RawCount
<1>4. CASE ~secWriting
  <2>1. UNCHANGED <<secBuf, secPos, chMoved>>  BY <1>4 DEF C!WR_HOST_DATA
  <2>2. RawType' /\ WriteOn'  BY <1>1, <1>4, <2>1 DEF RawInv, RawType, WriteOn
  <2>. QED  BY <1>3, <2>2 DEF RawInv
<1>5. CASE secWriting
  <2>1. PICK p \in 0 .. SecChunks, z \in Nat : p = secPos /\ z = Len(ps)  BY DEF RawInv, RawType
  <2>2. PICK t \in 0 .. SecChunks - p : t = C!AtMost(z, SecChunks - p) /\ t <= z
    <3>1. PICK u \in 0 .. SecChunks : u = SecChunks - p  BY <1>2, <2>1
    <3>2. CASE z <= u  BY <2>1, <3>1, <3>2 DEF C!AtMost
    <3>3. CASE z > u  BY <2>1, <3>1, <3>3 DEF C!AtMost
    <3>. QED  BY <2>1, <3>1, <3>2, <3>3
  <2>3. /\ secBuf' = [i \in 1 .. SecChunks |-> IF i \in p + 1 .. p + t THEN ps[i - p] ELSE secBuf[i]]
        /\ secPos' = p + t /\ chMoved' = chMoved \o SubSeq(ps, 1, t)
    BY <1>5, <2>1, <2>2 DEF C!WR_HOST_DATA
  <2>4. PICK sub \in Seq(PartValue) : sub = SubSeq(ps, 1, t) /\ Len(sub) = t /\ \A i \in 1 .. t : sub[i] = ps[i]
    <3>1. ps \in Seq(PartValue)  BY DEF PartValue
    <3>2. SubSeq(ps, 1, t) \in Seq(PartValue) /\ Len(SubSeq(ps, 1, t)) = t  BY <2>1, <2>2, <3>1
    <3>3. \A i \in 1 .. t : SubSeq(ps, 1, t)[i] = ps[i]  BY <2>1, <2>2, <3>1
    <3>. QED  BY <3>2, <3>3
  <2>5. PICK n \in Nat : n = Len(chMoved) /\ chMoved \in Seq(PartValue)  BY DEF RawInv, RawType
  <2>6. PICK w \in Seq(PartValue) : /\ w = chMoved' /\ Len(w) = n + t /\ \A i \in 1 .. n : w[i] = chMoved[i]
                                    /\ \A i \in 1 .. t : w[n + i] = ps[i]
    <3>1. chMoved \o sub \in Seq(PartValue) /\ Len(chMoved \o sub) = n + t  BY <2>4, <2>5
    <3>2. /\ \A i \in 1 .. n : (chMoved \o sub)[i] = chMoved[i]
          /\ \A i \in 1 .. t : (chMoved \o sub)[n + i] = sub[i]
      BY <2>4, <2>5
    <3>. QED  BY <2>3, <2>4, <3>1, <3>2
  <2>7. secBuf' \in SectorType
    <3>1. \A i \in 1 .. SecChunks : (IF i \in p + 1 .. p + t THEN ps[i - p] ELSE secBuf[i]) \in PartValue
      <4>. SUFFICES ASSUME NEW i \in 1 .. SecChunks
                    PROVE (IF i \in p + 1 .. p + t THEN ps[i - p] ELSE secBuf[i]) \in PartValue
        OBVIOUS
      <4>1. secBuf[i] \in PartValue  BY SectorPart DEF RawInv, RawType
      <4>2. i \in p + 1 .. p + t => i - p \in 1 .. z  BY <2>1, <2>2
      <4>3. \A j \in 1 .. z : ps[j] \in PartValue  BY <2>1 DEF PartValue
      <4>. QED  BY <4>1, <4>2, <4>3
    <3>. QED  BY <2>3, <3>1 DEF SectorType
  <2>8. RawType'
    <3>1. secPos' \in 0 .. SecChunks  BY <1>2, <2>1, <2>2, <2>3
    <3>2. chMoved' \in Seq(PartValue)  BY <2>6
    <3>. QED  BY <1>1, <2>7, <3>1, <3>2 DEF RawInv, RawType
  <2>9. WriteOn'
    <3>. SUFFICES ASSUME flow = "write" PROVE WriteOn'  BY <1>1 DEF WriteOn
    <3>1. PICK q \in Nat : /\ chLba = from + q /\ n = q * SecChunks + p
                           /\ \A j \in 1 .. p : secBuf[j] = chMoved[q * SecChunks + j]
      BY <1>5, <2>1, <2>5 DEF RawInv, WriteOn
    <3>2. PICK k \in Nat : k = q * SecChunks /\ n = k + p  BY <1>2, <3>1
    <3>0. n = k + p  BY <3>2
    <3>3. \A j \in 1 .. p + t : secBuf'[j] = w[k + j]
      <4>. SUFFICES ASSUME NEW j \in 1 .. p + t PROVE secBuf'[j] = w[k + j]  OBVIOUS
      <4>0. j \in 1 .. SecChunks  BY <1>2, <2>1, <2>2
      <4>1. CASE j <= p
        <5>1. k + j \in 1 .. n /\ j \in 1 .. p /\ j \notin p + 1 .. p + t  BY <3>2, <4>1
        <5>2. secBuf'[j] = secBuf[j]  BY <2>3, <4>0, <5>1
        <5>. QED  BY <2>6, <3>1, <3>2, <5>1, <5>2
      <4>2. CASE j > p
        <5>1. PICK i \in 1 .. t : i = j - p /\ k + j = n + i /\ j \in p + 1 .. p + t  BY <3>2, <4>2
        <5>2. secBuf'[j] = ps[i]  BY <2>3, <4>0, <5>1
        <5>. QED  BY <2>6, <5>1, <5>2
      <4>. QED  BY <4>1, <4>2, <4>0
    <3>4. Matching(disk, from, chMoved, k, astray)  BY <2>1, <2>5, <3>2 DEF RawInv, WriteOn
    <3>5. Matching(disk, from, w, k, astray)
      <4>1. \A i \in 1 .. k : w[i] = chMoved[i]  BY <2>6, <3>0
      <4>. QED  BY <3>4, <4>1 DEF Matching
    <3>6. Len(w) = k + (p + t) /\ Len(w) - (p + t) = k  BY <2>6, <3>0
    <3>7. PICK e \in Nat : e = p + t /\ e = secPos'  BY <2>1, <2>2, <2>3
    <3>8. Len(chMoved') - secPos' = k  BY <2>6, <3>6, <3>7
    <3>9. /\ chLba' = from' + q /\ Len(chMoved') = q * SecChunks + secPos'
          /\ \A j \in 1 .. secPos' : secBuf'[j] = chMoved'[q * SecChunks + j]
      BY <1>1, <2>6, <3>1, <3>2, <3>3, <3>6, <3>7
    <3>10. Matching(disk', from', chMoved', k, astray')  BY <1>1, <2>6, <3>5
    <3>. QED  BY <3>8, <3>9, <3>10 DEF WriteOn
  <2>. QED  BY <1>3, <2>8, <2>9 DEF RawInv
<1>. QED  BY <1>4, <1>5 DEF RawInv, RawType

(* A full buffer is committed to its sector, or the disk fails. *)
LEMMA WriteGoesOn ==
    ASSUME RawInv, C!DISK_WR_GO
    PROVE  RawInv'
<1>1. /\ secReading' = secReading /\ from' = from /\ chMoved' = chMoved /\ flow \in {"write", "none"}
  BY DEF C!DISK_WR_GO, C!GoesOn
<1>2. SecChunks \in Nat /\ 1 <= SecChunks  BY RawWidths
<1>3. CASE UNCHANGED <<disk, chLba, secLeft, secPos, secBuf, secWriting, astray, flow>>
  BY <1>1, <1>3 DEF RawInv, RawType, RawCount, ReadOn, WriteOn
<1>4. CASE /\ secWriting /\ secWriting' = FALSE /\ flow' = "none" /\ UNCHANGED <<disk, chLba, secLeft, secPos, secBuf, astray>>
  <2>1. RawType'
    <3>1. secReading' \in BOOLEAN /\ secWriting' \in BOOLEAN  BY <1>1, <1>4, Zenon DEF RawInv, RawType
    <3>. QED  BY <1>1, <1>4, <3>1 DEF RawInv, RawType
  <2>2. RawCount'  BY <1>1, <1>4 DEF RawInv, RawCount
  <2>. QED  BY <1>4, <2>1, <2>2 DEF RawInv, ReadOn, WriteOn
<1>5. CASE secWriting /\ secPos = SecChunks /\ C!Commit /\ UNCHANGED flow
  <2>1. flow = "write"  BY <1>1, <1>5 DEF RawInv, RawCount
  <2>2. PICK k \in Nat, l \in Nat : k = secLeft /\ k >= 1 /\ l = chLba  BY <1>5, <2>1 DEF RawInv, RawCount, RawType
  <2>3. /\ \/ disk' = Stored(disk, l, secBuf) /\ astray' = astray
           \/ disk' = disk /\ astray' = astray \cup {l}
        /\ secLeft' = k - 1 /\ k - 1 \in Nat /\ chLba' = l + 1 /\ secPos' = 0 /\ secBuf' = C!NoParts
        /\ secWriting' = (k - 1 # 0)
    BY <1>5, <2>2 DEF C!Commit, Stored
  <2>4. PICK q \in Nat : /\ l = from + q /\ Len(chMoved) = q * SecChunks + SecChunks
                         /\ \A j \in 1 .. SecChunks : secBuf[j] = chMoved[q * SecChunks + j]
    BY <1>5, <2>1, <2>2 DEF RawInv, WriteOn
  <2>5. /\ disk \in [C!Sectors -> SectorType] /\ secBuf \in SectorType /\ from \in Nat /\ chMoved \in Seq(PartValue)
    BY DEF RawInv, RawType
  <2>6. Matching(disk, from, chMoved, q * SecChunks, astray)
    <3>1. PICK n \in Nat : n = q * SecChunks  BY <1>2
    <3>2. Len(chMoved) - secPos = n  BY <1>2, <1>5, <2>4, <3>1
    <3>. QED  BY <2>1, <3>1, <3>2 DEF RawInv, WriteOn
  <2>7. /\ \/ disk' = Stored(disk, from + q, secBuf)
           \/ disk' = disk /\ from + q \in astray'
        /\ astray \subseteq astray' /\ astray' \subseteq Nat
    <3>1. astray \subseteq Nat /\ l = from + q  BY <2>4 DEF RawInv, RawType
    <3>2. l \in Nat  OBVIOUS
    <3>3. CASE disk' = Stored(disk, l, secBuf) /\ astray' = astray
      <4>1. disk' = Stored(disk, from + q, secBuf)  BY <3>1, <3>3, Zenon
      <4>2. astray \subseteq astray' /\ astray' \subseteq Nat  BY <3>1, <3>3
      <4>. QED  BY <4>1, <4>2
    <3>4. CASE disk' = disk /\ astray' = astray \cup {l}  BY <3>1, <3>2, <3>4
    <3>. QED  BY <2>3, <3>3, <3>4
  <2>8. Matching(disk', from, chMoved, Len(chMoved), astray') /\ Len(chMoved) = (q + 1) * SecChunks
    <3>1. PICK e, x2 : e = disk' /\ x2 = astray'  OBVIOUS
    <3>2. (e = Stored(disk, from + q, secBuf) \/ (e = disk /\ from + q \in x2)) /\ astray \subseteq x2
      BY <2>7, <3>1
    <3>3. PICK d \in [C!Sectors -> SectorType], f \in Nat, m \in Seq(PartValue), bf \in SectorType :
             d = disk /\ f = from /\ m = chMoved /\ bf = secBuf
      BY <2>5, Zenon
    <3>4. /\ Len(m) = q * SecChunks + SecChunks /\ Matching(d, f, m, q * SecChunks, astray)
          /\ Holds(bf, m, q * SecChunks) /\ (e = Stored(d, f + q, bf) \/ (e = d /\ f + q \in x2))
      BY <2>4, <2>6, <3>2, <3>3 DEF Holds
    <3>5. Matching(e, f, m, Len(m), x2) /\ Len(m) = (q + 1) * SecChunks  BY <3>2, <3>4, SectorMoved, ZenonT(60)
    <3>. QED  BY <3>1, <3>3, <3>5
  <2>9. RawType'
    <3>1. secReading' \in BOOLEAN /\ secWriting' \in BOOLEAN  BY <1>1, <2>3, Zenon DEF RawInv, RawType
    <3>2. disk' \in [C!Sectors -> SectorType]  BY <2>7, <2>5 DEF Stored
    <3>3. secBuf' \in SectorType  BY <2>3, BlankParts
    <3>. QED  BY <1>1, <1>2, <1>5, <2>1, <2>3, <2>5, <2>7, <3>1, <3>2, <3>3 DEF RawInv, RawType
  <2>10. RawCount'
    <3>1. CASE k - 1 = 0  BY <1>5, <2>1, <2>3, <3>1 DEF RawCount
    <3>2. CASE k - 1 # 0  BY <1>5, <2>1, <2>2, <2>3, <3>2 DEF RawCount
    <3>. QED  BY <3>1, <3>2
  <2>11. WriteOn'
    <3>1. PICK r \in Nat : r = q + 1 /\ l + 1 = from + r /\ Len(chMoved) = r * SecChunks  BY <2>4, <2>5, <2>8
    <3>2. PICK n \in Nat : n = r * SecChunks /\ n = Len(chMoved)  BY <1>2, <3>1
    <3>3. n - 0 = n /\ n = r * SecChunks + 0 /\ 1 .. 0 = {}  BY <3>2
    <3>. QED  BY <1>1, <2>3, <2>8, <3>1, <3>2, <3>3 DEF WriteOn
  <2>. QED  BY <1>5, <2>1, <2>9, <2>10, <2>11 DEF RawInv, ReadOn
<1>. QED
  BY <1>3, <1>4, <1>5 DEF C!DISK_WR_GO

-----------------------------------------------------------------------------
(* The whole chip: raw sectors, and what the mouse still has to report *)
AlbireoInv == (use = "sectors" => RawInv) /\ motion = owed

LEMMA PowerOn == C!Init => AlbireoInv
<1>. SUFFICES ASSUME C!Init PROVE AlbireoInv  OBVIOUS
<1>1. /\ chLba = 0 /\ secLeft = 0 /\ secPos = 0 /\ secBuf = C!NoParts /\ secReading = FALSE /\ secWriting = FALSE
      /\ flow = "none" /\ from = 0 /\ chMoved = <<>> /\ motion = owed /\ astray = {}
  BY DEF C!Init
<1>2. disk \in [C!Sectors -> SectorType]
  <2>1. PICK p \in Parts : disk = [s \in C!Sectors |-> [i \in 1 .. SecChunks |-> p]]  BY DEF C!Init
  <2>2. [i \in 1 .. SecChunks |-> p] \in SectorType  BY DEF SectorType, PartValue
  <2>. QED  BY <2>1, <2>2
<1>3. RawType
  <2>1. secReading \in BOOLEAN /\ secWriting \in BOOLEAN  BY <1>1, Zenon
  <2>2. chMoved \in Seq(PartValue) /\ secBuf \in SectorType  BY <1>1, NothingMoved, BlankParts, Zenon
  <2>. QED  BY <1>1, <1>2, <2>1, <2>2, RawWidths DEF RawType
<1>4. RawCount /\ ReadOn /\ WriteOn  BY <1>1 DEF RawCount, ReadOn, WriteOn
<1>. QED  BY <1>1, <1>3, <1>4 DEF AlbireoInv, RawInv

(* Nothing of a transfer is touched. *)
RawState == <<disk, chLba, secLeft, secPos, secBuf, secReading, secWriting, flow, from, chMoved,
              astray>>
LEMMA RawKept == RawInv /\ UNCHANGED RawState => RawInv'
BY DEF RawState, RawInv, RawType, RawCount, ReadOn, WriteOn

(* Commands about files are given by the driver that uses the chip for them. *)
LEMMA FileUse == C!FileCommand => use = "files" /\ use' = use /\ UNCHANGED <<motion, owed>>
<1>1. C!Files => use = "files" /\ use' = use /\ UNCHANGED <<motion, owed>>  BY DEF C!Files, C!mouseVars
<1>2. C!FileCommand => C!Files
  BY DEF C!FileCommand, C!SET_FILE_NAME, C!WR_OFS_DATA, C!DIR_INFO_READ, C!WR_REQ_DATA, C!BYTE_LOCATE, C!BYTE_WRITE,
         C!Push, C!FILE_OPEN, C!FILE_ENUM_GO, C!FILE_CREATE, C!FILE_CLOSE, C!DIR_INFO_SAVE, C!DISK_QUERY,
         C!BYTE_RD_GO, C!BYTE_WR_GO, C!BYTE_READ
<1>. QED  BY <1>1, <1>2

LEMMA SectorUse == C!SectorCommand => use = "sectors" /\ use' = use /\ UNCHANGED <<motion, owed>>
<1>1. C!Raw => use = "sectors" /\ use' = use /\ UNCHANGED <<motion, owed>>  BY DEF C!Raw, C!mouseVars
<1>2. C!SectorCommand => C!Raw
  BY DEF C!SectorCommand, C!DISK_READ, C!DISK_WRITE, C!DISK_RD_GO, C!DISK_WR_GO, C!WR_HOST_DATA
<1>. QED  BY <1>1, <1>2

LEMMA SectorStep == RawInv /\ C!SectorCommand => RawInv'
<1>. SUFFICES ASSUME RawInv, C!SectorCommand PROVE RawInv'  OBVIOUS
<1>1. CASE \E l \in C!Sectors, n \in 1 .. 2 : C!DISK_READ(l, n) \/ C!DISK_WRITE(l, n)
  BY <1>1, ReadBegins, WriteBegins
<1>2. CASE \E ps \in {<<p>> : p \in Parts} \cup {<<p, q, p>> : p, q \in Parts} : C!WR_HOST_DATA(ps)
  <2>1. PICK ps \in {<<p>> : p \in Parts} \cup {<<p, q, p>> : p, q \in Parts} : C!WR_HOST_DATA(ps)  BY <1>2
  <2>2. ps \in Seq(Parts)
    <3>1. ASSUME NEW p \in Parts, ps = <<p>> PROVE ps \in Seq(Parts)
      <4>1. <<p>> \in Seq(Parts)  OBVIOUS
      <4>. QED  BY <3>1, <4>1
    <3>2. ASSUME NEW p \in Parts, NEW q \in Parts, ps = <<p, q, p>> PROVE ps \in Seq(Parts)
      <4>1. <<p, q, p>> \in Seq(Parts)  OBVIOUS
      <4>. QED  BY <3>2, <4>1
    <3>3. (\E p \in Parts : ps = <<p>>) \/ (\E p \in Parts, q \in Parts : ps = <<p, q, p>>)  OBVIOUS
    <3>. QED  BY <3>1, <3>2, <3>3
  <2>. QED  BY <2>1, <2>2, PartsTaken
<1>3. CASE C!DISK_RD_GO  BY <1>3, ReadGoesOn
<1>4. CASE C!DISK_WR_GO  BY <1>4, WriteGoesOn
<1>. QED  BY <1>1, <1>2, <1>3, <1>4 DEF C!SectorCommand

LEMMA ResetStep ==
    ASSUME NEW io, C!ch376_reset(io), RawInv
    PROVE  RawInv'
<1>1. /\ secReading' = FALSE /\ secWriting' = FALSE /\ secLeft' = 0 /\ secPos' = 0 /\ flow' = "none" /\ from' = 0
      /\ chMoved' = <<>> /\ disk' = disk /\ chLba' = chLba /\ secBuf' = secBuf /\ astray' = {}
  BY DEF C!ch376_reset, C!Flow
<1>2. RawType'
  <2>1. secReading' \in BOOLEAN /\ secWriting' \in BOOLEAN  BY <1>1, Zenon
  <2>2. chMoved' \in Seq(PartValue)  BY <1>1, NothingMoved, Zenon
  <2>. QED  BY <1>1, <2>1, <2>2, RawWidths DEF RawInv, RawType
<1>3. RawCount' /\ ReadOn' /\ WriteOn'  BY <1>1 DEF RawCount, ReadOn, WriteOn
<1>. QED  BY <1>2, <1>3 DEF RawInv

LEMMA AlbireoStep == AlbireoInv /\ [C!Next]_chVars => AlbireoInv'
<1>. SUFFICES ASSUME AlbireoInv, [C!Next]_chVars PROVE AlbireoInv'  OBVIOUS
<1>1. CASE C!FileCommand  BY <1>1, FileUse DEF AlbireoInv
<1>2. CASE C!SectorCommand  BY <1>2, SectorUse, SectorStep DEF AlbireoInv
<1>3. CASE C!MouseCommand
  <2>1. use = "mouse" /\ use' = use
    BY <1>3 DEF C!MouseCommand, C!ch376_mouse_move, C!ch376_mouse_button, C!ISSUE_TKN_X, C!Mouse
  <2>2. motion' = owed'
    <3>. motion = owed  BY DEF AlbireoInv
    <3>1. ASSUME NEW d, C!ch376_mouse_move(d) PROVE motion' = owed'
      BY <3>1, Zenon DEF C!ch376_mouse_move
    <3>2. CASE C!ch376_mouse_button  BY <3>2 DEF C!ch376_mouse_button
    <3>3. CASE C!ISSUE_TKN_X
      <4>1. CASE motion = 0 /\ button = lastButton  BY <3>3, <4>1 DEF C!ISSUE_TKN_X
      <4>2. CASE ~(motion = 0 /\ button = lastButton)
        <5>1. owed' = owed - C!Clipped(motion) /\ motion' = motion - C!Clipped(motion)
          BY <3>3, <4>2 DEF C!ISSUE_TKN_X
        <5>. QED  BY <5>1, Zenon
      <4>. QED  BY <4>1, <4>2
    <3>. QED  BY <1>3, <3>1, <3>2, <3>3 DEF C!MouseCommand
  <2>. QED  BY <2>1, <2>2 DEF AlbireoInv
<1>4. CASE C!GetStatus \/ C!Refuse \/ UNCHANGED chVars
  <2>1. UNCHANGED <<RawState, use, motion, owed>>
    BY <1>4 DEF C!GetStatus, C!Refuse, chVars, RawState, C!secVars, C!mouseVars
  <2>. QED  BY <2>1, RawKept DEF AlbireoInv
<1>5. ASSUME NEW io, C!ch376_reset(io) PROVE AlbireoInv'
  <2>1. use' = use /\ motion' = owed'  BY <1>5 DEF C!ch376_reset
  <2>. QED  BY <1>5, <2>1, ResetStep DEF AlbireoInv
<1>. QED  BY <1>1, <1>2, <1>3, <1>4, <1>5 DEF C!Next

LEMMA AlbireoSound == AlbireoInv => AlbireoExact
<1>. SUFFICES ASSUME AlbireoInv PROVE C!SectorsExact  BY DEF AlbireoExact, AlbireoInv, C!MotionKept
<1>. SUFFICES ASSUME use = "sectors", flow # "none",
                     NEW i \in 1 .. Len(chMoved) - (IF flow = "read" THEN 0 ELSE secPos),
                     from + (i - 1) \div SecChunks \in C!Sectors \ astray
              PROVE  disk[from + (i - 1) \div SecChunks][((i - 1) % SecChunks) + 1] = chMoved[i]
  BY DEF C!SectorsExact
<1>1. RawInv  BY DEF AlbireoInv
<1>2. CASE flow = "read"
  <2>1. i \in 1 .. Len(chMoved)  BY <1>1, <1>2 DEF RawInv, RawType
  <2>. QED  BY <1>1, <1>2, <2>1 DEF RawInv, ReadOn, Matching
<1>3. CASE flow = "write"
  <2>1. i \in 1 .. Len(chMoved) - secPos  BY <1>3
  <2>. QED  BY <1>1, <1>3, <2>1 DEF RawInv, WriteOn, Matching
<1>. QED  BY <1>1, <1>2, <1>3 DEF RawInv, RawType

(* The Albireo, for every size of sector and disk, and whatever the host   *)
(* fails at: the parts the guest read of raw sectors, and those it wrote   *)
(* once their sector is full, are the disk's, in order; what the mouse     *)
(* moved and did not report yet is what it will (ch376.c:680-845).         *)
THEOREM AlbireoHolds == StorageSpec => []AlbireoExact
<1>1. StorageInit => AlbireoInv
  <2>1. StorageInit => C!Init  BY DEF StorageInit, AtRest
  <2>. QED  BY <2>1, PowerOn
<1>2. AlbireoInv /\ [StorageNext]_<<board, m4Vars, ideVars, chVars>> => AlbireoInv'
  <2>1. [StorageNext]_<<board, m4Vars, ideVars, chVars>> => [C!Next]_chVars  BY DEF StorageNext
  <2>. QED  BY <2>1, AlbireoStep
<1>. QED  BY <1>1, <1>2, AlbireoSound, PTL DEF StorageSpec

=============================================================================
