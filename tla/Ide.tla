-------------------------------- MODULE Ide ---------------------------------
(***************************************************************************)
(* The SymbiFace IDE drive (ide.c): the task file, one sector of buffer    *)
(* and the data register, through which the guest moves one byte at a      *)
(* time, over an image on the host whose reads and writes may fail.        *)
(*                                                                         *)
(* Abstracted: a sector has SectorBytes bytes; the three address registers *)
(* and the device register are one address; a count of 0 stands for        *)
(* ZeroCount (256) sectors; the identification is a sector of its own.     *)
(***************************************************************************)
EXTENDS Integers, Sequences, FiniteSets

CONSTANTS
    SectorBytes,
    NumSectors,     \* sectors of the image
    Lbas,           \* addresses the guest uses, some past the end
    Counts,         \* what it writes to the count register
    ZeroCount,      \* sectors a count of 0 stands for
    Bytes,
    IdentByte,      \* what the identification is made of
    MaxCommands     \* bound: commands and resets

IdeAssumption ==
    /\ {SectorBytes, NumSectors, ZeroCount} \subseteq Nat \ {0}
    /\ Lbas \cup Counts \subseteq Nat /\ IdentByte \notin Bytes

VARIABLES
    image,          \* the file: sectors of bytes
    fp,             \* an image is open
    count, lba,     \* sector_count; lba_low to device
    status, error,  \* a set of flags; "none" or what went wrong
    cmd, writing,   \* the last command
    buf, pos,       \* buf, buf_pos
    cur, left,      \* current_lba, sectors_left
    first, moved,   \* history: the command's first sector and its
                    \* bytes so far, none once the image changes
    unsaved,        \* history: its sectors that the host refused silently
    commands        \* how many there were

vars == <<image, fp, count, lba, status, error, cmd, writing, buf, pos, cur, left,
          first, moved, unsaved, commands>>

Idle == {"DRDY", "DSC"}
DataReady == Idle \cup {"DRQ"}
Failing == Idle \cup {"ERR"}
Wanted == IF count = 0 THEN ZeroCount ELSE count
Blank == [i \in 1 .. SectorBytes |-> IdentByte]
Sector == [1 .. SectorBytes -> Bytes]

Init == /\ image \in [0 .. NumSectors - 1 -> {s \in Sector : \A i, j \in DOMAIN s : s[i] = s[j]}]
        /\ fp \in BOOLEAN
        /\ count = 0 /\ lba = 0
        /\ status = IF fp THEN Idle ELSE {}
        /\ error = "none" /\ cmd = "none" /\ writing = FALSE
        /\ buf = Blank /\ pos = 0 /\ cur = 0 /\ left = 0
        /\ first = 0 /\ moved = <<>> /\ unsaved = {} /\ commands = 0

Count == commands < MaxCommands /\ commands' = commands + 1

(* What load_sector and flush_sector find: the sector is not there, the    *)
(* host fails, or it is done.                                              *)
Outcomes(l) == IF l >= NumSectors THEN {"IDNF"} ELSE {"none", "ABRT"}

SetCount(n) == /\ count # n /\ count' = n
               /\ UNCHANGED <<image, fp, lba, status, error, cmd, writing, buf, pos, cur,
                              left, first, moved, unsaved, commands>>
SetLba(l) == /\ lba # l /\ lba' = l
             /\ UNCHANGED <<image, fp, count, status, error, cmd, writing, buf, pos, cur,
                            left, first, moved, unsaved, commands>>

(* exec_cmd sets cmd, error and pos whatever the command *)
Begin(c, e) == cmd' = c /\ error' = e /\ pos' = 0 /\ first' = lba /\ moved' = <<>> /\ unsaved' = {}

ReadSectors ==
    /\ fp /\ Count
    /\ cur' = lba /\ left' = Wanted /\ writing' = FALSE
    /\ \E o \in Outcomes(lba) :
         /\ Begin("read", o)
         /\ buf' = IF o = "none" THEN image[lba] ELSE buf
         /\ status' = IF o = "none" THEN DataReady ELSE Failing
    /\ UNCHANGED <<image, fp, count, lba>>

WriteSectors ==
    /\ fp /\ Count
    /\ cur' = lba /\ left' = Wanted /\ writing' = TRUE
    /\ Begin("write", "none") /\ status' = DataReady
    /\ UNCHANGED <<image, fp, count, lba, buf>>

Identify ==
    /\ fp /\ Count
    /\ Begin("identify", "none") /\ writing' = FALSE
    /\ buf' = Blank /\ status' = DataReady
    /\ UNCHANGED <<image, fp, count, lba, cur, left>>

(* parameters and features; anything else is refused *)
OtherCommand ==
    /\ fp /\ Count
    /\ \/ Begin("other", "none") /\ status' = Idle
       \/ Begin("other", "ABRT") /\ status' = Failing
    /\ UNCHANGED <<image, fp, count, lba, writing, buf, cur, left>>

CommandWithoutImage ==
    /\ ~fp /\ error # "ABRT" /\ error' = "ABRT" /\ status' = Failing
    /\ UNCHANGED <<image, fp, count, lba, cmd, writing, buf, pos, cur, left, first, moved,
                   unsaved, commands>>

Ended(st, er) == status' = st /\ error' = er /\ UNCHANGED <<buf>>

NextSectorFaulty ==          \* the address is not advanced
    /\ cur' = cur /\ left' = left - 1
    /\ IF left' > 0 THEN /\ buf' = image[cur] /\ pos' = 0 /\ UNCHANGED <<status, error>>
       ELSE pos' = pos + 1 /\ Ended(Idle, error)

(* The last byte of a sector was read: the next one is loaded; when that   *)
(* fails the transfer ends with the error register set, the flag not.      *)
NextSector ==
    /\ cur' = cur + 1 /\ left' = left - 1
    /\ \/ /\ left' > 0
          /\ \E o \in Outcomes(cur') :
               IF o = "none" THEN buf' = image[cur'] /\ pos' = 0 /\ UNCHANGED <<status, error>>
               ELSE pos' = pos + 1 /\ Ended(Idle, o)
       \/ left' <= 0 /\ pos' = pos + 1 /\ Ended(Idle, error)

ReadData ==
    /\ "DRQ" \in status /\ ~writing /\ pos < SectorBytes
    /\ moved' = Append(moved, buf[pos + 1])
    /\ \/ pos + 1 < SectorBytes /\ pos' = pos + 1 /\ UNCHANGED <<status, error, buf, cur, left>>
       \/ pos + 1 = SectorBytes /\ cmd = "identify" /\ pos' = pos + 1 /\ status' = Idle
             /\ UNCHANGED <<error, buf, cur, left>>
       \/ pos + 1 = SectorBytes /\ cmd # "identify" /\ NextSector
    /\ UNCHANGED <<image, fp, count, lba, cmd, writing, first, unsaved, commands>>

(* flush_sector with what is in the buffer, then on to the next sector;    *)
(* the status of the last one hides what the flush found.  fwrite only     *)
(* fills the buffer of the stream: when the host then refuses the sector   *)
(* ("lost"), fflush is the one to know, and nobody asks it (ide.c:49).     *)
Flushes(l) == Outcomes(l) \cup (IF l < NumSectors THEN {"lost"} ELSE {})

FlushSector(o, b) ==
    LET told == o \in {"none", "lost"}      \* as if it were done
    IN  /\ image' = IF o = "none" THEN [image EXCEPT ![cur] = b] ELSE image
        /\ unsaved' = IF o = "lost" THEN unsaved \cup {cur} ELSE unsaved
        /\ error' = IF told THEN error ELSE o
        /\ cur' = cur + 1 /\ left' = left - 1
        /\ IF left' > 0 THEN pos' = 0 /\ status' = IF told THEN status ELSE Failing
           ELSE pos' = pos + 1 /\ status' = Idle

WriteData(b) ==
    /\ "DRQ" \in status /\ writing /\ pos < SectorBytes
    /\ buf' = [buf EXCEPT ![pos + 1] = b]
    /\ moved' = Append(moved, b)
    /\ \/ pos + 1 < SectorBytes /\ pos' = pos + 1
             /\ UNCHANGED <<image, status, error, cur, left, unsaved>>
       \/ pos + 1 = SectorBytes /\ \E o \in Flushes(cur) : FlushSector(o, buf')
    /\ UNCHANGED <<fp, count, lba, cmd, writing, first, commands>>

(* SRST, or the machine's reset; a reset leaves the image open *)
Fresh == /\ count' = 0 /\ lba' = 0 /\ error' = "none" /\ cmd' = "none" /\ writing' = FALSE
         /\ buf' = Blank /\ pos' = 0 /\ cur' = 0 /\ left' = 0 /\ first' = 0 /\ moved' = <<>>
         /\ unsaved' = {}
Reset == Count /\ Fresh /\ status' = (IF fp THEN Idle ELSE {}) /\ UNCHANGED <<image, fp>>

(* ide_close, and ide_open on another image; nothing else is touched *)
Swap == /\ Count
        /\ fp' = ~fp /\ status' = IF fp' THEN Idle ELSE {}
        /\ moved' = <<>> /\ unsaved' = {}
        /\ UNCHANGED <<image, count, lba, error, cmd, writing, buf, pos, cur, left, first>>

Next == \/ \E n \in Counts : SetCount(n)
        \/ \E l \in Lbas : SetLba(l)
        \/ ReadSectors \/ WriteSectors \/ Identify \/ OtherCommand \/ CommandWithoutImage
        \/ ReadData \/ \E b \in Bytes : WriteData(b)
        \/ Reset \/ Swap

Spec == Init /\ [][Next]_vars

-----------------------------------------------------------------------------
(* The bytes of sector k of the command *)
Piece(k) == [i \in 1 .. SectorBytes |-> moved[k * SectorBytes + i]]
Complete == Len(moved) \div SectorBytes

TypeOK == /\ image \in [0 .. NumSectors - 1 -> Sector] /\ fp \in BOOLEAN
          /\ status \in {{}, Idle, DataReady, Failing} /\ error \in {"none", "IDNF", "ABRT"}
          /\ cmd \in {"none", "read", "write", "identify", "other"} /\ writing \in BOOLEAN
          /\ buf \in [1 .. SectorBytes -> Bytes \cup {IdentByte}] /\ pos \in 0 .. SectorBytes
          /\ cur \in Nat /\ left \in Nat
          /\ unsaved \subseteq 0 .. NumSectors - 1

(* What the data register moved is what the sectors hold, sector after     *)
(* sector, unless the error register tells otherwise: the ERR flag cannot  *)
(* be relied on, since the end of a transfer hides a failure of its last   *)
(* load or flush (ide.c:220, :255).  Of a write, the sectors the host      *)
(* refused without a word (ide.c:49) still hold what they did, and no      *)
(* others.  And a transfer that has stopped with no error has moved every  *)
(* sector it was asked for.                                                *)
SectorsExact ==
    cmd \in {"read", "write"} /\ error = "none" /\ moved # <<>> =>
        /\ \A k \in 0 .. Complete - 1 :
              first + k \in unsaved \/ image[first + k] = Piece(k)
        /\ cmd = "read" => \A i \in 1 .. Len(moved) % SectorBytes :
                              image[first + Complete][i] = moved[Complete * SectorBytes + i]
        /\ "DRQ" \notin status => left = 0
=============================================================================
