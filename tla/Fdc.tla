-------------------------------- MODULE Fdc ---------------------------------
(***************************************************************************)
(* The uPD765A floppy controller (fdc.c) and the two drives with their     *)
(* .dsk images (disk.c).  The guest writes command and data bytes, reads   *)
(* the main status register and the data register; the user inserts and    *)
(* ejects disks at any time, also in the middle of a command; every write  *)
(* goes to the image file on the host first, which may fail, and then to   *)
(* the copy of the track kept in memory.                                   *)
(*                                                                         *)
(* Abstracted: a sector is its identifier (the CHRN fields, compared as a  *)
(* whole) and its contents as one unit of transfer; images have one side;  *)
(* the parameter bytes of a command are chosen when the last one arrives,  *)
(* since nothing looks at them before; the result bytes are the interrupt  *)
(* code, the error bits and their number.                                  *)
(***************************************************************************)
EXTENDS Integers, Sequences, FiniteSets

CONSTANTS
    Drives,       \* {0, 1}
    Images,       \* the .dsk files of the host
    NoImage,      \* an empty drive's image
    Data,         \* contents of a sector
    Torn,         \* contents of a sector whose write to the file broke off
    TrackCount,   \* tracks of an image
    MaxCyl,       \* last cylinder a SEEK may ask for, 255 in the code
    IdMod,        \* sector numbers are u8: 256 in the code
    TrackRoom,    \* sectors that fit in a track
    MaxSectors,   \* DISK_MAX_SECTORS, most identifiers FORMAT accepts
    ExecBuf,      \* FDC_EXEC_BUF in sectors
    FormatDelay,  \* FDC_FORMAT_TRACK_DELAY_CYCLES in ticks
    Blank,        \* contents of a track as the images come
    WritesMayFail,    \* may the host refuse or break off a write?
    OneDrivePerImage  \* does the user keep an image to one drive?

Ids == 0 .. IdMod - 1
Cyls == 0 .. TrackCount - 1
Sector == [id : Ids, data : Data \cup {Torn}]
Track == Seq(Sector)          \* <<>>: not in the image, or not loaded

ASSUME SizeAssumption ==
    /\ TrackCount \in Nat \ {0} /\ MaxCyl \in Nat
    /\ IdMod \in Nat \ {0} /\ TrackRoom \in 1 .. IdMod - 1
    /\ MaxSectors \in Nat /\ ExecBuf \in Nat \ {0} /\ FormatDelay \in Nat \ {0}
ASSUME ValueAssumption ==
    /\ Drives # {} /\ NoImage \notin Images /\ Torn \notin Data
    /\ Blank \in Track /\ Len(Blank) <= TrackRoom
    /\ {WritesMayFail, OneDrivePerImage} \subseteq BOOLEAN

VARIABLES
    fdc,     \* the controller
    drive,   \* the drives, each with the tracks of its image in memory
    file     \* the image files on the host

vars == <<fdc, drive, file>>

Codes == {"SPECIFY", "SENSE_DRIVE", "WRITE", "READ", "RECALIBRATE",
          "SENSE_INT", "READ_ID", "FORMAT", "SEEK", "READ_TRACK", "INVALID"}

CmdLen == [c \in Codes |->
    CASE c \in {"READ", "WRITE", "READ_TRACK"} -> 9
      [] c = "FORMAT" -> 6
      [] c \in {"SPECIFY", "SEEK"} -> 3
      [] c \in {"SENSE_DRIVE", "RECALIBRATE", "READ_ID"} -> 2
      [] OTHER -> 1]

(* The result bytes: their number, how many are read, ST0's interrupt code *)
(* and the error bits of ST0 and ST1.                                      *)
Results == [len : 0 .. 7, pos : 0 .. 7, ic : {"OK", "AT", "INV", "SE", "ST3"},
            err : SUBSET {"NR", "NW", "ND", "EN", "MA", "OR"}]

Fdc == [phase : {"CMD", "EXEC", "RESULT"}, code : Codes, cmdPos : 0 .. 9,
        drv : Drives, first : Ids, eot : Ids,
        buf : Seq(Ids \cup Data \cup {Torn}), execLen : Nat, execPos : Nat,
        execWrite : BOOLEAN, result : Results, resultDelay : Nat,
        statusDelay : BOOLEAN, seekDone : BOOLEAN,
        lastDrv : Drives, lastPcn : 0 .. MaxCyl]

Drive == [inserted : BOOLEAN, wp : BOOLEAN, img : Images \cup {NoImage},
          cyl : 0 .. MaxCyl, rot : 0 .. TrackRoom - 1, tracks : [Cyls -> Track]]

NoResult == [len |-> 0, pos |-> 0, ic |-> "OK", err |-> {}]

(* The state after fdc_init and fdc_reset. *)
ResetFdc == [phase |-> "CMD", code |-> "SPECIFY", cmdPos |-> 0,
             drv |-> CHOOSE d \in Drives : TRUE, first |-> 0, eot |-> 0,
             buf |-> <<>>, execLen |-> 0, execPos |-> 0, execWrite |-> FALSE,
             result |-> NoResult, resultDelay |-> 0, statusDelay |-> FALSE,
             seekDone |-> FALSE, lastDrv |-> CHOOSE d \in Drives : TRUE, lastPcn |-> 0]

(* Operators named ...Faulty are mistakes the properties were tried on; no *)
(* specification uses them.                                                *)
EjectedFaulty(dr) ==     \* the head goes home
    [inserted |-> FALSE, wp |-> FALSE, img |-> NoImage, cyl |-> 0,
     rot |-> 0, tracks |-> [t \in Cyls |-> <<>>]]

(* disk_eject: everything but the head position goes. *)
Ejected(dr) == [inserted |-> FALSE, wp |-> FALSE, img |-> NoImage, cyl |-> dr.cyl,
                rot |-> 0, tracks |-> [t \in Cyls |-> <<>>]]

Init == /\ fdc = ResetFdc
        /\ drive = [d \in Drives |-> Ejected([cyl |-> 0])]
        /\ file = [i \in Images |-> [t \in Cyls |-> Blank]]

-----------------------------------------------------------------------------
(* Sectors *)

AtMost(a, b) == IF a < b THEN a ELSE b

(* the track under the head; nothing beyond the last track of the image *)
UnderHead(dr) == IF dr.inserted /\ dr.cyl \in Cyls THEN dr.tracks[dr.cyl] ELSE <<>>

Has(tr, id) == \E i \in DOMAIN tr : tr[i].id = id

(* disk_find_sector: the first sector with this identifier *)
Find(tr, id) == CHOOSE i \in DOMAIN tr :
                   tr[i].id = id /\ \A j \in 1 .. i - 1 : tr[j].id # id

(* The k-th sector number of a transfer from first, as an u8. *)
Nth(first, k) == (first + k - 1) % IdMod

(* How many sectors a transfer from first to eot finds: up to the first    *)
(* missing one.                                                            *)
RunLength(tr, first, eot) ==
    LET found(k) == \A j \in 1 .. k : Nth(first, j) <= eot /\ Has(tr, Nth(first, j))
    IN  CHOOSE n \in 0 .. IdMod - 1 : found(n) /\ (n = IdMod - 1 \/ ~found(n + 1))

StoredFaulty(tr, map, first, vals, n) ==     \* the buffer offset stands still
    [i \in DOMAIN tr |-> IF \E k \in 1 .. n : Find(map, Nth(first, k)) = i
                         THEN [tr[i] EXCEPT !.data = vals[1]] ELSE tr[i]]

(* Track tr with vals written to the first n sectors of a transfer; map is *)
(* the track the sectors are looked up in.                                 *)
Stored(tr, map, first, vals, n) ==
    [i \in DOMAIN tr |->
       IF \E k \in 1 .. n : Find(map, Nth(first, k)) = i
       THEN [tr[i] EXCEPT !.data = vals[CHOOSE k \in 1 .. n : Find(map, Nth(first, k)) = i]]
       ELSE tr[i]]

-----------------------------------------------------------------------------
(* Results *)

set_result(f, ic, err) ==
    [f EXCEPT !.phase = "RESULT", !.result = [len |-> 7, pos |-> 0, ic |-> ic, err |-> err]]

ShortResult(f, n, ic) ==
    [f EXCEPT !.phase = "RESULT", !.result = [len |-> n, pos |-> 0, ic |-> ic, err |-> {}]]

(* Back to take a command. What the last one left behind is not looked at  *)
(* again, and forgotten here.                                              *)
Done(f) == [ResetFdc EXCEPT !.statusDelay = f.statusDelay, !.seekDone = f.seekDone,
                            !.lastDrv = f.lastDrv, !.lastPcn = f.lastPcn]

-----------------------------------------------------------------------------
(* exec_cmd: f is the controller with its command complete.  One operator  *)
(* per command; the parameters its bytes carried are chosen here.          *)

Specify(f) == fdc' = Done(f) /\ UNCHANGED drive

SenseDrive(f) == fdc' = ShortResult(f, 1, "ST3") /\ UNCHANGED drive

SeekTo(f, d, cyl) ==
    /\ drive' = [drive EXCEPT ![d].cyl = cyl]
    /\ fdc' = [Done(f) EXCEPT !.seekDone = TRUE, !.lastDrv = d, !.lastPcn = cyl]

SenseInt(f) ==
    /\ fdc' = IF f.seekDone
              THEN [ShortResult(f, 2, "SE") EXCEPT !.seekDone = FALSE]
              ELSE ShortResult(f, 1, "INV")
    /\ UNCHANGED drive

set_invalid(f) == fdc' = ShortResult(f, 1, "INV") /\ UNCHANGED drive

NextSector(rot, tr) == (rot + 1) % Len(tr)

ReadId(f, d) ==
    LET tr == UnderHead(drive[d])
    IN  IF ~drive[d].inserted \/ drive[d].cyl \notin Cyls
        THEN fdc' = set_result(f, "AT", {"NR", "MA"}) /\ UNCHANGED drive
        ELSE IF tr = <<>>
             THEN fdc' = set_result(f, "AT", {"MA"}) /\ UNCHANGED drive
             ELSE /\ fdc' = set_result(f, "OK", {})
                  /\ drive' = [drive EXCEPT ![d].rot = NextSector(@, tr)]

(* The sectors are copied to the execution buffer at once; ST0 ends in     *)
(* abnormal termination with EN even when all went well.                   *)
ReadData(f, d, first, eot) ==
    LET tr   == UnderHead(drive[d])
        run  == RunLength(tr, first, eot)
        miss == Nth(first, run + 1) <= eot      \* stopped at a missing sector
        len  == AtMost(run, ExecBuf)
    IN  /\ fdc' = IF ~drive[d].inserted THEN set_result(f, "AT", {"NR"})
                  ELSE IF run = 0 /\ miss THEN set_result(f, "AT", {"ND"})
                  ELSE [f EXCEPT
                          !.phase = "EXEC", !.drv = d, !.execWrite = FALSE,
                          !.buf = [k \in 1 .. len |-> tr[Find(tr, Nth(first, k))].data],
                          !.execLen = len, !.execPos = 0, !.statusDelay = TRUE,
                          !.result = [len |-> 7, pos |-> 0, ic |-> "AT",
                                      err |-> {"EN"} \cup (IF miss THEN {"ND"} ELSE {})]]
        /\ UNCHANGED drive

(* A command that writes wants a disk in the drive that may be written. *)
Refused(f, d) ==
    /\ fdc' = IF ~drive[d].inserted THEN set_result(f, "AT", {"NR"})
              ELSE set_result(f, "AT", {"NW"})
    /\ UNCHANGED drive

AwaitBytes(f, d, first, eot, len) ==
    /\ fdc' = [f EXCEPT !.phase = "EXEC", !.drv = d, !.first = first, !.eot = eot,
                        !.execWrite = TRUE, !.buf = <<>>, !.execLen = len, !.execPos = 0,
                        !.result = [len |-> 7, pos |-> 0, ic |-> "OK", err |-> {}]]
    /\ UNCHANGED drive

WriteData(f, d, first, eot) ==
    IF ~drive[d].inserted \/ drive[d].wp THEN Refused(f, d)
    ELSE AwaitBytes(f, d, first, eot,
                    AtMost(RunLength(UnderHead(drive[d]), first, eot), ExecBuf))

FormatTrack(f, d, sc) ==
    IF ~drive[d].inserted \/ drive[d].wp THEN Refused(f, d)
    ELSE IF sc = 0 \/ sc > MaxSectors
         THEN fdc' = set_result(f, "AT", {"OR"}) /\ UNCHANGED drive
         ELSE AwaitBytes(f, d, 0, 0, sc)

exec_cmd(f) ==
    \/ f.code = "SPECIFY" /\ Specify(f)
    \/ f.code = "SENSE_DRIVE" /\ SenseDrive(f)
    \/ f.code = "SENSE_INT" /\ SenseInt(f)
    \/ f.code \in {"READ_TRACK", "INVALID"} /\ set_invalid(f)
    \/ \E d \in Drives :
         \/ f.code = "RECALIBRATE" /\ SeekTo(f, d, 0)
         \/ f.code = "SEEK" /\ \E cyl \in 0 .. MaxCyl : SeekTo(f, d, cyl)
         \/ f.code = "READ_ID" /\ ReadId(f, d)
         \/ f.code = "READ" /\ \E first, eot \in Ids : ReadData(f, d, first, eot)
         \/ f.code = "WRITE" /\ \E first, eot \in Ids : WriteData(f, d, first, eot)
         \/ f.code = "FORMAT" /\ \E sc \in 0 .. MaxSectors + 1 : FormatTrack(f, d, sc)

-----------------------------------------------------------------------------
(* commit_write: the last byte of a WRITE or FORMAT arrived.  f is the     *)
(* controller with its buffer full; the drive is looked at again, since    *)
(* the disk may have been changed meanwhile.                               *)

ProtectedFaulty(dr) == dr
(* A disk that failed a write takes no more of them. *)
Protected(dr) == [dr EXCEPT !.wp = TRUE]

(* The file and the memory after the first n sectors of a WRITE. *)
OnFile(f, n) == LET dr == drive[f.drv]
                IN  Stored(file[dr.img][dr.cyl], UnderHead(dr), f.first, f.buf, n)
InMemory(f, n) == LET tr == UnderHead(drive[f.drv]) IN Stored(tr, tr, f.first, f.buf, n)

(* The sectors the buffer holds data for and the track under the head has. *)
Written(f) == AtMost(RunLength(UnderHead(drive[f.drv]), f.first, f.eot), f.execLen)

(* disk_write_sector fails on the n-th: that sector is old, new or torn in *)
(* the file, and the disk is protected from now on.                        *)
WriteFails(f, n) ==
    LET dr   == drive[f.drv]
        next == Find(UnderHead(dr), Nth(f.first, n))
    IN  /\ \E tr \in {OnFile(f, n - 1), OnFile(f, n), [OnFile(f, n - 1) EXCEPT ![next].data = Torn]} :
             file' = [file EXCEPT ![dr.img][dr.cyl] = tr]
        /\ drive' = [drive EXCEPT ![f.drv] =
                        Protected([dr EXCEPT !.tracks[dr.cyl] = InMemory(f, n - 1)])]

CommitWrite(f) ==
    LET dr == drive[f.drv]
        n  == Written(f)
    IN  IF ~dr.inserted \/ dr.wp
        THEN fdc' = set_result(f, "AT", {"NR", "NW"}) /\ UNCHANGED <<drive, file>>
        ELSE \/ /\ fdc' = set_result(f, "OK", {})
                /\ IF n = 0 THEN UNCHANGED <<drive, file>>
                   ELSE /\ file' = [file EXCEPT ![dr.img][dr.cyl] = OnFile(f, n)]
                        /\ drive' = [drive EXCEPT ![f.drv].tracks[dr.cyl] = InMemory(f, n)]
             \/ /\ WritesMayFail
                /\ fdc' = set_result(f, "AT", {"NW"})
                /\ \E k \in 1 .. n : WriteFails(f, k)

(* disk_format_track: the whole track is written to the file, then to      *)
(* memory.                                                                 *)
FormattableFaulty(f) == UnderHead(drive[f.drv]) # <<>> /\ f.execLen <= TrackRoom
Formattable(f) == LET dr == drive[f.drv]
                  IN  ~dr.wp /\ UnderHead(dr) # <<>> /\ f.execLen <= TrackRoom

NewTrack(f, filler) == [i \in 1 .. f.execLen |-> [id |-> f.buf[i], data |-> filler]]

CommitFormat(f) ==
    LET dr == drive[f.drv]
    IN  IF ~dr.inserted
        THEN fdc' = set_result(f, "AT", {"NR"}) /\ UNCHANGED <<drive, file>>
        ELSE IF ~Formattable(f)
        THEN fdc' = set_result(f, "AT", {"NW"}) /\ UNCHANGED <<drive, file>>
        ELSE \E filler \in Data :
               \/ /\ fdc' = [set_result(f, "OK", {}) EXCEPT !.resultDelay = FormatDelay]
                  /\ file' = [file EXCEPT ![dr.img][dr.cyl] = NewTrack(f, filler)]
                  /\ drive' = [drive EXCEPT ![f.drv].tracks[dr.cyl] = NewTrack(f, filler)]
               \/ /\ WritesMayFail
                  /\ fdc' = set_result(f, "AT", {"NW"})
                  /\ \E tr \in {file[dr.img][dr.cyl], NewTrack(f, filler), NewTrack(f, Torn)} :
                       file' = [file EXCEPT ![dr.img][dr.cyl] = tr]
                  /\ drive' = [drive EXCEPT ![f.drv] = Protected(dr)]

commit_write(f) == IF f.code = "FORMAT" THEN CommitFormat(f) ELSE CommitWrite(f)

-----------------------------------------------------------------------------
(* The registers *)

(* A byte of a command.  The first one tells how many there will be. *)
CmdByte ==
    /\ fdc.phase = "CMD"
    /\ \E code \in IF fdc.cmdPos = 0 THEN Codes ELSE {fdc.code} :
         IF fdc.cmdPos + 1 < CmdLen[code]
         THEN /\ fdc' = [fdc EXCEPT !.code = code, !.cmdPos = @ + 1]
              /\ UNCHANGED drive
         ELSE exec_cmd([fdc EXCEPT !.code = code, !.cmdPos = 0])
    /\ UNCHANGED file

(* A byte of a write: stored while there is room, committed when full. *)
ExecByte ==
    /\ fdc.phase = "EXEC" /\ fdc.execWrite
    /\ \E v \in IF fdc.code = "FORMAT" THEN Ids ELSE Data :
         LET f == IF fdc.execPos < fdc.execLen
                  THEN [fdc EXCEPT !.buf = Append(@, v), !.execPos = @ + 1] ELSE fdc
         IN  IF f.execPos >= f.execLen THEN commit_write(f)
             ELSE fdc' = f /\ UNCHANGED <<drive, file>>

fdc_write_data == CmdByte \/ ExecByte

ReadByte ==
    /\ fdc.phase = "EXEC" /\ ~fdc.execWrite
    /\ LET pos == AtMost(fdc.execPos + 1, fdc.execLen)
       IN  fdc' = [fdc EXCEPT !.execPos = pos,
                              !.phase = IF pos >= fdc.execLen THEN "RESULT" ELSE @]

ReadResultFaulty ==     \* one byte too many
    /\ fdc.phase = "RESULT" /\ fdc.resultDelay = 0
    /\ LET f == [fdc EXCEPT !.result.pos = @ + 1]
       IN  fdc' = IF f.result.pos > f.result.len THEN Done(f) ELSE f

ReadResult ==
    /\ fdc.phase = "RESULT"
    /\ fdc.resultDelay = 0
    /\ LET f == [fdc EXCEPT !.result.pos = @ + 1]
       IN  fdc' = IF f.result.pos >= f.result.len THEN Done(f) ELSE f

fdc_read_data == (ReadByte \/ ReadResult) /\ UNCHANGED <<drive, file>>

(* The main status register: ready, or busy. *)
Rqm == CASE fdc.phase = "CMD" -> TRUE
         [] fdc.phase = "EXEC" -> ~fdc.statusDelay
         [] fdc.phase = "RESULT" -> fdc.resultDelay = 0

(* Reading it uses up the one busy answer after a READ command. *)
fdc_read_status ==
    /\ fdc.phase = "EXEC" /\ fdc.statusDelay
    /\ fdc' = [fdc EXCEPT !.statusDelay = FALSE]
    /\ UNCHANGED <<drive, file>>

fdc_tickFaulty ==     \* the last cycle is never counted off
    /\ fdc.resultDelay > 0
    /\ \E left \in 1 .. fdc.resultDelay - 1 : fdc' = [fdc EXCEPT !.resultDelay = left]
    /\ UNCHANGED <<drive, file>>

(* Emulated time passes. *)
fdc_tick ==
    /\ fdc.resultDelay > 0
    /\ \E left \in 0 .. fdc.resultDelay - 1 : fdc' = [fdc EXCEPT !.resultDelay = left]
    /\ UNCHANGED <<drive, file>>

fdc_reset == fdc' = ResetFdc /\ UNCHANGED <<drive, file>>

-----------------------------------------------------------------------------
(* The user *)

disk_eject(d) ==
    /\ drive[d].inserted
    /\ drive' = [drive EXCEPT ![d] = Ejected(drive[d])]
    /\ UNCHANGED <<fdc, file>>

(* Whatever was in the drive is ejected.  The file may be read-only; a     *)
(* read error leaves the disk inserted with the tracks loaded so far.      *)
disk_load(d, i) ==
    /\ OneDrivePerImage => \A e \in Drives : e # d => drive[e].img # i
    /\ \E wp \in BOOLEAN, loaded \in 0 .. TrackCount :
         drive' = [drive EXCEPT ![d] =
                     [Ejected(drive[d]) EXCEPT
                        !.inserted = TRUE, !.wp = wp, !.img = i,
                        !.tracks = [t \in Cyls |-> IF t < loaded THEN file[i][t] ELSE <<>>]]]
    /\ UNCHANGED <<fdc, file>>

User == \E d \in Drives : disk_eject(d) \/ \E i \in Images : disk_load(d, i)

Next == fdc_write_data \/ fdc_read_data \/ fdc_read_status \/ fdc_tick
        \/ fdc_reset \/ User

Spec == Init /\ [][Next]_vars

(* A driver reads the status until the controller is ready and then serves *)
(* it, while emulated time goes on.                                        *)
Serves == Rqm /\ fdc.phase # "CMD" /\ (ExecByte \/ fdc_read_data)
Fairness == WF_vars(Serves) /\ WF_vars(fdc_read_status) /\ WF_vars(fdc_tick)

FairSpec == Spec /\ Fairness

-----------------------------------------------------------------------------
(* Properties *)

TypeOK == fdc \in Fdc /\ drive \in [Drives -> Drive] /\ file \in [Images -> [Cyls -> Track]]

(* The counters of each phase stay short of their end: the byte that       *)
(* completes a command, a transfer or a result also ends its phase, and    *)
(* only a finished FORMAT holds back a result (fdc.c:430-461).             *)
FsmSound ==
    /\ TypeOK
    /\ fdc.phase = "CMD" => fdc.cmdPos < CmdLen[fdc.code]
    /\ fdc.phase # "CMD" => fdc.cmdPos = 0
    /\ fdc.phase = "EXEC" => fdc.execPos < fdc.execLen \/ fdc.execLen = 0
    /\ fdc.phase = "EXEC" /\ fdc.execWrite => Len(fdc.buf) = fdc.execPos
    /\ fdc.phase = "RESULT" => fdc.result.pos < fdc.result.len
    /\ fdc.resultDelay > 0 => fdc.phase = "RESULT" /\ fdc.result.pos = 0

(* The copy of a writable disk's tracks in memory is what its image file   *)
(* holds, whatever was written, formatted, swapped or failed on the way: a *)
(* disk that failed a write is write-protected (disk.c:384-391, 458-466).  *)
MirrorsFile ==
    \A d \in Drives : drive[d].inserted /\ ~drive[d].wp =>
        \A t \in Cyls : drive[d].tracks[t] \in {<<>>, file[drive[d].img][t]}

(* An image file changes only while a drive holds it writable, even when   *)
(* the disk was swapped between the command and its last byte              *)
(* (fdc.c:374-377, disk.c:379 and 404).                                    *)
ProtectedFileUntouched ==
    [][\A i \in Images : file'[i] # file[i] =>
          \E d \in Drives : drive[d].img = i /\ drive[d].inserted /\ ~drive[d].wp]_vars

(* A WRITE that ends normally has put every sector it had data for in the  *)
(* image file and in memory, each with its own bytes (fdc.c:379-399).      *)
WriteOkStored ==
    [][/\ fdc.phase = "EXEC" /\ fdc.execWrite /\ fdc.code = "WRITE"
       /\ fdc'.phase = "RESULT" /\ fdc'.result.ic = "OK"
       => LET dr == drive'[fdc.drv]
          IN  \A k \in 1 .. Written(fdc) :
                \A tr \in {dr.tracks[dr.cyl], file'[dr.img][dr.cyl]} :
                   \E i \in DOMAIN tr : tr[i] = [id |-> Nth(fdc.first, k), data |-> fdc'.buf[k]]]_vars

(* A seek interrupt that is still pending names the cylinder the head of   *)
(* that drive stands on, whatever disks came and went since (fdc.c:107-117,*)
(* 140-150 and disk.c:15-17).                                              *)
PendingSeekTrue == fdc.seekDone => drive[fdc.lastDrv].cyl = fdc.lastPcn

(* A controller served by a driver that waits for it always comes back to  *)
(* take a command (fdc.c:30-52, 407-442, 468-475).                         *)
Served == fdc.phase # "CMD" ~> fdc.phase = "CMD"
=============================================================================
