------------------------------- MODULE Ch376 --------------------------------
(***************************************************************************)
(* The CH376 of the Albireo board (ch376.c): a USB host controller that    *)
(* serves files of a FAT image to UNIDOS, raw sectors of a disk to SymbOS, *)
(* and a mouse.  A command and its parameters are one step, and so is what *)
(* the guest then reads from the data port: the byte of a one-shot answer, *)
(* or a chunk from its length on, as often as it likes (RD_USB_DATA0).     *)
(*                                                                         *)
(* Abstracted: a chunk is Chunk units of a file, or one of the SecChunks   *)
(* parts of a sector; one axis of the mouse stands for both; the chip is   *)
(* used in one of three ways at a time, by one of those drivers.  Commands *)
(* that leave nothing behind (GET_IC_VER, CHECK_EXIST, SET_FREQ, ...) are  *)
(* left out, and the partition offset, which only an image without a file  *)
(* system has.                                                             *)
(***************************************************************************)
EXTENDS Fat

CONSTANTS
    Uses,           \* which of "files", "sectors", "mouse" the guest drives
    Images, Faults, \* images at power on; sets of sectors that fail, when
                    \* data is moved and otherwise
    Wild, Matches,  \* a name with a wildcard, and the names it matches
    NoFile,
    Chunk,          \* CH_CHUNK: units a chunk of a file holds
    Lengths, Seeks, \* what BYTE_READ and BYTE_WRITE ask for; BYTE_LOCATE
    Payload,        \* what the guest writes to a file
    SecChunks, DiskSectors, Parts,  \* a raw disk: sectors of parts
    MouseMax,       \* 127: the most a report may hold
    Motions,
    NewNames,       \* what a file is renamed to
    MaxMoves        \* bounds, per use: seeks, transfers, edits, motions, resets

Ch376Assumption ==
    /\ {Chunk, SecChunks, DiskSectors, MouseMax} \subseteq Nat \ {0}
    /\ Wild \notin Names \cup {NoName}

VARIABLES
    use,
    vol, filename,
    file,                       \* the open file or NoFile
    remaining, writing,         \* bytes_remaining
    wbuf, wlen,                 \* units on their way to a file, of wlen
    listing,                    \* enum_dir: the slot to look at next, or 0
    entry, haveEntry, place,    \* last_dir_entry; where it goes, 0 nowhere
    disk, lba, secLeft, secPos, secBuf, secReading, secWriting,
    astray,                     \* history: sectors of the transfer that the
                                \* host cut or refused, untold
    motion, button, lastButton, \* mouse_dx, mouse_buttons, mouse_last_buttons
    resp, int, intPending,      \* resp after its length; int_status
    flow,                       \* history: what transfer is under way, from
    from, moved,                \* where, and the units it moved so far
    owed,                       \* history: motion to be reported
    moves

fileVars == <<vol, filename, file, remaining, writing, wbuf, wlen, listing, entry,
              haveEntry, place>>
secVars == <<disk, lba, secLeft, secPos, secBuf, secReading, secWriting, astray>>
mouseVars == <<motion, button, lastButton, owed>>
vars == <<use, fileVars, secVars, mouseVars, resp, int, intPending, flow, from, moved, moves>>

Sectors == 0 .. DiskSectors - 1
Codes == {"NONE", "SUCCESS", "READ", "WRITE", "DISK_ERR", "OPEN_DIR", "MISS_FILE", "DISCONNECT"}
NoParts == [i \in 1 .. SecChunks |-> 0]

Init == /\ use \in Uses
        /\ vol \in {fat_mount(v) : v \in Images} /\ filename = Wild
        /\ file = NoFile /\ remaining = 0 /\ writing = FALSE
        /\ wbuf = <<>> /\ wlen = 0
        /\ listing = 0 /\ entry = NoEntry /\ haveEntry = FALSE /\ place = 0
        /\ disk \in {[s \in Sectors |-> [i \in 1 .. SecChunks |-> p]] : p \in Parts}
        /\ lba = 0 /\ secLeft = 0 /\ secPos = 0 /\ secBuf = NoParts
        /\ secReading = FALSE /\ secWriting = FALSE /\ astray = {}
        /\ motion = 0 /\ button = FALSE /\ lastButton = FALSE /\ owed = 0
        /\ resp = <<>> /\ int = "NONE" /\ intPending = FALSE
        /\ flow = "none" /\ from = 0 /\ moved = <<>> /\ moves = 0

Move == moves < MaxMoves[use] /\ moves' = moves + 1
raise_int(code) == int' = code /\ intPending' = TRUE
Flow(what, at) == flow' = what /\ from' = at /\ moved' = <<>>
Same == UNCHANGED <<flow, from, moved>>

GetStatus == intPending /\ intPending' = FALSE
             /\ UNCHANGED <<use, fileVars, secVars, mouseVars, resp, int, flow, from, moved, moves>>

-----------------------------------------------------------------------------
(* Files.  Only commands about files change fileVars, and only they are    *)
(* given by a driver that uses the chip for files.                         *)

Files == use = "files" /\ UNCHANGED <<use, secVars, mouseVars>>
Buffers == <<wbuf, wlen>>
Listing == <<listing, entry, haveEntry, place>>

(* close_file, from volume v on: the volume it leaves *)
Closed(v, io) == IF file = NoFile THEN v ELSE fat_close(v, file, io)
NoTransfer == remaining' = 0 /\ writing' = FALSE

SET_FILE_NAME(n) ==
    /\ Files /\ filename # n /\ filename' = n
    /\ UNCHANGED <<vol, file, remaining, writing, Buffers, Listing, resp, int, intPending,
                   flow, from, moved, moves>>

(* make_dir_entry: the name and the size, but no first cluster *)
Described(v, s) == [v.dir[s] EXCEPT !.cl = 0, !.attr = "file"]

(* the listing goes on at slot s: the next entry that matches, or its end  *)
Enumerate(v, s, io) ==
    LET S == {t \in s .. SlotCount : v.dir[t].name \in Matches /\ v.dir[t].attr # "other"}
        hit == IF "dirR" \in io \/ S = {} THEN 0 ELSE First(S)
    IN  /\ vol' = IF "dirR" \in io THEN Failed(v) ELSE v
        /\ IF hit = 0
           THEN /\ listing' = 0 /\ haveEntry' = FALSE /\ raise_int("MISS_FILE")
                /\ UNCHANGED <<entry, resp>>
           ELSE /\ listing' = hit + 1 /\ haveEntry' = TRUE /\ entry' = Described(v, hit)
                /\ resp' = <<entry'>> /\ raise_int("READ")
        /\ UNCHANGED place

OpenNamed(r) ==
    /\ vol' = r.v /\ listing' = 0 /\ UNCHANGED resp
    /\ IF r.status # "OK"
       THEN /\ file' = NoFile /\ haveEntry' = FALSE /\ raise_int("MISS_FILE")
            /\ UNCHANGED <<entry, place>>
       ELSE /\ file' = r.f /\ place' = r.f.slot /\ raise_int("SUCCESS")
            /\ haveEntry' = TRUE /\ entry' = Described(r.v, r.f.slot)

FILE_OPEN(io) ==
    /\ Files /\ NoTransfer /\ Flow("none", 0)
    /\ \/ filename = Wild /\ file' = NoFile /\ Enumerate(Closed(vol, io), 1, io)
       \/ filename # Wild /\ OpenNamed(fat_open_mode(Closed(vol, io), filename, "READ", io))
    /\ UNCHANGED <<filename, Buffers, moves>>

FILE_ENUM_GO(io) ==
    /\ Files
    /\ \/ listing = 0 /\ raise_int("MISS_FILE") /\ UNCHANGED <<vol, Listing, resp>>
       \/ listing # 0 /\ Enumerate(vol, listing, io)
    /\ UNCHANGED <<filename, file, remaining, writing, Buffers, flow, from, moved, moves>>

FILE_CREATE(io) ==
    LET made(r) == /\ vol' = r.v
                   /\ file' = IF r.status = "OK" THEN r.f ELSE NoFile
                   /\ raise_int(IF r.status = "OK" THEN "SUCCESS" ELSE "DISK_ERR")
    IN  /\ Files /\ NoTransfer /\ Flow("none", 0)
        /\ filename # Wild /\ made(fat_open_mode(Closed(vol, io), filename, "REPLACE", io))
        /\ UNCHANGED <<filename, Buffers, Listing, resp, moves>>

FILE_CLOSE(io) ==
    /\ Files /\ vol' = Closed(vol, io) /\ file' = NoFile /\ NoTransfer /\ Flow("none", 0)
    /\ raise_int("SUCCESS")
    /\ UNCHANGED <<filename, Buffers, Listing, resp, moves>>

DIR_INFO_READ ==
    /\ Files
    /\ IF haveEntry THEN resp' = <<entry>> /\ raise_int("SUCCESS")
       ELSE raise_int("MISS_FILE") /\ UNCHANGED resp
    /\ UNCHANGED <<fileVars, flow, from, moved, moves>>

(* the name in the entry is rewritten: the first half of a rename *)
WR_OFS_DATA(n) ==
    /\ Files /\ Move /\ entry' = [entry EXCEPT !.name = n] /\ raise_int("SUCCESS")
    /\ UNCHANGED <<vol, filename, file, remaining, writing, Buffers, listing, haveEntry, place,
                   resp, flow, from, moved>>

DIR_INFO_SAVE(io) ==
    LET saved(w) == vol' = w.v /\ raise_int(IF w.ok THEN "SUCCESS" ELSE "DISK_ERR")
    IN  /\ Files /\ Move
        /\ IF haveEntry /\ place # 0 THEN saved(fat_write_dir_entry(vol, place, entry, io))
           ELSE raise_int("DISK_ERR") /\ UNCHANGED vol
        /\ UNCHANGED <<filename, file, remaining, writing, Buffers, Listing, resp,
                       flow, from, moved>>

BYTE_LOCATE(p) ==
    /\ Files /\ Move
    /\ \/ file # NoFile /\ file' = fat_seek(file, p) /\ raise_int("SUCCESS")
       \/ file = NoFile /\ raise_int("DISK_ERR") /\ UNCHANGED file
    /\ Flow("none", 0)
    /\ UNCHANGED <<vol, filename, remaining, writing, Buffers, Listing, resp>>

(* do_byte_read, of want units: a chunk, or the end of the transfer *)
ReadChunk(r, want) ==
    /\ vol' = r.v /\ file' = r.f /\ resp' = r.got
    /\ remaining' = want - Len(r.got)
    /\ raise_int(IF r.got = <<>> THEN "SUCCESS" ELSE "READ")

NextChunk(want, io) ==
    \/ file = NoFile /\ raise_int("DISK_ERR") /\ remaining' = want
         /\ UNCHANGED <<vol, file, resp>>
    \/ file # NoFile /\ ReadChunk(fat_read(vol, file, AtMost(want, Chunk), io), want)

BYTE_READ(n, io) ==
    /\ Files /\ Move /\ NextChunk(n, io)
    /\ IF file = NoFile THEN Flow("none", 0)
       ELSE flow' = "read" /\ from' = file.pos /\ moved' = resp'
    /\ UNCHANGED <<filename, writing, Buffers, Listing>>

BYTE_RD_GO(io) ==
    /\ Files /\ NextChunk(remaining, io)
    /\ IF flow = "read" THEN moved' = moved \o resp' /\ UNCHANGED <<flow, from>>
       ELSE Flow("none", 0)
    /\ UNCHANGED <<filename, writing, Buffers, Listing, moves>>

(* The write begins at the file's position, where FILE_OPEN has put it at  *)
(* the start: an existing file is written over.  (The comment at           *)
(* ch376.c:638 has it appended to.)  A chunk that was filled but not       *)
(* flushed before is still there.                                          *)
BYTE_WRITE(n) ==
    /\ Files /\ Move /\ remaining' = n /\ writing' = TRUE
    /\ \/ file = NoFile /\ raise_int("DISK_ERR") /\ Flow("none", 0) /\ UNCHANGED file
       \/ file # NoFile /\ file' = [file EXCEPT !.wmode = TRUE] /\ raise_int("WRITE")
            /\ Flow(IF wlen = 0 THEN "write" ELSE "none", file.pos)
    /\ UNCHANGED <<vol, filename, Buffers, Listing, resp>>

(* How many units the chip will take next.  Asked again before BYTE_WR_GO, *)
(* it forgets those it was given.                                          *)
WR_REQ_DATA ==
    /\ Files /\ wlen' = AtMost(remaining, Chunk) /\ wbuf' = <<>>
    /\ IF wlen = 0 THEN Same ELSE Flow("none", 0)
    /\ UNCHANGED <<vol, filename, file, remaining, writing, Listing, resp, int,
                   intPending, moves>>

PushFaulty(u) ==             \* what remains is not counted down
    /\ Files /\ Len(wbuf) < wlen /\ wbuf' = Append(wbuf, u)
    /\ moved' = Append(moved, u)
    /\ UNCHANGED <<vol, filename, file, remaining, writing, wlen, Listing, resp, int,
                   intPending, flow, from, moves>>

(* a byte on the data port while no command is pending *)
Push(u) ==
    /\ Files /\ Len(wbuf) < wlen /\ wbuf' = Append(wbuf, u)
    /\ moved' = IF flow = "write" THEN Append(moved, u) ELSE moved
    /\ remaining' = IF Len(wbuf') = wlen /\ writing THEN remaining - AtMost(wlen, remaining)
                    ELSE remaining
    /\ UNCHANGED <<vol, filename, file, writing, wlen, Listing, resp, int, intPending,
                   flow, from, moves>>

(* What the buffer holds is written, whether or not all of it could be     *)
(* stored, which is not told.                                              *)
WriteChunk(r) == /\ vol' = r.v /\ file' = r.f /\ wlen' = 0
                 /\ IF r.wrote = wlen THEN Same ELSE Flow("none", 0)

(* The driver has given all the chip asked for: of a buffer it filled in   *)
(* part, the rest would be what an earlier chunk left there.               *)
BYTE_WR_GO(io) ==
    /\ Files /\ Len(wbuf) = wlen
    /\ IF writing /\ file # NoFile /\ wlen > 0 THEN WriteChunk(fat_write(vol, file, wbuf, io))
       ELSE UNCHANGED <<vol, file, wlen, flow, from, moved>>
    /\ wbuf' = IF wlen' = 0 THEN <<>> ELSE wbuf
    /\ writing' = (writing /\ remaining > 0)
    /\ raise_int(IF writing' THEN "WRITE" ELSE "SUCCESS")
    /\ UNCHANGED <<filename, remaining, Listing, resp, moves>>

DISK_QUERY(io) ==
    LET told(q) == vol' = q.v /\ resp' = <<q.n>> /\ raise_int("SUCCESS")
    IN  /\ Files /\ told(fat_free_kb(vol, io))
        /\ UNCHANGED <<filename, file, remaining, writing, Buffers, Listing, flow, from, moved,
                       moves>>

(* FILE_ERASE and what the chip does not know *)
Refuse == /\ raise_int("DISK_ERR")
          /\ UNCHANGED <<use, fileVars, secVars, mouseVars, resp, flow, from, moved, moves>>

FileCommand ==
    \/ \E n \in Matches \cup NewNames \cup {Wild} : SET_FILE_NAME(n)
    \/ \E n \in NewNames : WR_OFS_DATA(n)
    \/ DIR_INFO_READ \/ WR_REQ_DATA
    \/ \E p \in Seeks : BYTE_LOCATE(p)
    \/ \E n \in Lengths : BYTE_WRITE(n)
    \/ Push(Payload[(Len(moved) % Len(Payload)) + 1])
    \/ \E io \in Faults.other :
         \/ FILE_OPEN(io) \/ FILE_ENUM_GO(io) \/ FILE_CREATE(io) \/ FILE_CLOSE(io)
         \/ DIR_INFO_SAVE(io) \/ DISK_QUERY(io)
    \/ \E io \in Faults.data :
         \/ BYTE_RD_GO(io) \/ BYTE_WR_GO(io)
         \/ \E n \in Lengths : BYTE_READ(n, io)

-----------------------------------------------------------------------------
(* Raw sectors *)

Raw == use = "sectors" /\ UNCHANGED <<use, fileVars, mouseVars>>

(* A read and a write share the buffer, its position and the count; one    *)
(* does not end the other, so a driver goes on with the one begun last.    *)
GoesOn(what) == flow \in {what, "none"}

(* the first or the next part of the sector in the buffer *)
ServePart(b, p) == resp' = <<b[p]>> /\ secPos' = p /\ raise_int("READ")

(* Sector s into the buffer and its first part to the guest; the host may  *)
(* fail, or have no such sector.  A read that breaks off after some bytes  *)
(* counts as done (only fread's 0 is looked for, ch376.c:705, :734): the   *)
(* rest of the buffer stays what it was.  p, sofar, lost: secPos then;     *)
(* moved and astray before.                                                *)
Fetched(s, n) == [i \in 1 .. SecChunks |-> IF i <= n THEN disk[s][i] ELSE secBuf[i]]

FetchSector(s, p, sofar, lost) ==
    \/ /\ s \in Sectors /\ secReading' = TRUE
       /\ \E n \in 0 .. SecChunks :
            /\ secBuf' = Fetched(s, n)
            /\ astray' = IF n < SecChunks THEN lost \cup {s} ELSE lost
       /\ ServePart(secBuf', 1) /\ moved' = sofar \o resp'
    \/ /\ secReading' = FALSE /\ secPos' = p /\ raise_int("DISK_ERR") /\ moved' = sofar
       /\ astray' = lost /\ UNCHANGED <<secBuf, resp>>

DISK_READ(l, n) ==
    /\ Raw /\ Move
    /\ lba' = l /\ secLeft' = n /\ FetchSector(l, 0, <<>>, {}) /\ flow' = "read" /\ from' = l
    /\ UNCHANGED <<disk, secWriting>>

DISK_RD_GO ==
    /\ Raw /\ GoesOn("read")
    /\ \/ /\ ~secReading /\ raise_int("DISK_ERR")
          /\ UNCHANGED <<lba, secLeft, secPos, secBuf, secReading, astray, resp, moved>>
       \/ /\ secReading /\ secPos < SecChunks /\ ServePart(secBuf, secPos + 1)
          /\ moved' = moved \o resp' /\ UNCHANGED <<lba, secLeft, secBuf, secReading, astray>>
       \/ /\ secReading /\ secPos = SecChunks /\ secLeft = 1
          /\ secLeft' = 0 /\ secReading' = FALSE /\ raise_int("SUCCESS")
          /\ UNCHANGED <<lba, secPos, secBuf, astray, resp, moved>>
       \/ /\ secReading /\ secPos = SecChunks /\ secLeft # 1
          /\ secLeft' = secLeft - 1 /\ lba' = lba + 1 /\ FetchSector(lba + 1, secPos, moved, astray)
    /\ UNCHANGED <<disk, secWriting, flow, from, moves>>

DISK_WRITE(l, n) ==
    /\ Raw /\ Move
    /\ lba' = l /\ secLeft' = n /\ secPos' = 0 /\ secBuf' = NoParts /\ secWriting' = TRUE
    /\ astray' = {} /\ Flow("write", l) /\ raise_int("WRITE")
    /\ UNCHANGED <<disk, secReading, resp>>

(* parts beyond the end of the sector are dropped *)
WR_HOST_DATA(ps) ==
    LET take == AtMost(Len(ps), SecChunks - secPos)
    IN  /\ Raw /\ GoesOn("write") /\ raise_int("SUCCESS")
        /\ IF ~secWriting THEN UNCHANGED <<secBuf, secPos, moved>>
           ELSE /\ secBuf' = [i \in 1 .. SecChunks |->
                                IF i \in secPos + 1 .. secPos + take THEN ps[i - secPos]
                                ELSE secBuf[i]]
                /\ secPos' = secPos + take /\ moved' = moved \o SubSeq(ps, 1, take)
        /\ UNCHANGED <<disk, lba, secLeft, secReading, secWriting, astray, resp, flow, from, moves>>

CommitFaulty ==              \* the next sector is not moved to
          /\ UNCHANGED astray
          /\ disk' = IF lba \in Sectors THEN [disk EXCEPT ![lba] = secBuf] ELSE disk
          /\ secLeft' = secLeft - 1 /\ lba' = lba /\ secPos' = 0 /\ secBuf' = NoParts
          /\ secWriting' = (secLeft' # 0)
          /\ raise_int(IF secLeft' = 0 THEN "SUCCESS" ELSE "WRITE")

(* A full buffer written to its sector.  fwrite puts it in the buffer of   *)
(* the stream; whether the host takes it is for fflush to say, which is    *)
(* not asked (ch376.c:793).                                                *)
Commit == /\ \/ disk' = (IF lba \in Sectors THEN [disk EXCEPT ![lba] = secBuf] ELSE disk) /\ UNCHANGED astray
             \/ astray' = astray \cup {lba} /\ UNCHANGED disk
          /\ secLeft' = secLeft - 1 /\ lba' = lba + 1 /\ secPos' = 0 /\ secBuf' = NoParts
          /\ secWriting' = (secLeft' # 0)
          /\ raise_int(IF secLeft' = 0 THEN "SUCCESS" ELSE "WRITE")

DISK_WR_GO ==
    /\ Raw /\ GoesOn("write")
    /\ \/ /\ raise_int(IF secWriting THEN "WRITE" ELSE "DISK_ERR")
          /\ ~secWriting \/ secPos < SecChunks
          /\ UNCHANGED <<disk, lba, secLeft, secPos, secBuf, secWriting, astray, flow>>
       \/ secWriting /\ secPos = SecChunks /\ Commit /\ UNCHANGED flow
       \/ /\ secWriting /\ secPos = SecChunks /\ secWriting' = FALSE /\ flow' = "none"
          /\ raise_int("DISK_ERR") /\ UNCHANGED <<disk, lba, secLeft, secPos, secBuf, astray>>
    /\ UNCHANGED <<secReading, resp, from, moved, moves>>

SectorCommand ==
    \/ \E l \in Sectors, n \in 1 .. 2 : DISK_READ(l, n) \/ DISK_WRITE(l, n)
    \/ \E ps \in {<<p>> : p \in Parts} \cup {<<p, q, p>> : p, q \in Parts} : WR_HOST_DATA(ps)
    \/ DISK_RD_GO \/ DISK_WR_GO

-----------------------------------------------------------------------------
(* The mouse *)

Mouse == use = "mouse" /\ UNCHANGED <<use, fileVars, secVars, flow, from, moved>>

ch376_mouse_move(d) == /\ Mouse /\ Move /\ motion' = motion + d /\ owed' = owed + d
                       /\ UNCHANGED <<button, lastButton, resp, int, intPending>>

ch376_mouse_button == /\ Mouse /\ Move /\ button' = ~button
                      /\ UNCHANGED <<motion, lastButton, owed, resp, int, intPending>>

Clipped(d) == IF d > MouseMax THEN MouseMax ELSE IF d < -MouseMax - 1 THEN -MouseMax - 1 ELSE d

(* a token for endpoint 1: a report when there is one to give *)
ISSUE_TKN_X ==
    /\ Mouse /\ raise_int("SUCCESS") /\ UNCHANGED <<button, moves>>
    /\ IF motion = 0 /\ button = lastButton
       THEN resp' = <<FALSE, 0>> /\ UNCHANGED <<motion, lastButton, owed>>
       ELSE /\ resp' = <<button, Clipped(motion)>> /\ owed' = owed - Clipped(motion)
            /\ motion' = motion - Clipped(motion) /\ lastButton' = button

MouseCommand == (\E d \in Motions : ch376_mouse_move(d)) \/ ch376_mouse_button \/ ISSUE_TKN_X

-----------------------------------------------------------------------------
(* RESET_ALL, or the machine's reset: files and listings are closed; what  *)
(* the disk holds, the image and last_dir_entry stay.                      *)
ch376_reset(io) ==
    /\ Move /\ vol' = Closed(vol, io) /\ file' = NoFile /\ NoTransfer
    /\ filename' = Wild /\ listing' = 0 /\ haveEntry' = FALSE /\ wlen' = 0 /\ wbuf' = <<>>
    /\ secReading' = FALSE /\ secWriting' = FALSE /\ secLeft' = 0 /\ secPos' = 0
    /\ motion' = 0 /\ button' = FALSE /\ lastButton' = FALSE /\ owed' = 0
    /\ resp' = <<>> /\ int' = "NONE" /\ intPending' = FALSE /\ Flow("none", 0) /\ astray' = {}
    /\ UNCHANGED <<use, entry, place, disk, lba, secBuf>>

Next == FileCommand \/ SectorCommand \/ MouseCommand \/ GetStatus \/ Refuse
        \/ \E io \in Faults.other : ch376_reset(io)

Spec == Init /\ [][Next]_vars

-----------------------------------------------------------------------------
(* The volume as fat.c sees it through its cache *)
Cached(v) == [v EXCEPT !.fat = [c \in Clusters |-> IF FatSector(c) = v.sec THEN v.cache[c]
                                                  ELSE v.fat[c]]]

TypeOK == /\ vol \in Volume /\ file \in File \cup {NoFile} /\ place \in 0 .. SlotCount
          /\ remaining \in Nat /\ Len(wbuf) <= wlen /\ wlen <= Chunk /\ secPos \in 0 .. SecChunks
          /\ entry.name \in Names \cup {NoName} /\ int \in Codes
          /\ flow \in {"none", "read", "write"} /\ secLeft \in Nat
          /\ astray \subseteq Nat

(* A file transfer moves what the file holds, chunk after chunk: read, the *)
(* units from where it began; written, the guest's units in their order,   *)
(* from the file's position on, which after FILE_OPEN is its start,        *)
(* of which at most a chunk is not in the file yet, and none once the chip *)
(* wants no more.  (Where the guest did not fill a chunk, or the card      *)
(* did not take it, flow is "none".)                                       *)
FilesExact ==
    use = "files" /\ file # NoFile /\ flow # "none" =>
        LET got == Contents(Cached(vol), file.cl, file.size)
            stored == file.pos - from
        IN  IF flow = "read"
            THEN (moved # <<>> => from + Len(moved) <= Len(got)) /\ moved = SubSeq(got, from + 1, from + Len(moved))
            ELSE /\ stored <= Len(moved) /\ Len(moved) <= stored + Chunk
                 /\ stored > 0 => /\ file.pos <= Len(got)
                                  /\ SubSeq(got, from + 1, file.pos) = SubSeq(moved, 1, stored)
                 /\ ~writing => stored = Len(moved)

(* Raw transfers: the parts read are those of the sectors asked for, in    *)
(* order; those written are, too, but for the sector being filled.         *)
(* Excused are the sectors the host cut short or refused with nobody       *)
(* asking (astray), and no others: a sector that was cut short or refused  *)
(* costs none of those before and after it.                                *)
SectorsExact ==
    use = "sectors" /\ flow # "none" =>
        \A i \in 1 .. Len(moved) - (IF flow = "read" THEN 0 ELSE secPos) :
            LET s == from + (i - 1) \div SecChunks
                part == ((i - 1) % SecChunks) + 1
            IN  s \in Sectors \ astray => disk[s][part] = moved[i]

(* No motion is lost or reported twice, however much there is of it. *)
MotionKept == motion = owed

(* A rename, an entry read, edited and saved, leaves the file's contents.  *)
RenameKeepsFile ==
    [][\A s \in Slots :
          /\ vol.dir[s].name # NoName /\ vol'.dir[s].name # NoName
          /\ vol'.dir[s].name # vol.dir[s].name
          => Contents(vol', vol'.dir[s].cl, vol'.dir[s].size)
                = Contents(vol, vol.dir[s].cl, vol.dir[s].size)]_vars
=============================================================================
