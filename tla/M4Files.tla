------------------------------ MODULE M4Files -------------------------------
(***************************************************************************)
(* The file commands of the M4 board on a card image (m4.c, image mode).   *)
(* The guest sends a command, the board executes it and answers; the user  *)
(* resets the machine, changes the image and quits.  Sectors of the image  *)
(* may fail while a command is executed.                                   *)
(*                                                                         *)
(* Abstracted: a packet is the command with its arguments (malformed ones  *)
(* change nothing); the answer is whether it went well and the data.  The  *)
(* raw sector commands, directory listings and host directories are left   *)
(* out.                                                                    *)
(***************************************************************************)
EXTENDS Fat, SequencesExt

CONSTANTS
    MaxFds,       \* M4_MAX_FDS
    WithExt,      \* the names programs use, each with those tried when it is
                  \* not there
    Images,       \* the volumes a card may hold at first
    Faults,       \* the sets of sector kinds that may fail at once, as a file
                  \* is read, is written to, and in all other commands
    Seeks,        \* where programs seek to
    Payloads,     \* what programs write at once
    MaxMoves,     \* opens, writes, seeks and erasures in all
    NoFile,       \* what a closed descriptor refers to
    OneWriter,    \* do programs keep a file to one descriptor that writes?
    SwapClosed    \* does the user change images only when no file is open?

ASSUME M4Assumption ==
    /\ MaxFds \in Nat /\ MaxFds >= 3
    /\ MaxMoves \in Nat /\ Seeks \subseteq Nat
    /\ Payloads \subseteq Seq(Units) \ {<<>>}
    /\ DOMAIN WithExt \subseteq Names
    /\ \A n \in DOMAIN WithExt : WithExt[n] \in Seq(Names)
    /\ Images \subseteq Volume
    /\ Faults \in [{"read", "write", "other"} -> SUBSET SUBSET Kinds]
    /\ {OneWriter, SwapClosed} \subseteq BOOLEAN

VARIABLES
    vol,        \* image_vol, with the image
    mounted,    \* image_mounted
    readOnly,   \* image_read_only
    fds,        \* descriptors: a file or NoFile
    command,    \* the last command, with its arguments
    answer,     \* the response
    seen,       \* what went wrong so far: a fault, a quit with files open
    moves       \* opens, writes, seeks and erasures so far

vars == <<vol, mounted, readOnly, fds, command, answer, seen, moves>>

Fds == 1 .. MaxFds
Pool == 3 .. MaxFds      \* FA_REALMODE descriptors
Modes == {"READ", "REPLACE", "ALWAYS"}

valid_fd(d) == fds[d] # NoFile

(* end: no more data, where the command tells                              *)
Ok(data) == [ok |-> TRUE, data |-> data, end |-> FALSE]
OkEnd(data, end) == [ok |-> TRUE, data |-> data, end |-> end]
Refused == [ok |-> FALSE, data |-> <<>>, end |-> FALSE]

Init == /\ vol \in {fat_mount(v) : v \in Images}
        /\ mounted = TRUE /\ readOnly \in BOOLEAN
        /\ fds = [d \in Fds |-> NoFile]
        /\ command = <<"RESET">> /\ answer = Refused
        /\ seen = {} /\ moves = 0

Move == moves < MaxMoves /\ moves' = moves + 1

(* The sectors that fail while a command is executed; one command fails    *)
(* at most.                                                                *)
Fault(io) == /\ io = {} \/ "fault" \notin seen
             /\ seen' = seen \cup (IF io = {} THEN {} ELSE {"fault"})

-----------------------------------------------------------------------------
(* Files *)

(* The name is that of a file a descriptor has open for writing, or, when  *)
(* it is to be written to, open at all.                                    *)
InUse(name, ds, wr) ==
    \E d \in ds : /\ fds[d] # NoFile
                  /\ vol.dir[fds[d].slot].name = name
                  /\ wr \/ fds[d].wmode

(* The names fat_open_mode is tried on: only a missing file that is read   *)
(* may have an extension added.                                            *)
OpenAny(v, name, mode, io) ==
    LET tries == <<name>> \o (IF mode = "READ" THEN WithExt[name] ELSE <<>>)
        try(r, n) == IF r.status = "NOT_FOUND" THEN fat_open_mode(r.v, n, mode, io) ELSE r
    IN  FoldLeft(try, [status |-> "NOT_FOUND", v |-> v, f |-> NoFile], tries)

Opened(d, r) ==
    /\ vol' = r.v
    /\ fds' = [fds EXCEPT ![d] = IF r.status = "OK" THEN r.f ELSE NoFile]
    /\ answer' = IF r.status = "OK" THEN Ok(<<d>>) ELSE Refused

OpenDescriptorFaulty(v, d, name, mode, io) ==  \* the old file is not closed
    Opened(d, OpenAny(v, name, mode, io))

(* The descriptor is chosen; an AMSDOS one is closed first.                *)
OpenDescriptor(v, d, name, mode, io) ==
    Opened(d, OpenAny(IF d \notin Pool /\ fds[d] # NoFile THEN fat_close(v, fds[d], io) ELSE v,
                      name, mode, io))

(* real: FA_REALMODE, a descriptor from the pool                           *)
C_OPEN(name, mode, real, io) ==
    LET free == {d \in Pool : ~valid_fd(d)}
        d == IF real THEN First(free) ELSE IF mode = "READ" THEN 1 ELSE 2
        refused == \/ real /\ free = {}
                   \/ mode # "READ" /\ readOnly
    IN  /\ mounted
        /\ command' = <<"OPEN", name, mode, real>>
        /\ OneWriter => ~InUse(name, IF real THEN Fds ELSE Fds \ {d}, mode # "READ")
        /\ IF refused THEN answer' = Refused /\ UNCHANGED <<vol, fds>>
           ELSE OpenDescriptor(vol, d, name, mode, io)
        /\ Fault(io)
        /\ Move
        /\ UNCHANGED <<mounted, readOnly>>

(* n units, with zeros after the end of the file                           *)
C_READ(d, n, io) ==
    LET done(r) == /\ vol' = r.v /\ fds' = [fds EXCEPT ![d] = r.f]
                   /\ answer' = Ok(r.got \o [i \in 1 .. n - Len(r.got) |-> 0])
    IN  /\ mounted /\ valid_fd(d)
        /\ command' = <<"READ", d, n>>
        /\ done(fat_read(vol, fds[d], n, io))
        /\ Fault(io)
        /\ UNCHANGED <<mounted, readOnly, moves>>

(* as many units as there are, and whether they were fewer than n          *)
C_READ2(d, n, io) ==
    LET done(r) == /\ vol' = r.v /\ fds' = [fds EXCEPT ![d] = r.f]
                   /\ answer' = OkEnd(r.got, Len(r.got) < n)
    IN  /\ mounted /\ valid_fd(d)
        /\ command' = <<"READ2", d, n>>
        /\ done(fat_read(vol, fds[d], n, io))
        /\ Fault(io)
        /\ UNCHANGED <<mounted, readOnly, moves>>

C_WRITE(d, vals, io) ==
    LET done(r) == /\ vol' = r.v /\ fds' = [fds EXCEPT ![d] = r.f]
                   /\ answer' = IF r.wrote = Len(vals) THEN Ok(<<>>) ELSE Refused
    IN  /\ mounted /\ valid_fd(d) /\ Move
        /\ command' = <<"WRITE", d, vals>>
        /\ done(fat_write(vol, fds[d], vals, io))
        /\ Fault(io)
        /\ UNCHANGED <<mounted, readOnly>>

(* one unit; whether it was written is not looked at                       *)
C_WRITE2(d, u, io) ==
    LET done(r) == vol' = r.v /\ fds' = [fds EXCEPT ![d] = r.f] /\ answer' = Ok(<<>>)
    IN  /\ mounted /\ valid_fd(d) /\ Move
        /\ command' = <<"WRITE2", d, <<u>>>>
        /\ done(fat_write(vol, fds[d], <<u>>, io))
        /\ Fault(io)
        /\ UNCHANGED <<mounted, readOnly>>

C_SEEK(d, pos) ==
    /\ mounted /\ valid_fd(d)
    /\ command' = <<"SEEK", d, pos>>
    /\ fds' = [fds EXCEPT ![d] = fat_seek(@, pos)]
    /\ answer' = Ok(<<>>)
    /\ Move
    /\ UNCHANGED <<vol, mounted, readOnly, seen>>

(* C_FTELL, C_FSIZE and C_EOF at once                                      *)
C_FTELL(d) ==
    /\ mounted /\ valid_fd(d)
    /\ command' = <<"TELL", d>>
    /\ answer' = OkEnd(<<fds[d].pos, fds[d].size>>, fds[d].pos >= fds[d].size)
    /\ UNCHANGED <<vol, mounted, readOnly, fds, seen, moves>>

C_CLOSE(d, io) ==
    /\ mounted
    /\ command' = <<"CLOSE", d>>
    /\ IF valid_fd(d)
       THEN vol' = fat_close(vol, fds[d], io) /\ answer' = Ok(<<>>)
       ELSE answer' = Refused /\ UNCHANGED vol
    /\ fds' = [fds EXCEPT ![d] = NoFile]
    /\ Fault(io)
    /\ UNCHANGED <<mounted, readOnly, moves>>

C_ERASEFILE(name, io) ==
    LET done(r) == vol' = r.v /\ answer' = IF r.ok THEN Ok(<<>>) ELSE Refused
    IN  /\ mounted /\ Move
        /\ command' = <<"ERASE", name>>
        /\ OneWriter => ~InUse(name, Fds, TRUE)
        /\ IF readOnly THEN answer' = Refused /\ UNCHANGED vol
           ELSE done(fat_delete(vol, name, io))
        /\ Fault(io)
        /\ UNCHANGED <<mounted, readOnly, fds>>

-----------------------------------------------------------------------------
(* The machine *)

(* Descriptors are closed in turn, then the image is opened again.         *)
m4_reset(io) ==
    LET closed(v, d) == IF fds[d] = NoFile THEN v ELSE fat_close(v, fds[d], io)
        v == FoldLeft(closed, vol, [i \in Fds |-> i])
    IN  /\ mounted
        /\ command' = <<"RESET">>
        /\ vol' = fat_mount(fat_unmount(v, io))
        /\ fds' = [d \in Fds |-> NoFile]
        /\ answer' = Refused
        /\ Fault(io)
        /\ UNCHANGED <<mounted, readOnly, moves>>

(* m4_set_image: the image is taken out, or the same one put in again.     *)
(* The files that are open are left as they are.                           *)
m4_set_image(in, io) ==
    /\ SwapClosed => \A d \in Fds : ~valid_fd(d)
    /\ mounted \/ in
    /\ command' = <<"RESET">>
    /\ vol' = fat_mount(IF mounted THEN fat_unmount(vol, io) ELSE vol)
    /\ mounted' = in
    /\ answer' = Refused
    /\ Fault(io)
    /\ UNCHANGED <<readOnly, fds, moves>>

(* The program ends, or dies; cpc_destroy closes no descriptor.  The image *)
(* is there when it is started again.                                      *)
Quit ==
    /\ command' = <<"QUIT">>
    /\ vol' = fat_mount(vol)
    /\ mounted' = TRUE
    /\ fds' = [d \in Fds |-> NoFile]
    /\ answer' = Refused
    /\ seen' = seen \cup (IF \E d \in Fds : valid_fd(d) /\ fds[d].wmode THEN {"quit"} ELSE {})
    /\ UNCHANGED <<readOnly, moves>>

Next ==
    \/ \E io \in Faults.other :
         \/ \E n \in DOMAIN WithExt :
              \/ \E m \in Modes, real \in BOOLEAN : C_OPEN(n, m, real, io)
              \/ C_ERASEFILE(n, io)
         \/ \E d \in Fds : C_CLOSE(d, io)
         \/ m4_reset(io)
         \/ \E in \in BOOLEAN : m4_set_image(in, io)
    \/ \E d \in Fds, io \in Faults.read : C_READ(d, 2, io) \/ C_READ2(d, 2, io)
    \/ \E d \in Fds, io \in Faults.write, vals \in Payloads :
         C_WRITE(d, vals, io) \/ (Len(vals) = 1 /\ C_WRITE2(d, vals[1], io))
    \/ \E d \in Fds : C_FTELL(d) \/ \E pos \in Seeks : C_SEEK(d, pos)
    \/ Quit

Spec == Init /\ [][Next]_vars

-----------------------------------------------------------------------------
(* Properties *)



(* Types of the board's state and of the volume.                           *)
M4TypeOK ==
    /\ vol \in Volume
    /\ {mounted, readOnly} \subseteq BOOLEAN
    /\ fds \in [Fds -> File \cup {NoFile}]
    /\ DOMAIN answer = {"ok", "data", "end"}
    /\ seen \subseteq {"fault", "quit"} /\ moves \in 0 .. MaxMoves

(* the writers of the file in slot s *)
Writers(s) == {d \in Fds : valid_fd(d) /\ fds[d].wmode /\ fds[d].slot = s}

(* the clusters of the file in slot s, by its entry and by its writer      *)
ClustersOf(s) == ChainSet(vol, vol.dir[s].cl) \cup
                 UNION {ChainSet(vol, fds[d].cl) : d \in Writers(s)}

Used == {s \in Slots : vol.dir[s].name # NoName}

(* On the image, as it is between two commands: every chain ends, runs     *)
(* over allocated clusters only, and no cluster belongs to two files, even *)
(* when data sectors could not be read or written and after a quit in the  *)
(* middle of writing a file.                                               *)
ChainsSound ==
    /\ \A s \in Used : ChainEnds(vol, vol.dir[s].cl)
    /\ \A d \in Fds : valid_fd(d) => ChainEnds(vol, fds[d].cl)
    /\ \A s, t \in Used : s # t => ClustersOf(s) \cap ClustersOf(t) = {}

(* As long as nothing went wrong, every allocated cluster belongs to a     *)
(* file: nothing a program does leaks space, a full card included.         *)
NothingLeaks ==
    seen = {} => \A c \in Clusters :
                   vol.fat[c] # 0 => \E s \in Used : c \in ClustersOf(s)

(* fat.c: the volume is one a repair tool would find nothing to do on.     *)
VolumeSound == ChainsSound /\ NothingLeaks

(* Each name's file as the abstract store has it, read from the image.     *)
StoreFile(n) ==
    LET S == {s \in Slots : vol.dir[s].name = n}
        s == First(S)
        e == vol.dir[s]
        f == fds[CHOOSE d \in Writers(s) : TRUE]
    IN  IF S = {} THEN [exists |-> FALSE, data |-> <<>>, len |-> 0]
        ELSE [exists |-> TRUE, len |-> e.size,
              data |-> IF Writers(s) = {} THEN Contents(vol, e.cl, e.size)
                       ELSE Contents(vol, f.cl, f.size)]

StoreOpen(d) ==
    IF fds[d] = NoFile THEN [name |-> NoFile, pos |-> 0, size |-> 0, wr |-> FALSE]
    ELSE [name |-> vol.dir[fds[d].slot].name, pos |-> fds[d].pos,
          size |-> fds[d].size, wr |-> fds[d].wmode]

Store == INSTANCE FileStore
         WITH file <- [n \in Names |-> StoreFile(n)],
              open <- [d \in Fds |-> StoreOpen(d)],
              asked <- command, reply <- answer, tidy <- "quit" \notin seen,
              broken <- "fault" \in seen

(* The board keeps what FileStore promises: reads give what was written,   *)
(* a write that is confirmed is stored, a file keeps its contents whatever *)
(* is done to others, and a closed file is on the image.                   *)
ImplementsStore == Store!Spec
=============================================================================
