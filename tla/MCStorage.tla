----------------------------- MODULE MCStorage ------------------------------
(* The three storage boards, each on its own: they share nothing but the   *)
(* bus.  board is the one the guest uses; the others stay as they were at  *)
(* power on.                                                               *)
EXTENDS M4Files

CONSTANTS x, y, label, a, b, Wild

(* The drive's, as in Ide *)
CONSTANTS SectorBytes, NumSectors, Lbas, Counts, ZeroCount, Bytes, IdentByte, MaxCommands
(* The chip's raw disk and mouse, as in Ch376 *)
CONSTANTS SecChunks, DiskSectors, Parts, MouseMax, Motions

(***************************************************************************)
(* M4Files on a card of three clusters of two units and two directory      *)
(* entries: blank; with a file over two clusters and one that is read-     *)
(* only; with what an erased file left in a free cluster, and a volume     *)
(* label; full.                                                            *)
(***************************************************************************)
MCNames == {x, y, label}
MCUnits == {a, b}
MCWithExt == [n \in {x, y} |-> IF n = x THEN <<y>> ELSE <<>>]
MCPayloads == {<<a>>, <<b, a>>}
MCSeeks == {3}
MCFaults == [read |-> {{}, {"dataR"}}, write |-> {{}, {"dataR"}, {"dataW"}},
             other |-> {{}, {"dirR"}}]

Blank == [fat |-> [c \in Clusters |-> 0], dir |-> [s \in Slots |-> NoEntry],
          data |-> [c \in Clusters |-> Zeros], sec |-> NoSector, cache |-> NoCache,
          dirty |-> FALSE, err |-> FALSE]

WithFile ==
    [Blank EXCEPT !.fat[2] = 4, !.fat[4] = Eoc, !.data[2] = [u \in 0 .. 1 |-> a],
                  !.data[4] = [Zeros EXCEPT ![0] = b],
                  !.dir[1] = [name |-> x, cl |-> 2, size |-> 3, attr |-> "file"],
                  !.dir[2] = [name |-> y, cl |-> 0, size |-> 0, attr |-> "readonly"]]

Erased ==
    [Blank EXCEPT !.fat[2] = Eoc, !.data[2] = [Zeros EXCEPT ![0] = a],
                  !.data[3] = [u \in 0 .. 1 |-> b],
                  !.dir[1] = [name |-> label, cl |-> 0, size |-> 0, attr |-> "other"],
                  !.dir[2] = [name |-> x, cl |-> 2, size |-> 1, attr |-> "file"]]

Full ==
    [Blank EXCEPT !.fat = (2 :> 4) @@ (3 :> Eoc) @@ (4 :> 3), !.data[3] = [u \in 0 .. 1 |-> b],
                  !.data[4] = [u \in 0 .. 1 |-> a],
                  !.dir[1] = [name |-> y, cl |-> 0, size |-> 0, attr |-> "file"],
                  !.dir[2] = [name |-> x, cl |-> 2, size |-> 5, attr |-> "file"]]

MCImages == {Blank, WithFile, Erased, Full}

-----------------------------------------------------------------------------
VARIABLES
    board,
    image, fp, count, lba, status, error, cmd, writing, buf, pos, cur, left, first, moved,
    unsaved, commands,
    use, chVol, filename, file, remaining, chWriting, wbuf, wlen, listing, entry, haveEntry,
    place, disk, chLba, secLeft, secPos, secBuf, secReading, secWriting, astray, motion,
    button, lastButton, resp, int, intPending, flow, from, chMoved, owed, chMoves

(* The drive: two sectors of two bytes, a count of 0 asks for three. *)
I == INSTANCE Ide

(* The chip: an image with a lost cluster, a file that may grow by another *)
(* and no more room in the directory; chunks of two units.                 *)
MCMotions == {1, -3}
ChMoves == [files |-> 2, sectors |-> 3, mouse |-> 3]
ChImage ==
    [Blank EXCEPT !.fat = (2 :> Eoc) @@ (3 :> Eoc) @@ (4 :> 0),
                  !.data[3] = [u \in 0 .. 1 |-> a], !.data[4] = [Zeros EXCEPT ![0] = b],
                  !.dir[1] = [name |-> label, cl |-> 0, size |-> 0, attr |-> "other"],
                  !.dir[2] = [name |-> x, cl |-> 3, size |-> 2, attr |-> "file"]]

C == INSTANCE Ch376 WITH
       Images <- {ChImage}, Faults <- [data |-> {{}, {"dataR"}}, other |-> {{}}], Uses <- DOMAIN ChMoves,
       Matches <- {x}, NewNames <- {y}, Chunk <- 2, Lengths <- {3}, Seeks <- {1},
       Payload <- <<b, a, a>>, MaxMoves <- ChMoves,
       vol <- chVol, writing <- chWriting, lba <- chLba, moved <- chMoved, moves <- chMoves

ASSUME DriveAssumption == I!IdeAssumption
ASSUME ChipAssumption == C!Ch376Assumption

m4Vars == vars
ideVars == <<image, fp, count, lba, status, error, cmd, writing, buf, pos, cur, left, first,
             moved, unsaved, commands>>
chVars == <<use, chVol, filename, file, remaining, chWriting, wbuf, wlen, listing, entry,
            haveEntry, place, disk, chLba, secLeft, secPos, secBuf, secReading, secWriting,
            astray, motion, button, lastButton, resp, int, intPending, flow, from, chMoved, owed,
            chMoves>>
AtRest(b1) ==
    /\ b1 # "m4" => Init /\ vol = fat_mount(Blank) /\ ~readOnly
    /\ b1 # "ide" => /\ I!Init /\ ~fp
                     /\ image = [s \in 0 .. NumSectors - 1 |->
                                    [i \in 1 .. SectorBytes |-> CHOOSE byte \in Bytes : TRUE]]
    /\ b1 # "albireo" => /\ C!Init /\ use = "mouse"
                         /\ disk = [s \in C!Sectors |-> [i \in 1 .. SecChunks |-> CHOOSE p \in Parts : TRUE]]

StorageInit == /\ board \in {"m4", "ide", "albireo"} /\ AtRest(board)
               /\ board = "m4" => Init
               /\ board = "ide" => I!Init
               /\ board = "albireo" => C!Init

StorageNext ==
    /\ board' = board
    /\ \/ board = "m4" /\ Next /\ UNCHANGED <<ideVars, chVars>>
       \/ board = "ide" /\ I!Next /\ UNCHANGED <<m4Vars, chVars>>
       \/ board = "albireo" /\ C!Next /\ UNCHANGED <<m4Vars, ideVars>>

StorageSpec == StorageInit /\ [][StorageNext]_<<board, m4Vars, ideVars, chVars>>

(* Each board's state keeps its type, whatever fails. *)
StorageTypeOK == M4TypeOK /\ I!TypeOK /\ C!TypeOK

(* ide.c: the data register moves what the sectors hold. *)
DriveExact == I!SectorsExact

(* ch376.c: what is read and written of a file is its contents. *)
FilesExact == C!FilesExact

(* ch376.c: raw sectors are moved part by part, no motion is lost.         *)
AlbireoExact == C!SectorsExact /\ C!MotionKept

(* fat.h:142: "which is how UNIDOS implements renames" *)
RenameKeepsFile == C!RenameKeepsFile

(* What a step depends on: commands, answers and interrupts are only       *)
(* looked at, and err is reset before it is.                               *)
StateView ==
    <<board, [vol EXCEPT !.err = FALSE], mounted, readOnly, fds, seen, moves, ideVars, use,
      [chVol EXCEPT !.err = FALSE], filename, file, remaining, chWriting, wbuf, wlen, listing,
      haveEntry, IF haveEntry THEN <<entry, place>> ELSE <<>>, C!secVars, C!mouseVars, flow,
      from, chMoved, chMoves>>
=============================================================================
