----------------------------- MODULE Fdc_proofs -----------------------------
(* What Fdc promises, for every number of drives, images, tracks and       *)
(* sectors.                                                                *)
EXTENDS Fdc, NatFacts

-----------------------------------------------------------------------------
(* Tracks and the sectors of a transfer. *)

(* The first sector with an identifier the track has. *)
LEMMA FindSector ==
    ASSUME NEW tr \in Track, NEW id \in Ids, Has(tr, id)
    PROVE  Find(tr, id) \in DOMAIN tr /\ tr[Find(tr, id)].id = id
<1> DEFINE T == {i \in DOMAIN tr : tr[i].id = id}
<1>1. DOMAIN tr = 1 .. Len(tr) /\ Len(tr) \in Nat  BY DEF Track
<1>2. T \in SUBSET Nat /\ T # {}  BY <1>1 DEF Has
<1>3. PICK i \in T : \A j \in T : i <= j  BY <1>2, LeastNat
<1>4. i \in DOMAIN tr /\ tr[i].id = id  BY <1>3
<1>5. ASSUME NEW j \in 1 .. i - 1 PROVE tr[j].id # id
  <2>1. j \in 1 .. Len(tr) /\ ~(i <= j)  BY <1>1, <1>4
  <2>. QED  BY <2>1, <1>1, <1>3
<1>. QED  BY <1>4, <1>5 DEF Find

(* The sector numbers of a transfer are u8. *)
LEMMA NthIsId == \A first \in Ids : \A k \in Nat : Nth(first, k) \in Ids
<1>. SUFFICES ASSUME NEW first \in Ids, NEW k \in Nat PROVE Nth(first, k) \in Ids
  OBVIOUS
<1>1. first + k - 1 \in Int /\ IdMod \in Nat \ {0}  BY SizeAssumption DEF Ids
<1>. QED  BY <1>1, ModRange DEF Nth, Ids

(* No sector number comes twice before the count has gone round. *)
LEMMA NthInjective ==
    ASSUME NEW first \in Ids, NEW j \in 1 .. IdMod - 1, NEW k \in 1 .. IdMod - 1,
           Nth(first, j) = Nth(first, k)
    PROVE  j = k
<1>0. IdMod \in Nat \ {0} /\ first \in 0 .. IdMod - 1  BY SizeAssumption DEF Ids
<1>1. ASSUME NEW i \in 1 .. IdMod - 1
      PROVE  Nth(first, i) = IF first + i - 1 < IdMod THEN first + i - 1
                             ELSE first + i - 1 - IdMod
  <2>1. CASE first + i - 1 < IdMod
    <3>1. first + i - 1 \in 0 .. IdMod - 1  BY <1>0, <2>1
    <3>2. (first + i - 1) % IdMod = first + i - 1  BY <1>0, <3>1, ModSmall
    <3>. QED  BY <2>1, <3>2 DEF Nth
  <2>2. CASE ~(first + i - 1 < IdMod)
    <3>1. first + i - 1 - IdMod \in 0 .. IdMod - 1  BY <1>0, <2>2
    <3>2. (first + i - 1 - IdMod + IdMod) % IdMod = first + i - 1 - IdMod
      BY <1>0, <3>1, ModSmall
    <3>3. first + i - 1 - IdMod + IdMod = first + i - 1  BY <1>0
    <3>. QED  BY <2>2, <3>2, <3>3 DEF Nth
  <2>. QED  BY <2>1, <2>2
<1>. QED  BY <1>0, <1>1

(* A transfer finds every sector it counts, and fewer than there are       *)
(* numbers.                                                                *)
LEMMA RunFinds ==
    ASSUME NEW tr, NEW first \in Ids, NEW eot \in Ids
    PROVE  /\ RunLength(tr, first, eot) \in 0 .. IdMod - 1
           /\ \A j \in 1 .. RunLength(tr, first, eot) :
                 Nth(first, j) <= eot /\ Has(tr, Nth(first, j))
<1> DEFINE found(k) == \A j \in 1 .. k : Nth(first, j) <= eot /\ Has(tr, Nth(first, j))
           T == {n \in 0 .. IdMod - 1 : found(n)}
<1>0. IdMod - 1 \in Nat  BY SizeAssumption
<1>1. T \in SUBSET (0 .. IdMod - 1) /\ T # {}
  <2>1. found(0) /\ 0 \in 0 .. IdMod - 1  BY <1>0
  <2>. QED  BY <2>1
<1>2. PICK n \in T : \A m \in T : m <= n  BY <1>0, <1>1, GreatestNat
<1>3. n = IdMod - 1 \/ ~found(n + 1)
  <2>1. SUFFICES ASSUME n # IdMod - 1 PROVE n + 1 \notin T  BY <1>0, <1>2
  <2>2. n \in 0 .. IdMod - 1 /\ ~(n + 1 <= n)  BY <1>0, <1>2
  <2>. QED  BY <1>2, <2>2
<1>4. n \in 0 .. IdMod - 1 /\ found(n)  BY <1>2
<1>. HIDE DEF T
<1>5. RunLength(tr, first, eot) \in 0 .. IdMod - 1 /\ found(RunLength(tr, first, eot))
  <2>. DEFINE Good(m) == found(m) /\ (m = IdMod - 1 \/ ~found(m + 1))
  <2>1. RunLength(tr, first, eot) = CHOOSE m \in 0 .. IdMod - 1 : Good(m)
    BY DEF RunLength
  <2>2. Good(n) /\ n \in 0 .. IdMod - 1  BY <1>3, <1>4
  <2>. HIDE DEF Good
  <2>3. RunLength(tr, first, eot) \in 0 .. IdMod - 1 /\ Good(RunLength(tr, first, eot))
    BY <2>1, <2>2
  <2>. QED  BY <2>3 DEF Good
<1>. QED  BY <1>5

(* Nothing is found where no track is. *)
LEMMA RunOfNothing ==
    ASSUME NEW first \in Ids, NEW eot \in Ids
    PROVE  RunLength(<<>>, first, eot) = 0
<1>1. RunLength(<<>>, first, eot) \in 0 .. IdMod - 1  BY RunFinds
<1>2. RunLength(<<>>, first, eot) > 0 => Has(<<>>, Nth(first, 1))
  BY <1>1, RunFinds
<1>. QED  BY <1>1, <1>2 DEF Has

(* Writing sectors leaves a track a track, of the same length.             *)
LEMMA StoredTrack ==
    ASSUME NEW tr \in Track, NEW map, NEW first, NEW vals \in Seq(Data),
           NEW n \in 0 .. Len(vals)
    PROVE  /\ Stored(tr, map, first, vals, n) \in Track
           /\ Len(Stored(tr, map, first, vals, n)) = Len(tr)
<1> DEFINE st == Stored(tr, map, first, vals, n)
<1>1. DOMAIN tr = 1 .. Len(tr) /\ Len(tr) \in Nat  BY DEF Track
<1>2. DOMAIN vals = 1 .. Len(vals) /\ Len(vals) \in Nat  OBVIOUS
<1>3. DOMAIN st = 1 .. Len(tr)  BY <1>1 DEF Stored
<1>4. ASSUME NEW i \in 1 .. Len(tr) PROVE st[i] \in Sector
  <2>1. tr[i] \in Sector  BY <1>1 DEF Track
  <2>2. CASE \E k \in 1 .. n : Find(map, Nth(first, k)) = i
    <3> DEFINE k == CHOOSE k \in 1 .. n : Find(map, Nth(first, k)) = i
    <3>1. k \in 1 .. n  BY <2>2
    <3>2. vals[k] \in Data  BY <3>1, <1>2
    <3>3. st[i] = [tr[i] EXCEPT !.data = vals[k]]  BY <1>1, <2>2 DEF Stored
    <3>. HIDE DEF k, st
    <3>. QED  BY <2>1, <3>2, <3>3 DEF Sector
  <2>3. CASE ~\E k \in 1 .. n : Find(map, Nth(first, k)) = i
    <3>1. st[i] = tr[i]  BY <1>1, <2>3 DEF Stored
    <3>. QED  BY <2>1, <3>1
  <2>. QED  BY <2>2, <2>3
<1>5. st = [i \in 1 .. Len(tr) |-> st[i]]  BY <1>1 DEF Stored
<1>. HIDE DEF st
<1>6. st \in [1 .. Len(tr) -> Sector]  BY <1>4, <1>5
<1>7. st \in Seq(Sector) /\ Len(st) = Len(tr)  BY <1>1, <1>6
<1>. QED  BY <1>7 DEF Track, st

(* A track has a sector of this number with these contents. *)
Holds(tr, id, data) == \E i \in DOMAIN tr : tr[i] = [id |-> id, data |-> data]

(* Every sector of a transfer holds its own bytes afterwards.              *)
LEMMA StoredHolds ==
    ASSUME NEW tr \in Track, NEW first \in Ids, NEW vals, NEW n \in 0 .. IdMod - 1,
           \A j \in 1 .. n : Has(tr, Nth(first, j)), NEW k \in 1 .. n
    PROVE  Holds(Stored(tr, tr, first, vals, n), Nth(first, k), vals[k])
<1>0. IdMod \in Nat \ {0} /\ n \in Nat  BY SizeAssumption
<1>1. \A j \in 1 .. n : /\ Find(tr, Nth(first, j)) \in DOMAIN tr
                        /\ tr[Find(tr, Nth(first, j))].id = Nth(first, j)
  BY <1>0, NthIsId, FindSector
<1> DEFINE i == Find(tr, Nth(first, k))
           j == CHOOSE j \in 1 .. n : Find(tr, Nth(first, j)) = i
<1>2. i \in DOMAIN tr /\ tr[i].id = Nth(first, k)  BY <1>1
<1>3. j \in 1 .. n /\ Find(tr, Nth(first, j)) = i  OBVIOUS
<1>4. Nth(first, j) = Nth(first, k)  BY <1>1, <1>2, <1>3
<1>5. j \in 1 .. IdMod - 1 /\ k \in 1 .. IdMod - 1  BY <1>0, <1>3
<1>6. j = k  BY <1>4, <1>5, NthInjective
<1>7. Stored(tr, tr, first, vals, n)[i] = [tr[i] EXCEPT !.data = vals[j]]
  BY <1>2, <1>3 DEF Stored
<1>8. i \in DOMAIN Stored(tr, tr, first, vals, n)  BY <1>2 DEF Stored
<1>9. tr[i] \in Sector  BY <1>2 DEF Track
<1>. HIDE DEF i, j
<1>10. [tr[i] EXCEPT !.data = vals[j]] = [id |-> Nth(first, k), data |-> vals[k]]
  BY <1>2, <1>6, <1>9 DEF Sector
<1>. QED  BY <1>7, <1>8, <1>10 DEF Holds

-----------------------------------------------------------------------------
(* The invariant.  FdcOk is about the controller alone: the counters of    *)
(* each phase, and bytes of a write that are what its command takes.       *)
FdcOk(f) ==
    /\ f \in Fdc
    /\ f.phase = "CMD" => f.cmdPos < CmdLen[f.code]
    /\ f.phase # "CMD" => f.cmdPos = 0
    /\ f.phase = "EXEC" => f.execPos < f.execLen \/ f.execLen = 0
    /\ f.phase = "EXEC" /\ f.execWrite =>
         /\ Len(f.buf) = f.execPos
         /\ \/ f.code = "FORMAT" /\ f.buf \in Seq(Ids)
            \/ f.code = "WRITE" /\ f.buf \in Seq(Data)
    /\ f.phase # "CMD" => f.result.pos < f.result.len
    /\ f.resultDelay > 0 => f.phase = "RESULT" /\ f.result.pos = 0

(* Tracks that fit, in memory and in the files. *)
RoomyTrack == {tr \in Track : Len(tr) <= TrackRoom}

DriveOk(dr) == /\ dr \in Drive
               /\ dr.inserted => dr.img \in Images
               /\ \A t \in Cyls : dr.tracks[t] \in RoomyTrack

DiskInv == /\ drive \in [Drives -> Drive]
           /\ \A d \in Drives : DriveOk(drive[d])
           /\ file \in [Images -> [Cyls -> RoomyTrack]]

(* Two drives hold one image only if the user put it there twice. *)
Apart == OneDrivePerImage =>
            \A d, e \in Drives : d # e /\ drive[d].inserted /\ drive[e].inserted
                                 => drive[d].img # drive[e].img

Inv == FdcOk(fdc) /\ DiskInv

-----------------------------------------------------------------------------
(* The controller's records *)

LEMMA CmdLenType == CmdLen \in [Codes -> 1 .. 9]
BY DEF CmdLen, Codes

LEMMA ResetType == FdcOk(ResetFdc)
<1>1. (CHOOSE d \in Drives : TRUE) \in Drives  BY ValueAssumption
<1>2. NoResult \in Results  BY DEF NoResult, Results
<1>3. 0 \in Ids /\ 0 \in 0 .. MaxCyl  BY SizeAssumption DEF Ids
<1>4. "SPECIFY" \in Codes /\ CmdLen["SPECIFY"] = 3  BY DEF Codes, CmdLen
<1>5. <<>> \in Seq(Ids \cup Data \cup {Torn})  OBVIOUS
<1>6. ResetFdc \in Fdc  BY <1>1, <1>2, <1>3, <1>4, <1>5 DEF ResetFdc, Fdc
<1>. QED  BY <1>4, <1>6 DEF FdcOk, ResetFdc

(* A controller between two bytes of its command or transfer. *)
Free(f) == f \in Fdc /\ f.cmdPos = 0 /\ f.resultDelay = 0

LEMMA SetResult ==
    ASSUME NEW f, Free(f), NEW ic \in {"OK", "AT", "INV", "SE", "ST3"},
           NEW err \in SUBSET {"NR", "NW", "ND", "EN", "MA", "OR"}
    PROVE  FdcOk(set_result(f, ic, err)) /\ set_result(f, ic, err).phase = "RESULT"
<1> DEFINE r == [len |-> 7, pos |-> 0, ic |-> ic, err |-> err]
           g == set_result(f, ic, err)
<1>1. r \in Results  BY DEF Results
<1>2. g \in Fdc /\ g.phase = "RESULT" /\ g.cmdPos = 0 /\ g.resultDelay = 0 /\ g.result = r
  <2>1. g = [f EXCEPT !.phase = "RESULT", !.result = r]  BY DEF set_result
  <2>. HIDE DEF g, r
  <2>. QED  BY <1>1, <2>1 DEF Free, Fdc
<1>. QED  BY <1>2 DEF FdcOk

LEMMA SetShortResult ==
    ASSUME NEW f, Free(f), NEW n \in 1 .. 7, NEW ic \in {"OK", "AT", "INV", "SE", "ST3"}
    PROVE  /\ FdcOk(ShortResult(f, n, ic)) /\ ShortResult(f, n, ic).phase = "RESULT"
           /\ ShortResult(f, n, ic).seekDone = f.seekDone
           /\ ShortResult(f, n, ic).lastDrv = f.lastDrv
           /\ ShortResult(f, n, ic).lastPcn = f.lastPcn
<1> DEFINE r == [len |-> n, pos |-> 0, ic |-> ic, err |-> {}]
           g == ShortResult(f, n, ic)
<1>1. r \in Results  BY DEF Results
<1>2. g = [f EXCEPT !.phase = "RESULT", !.result = r]  BY DEF ShortResult
<1>3. r.pos < r.len  OBVIOUS
<1>. HIDE DEF g, r
<1>4. /\ g \in Fdc /\ g.phase = "RESULT" /\ g.cmdPos = 0 /\ g.resultDelay = 0
      /\ g.result = r /\ g.seekDone = f.seekDone /\ g.lastDrv = f.lastDrv
      /\ g.lastPcn = f.lastPcn
  BY <1>1, <1>2 DEF Free, Fdc
<1>5. FdcOk(g)  BY <1>3, <1>4 DEF FdcOk
<1>. QED  BY <1>4, <1>5 DEF g

LEMMA DoneOk ==
    ASSUME NEW f \in Fdc
    PROVE  /\ FdcOk(Done(f)) /\ Done(f).phase = "CMD" /\ Done(f).resultDelay = 0
           /\ Done(f).seekDone = f.seekDone
           /\ Done(f).lastDrv = f.lastDrv /\ Done(f).lastPcn = f.lastPcn
<1>1. ResetFdc \in Fdc /\ FdcOk(ResetFdc)  BY ResetType DEF FdcOk
<1>2. /\ ResetFdc.phase = "CMD" /\ ResetFdc.resultDelay = 0 /\ ResetFdc.cmdPos = 0
      /\ ResetFdc.code = "SPECIFY"
  BY DEF ResetFdc
<1>3. CmdLen["SPECIFY"] = 3  BY DEF Codes, CmdLen
<1> DEFINE g == Done(f)
<1>4. g = [ResetFdc EXCEPT !.statusDelay = f.statusDelay, !.seekDone = f.seekDone,
                           !.lastDrv = f.lastDrv, !.lastPcn = f.lastPcn]
  BY DEF Done
<1>. HIDE DEF g
<1>5. /\ g \in Fdc /\ g.phase = "CMD" /\ g.resultDelay = 0 /\ g.cmdPos = 0
      /\ g.code = "SPECIFY" /\ g.seekDone = f.seekDone
      /\ g.lastDrv = f.lastDrv /\ g.lastPcn = f.lastPcn
  BY <1>1, <1>2, <1>4 DEF Fdc
<1>6. FdcOk(g)  BY <1>3, <1>5 DEF FdcOk
<1>. QED  BY <1>5, <1>6 DEF g

-----------------------------------------------------------------------------
(* The drives: commands that transfer nothing to the disk move heads only. *)

HeadMoved ==
    /\ DiskInv'
    /\ file' = file
    /\ \A d \in Drives : /\ drive'[d].inserted = drive[d].inserted
                         /\ drive'[d].wp = drive[d].wp
                         /\ drive'[d].img = drive[d].img
                         /\ drive'[d].tracks = drive[d].tracks

LEMMA HeadStays ==
    ASSUME DiskInv, UNCHANGED <<drive, file>>
    PROVE  HeadMoved
BY DEF DiskInv, DriveOk, HeadMoved

LEMMA HeadMoves ==
    ASSUME DiskInv, UNCHANGED file, NEW d \in Drives,
           NEW cyl \in 0 .. MaxCyl, NEW rot \in 0 .. TrackRoom - 1,
           \/ drive' = [drive EXCEPT ![d].cyl = cyl]
           \/ drive' = [drive EXCEPT ![d].rot = rot]
    PROVE  HeadMoved
<1>1. drive \in [Drives -> Drive]  BY DEF DiskInv
<1>2. ASSUME NEW e \in Drives
      PROVE  /\ drive'[e] \in Drive
             /\ drive'[e].inserted = drive[e].inserted /\ drive'[e].wp = drive[e].wp
             /\ drive'[e].img = drive[e].img /\ drive'[e].tracks = drive[e].tracks
  <2>1. drive[e] \in Drive  BY <1>1
  <2>2. \/ drive'[e] = drive[e]
        \/ drive'[e] = [drive[e] EXCEPT !.cyl = cyl]
        \/ drive'[e] = [drive[e] EXCEPT !.rot = rot]
    BY <1>1
  <2>. QED  BY <2>1, <2>2 DEF Drive
<1>3. drive' \in [Drives -> Drive]
  <2>1. drive' = [e \in Drives |-> drive'[e]]  BY <1>1
  <2>. QED  BY <1>2, <2>1
<1>4. \A e \in Drives : DriveOk(drive'[e])  BY <1>2 DEF DiskInv, DriveOk
<1>. QED  BY <1>2, <1>3, <1>4 DEF DiskInv, HeadMoved

(* The track under a head is empty or fits. *)
LEMMA UnderHeadTrack ==
    ASSUME NEW dr, DriveOk(dr)
    PROVE  UnderHead(dr) \in RoomyTrack
<1>1. <<>> \in RoomyTrack
  <2>1. <<>> \in Seq(Sector) /\ Len(<<>>) = 0  OBVIOUS
  <2>. QED  BY <2>1, SizeAssumption DEF RoomyTrack, Track
<1>. QED  BY <1>1 DEF UnderHead, DriveOk
-----------------------------------------------------------------------------
(* Commands.  f is the controller with its command complete.               *)

Ready(f) == Free(f) /\ f.phase = "CMD"

(* A seek interrupt stays what it was, or is taken, or is a fresh one.     *)
SeekKept(f) ==
    \/ /\ fdc'.seekDone => /\ f.seekDone
                           /\ fdc'.lastDrv = f.lastDrv /\ fdc'.lastPcn = f.lastPcn
       /\ \A d \in Drives : drive'[d].cyl = drive[d].cyl
    \/ fdc'.seekDone /\ fdc'.lastDrv \in Drives /\ drive'[fdc'.lastDrv].cyl = fdc'.lastPcn

LEMMA SetResultSeek ==
    ASSUME NEW f, Free(f), NEW ic, NEW err
    PROVE  /\ set_result(f, ic, err).seekDone = f.seekDone
           /\ set_result(f, ic, err).lastDrv = f.lastDrv
           /\ set_result(f, ic, err).lastPcn = f.lastPcn
BY DEF set_result, Free, Fdc

(* What every command comes to: a sound controller, a true seek interrupt, *)
(* heads moved at most. *)
Commanded(f) == FdcOk(fdc') /\ HeadMoved /\ SeekKept(f)

LEMMA ResultCommand ==
    ASSUME NEW f, Free(f), DiskInv, UNCHANGED file, UNCHANGED drive,
           NEW ic \in {"OK", "AT", "INV", "SE", "ST3"},
           NEW err \in SUBSET {"NR", "NW", "ND", "EN", "MA", "OR"},
           fdc' = set_result(f, ic, err)
    PROVE  Commanded(f)
<1>1. FdcOk(fdc')  BY SetResult
<1>2. HeadMoved  BY HeadStays
<1>3. SeekKept(f)  BY SetResultSeek DEF SeekKept
<1>. QED  BY <1>1, <1>2, <1>3 DEF Commanded

LEMMA ShortCommand ==
    ASSUME NEW f, Free(f), DiskInv, UNCHANGED file, UNCHANGED drive,
           NEW n \in 1 .. 7, NEW ic \in {"OK", "AT", "INV", "SE", "ST3"},
           fdc' = ShortResult(f, n, ic)
    PROVE  Commanded(f)
<1>1. FdcOk(fdc')  BY SetShortResult
<1>2. HeadMoved  BY HeadStays
<1>3. SeekKept(f)  BY SetShortResult DEF SeekKept
<1>. QED  BY <1>1, <1>2, <1>3 DEF Commanded

LEMMA SpecifyCommand ==
    ASSUME NEW f, Ready(f), DiskInv, UNCHANGED file, Specify(f)
    PROVE  Commanded(f)
<1>1. f \in Fdc  BY DEF Ready, Free
<1>2. FdcOk(fdc')  BY <1>1, DoneOk DEF Specify
<1>3. HeadMoved  BY HeadStays DEF Specify
<1>4. SeekKept(f)  BY <1>1, DoneOk DEF SeekKept, Specify
<1>. QED  BY <1>2, <1>3, <1>4 DEF Commanded

LEMMA SeekCommand ==
    ASSUME NEW f, Ready(f), DiskInv, UNCHANGED file,
           NEW d \in Drives, NEW cyl \in 0 .. MaxCyl, SeekTo(f, d, cyl)
    PROVE  Commanded(f)
<1>1. Done(f) \in Fdc /\ FdcOk(Done(f)) /\ Done(f).phase = "CMD"
  BY DoneOk DEF Ready, Free, FdcOk
<1>2. /\ fdc' = [Done(f) EXCEPT !.seekDone = TRUE, !.lastDrv = d, !.lastPcn = cyl]
      /\ drive' = [drive EXCEPT ![d].cyl = cyl]
  BY DEF SeekTo
<1>3. /\ fdc' \in Fdc /\ fdc'.seekDone /\ fdc'.lastDrv = d /\ fdc'.lastPcn = cyl
      /\ fdc'.phase = "CMD" /\ fdc'.cmdPos = Done(f).cmdPos /\ fdc'.code = Done(f).code
      /\ fdc'.resultDelay = Done(f).resultDelay
  BY <1>1, <1>2 DEF Fdc
<1>4. FdcOk(fdc')  BY <1>1, <1>3 DEF FdcOk
<1>5. 0 \in 0 .. TrackRoom - 1  BY SizeAssumption
<1>6. HeadMoved  BY <1>2, <1>5, HeadMoves
<1>7. drive[d] \in Drive /\ drive \in [Drives -> Drive]  BY DEF DiskInv
<1>8. drive'[d].cyl = cyl  BY <1>2, <1>7 DEF Drive
<1>9. SeekKept(f)  BY <1>3, <1>8 DEF SeekKept
<1>. QED  BY <1>4, <1>6, <1>9 DEF Commanded

LEMMA SenseIntCommand ==
    ASSUME NEW f, Ready(f), DiskInv, UNCHANGED file, SenseInt(f)
    PROVE  Commanded(f)
<1>1. CASE ~f.seekDone
  BY <1>1, ShortCommand DEF SenseInt, Ready
<1>2. CASE f.seekDone
  <2> DEFINE g == ShortResult(f, 2, "SE")
  <2>1. FdcOk(g) /\ g.phase = "RESULT"  BY SetShortResult DEF Ready
  <2>2. fdc' = [g EXCEPT !.seekDone = FALSE]  BY <1>2 DEF SenseInt
  <2>. HIDE DEF g
  <2>3. /\ fdc' \in Fdc /\ ~fdc'.seekDone /\ fdc'.phase = "RESULT"
        /\ fdc'.cmdPos = g.cmdPos /\ fdc'.result = g.result
        /\ fdc'.resultDelay = g.resultDelay
    BY <2>1, <2>2 DEF Fdc, FdcOk
  <2>4. FdcOk(fdc')  BY <2>1, <2>3 DEF FdcOk
  <2>5. HeadMoved  BY HeadStays DEF SenseInt
  <2>6. SeekKept(f)  BY <2>3 DEF SeekKept, SenseInt
  <2>. QED  BY <2>4, <2>5, <2>6 DEF Commanded
<1>. QED  BY <1>1, <1>2

LEMMA ReadIdCommand ==
    ASSUME NEW f, Ready(f), DiskInv, UNCHANGED file, NEW d \in Drives, ReadId(f, d)
    PROVE  Commanded(f)
<1> DEFINE tr == UnderHead(drive[d])
<1>1. DriveOk(drive[d]) /\ drive[d] \in Drive /\ drive \in [Drives -> Drive]
  BY DEF DiskInv
<1>2. tr \in Track /\ Len(tr) <= TrackRoom  BY <1>1, UnderHeadTrack DEF RoomyTrack
<1>3. Free(f)  BY DEF Ready
<1>4. CASE UNCHANGED drive
  BY <1>3, <1>4, ResultCommand DEF ReadId
<1>5. CASE ~UNCHANGED drive
  <2>1. /\ tr # <<>> /\ fdc' = set_result(f, "OK", {})
        /\ drive' = [drive EXCEPT ![d].rot = NextSector(@, tr)]
    BY <1>5 DEF ReadId
  <2>2. NextSector(drive[d].rot, tr) \in 0 .. TrackRoom - 1
    <3>1. Len(tr) \in Nat \ {0}  BY <1>2, <2>1 DEF Track
    <3>2. drive[d].rot + 1 \in Int  BY <1>1, SizeAssumption DEF Drive
    <3>3. (drive[d].rot + 1) % Len(tr) \in 0 .. Len(tr) - 1  BY <3>1, <3>2, ModRange
    <3>4. TrackRoom \in Nat  BY SizeAssumption
    <3>. QED  BY <1>2, <3>1, <3>3, <3>4 DEF NextSector
  <2> DEFINE rot == NextSector(drive[d].rot, tr)
  <2>3. drive' = [drive EXCEPT ![d].rot = rot]  BY <1>1, <2>1
  <2>4. 0 \in 0 .. MaxCyl  BY SizeAssumption
  <2>. HIDE DEF rot, tr
  <2>5. HeadMoved  BY <2>2, <2>3, <2>4, HeadMoves DEF rot
  <2>6. FdcOk(fdc')  BY <1>3, <2>1, SetResult
  <2>7. \A e \in Drives : drive'[e].cyl = drive[e].cyl  BY <1>1, <2>3 DEF DiskInv, Drive
  <2>8. SeekKept(f)  BY <1>3, <2>1, <2>7, SetResultSeek DEF SeekKept
  <2>. QED  BY <2>5, <2>6, <2>8 DEF Commanded
<1>. QED  BY <1>4, <1>5
LEMMA ReadCommand ==
    ASSUME NEW f, Ready(f), DiskInv, UNCHANGED file, NEW d \in Drives,
           NEW first \in Ids, NEW eot \in Ids, ReadData(f, d, first, eot)
    PROVE  Commanded(f)
<1> DEFINE tr   == UnderHead(drive[d])
           run  == RunLength(tr, first, eot)
           miss == Nth(first, run + 1) <= eot
           len  == AtMost(run, ExecBuf)
           err  == {"EN"} \cup (IF miss THEN {"ND"} ELSE {})
           buf  == [k \in 1 .. len |-> tr[Find(tr, Nth(first, k))].data]
           res  == [len |-> 7, pos |-> 0, ic |-> "AT", err |-> err]
<1>1. Free(f) /\ UNCHANGED drive  BY DEF Ready, ReadData
<1>2. CASE ~drive[d].inserted
  <2>1. fdc' = set_result(f, "AT", {"NR"})  BY <1>2 DEF ReadData
  <2>. QED  BY <1>1, <2>1, ResultCommand
<1>3. CASE drive[d].inserted /\ run = 0 /\ miss
  <2>1. fdc' = set_result(f, "AT", {"ND"})  BY <1>3 DEF ReadData
  <2>. QED  BY <1>1, <2>1, ResultCommand
<1>4. CASE drive[d].inserted /\ ~(run = 0 /\ miss)
  <2>1. tr \in Track
    <3>1. DriveOk(drive[d])  BY DEF DiskInv
    <3>. QED  BY <3>1, UnderHeadTrack DEF RoomyTrack
  <2>2. run \in 0 .. IdMod - 1 /\ \A j \in 1 .. run : Has(tr, Nth(first, j))
    BY RunFinds
  <2>3. len \in Nat /\ len <= run
    BY <2>2, SizeAssumption DEF AtMost
  <2>4. buf \in Seq(Ids \cup Data \cup {Torn}) /\ Len(buf) = len
    <3>1. ASSUME NEW k \in 1 .. len PROVE tr[Find(tr, Nth(first, k))].data \in Data \cup {Torn}
      <4>1. k \in 1 .. run /\ k \in Nat  BY <2>2, <2>3
      <4>2. Has(tr, Nth(first, k)) /\ Nth(first, k) \in Ids  BY <2>2, <4>1, NthIsId
      <4>3. Find(tr, Nth(first, k)) \in DOMAIN tr  BY <2>1, <4>2, FindSector
      <4>4. tr[Find(tr, Nth(first, k))] \in Sector  BY <2>1, <4>3 DEF Track
      <4>. QED  BY <4>4 DEF Sector
    <3>. HIDE DEF tr, len
    <3>2. buf \in [1 .. len -> Ids \cup Data \cup {Torn}]  BY <3>1
    <3>. QED  BY <2>3, <3>2
  <2>5. res \in Results  BY DEF Results
  <2>6. fdc' = [f EXCEPT !.phase = "EXEC", !.drv = d, !.execWrite = FALSE, !.buf = buf,
                         !.execLen = len, !.execPos = 0, !.statusDelay = TRUE,
                         !.result = res]
    BY <1>4 DEF ReadData
  <2>. HIDE DEF buf, len, res, run, miss, tr
  <2>7. /\ fdc' \in Fdc /\ fdc'.phase = "EXEC" /\ fdc'.cmdPos = 0 /\ ~fdc'.execWrite
        /\ fdc'.execLen = len /\ fdc'.execPos = 0 /\ fdc'.resultDelay = 0
        /\ fdc'.result = res /\ fdc'.seekDone = f.seekDone /\ fdc'.lastDrv = f.lastDrv /\ fdc'.lastPcn = f.lastPcn
    BY <1>1, <2>3, <2>4, <2>5, <2>6 DEF Fdc, Free
  <2>8. FdcOk(fdc')  BY <2>3, <2>7 DEF FdcOk, res
  <2>9. HeadMoved  BY <1>1, HeadStays
  <2>10. SeekKept(f)  BY <1>1, <2>7 DEF SeekKept
  <2>. QED  BY <2>8, <2>9, <2>10 DEF Commanded
<1>. QED  BY <1>2, <1>3, <1>4

LEMMA RefusedCommand ==
    ASSUME NEW f, Ready(f), DiskInv, UNCHANGED file, NEW d \in Drives, Refused(f, d)
    PROVE  Commanded(f)
BY ResultCommand DEF Refused, Ready

LEMMA AwaitCommand ==
    ASSUME NEW f, Ready(f), f.code \in {"WRITE", "FORMAT"}, DiskInv, UNCHANGED file,
           NEW d \in Drives, NEW first \in Ids, NEW eot \in Ids, NEW len \in Nat,
           AwaitBytes(f, d, first, eot, len)
    PROVE  Commanded(f)
<1> DEFINE res == [len |-> 7, pos |-> 0, ic |-> "OK", err |-> {}]
<1>1. Free(f) /\ UNCHANGED drive  BY DEF Ready, AwaitBytes
<1>2. res \in Results  BY DEF Results
<1>3. /\ <<>> \in Seq(Ids \cup Data \cup {Torn}) /\ <<>> \in Seq(Ids) /\ <<>> \in Seq(Data)
      /\ Len(<<>>) = 0
  OBVIOUS
<1>4. fdc' = [f EXCEPT !.phase = "EXEC", !.drv = d, !.first = first, !.eot = eot,
                       !.execWrite = TRUE, !.buf = <<>>, !.execLen = len, !.execPos = 0,
                       !.result = res]
  BY DEF AwaitBytes
<1>. HIDE DEF res
<1>5. /\ fdc' \in Fdc /\ fdc'.phase = "EXEC" /\ fdc'.cmdPos = 0 /\ fdc'.code = f.code
      /\ fdc'.execLen = len /\ fdc'.execPos = 0 /\ fdc'.resultDelay = 0 /\ fdc'.buf = <<>>
      /\ fdc'.result = res
      /\ fdc'.seekDone = f.seekDone /\ fdc'.lastDrv = f.lastDrv /\ fdc'.lastPcn = f.lastPcn
  BY <1>1, <1>2, <1>3, <1>4 DEF Fdc, Free
<1>6. FdcOk(fdc')  BY <1>3, <1>5 DEF FdcOk, res
<1>7. HeadMoved  BY <1>1, HeadStays
<1>8. SeekKept(f)  BY <1>1, <1>5 DEF SeekKept
<1>. QED  BY <1>6, <1>7, <1>8 DEF Commanded

LEMMA WriteCommand ==
    ASSUME NEW f, Ready(f), f.code = "WRITE", DiskInv, UNCHANGED file, NEW d \in Drives,
           NEW first \in Ids, NEW eot \in Ids, WriteData(f, d, first, eot)
    PROVE  Commanded(f)
<1>1. CASE ~drive[d].inserted \/ drive[d].wp
  BY <1>1, RefusedCommand DEF WriteData
<1>2. CASE ~(~drive[d].inserted \/ drive[d].wp)
  <2> DEFINE len == AtMost(RunLength(UnderHead(drive[d]), first, eot), ExecBuf)
  <2>1. RunLength(UnderHead(drive[d]), first, eot) \in 0 .. IdMod - 1  BY RunFinds
  <2>2. len \in Nat  BY <2>1, SizeAssumption DEF AtMost
  <2>3. AwaitBytes(f, d, first, eot, len)  BY <1>2 DEF WriteData
  <2>. HIDE DEF len
  <2>. QED  BY <2>2, <2>3, AwaitCommand
<1>. QED  BY <1>1, <1>2

LEMMA FormatCommand ==
    ASSUME NEW f, Ready(f), f.code = "FORMAT", DiskInv, UNCHANGED file, NEW d \in Drives,
           NEW sc \in 0 .. MaxSectors + 1, FormatTrack(f, d, sc)
    PROVE  Commanded(f)
<1>1. CASE ~drive[d].inserted \/ drive[d].wp
  BY <1>1, RefusedCommand DEF FormatTrack
<1>2. CASE ~(~drive[d].inserted \/ drive[d].wp) /\ (sc = 0 \/ sc > MaxSectors)
  BY <1>2, ResultCommand DEF FormatTrack, Ready
<1>3. CASE ~(~drive[d].inserted \/ drive[d].wp) /\ ~(sc = 0 \/ sc > MaxSectors)
  <2>1. AwaitBytes(f, d, 0, 0, sc)  BY <1>3 DEF FormatTrack
  <2>2. sc \in Nat /\ 0 \in Ids  BY SizeAssumption DEF Ids
  <2>. QED  BY <2>1, <2>2, AwaitCommand
<1>. QED  BY <1>1, <1>2, <1>3

LEMMA ExecCmd ==
    ASSUME NEW f, Ready(f), DiskInv, UNCHANGED file, exec_cmd(f)
    PROVE  Commanded(f)
<1>1. CASE f.code = "SPECIFY" /\ Specify(f)  BY <1>1, SpecifyCommand
<1>2. CASE f.code = "SENSE_DRIVE" /\ SenseDrive(f)
  BY <1>2, ShortCommand DEF SenseDrive, Ready
<1>3. CASE f.code = "SENSE_INT" /\ SenseInt(f)  BY <1>3, SenseIntCommand
<1>4. CASE f.code \in {"READ_TRACK", "INVALID"} /\ set_invalid(f)
  BY <1>4, ShortCommand DEF set_invalid, Ready
<1>5. ASSUME NEW d \in Drives, f.code = "RECALIBRATE", SeekTo(f, d, 0) PROVE Commanded(f)
  BY <1>5, SizeAssumption, SeekCommand
<1>6. ASSUME NEW d \in Drives, NEW cyl \in 0 .. MaxCyl, SeekTo(f, d, cyl)
      PROVE  Commanded(f)
  BY <1>6, SeekCommand
<1>7. ASSUME NEW d \in Drives, ReadId(f, d) PROVE Commanded(f)  BY <1>7, ReadIdCommand
<1>8. ASSUME NEW d \in Drives, NEW first \in Ids, NEW eot \in Ids, ReadData(f, d, first, eot)
      PROVE  Commanded(f)
  BY <1>8, ReadCommand
<1>9. ASSUME NEW d \in Drives, NEW first \in Ids, NEW eot \in Ids,
             f.code = "WRITE", WriteData(f, d, first, eot)
      PROVE  Commanded(f)
  BY <1>9, WriteCommand
<1>10. ASSUME NEW d \in Drives, NEW sc \in 0 .. MaxSectors + 1,
              f.code = "FORMAT", FormatTrack(f, d, sc)
       PROVE  Commanded(f)
  BY <1>10, FormatCommand
<1>. QED  BY <1>1, <1>2, <1>3, <1>4, <1>5, <1>6, <1>7, <1>8, <1>9, <1>10 DEF exec_cmd
-----------------------------------------------------------------------------
(* The end of a write.  f is the controller with its buffer full.          *)

Full(f) == /\ Free(f) /\ f.phase = "EXEC" /\ f.execLen <= Len(f.buf)
           /\ \/ f.code = "FORMAT" /\ f.buf \in Seq(Ids)
              \/ f.code = "WRITE" /\ f.buf \in Seq(Data)

Mirror(d) == \A t \in Cyls : drive[d].tracks[t] \in {<<>>, file[drive[d].img][t]}

(* The disk in drive d was written to: it was writable, its file alone and *)
(* its own tracks alone changed, alike unless it is protected now.         *)
Wrote(d) ==
    /\ DiskInv'
    /\ drive[d].inserted /\ ~drive[d].wp
    /\ \A i \in Images : i # drive[d].img => file'[i] = file[i]
    /\ \A e \in Drives : e # d => drive'[e] = drive[e]
    /\ drive'[d].inserted /\ drive'[d].img = drive[d].img /\ drive'[d].cyl = drive[d].cyl
    /\ Mirror(d) => drive'[d].wp \/ Mirror(d)'

LEMMA DiskWrite ==
    ASSUME DiskInv, NEW d \in Drives, drive[d].inserted, ~drive[d].wp,
           drive[d].cyl \in Cyls, NEW tr \in RoomyTrack, NEW mem \in RoomyTrack,
           NEW nd \in Drive,
           nd.inserted, nd.img = drive[d].img, nd.cyl = drive[d].cyl,
           nd.tracks = [drive[d].tracks EXCEPT ![drive[d].cyl] = mem],
           nd.wp \/ (Mirror(d) => mem = tr),
           file' = [file EXCEPT ![drive[d].img][drive[d].cyl] = tr],
           drive' = [drive EXCEPT ![d] = nd]
    PROVE  Wrote(d)
<1> DEFINE img == drive[d].img
           cyl == drive[d].cyl
<1>1. /\ drive \in [Drives -> Drive] /\ file \in [Images -> [Cyls -> RoomyTrack]]
      /\ DriveOk(drive[d]) /\ img \in Images /\ cyl \in Cyls
  BY DEF DiskInv, DriveOk
<1>2. drive'[d] = nd /\ \A e \in Drives : e # d => drive'[e] = drive[e]  BY <1>1
<1>3. file' = [file EXCEPT ![img] = [file[img] EXCEPT ![cyl] = tr]]  BY <1>1
<1>4. file[img] \in [Cyls -> RoomyTrack]  BY <1>1
<1>5. [file[img] EXCEPT ![cyl] = tr] \in [Cyls -> RoomyTrack]  BY <1>1, <1>4
<1>6. /\ file' \in [Images -> [Cyls -> RoomyTrack]]
      /\ file'[img] = [file[img] EXCEPT ![cyl] = tr]
      /\ \A i \in Images : i # img => file'[i] = file[i]
  BY <1>1, <1>3, <1>5
<1>7. drive[d].tracks \in [Cyls -> Track]  BY <1>1 DEF Drive
<1>8. \A t \in Cyls : nd.tracks[t] = IF t = cyl THEN mem ELSE drive[d].tracks[t]
  BY <1>1, <1>7
<1>9. DriveOk(nd)  BY <1>1, <1>8 DEF DriveOk
<1>10. drive' \in [Drives -> Drive] /\ \A e \in Drives : DriveOk(drive'[e])
  BY <1>1, <1>2, <1>9 DEF DiskInv
<1>11. ASSUME Mirror(d), ~nd.wp PROVE Mirror(d)'
  <2>1. mem = tr  BY <1>11
  <2>2. ASSUME NEW t \in Cyls PROVE nd.tracks[t] \in {<<>>, file'[img][t]}
    <3>1. CASE t = cyl  BY <1>1, <1>4, <1>6, <1>8, <2>1, <3>1
    <3>2. CASE t # cyl
      <4>1. file'[img][t] = file[img][t]  BY <1>4, <1>6, <3>2
      <4>2. nd.tracks[t] = drive[d].tracks[t]  BY <1>8, <3>2
      <4>. QED  BY <1>11, <4>1, <4>2 DEF Mirror
    <3>. QED  BY <3>1, <3>2
  <2>. QED  BY <1>2, <2>2 DEF Mirror
<1>. HIDE DEF img, cyl
<1>12. DiskInv'  BY <1>6, <1>10 DEF DiskInv
<1>. QED  BY <1>2, <1>6, <1>11, <1>12 DEF Wrote, img

(* What the end of a write comes to. *)
Ended(f) == /\ FdcOk(fdc')
            /\ HeadMoved \/ \E d \in Drives : Wrote(d)
            /\ fdc'.seekDone = f.seekDone
            /\ fdc'.lastDrv = f.lastDrv /\ fdc'.lastPcn = f.lastPcn
            /\ \A d \in Drives : drive'[d].cyl = drive[d].cyl

LEMMA EndedUnwritten ==
    ASSUME NEW f, Free(f), DiskInv, UNCHANGED <<drive, file>>,
           NEW ic \in {"OK", "AT", "INV", "SE", "ST3"},
           NEW err \in SUBSET {"NR", "NW", "ND", "EN", "MA", "OR"},
           fdc' = set_result(f, ic, err)
    PROVE  Ended(f)
<1>1. FdcOk(fdc')  BY SetResult
<1>2. HeadMoved  BY HeadStays
<1>. QED  BY <1>1, <1>2, SetResultSeek DEF Ended

LEMMA EndedWritten ==
    ASSUME NEW f, Free(f), DiskInv, NEW d \in Drives, Wrote(d),
           NEW ic \in {"OK", "AT", "INV", "SE", "ST3"},
           NEW err \in SUBSET {"NR", "NW", "ND", "EN", "MA", "OR"},
           fdc' = set_result(f, ic, err)
    PROVE  Ended(f)
<1>1. FdcOk(fdc')  BY SetResult
<1>2. \A e \in Drives : drive'[e].cyl = drive[e].cyl  BY DEF Wrote
<1>. QED  BY <1>1, <1>2, SetResultSeek DEF Ended

(* The sectors of a WRITE lie under the head, and there is data for them.  *)
LEMMA WrittenFound ==
    ASSUME NEW f, Full(f), DiskInv
    PROVE  /\ f.drv \in Drives /\ f.first \in Ids
           /\ Written(f) \in 0 .. Len(f.buf) /\ Written(f) \in 0 .. IdMod - 1
           /\ \A j \in 1 .. Written(f) : Has(UnderHead(drive[f.drv]), Nth(f.first, j))
           /\ Written(f) > 0 => /\ drive[f.drv].cyl \in Cyls
                                /\ UnderHead(drive[f.drv]) =
                                      drive[f.drv].tracks[drive[f.drv].cyl]
                                /\ UnderHead(drive[f.drv]) # <<>>
<1> DEFINE tr  == UnderHead(drive[f.drv])
           run == RunLength(tr, f.first, f.eot)
<1>1. f.drv \in Drives /\ f.first \in Ids /\ f.eot \in Ids /\ f.execLen \in Nat
  BY DEF Full, Free, Fdc
<1>2. run \in 0 .. IdMod - 1 /\ \A j \in 1 .. run : Has(tr, Nth(f.first, j))
  BY <1>1, RunFinds
<1>3. Written(f) \in Nat /\ Written(f) <= run /\ Written(f) <= f.execLen
  BY <1>1, <1>2 DEF Written, AtMost
<1>4. tr = <<>> => run = 0  BY <1>1, RunOfNothing
<1>5. f.execLen <= Len(f.buf) /\ Len(f.buf) \in Nat
  <2>1. f.buf \in Seq(Ids) \/ f.buf \in Seq(Data)  BY DEF Full
  <2>2. Len(f.buf) \in Nat  BY <2>1
  <2>. QED  BY <2>2 DEF Full
<1>6. tr # <<>> => drive[f.drv].cyl \in Cyls /\ tr = drive[f.drv].tracks[drive[f.drv].cyl]
  BY DEF UnderHead
<1>. HIDE DEF tr, run
<1>7. Written(f) > 0 => tr # <<>>  BY <1>2, <1>3, <1>4
<1>8. \A j \in 1 .. Written(f) : Has(tr, Nth(f.first, j))  BY <1>2, <1>3
<1>. QED  BY <1>1, <1>2, <1>3, <1>5, <1>6, <1>7, <1>8, SizeAssumption DEF tr

LEMMA StoredRoomy ==
    ASSUME NEW tr \in RoomyTrack, NEW map, NEW first, NEW vals \in Seq(Data),
           NEW n \in 0 .. Len(vals)
    PROVE  Stored(tr, map, first, vals, n) \in RoomyTrack
BY StoredTrack DEF RoomyTrack

LEMMA TornRoomy ==
    ASSUME NEW tr \in RoomyTrack, NEW i
    PROVE  [tr EXCEPT ![i].data = Torn] \in RoomyTrack
<1> DEFINE tt == [tr EXCEPT ![i].data = Torn]
<1>1. tr \in [1 .. Len(tr) -> Sector] /\ Len(tr) \in Nat  BY DEF RoomyTrack, Track
<1>2. ASSUME NEW j \in 1 .. Len(tr) PROVE tt[j] \in Sector
  <2>1. tr[j] \in Sector  BY <1>1
  <2>2. tt[j] = tr[j] \/ tt[j] = [tr[j] EXCEPT !.data = Torn]  BY <1>1
  <2>. QED  BY <2>1, <2>2 DEF Sector
<1>3. tt = [j \in 1 .. Len(tr) |-> tt[j]]  BY <1>1
<1>. HIDE DEF tt
<1>4. tt \in [1 .. Len(tr) -> Sector]  BY <1>2, <1>3
<1>5. tt \in Seq(Sector) /\ Len(tt) = Len(tr)  BY <1>1, <1>4
<1>. QED  BY <1>5 DEF RoomyTrack, Track, tt
LEMMA CommitWriteEnds ==
    ASSUME NEW f, Full(f), f.code = "WRITE", DiskInv, CommitWrite(f)
    PROVE  Ended(f)
<1> DEFINE d   == f.drv
           dr  == drive[f.drv]
           n   == Written(f)
           mem == UnderHead(dr)
           old == file[dr.img][dr.cyl]
<1>1. /\ d \in Drives /\ n \in 0 .. Len(f.buf) /\ f.buf \in Seq(Data) /\ Free(f)
      /\ n > 0 => dr.cyl \in Cyls /\ mem = dr.tracks[dr.cyl] /\ mem # <<>>
  BY WrittenFound DEF Full
<1>2. dr \in Drive /\ DriveOk(dr) /\ dr = drive[d] /\ drive \in [Drives -> Drive]
  BY <1>1 DEF DiskInv
<1>3. CASE ~dr.inserted \/ dr.wp
  <2>1. fdc' = set_result(f, "AT", {"NR", "NW"}) /\ UNCHANGED <<drive, file>>
    BY <1>3 DEF CommitWrite
  <2>. QED  BY <1>1, <2>1, EndedUnwritten
<1>4. CASE n = 0 /\ fdc' = set_result(f, "OK", {}) /\ UNCHANGED <<drive, file>>
  BY <1>1, <1>4, EndedUnwritten
<1>5. ASSUME n > 0, dr.inserted, ~dr.wp
      PROVE  /\ mem \in RoomyTrack /\ old \in RoomyTrack /\ dr.cyl \in Cyls
             /\ \A k \in 0 .. n : OnFile(f, k) \in RoomyTrack /\ InMemory(f, k) \in RoomyTrack
             /\ Mirror(d) => old = mem
  <2>1. mem \in RoomyTrack /\ dr.cyl \in Cyls  BY <1>1, <1>2, <1>5, UnderHeadTrack
  <2>2. dr.img \in Images /\ file \in [Images -> [Cyls -> RoomyTrack]]
    BY <1>2, <1>5 DEF DriveOk, DiskInv
  <2>3. old \in RoomyTrack  BY <2>1, <2>2
  <2>. HIDE DEF n
  <2>4. \A k \in 0 .. n : k \in 0 .. Len(f.buf)  BY <1>1
  <2>5. ASSUME NEW k \in 0 .. n
        PROVE  OnFile(f, k) \in RoomyTrack /\ InMemory(f, k) \in RoomyTrack
    BY <1>1, <2>1, <2>3, <2>4, StoredRoomy DEF OnFile, InMemory
  <2>6. Mirror(d) => old = mem  BY <1>1, <1>2, <1>5, <2>1 DEF Mirror
  <2>. QED  BY <2>1, <2>3, <2>5, <2>6
<1>6. ASSUME n > 0, dr.inserted, ~dr.wp, fdc' = set_result(f, "OK", {}),
             file' = [file EXCEPT ![dr.img][dr.cyl] = OnFile(f, n)],
             drive' = [drive EXCEPT ![f.drv].tracks[dr.cyl] = InMemory(f, n)]
      PROVE  Ended(f)
  <2> DEFINE nd == [dr EXCEPT !.tracks = [dr.tracks EXCEPT ![dr.cyl] = InMemory(f, n)]]
  <2>1. n \in 0 .. n  BY <1>1
  <2>2. /\ OnFile(f, n) \in RoomyTrack /\ InMemory(f, n) \in RoomyTrack /\ dr.cyl \in Cyls
        /\ Mirror(d) => old = mem
    BY <1>5, <1>6, <2>1
  <2>3. Mirror(d) => InMemory(f, n) = OnFile(f, n)  BY <2>2 DEF InMemory, OnFile
  <2>4. /\ nd \in Drive /\ nd.inserted /\ nd.img = dr.img /\ nd.cyl = dr.cyl
        /\ nd.tracks = [dr.tracks EXCEPT ![dr.cyl] = InMemory(f, n)]
    <3>1. InMemory(f, n) \in Track  BY <2>2 DEF RoomyTrack
    <3>2. [dr.tracks EXCEPT ![dr.cyl] = InMemory(f, n)] \in [Cyls -> Track]
      BY <1>2, <3>1 DEF Drive
    <3>. HIDE DEF dr
    <3>. QED  BY <1>2, <1>6, <3>2 DEF Drive
  <2>5. drive' = [drive EXCEPT ![d] = nd]  BY <1>2, <1>6
  <2>. HIDE DEF nd, n, mem, old
  <2>6. Wrote(d)  BY <1>1, <1>2, <1>6, <2>2, <2>3, <2>4, <2>5, DiskWrite
  <2>. QED  BY <1>1, <1>6, <2>6, EndedWritten
<1>7. ASSUME dr.inserted, ~dr.wp, fdc' = set_result(f, "AT", {"NW"}),
             NEW k \in 1 .. n, WriteFails(f, k)
      PROVE  Ended(f)
  <2>1. n > 0 /\ k \in 0 .. n /\ k - 1 \in 0 .. n  BY <1>1
  <2>2. /\ OnFile(f, k - 1) \in RoomyTrack /\ OnFile(f, k) \in RoomyTrack
        /\ InMemory(f, k - 1) \in RoomyTrack /\ dr.cyl \in Cyls
    BY <1>5, <1>7, <2>1
  <2> DEFINE m  == InMemory(f, k - 1)
             nd == [dr EXCEPT !.tracks = [dr.tracks EXCEPT ![dr.cyl] = m], !.wp = TRUE]
  <2>3. \E tr \in RoomyTrack : file' = [file EXCEPT ![dr.img][dr.cyl] = tr]
    <3>1. [OnFile(f, k - 1) EXCEPT ![Find(UnderHead(dr), Nth(f.first, k))].data = Torn]
             \in RoomyTrack
      BY <2>2, TornRoomy
    <3>. QED  BY <1>7, <2>2, <3>1 DEF WriteFails
  <2>4. PICK tr \in RoomyTrack : file' = [file EXCEPT ![dr.img][dr.cyl] = tr]  BY <2>3
  <2>5. /\ nd \in Drive /\ nd.inserted /\ nd.img = dr.img /\ nd.cyl = dr.cyl
        /\ nd.tracks = [dr.tracks EXCEPT ![dr.cyl] = m] /\ nd.wp
    <3>1. m \in Track  BY <2>2 DEF RoomyTrack
    <3>2. [dr.tracks EXCEPT ![dr.cyl] = m] \in [Cyls -> Track]
      BY <1>2, <3>1 DEF Drive
    <3>. HIDE DEF dr, m
    <3>. QED  BY <1>2, <1>7, <3>2 DEF Drive
  <2>6. drive' = [drive EXCEPT ![d] = nd]  BY <1>7 DEF WriteFails, Protected
  <2>. HIDE DEF nd, n, mem, old, m
  <2>7. Wrote(d)  BY <1>1, <1>2, <1>7, <2>2, <2>4, <2>5, <2>6, DiskWrite DEF m
  <2>. QED  BY <1>1, <1>7, <2>7, EndedWritten
<1>. QED  BY <1>1, <1>3, <1>4, <1>6, <1>7 DEF CommitWrite

LEMMA NewTrackRoomy ==
    ASSUME NEW f, Full(f), f.code = "FORMAT", f.execLen <= TrackRoom,
           NEW filler \in Data \cup {Torn}
    PROVE  NewTrack(f, filler) \in RoomyTrack
<1>1. f.execLen \in Nat /\ f.execLen <= Len(f.buf) /\ f.buf \in Seq(Ids)
  BY DEF Full, Free, Fdc
<1>2. \A i \in 1 .. f.execLen : f.buf[i] \in Ids  BY <1>1
<1>3. NewTrack(f, filler) \in [1 .. f.execLen -> Sector]  BY <1>2 DEF NewTrack, Sector
<1>4. NewTrack(f, filler) \in Seq(Sector) /\ Len(NewTrack(f, filler)) = f.execLen
  BY <1>1, <1>3
<1>. QED  BY <1>4 DEF RoomyTrack, Track

LEMMA CommitFormatEnds ==
    ASSUME NEW f, Full(f), f.code = "FORMAT", DiskInv, CommitFormat(f)
    PROVE  Ended(f)
<1> DEFINE d   == f.drv
           dr  == drive[f.drv]
<1>1. d \in Drives /\ Free(f)  BY DEF Full, Free, Fdc
<1>2. dr \in Drive /\ DriveOk(dr) /\ dr = drive[d] /\ drive \in [Drives -> Drive]
  BY <1>1 DEF DiskInv
<1>3. CASE ~dr.inserted
  <2>1. fdc' = set_result(f, "AT", {"NR"}) /\ UNCHANGED <<drive, file>>
    BY <1>3 DEF CommitFormat
  <2>. QED  BY <1>1, <2>1, EndedUnwritten
<1>4. CASE dr.inserted /\ ~Formattable(f)
  <2>1. fdc' = set_result(f, "AT", {"NW"}) /\ UNCHANGED <<drive, file>>
    BY <1>4 DEF CommitFormat
  <2>. QED  BY <1>1, <2>1, EndedUnwritten
<1>5. ASSUME dr.inserted, Formattable(f)
      PROVE  ~dr.wp /\ dr.cyl \in Cyls /\ f.execLen <= TrackRoom
             /\ file[dr.img][dr.cyl] \in RoomyTrack
  <2>1. ~dr.wp /\ dr.cyl \in Cyls /\ f.execLen <= TrackRoom
    BY <1>5 DEF Formattable, UnderHead
  <2>. QED  BY <1>2, <1>5, <2>1 DEF DriveOk, DiskInv
<1>6. ASSUME dr.inserted, Formattable(f), NEW filler \in Data,
             fdc' = [set_result(f, "OK", {}) EXCEPT !.resultDelay = FormatDelay],
             file' = [file EXCEPT ![dr.img][dr.cyl] = NewTrack(f, filler)],
             drive' = [drive EXCEPT ![f.drv].tracks[dr.cyl] = NewTrack(f, filler)]
      PROVE  Ended(f)
  <2> DEFINE tr == NewTrack(f, filler)
             nd == [dr EXCEPT !.tracks = [dr.tracks EXCEPT ![dr.cyl] = tr]]
             g  == set_result(f, "OK", {})
  <2>1. tr \in RoomyTrack /\ dr.cyl \in Cyls /\ ~dr.wp  BY <1>5, <1>6, NewTrackRoomy
  <2>2. /\ nd \in Drive /\ nd.inserted /\ nd.img = dr.img /\ nd.cyl = dr.cyl
        /\ nd.tracks = [dr.tracks EXCEPT ![dr.cyl] = tr]
    <3>1. tr \in Track  BY <2>1 DEF RoomyTrack
    <3>2. [dr.tracks EXCEPT ![dr.cyl] = tr] \in [Cyls -> Track]  BY <1>2, <3>1 DEF Drive
    <3>. HIDE DEF dr, tr
    <3>. QED  BY <1>2, <1>6, <3>2 DEF Drive
  <2>3. drive' = [drive EXCEPT ![d] = nd]  BY <1>2, <1>6
  <2>. HIDE DEF nd, tr
  <2>4. Wrote(d)  BY <1>1, <1>2, <1>6, <2>1, <2>2, <2>3, DiskWrite DEF tr
  <2>5. FdcOk(g) /\ g.phase = "RESULT" /\ g.seekDone = f.seekDone
        /\ g.lastDrv = f.lastDrv /\ g.lastPcn = f.lastPcn
    BY <1>1, SetResult, SetResultSeek
  <2>6. g.result.pos = 0 /\ g \in Fdc
    <3>1. g \in Fdc  BY <2>5 DEF FdcOk
    <3>. QED  BY <1>1, <3>1 DEF set_result, Free, Fdc
  <2>. HIDE DEF g
  <2>7. /\ fdc' \in Fdc /\ fdc'.phase = "RESULT" /\ fdc'.result = g.result
        /\ fdc'.cmdPos = g.cmdPos /\ fdc'.seekDone = f.seekDone
        /\ fdc'.lastDrv = f.lastDrv /\ fdc'.lastPcn = f.lastPcn
    <3>1. fdc' = [g EXCEPT !.resultDelay = FormatDelay]  BY <1>6 DEF g
    <3>2. FormatDelay \in Nat  BY SizeAssumption
    <3>. QED  BY <2>5, <2>6, <3>1, <3>2 DEF Fdc
  <2>8. FdcOk(fdc')  BY <2>5, <2>6, <2>7 DEF FdcOk
  <2>9. \A e \in Drives : drive'[e].cyl = drive[e].cyl  BY <2>4 DEF Wrote
  <2>. QED  BY <1>1, <2>4, <2>7, <2>8, <2>9 DEF Ended
<1>7. ASSUME dr.inserted, Formattable(f), NEW filler \in Data,
             fdc' = set_result(f, "AT", {"NW"}),
             NEW tr \in {file[dr.img][dr.cyl], NewTrack(f, filler), NewTrack(f, Torn)},
             file' = [file EXCEPT ![dr.img][dr.cyl] = tr],
             drive' = [drive EXCEPT ![f.drv] = Protected(dr)]
      PROVE  Ended(f)
  <2> DEFINE nd  == Protected(dr)
             mem == dr.tracks[dr.cyl]
  <2>1. dr.cyl \in Cyls /\ ~dr.wp /\ tr \in RoomyTrack  BY <1>5, <1>7, NewTrackRoomy
  <2>2. mem \in RoomyTrack  BY <1>2, <2>1 DEF DriveOk
  <2>3. /\ nd \in Drive /\ nd.inserted /\ nd.img = dr.img /\ nd.cyl = dr.cyl
        /\ nd.wp /\ nd.tracks = dr.tracks
    <3>. HIDE DEF dr
    <3>. QED  BY <1>2, <1>7 DEF Drive, Protected
  <2>4. nd.tracks = [dr.tracks EXCEPT ![dr.cyl] = mem]
    <3>1. dr.tracks \in [Cyls -> Track]  BY <1>2 DEF Drive
    <3>. QED  BY <2>3, <3>1
  <2>5. drive' = [drive EXCEPT ![d] = nd]  BY <1>7
  <2>. HIDE DEF nd, mem
  <2>6. Wrote(d)  BY <1>1, <1>2, <1>7, <2>1, <2>2, <2>3, <2>4, <2>5, DiskWrite
  <2>. QED  BY <1>1, <1>7, <2>6, EndedWritten
<1>. QED  BY <1>3, <1>4, <1>6, <1>7 DEF CommitFormat
-----------------------------------------------------------------------------
(* The registers *)

(* What any access of the guest and any tick comes to. *)
GuestStep == /\ FdcOk(fdc')
             /\ HeadMoved \/ \E d \in Drives : Wrote(d)
             /\ SeekKept(fdc)

LEMMA CmdByteStep ==
    ASSUME Inv, CmdByte
    PROVE  GuestStep
<1>1. fdc \in Fdc /\ fdc.phase = "CMD" /\ fdc.resultDelay = 0 /\ UNCHANGED file /\ DiskInv
      /\ fdc.cmdPos < CmdLen[fdc.code]
  <2>1. fdc \in Fdc /\ fdc.phase = "CMD"  BY DEF Inv, FdcOk, CmdByte
  <2>2. fdc.resultDelay \in Nat  BY <2>1 DEF Fdc
  <2>. QED  BY <2>1, <2>2 DEF Inv, FdcOk, CmdByte
<1>2. PICK code \in IF fdc.cmdPos = 0 THEN Codes ELSE {fdc.code} :
        IF fdc.cmdPos + 1 < CmdLen[code]
        THEN /\ fdc' = [fdc EXCEPT !.code = code, !.cmdPos = @ + 1]
             /\ UNCHANGED drive
        ELSE exec_cmd([fdc EXCEPT !.code = code, !.cmdPos = 0])
  BY DEF CmdByte
<1>3. code \in Codes /\ CmdLen[code] \in 1 .. 9 /\ fdc.cmdPos \in 0 .. 9
  BY <1>1, <1>2, CmdLenType DEF Fdc
<1>4. CASE fdc.cmdPos + 1 < CmdLen[code]
  <2>1. fdc' = [fdc EXCEPT !.code = code, !.cmdPos = fdc.cmdPos + 1] /\ UNCHANGED drive
    BY <1>2, <1>4
  <2>2. fdc.cmdPos + 1 \in 0 .. 9  BY <1>3, <1>4
  <2>3. /\ fdc' \in Fdc /\ fdc'.phase = "CMD" /\ fdc'.code = code
        /\ fdc'.cmdPos = fdc.cmdPos + 1 /\ fdc'.resultDelay = 0
        /\ fdc'.seekDone = fdc.seekDone
        /\ fdc'.lastDrv = fdc.lastDrv /\ fdc'.lastPcn = fdc.lastPcn
    BY <1>1, <1>3, <2>1, <2>2 DEF Fdc
  <2>4. FdcOk(fdc')  BY <1>4, <2>3 DEF FdcOk
  <2>5. HeadMoved  BY <1>1, <2>1, HeadStays
  <2>6. SeekKept(fdc)  BY <2>1, <2>3 DEF SeekKept
  <2>. QED  BY <2>4, <2>5, <2>6 DEF GuestStep
<1>5. CASE ~(fdc.cmdPos + 1 < CmdLen[code])
  <2> DEFINE f == [fdc EXCEPT !.code = code, !.cmdPos = 0]
  <2>1. exec_cmd(f)  BY <1>2, <1>5
  <2>2. Ready(f) /\ f.seekDone = fdc.seekDone /\ f.lastDrv = fdc.lastDrv
        /\ f.lastPcn = fdc.lastPcn
    <3>1. 0 \in 0 .. 9  OBVIOUS
    <3>2. /\ f \in Fdc /\ f.phase = "CMD" /\ f.cmdPos = 0 /\ f.resultDelay = 0
          /\ f.seekDone = fdc.seekDone /\ f.lastDrv = fdc.lastDrv
          /\ f.lastPcn = fdc.lastPcn
      BY <1>1, <1>3, <3>1 DEF Fdc
    <3>. QED  BY <3>2 DEF Ready, Free
  <2>. HIDE DEF f
  <2>3. Commanded(f)  BY <1>1, <2>1, <2>2, ExecCmd
  <2>4. SeekKept(fdc)  BY <2>2, <2>3 DEF Commanded, SeekKept
  <2>. QED  BY <2>3, <2>4 DEF Commanded, GuestStep
<1>. QED  BY <1>4, <1>5

LEMMA ExecByteStep ==
    ASSUME Inv, ExecByte
    PROVE  GuestStep
<1>1. /\ fdc \in Fdc /\ fdc.phase = "EXEC" /\ fdc.execWrite /\ fdc.cmdPos = 0
      /\ DiskInv /\ Len(fdc.buf) = fdc.execPos /\ fdc.result.pos < fdc.result.len
      /\ fdc.execPos < fdc.execLen \/ fdc.execLen = 0
      /\ \/ fdc.code = "FORMAT" /\ fdc.buf \in Seq(Ids)
         \/ fdc.code = "WRITE" /\ fdc.buf \in Seq(Data)
  BY DEF Inv, FdcOk, ExecByte
<1>2. fdc.resultDelay = 0 /\ fdc.execPos \in Nat /\ fdc.execLen \in Nat
  <2>1. fdc.resultDelay \in Nat /\ fdc.execPos \in Nat /\ fdc.execLen \in Nat
    BY <1>1 DEF Fdc
  <2>. QED  BY <1>1, <2>1 DEF Inv, FdcOk
<1>3. PICK v \in IF fdc.code = "FORMAT" THEN Ids ELSE Data :
        LET f == IF fdc.execPos < fdc.execLen
                 THEN [fdc EXCEPT !.buf = Append(@, v), !.execPos = @ + 1] ELSE fdc
        IN  IF f.execPos >= f.execLen THEN commit_write(f)
            ELSE fdc' = f /\ UNCHANGED <<drive, file>>
  BY DEF ExecByte
<1> DEFINE b == Append(fdc.buf, v)
           f == IF fdc.execPos < fdc.execLen
                THEN [fdc EXCEPT !.buf = b, !.execPos = fdc.execPos + 1] ELSE fdc
<1>4. IF f.execPos >= f.execLen THEN commit_write(f)
      ELSE fdc' = f /\ UNCHANGED <<drive, file>>
  BY <1>3
<1>5. /\ Len(b) = fdc.execPos + 1 /\ b \in Seq(Ids \cup Data \cup {Torn})
      /\ \/ fdc.code = "FORMAT" /\ b \in Seq(Ids)
         \/ fdc.code = "WRITE" /\ b \in Seq(Data)
  <2>1. CASE fdc.code = "FORMAT" /\ fdc.buf \in Seq(Ids)
    <3>1. v \in Ids  BY <2>1
    <3>2. b \in Seq(Ids) /\ Len(b) = Len(fdc.buf) + 1  BY <2>1, <3>1
    <3>. HIDE DEF b
    <3>3. b \in Seq(Ids \cup Data \cup {Torn})  BY <3>2
    <3>. QED  BY <1>1, <2>1, <3>2, <3>3
  <2>2. CASE fdc.code = "WRITE" /\ fdc.buf \in Seq(Data)
    <3>1. v \in Data  BY <2>2
    <3>2. b \in Seq(Data) /\ Len(b) = Len(fdc.buf) + 1  BY <2>2, <3>1
    <3>. HIDE DEF b
    <3>3. b \in Seq(Ids \cup Data \cup {Torn})  BY <3>2
    <3>. QED  BY <1>1, <2>2, <3>2, <3>3
  <2>. QED  BY <1>1, <2>1, <2>2
<1>. HIDE DEF b
<1>6. /\ f \in Fdc /\ f.phase = "EXEC" /\ f.cmdPos = 0 /\ f.resultDelay = 0
      /\ f.execLen = fdc.execLen /\ Len(f.buf) = f.execPos /\ f.code = fdc.code
      /\ f.result.pos < f.result.len
      /\ f.seekDone = fdc.seekDone /\ f.lastDrv = fdc.lastDrv /\ f.lastPcn = fdc.lastPcn
      /\ \/ f.code = "FORMAT" /\ f.buf \in Seq(Ids)
         \/ f.code = "WRITE" /\ f.buf \in Seq(Data)
  <2>1. CASE fdc.execPos < fdc.execLen
    <3>1. fdc.execPos + 1 \in Nat  BY <1>2
    <3>. QED  BY <1>1, <1>2, <1>5, <2>1, <3>1 DEF Fdc
  <2>2. CASE ~(fdc.execPos < fdc.execLen)  BY <1>1, <1>2, <2>2
  <2>. QED  BY <2>1, <2>2
<1>7. f.execPos \in Nat /\ f.execLen \in Nat  BY <1>6 DEF Fdc
<1>. HIDE DEF f
<1>8. CASE f.execPos >= f.execLen
  <2>1. Full(f)  BY <1>6, <1>7, <1>8 DEF Full, Free
  <2>2. commit_write(f)  BY <1>4, <1>8
  <2>3. Ended(f)
    <3>1. CASE f.code = "FORMAT"
      BY <1>1, <2>1, <2>2, <3>1, CommitFormatEnds DEF commit_write
    <3>2. CASE f.code = "WRITE"
      BY <1>1, <2>1, <2>2, <3>2, CommitWriteEnds DEF commit_write
    <3>. QED  BY <1>6, <3>1, <3>2
  <2>4. SeekKept(fdc)  BY <1>6, <2>3 DEF Ended, SeekKept
  <2>. QED  BY <2>3, <2>4 DEF Ended, GuestStep
<1>9. CASE ~(f.execPos >= f.execLen)
  <2>1. fdc' = f /\ UNCHANGED <<drive, file>>  BY <1>4, <1>9
  <2>2. FdcOk(fdc')  BY <1>6, <1>7, <1>9, <2>1 DEF FdcOk
  <2>3. HeadMoved  BY <1>1, <2>1, HeadStays
  <2>4. SeekKept(fdc)  BY <1>6, <2>1 DEF SeekKept
  <2>. QED  BY <2>2, <2>3, <2>4 DEF GuestStep
<1>. QED  BY <1>8, <1>9

LEMMA ReadByteStep ==
    ASSUME Inv, ReadByte, UNCHANGED <<drive, file>>
    PROVE  GuestStep
<1> DEFINE pos == AtMost(fdc.execPos + 1, fdc.execLen)
           ph  == IF pos >= fdc.execLen THEN "RESULT" ELSE fdc.phase
<1>1. /\ fdc \in Fdc /\ fdc.phase = "EXEC" /\ ~fdc.execWrite /\ fdc.cmdPos = 0 /\ DiskInv
      /\ fdc' = [fdc EXCEPT !.execPos = pos, !.phase = ph]
  BY DEF Inv, FdcOk, ReadByte
<1>2. fdc.execPos \in Nat /\ fdc.execLen \in Nat  BY <1>1 DEF Fdc
<1>3. pos \in Nat /\ (pos >= fdc.execLen <=> ph = "RESULT") /\ ph \in {"EXEC", "RESULT"}
  BY <1>1, <1>2 DEF AtMost
<1>. HIDE DEF pos, ph
<1>4. /\ fdc' \in Fdc /\ fdc'.phase = ph /\ fdc'.execPos = pos /\ fdc'.cmdPos = 0
      /\ fdc'.execLen = fdc.execLen /\ ~fdc'.execWrite /\ fdc'.result = fdc.result
      /\ fdc'.resultDelay = fdc.resultDelay /\ fdc'.seekDone = fdc.seekDone
      /\ fdc'.lastDrv = fdc.lastDrv /\ fdc'.lastPcn = fdc.lastPcn
  BY <1>1, <1>3 DEF Fdc
<1>5. fdc.result.pos < fdc.result.len  BY <1>1 DEF Inv, FdcOk
<1>6. fdc.resultDelay = 0
  <2>1. fdc.resultDelay \in Nat  BY <1>1 DEF Fdc
  <2>. QED  BY <1>1, <2>1 DEF Inv, FdcOk
<1>7. FdcOk(fdc')  BY <1>2, <1>3, <1>4, <1>5, <1>6 DEF FdcOk
<1>8. HeadMoved  BY <1>1, HeadStays
<1>9. SeekKept(fdc)  BY <1>4 DEF SeekKept
<1>. QED  BY <1>7, <1>8, <1>9 DEF GuestStep
LEMMA ReadResultStep ==
    ASSUME Inv, ReadResult, UNCHANGED <<drive, file>>
    PROVE  GuestStep
<1> DEFINE res == [fdc.result EXCEPT !.pos = @ + 1]
           f   == [fdc EXCEPT !.result = res]
<1>1. /\ fdc \in Fdc /\ fdc.phase = "RESULT" /\ fdc.resultDelay = 0 /\ DiskInv
      /\ fdc.cmdPos = 0 /\ fdc.result.pos < fdc.result.len
  BY DEF Inv, FdcOk, ReadResult
<1>2. fdc' = IF f.result.pos >= f.result.len THEN Done(f) ELSE f
  BY DEF ReadResult
<1>3. fdc.result \in Results  BY <1>1 DEF Fdc
<1>4. /\ res \in Results /\ res.pos = fdc.result.pos + 1 /\ res.len = fdc.result.len
      /\ res.pos \in Nat /\ res.len \in Nat
  <2>1. fdc.result.pos \in 0 .. 7 /\ fdc.result.len \in 0 .. 7  BY <1>3 DEF Results
  <2>2. fdc.result.pos + 1 \in 0 .. 7  BY <1>1, <2>1
  <2>. QED  BY <1>3, <2>1, <2>2 DEF Results
<1>. HIDE DEF res
<1>5. /\ f \in Fdc /\ f.phase = "RESULT" /\ f.resultDelay = 0 /\ f.cmdPos = 0
      /\ f.result = res /\ f.seekDone = fdc.seekDone /\ f.lastDrv = fdc.lastDrv
      /\ f.lastPcn = fdc.lastPcn
  BY <1>1, <1>4 DEF Fdc
<1>. HIDE DEF f
<1>6. FdcOk(fdc')
  <2>1. CASE res.pos >= res.len  BY <1>2, <1>5, <2>1, DoneOk
  <2>2. CASE ~(res.pos >= res.len)  BY <1>2, <1>4, <1>5, <2>2 DEF FdcOk
  <2>. QED  BY <2>1, <2>2
<1>7. fdc'.seekDone = fdc.seekDone /\ fdc'.lastDrv = fdc.lastDrv /\ fdc'.lastPcn = fdc.lastPcn
  BY <1>2, <1>5, DoneOk
<1>8. HeadMoved  BY <1>1, HeadStays
<1>9. SeekKept(fdc)  BY <1>7 DEF SeekKept
<1>. QED  BY <1>6, <1>8, <1>9 DEF GuestStep

LEMMA ReadStatusStep ==
    ASSUME Inv, fdc_read_status
    PROVE  GuestStep
<1>1. /\ fdc \in Fdc /\ FdcOk(fdc) /\ DiskInv /\ UNCHANGED <<drive, file>>
      /\ fdc' = [fdc EXCEPT !.statusDelay = FALSE]
  BY DEF Inv, FdcOk, fdc_read_status
<1>2. /\ fdc' \in Fdc /\ fdc'.phase = fdc.phase /\ fdc'.cmdPos = fdc.cmdPos
      /\ fdc'.code = fdc.code /\ fdc'.execPos = fdc.execPos /\ fdc'.execLen = fdc.execLen
      /\ fdc'.execWrite = fdc.execWrite /\ fdc'.buf = fdc.buf /\ fdc'.result = fdc.result
      /\ fdc'.resultDelay = fdc.resultDelay /\ fdc'.seekDone = fdc.seekDone
      /\ fdc'.lastDrv = fdc.lastDrv /\ fdc'.lastPcn = fdc.lastPcn
  BY <1>1 DEF Fdc
<1>3. FdcOk(fdc')  BY <1>1, <1>2 DEF FdcOk
<1>4. HeadMoved  BY <1>1, HeadStays
<1>5. SeekKept(fdc)  BY <1>1, <1>2 DEF SeekKept
<1>. QED  BY <1>3, <1>4, <1>5 DEF GuestStep

LEMMA TickStep ==
    ASSUME Inv, fdc_tick
    PROVE  GuestStep
<1>1. /\ fdc \in Fdc /\ FdcOk(fdc) /\ DiskInv /\ UNCHANGED <<drive, file>>
      /\ fdc.resultDelay \in Nat /\ fdc.resultDelay > 0
  BY DEF Inv, FdcOk, fdc_tick, Fdc
<1>2. PICK left \in 0 .. fdc.resultDelay - 1 : fdc' = [fdc EXCEPT !.resultDelay = left]
  BY DEF fdc_tick
<1>3. left \in Nat  BY <1>1
<1>4. /\ fdc' \in Fdc /\ fdc'.phase = fdc.phase /\ fdc'.cmdPos = fdc.cmdPos
      /\ fdc'.code = fdc.code /\ fdc'.execPos = fdc.execPos /\ fdc'.execLen = fdc.execLen
      /\ fdc'.execWrite = fdc.execWrite /\ fdc'.buf = fdc.buf /\ fdc'.result = fdc.result
      /\ fdc'.seekDone = fdc.seekDone
      /\ fdc'.lastDrv = fdc.lastDrv /\ fdc'.lastPcn = fdc.lastPcn
  BY <1>1, <1>2, <1>3 DEF Fdc
<1>5. FdcOk(fdc')  BY <1>1, <1>4 DEF FdcOk
<1>6. HeadMoved  BY <1>1, HeadStays
<1>7. SeekKept(fdc)  BY <1>1, <1>4 DEF SeekKept
<1>. QED  BY <1>5, <1>6, <1>7 DEF GuestStep

LEMMA ResetStep ==
    ASSUME Inv, fdc_reset
    PROVE  GuestStep
<1>1. fdc' = ResetFdc /\ UNCHANGED <<drive, file>> /\ DiskInv  BY DEF Inv, fdc_reset
<1>2. ~fdc'.seekDone  BY <1>1 DEF ResetFdc
<1>3. SeekKept(fdc)  BY <1>1, <1>2 DEF SeekKept
<1>. QED  BY <1>1, <1>3, ResetType, HeadStays DEF GuestStep

-----------------------------------------------------------------------------
(* The user *)

(* One drive gets another disk, or none; its head stays where it is, and   *)
(* the tracks it has read are the file's. *)
Swapped ==
    /\ UNCHANGED <<fdc, file>> /\ DiskInv'
    /\ \E d \in Drives :
         /\ \A e \in Drives : e # d => drive'[e] = drive[e]
         /\ drive'[d].cyl = drive[d].cyl
         /\ drive'[d].inserted =>
              /\ OneDrivePerImage => \A e \in Drives : e # d => drive[e].img # drive'[d].img
              /\ Mirror(d)'

LEMMA EjectedDrive ==
    ASSUME NEW dr \in Drive
    PROVE  /\ Ejected(dr) \in Drive /\ ~Ejected(dr).inserted /\ Ejected(dr).cyl = dr.cyl
           /\ Ejected(dr).tracks = [t \in Cyls |-> <<>>]
<1>1. /\ dr.cyl \in 0 .. MaxCyl /\ 0 \in 0 .. TrackRoom - 1 /\ <<>> \in Track
  <2>1. <<>> \in Seq(Sector)  OBVIOUS
  <2>. QED  BY <2>1, SizeAssumption DEF Drive, Track
<1>2. [t \in Cyls |-> <<>>] \in [Cyls -> Track]  BY <1>1
<1>. QED  BY <1>1, <1>2 DEF Ejected, Drive

LEMMA NothingRoomy == <<>> \in RoomyTrack
<1>1. <<>> \in Seq(Sector) /\ Len(<<>>) = 0  OBVIOUS
<1>. QED  BY <1>1, SizeAssumption DEF RoomyTrack, Track

LEMMA EjectStep ==
    ASSUME Inv, NEW d \in Drives, disk_eject(d)
    PROVE  Swapped
<1>1. /\ drive \in [Drives -> Drive] /\ DiskInv /\ UNCHANGED <<fdc, file>>
      /\ drive' = [drive EXCEPT ![d] = Ejected(drive[d])]
  BY DEF Inv, DiskInv, disk_eject
<1>2. drive[d] \in Drive  BY <1>1
<1>3. /\ drive'[d] = Ejected(drive[d]) /\ drive' \in [Drives -> Drive]
      /\ \A e \in Drives : e # d => drive'[e] = drive[e]
  BY <1>1, <1>2, EjectedDrive
<1>4. DriveOk(drive'[d])  BY <1>2, <1>3, EjectedDrive, NothingRoomy DEF DriveOk
<1>5. DiskInv'  BY <1>1, <1>3, <1>4 DEF DiskInv
<1>. QED  BY <1>1, <1>2, <1>3, <1>5, EjectedDrive DEF Swapped

LEMMA LoadStep ==
    ASSUME Inv, NEW d \in Drives, NEW i \in Images, disk_load(d, i)
    PROVE  Swapped
<1>1. PICK wp \in BOOLEAN, loaded \in 0 .. TrackCount :
         drive' = [drive EXCEPT ![d] =
                     [Ejected(drive[d]) EXCEPT
                        !.inserted = TRUE, !.wp = wp, !.img = i,
                        !.tracks = [t \in Cyls |-> IF t < loaded THEN file[i][t] ELSE <<>>]]]
  BY DEF disk_load
<1>2. /\ drive \in [Drives -> Drive] /\ DiskInv /\ UNCHANGED <<fdc, file>>
      /\ file \in [Images -> [Cyls -> RoomyTrack]] /\ drive[d] \in Drive
      /\ OneDrivePerImage => \A e \in Drives : e # d => drive[e].img # i
  BY DEF Inv, DiskInv, disk_load
<1> DEFINE trs == [t \in Cyls |-> IF t < loaded THEN file[i][t] ELSE <<>>]
           ej  == Ejected(drive[d])
           nd  == [ej EXCEPT !.inserted = TRUE, !.wp = wp, !.img = i, !.tracks = trs]
<1>3. \A t \in Cyls : trs[t] \in RoomyTrack /\ trs[t] \in {<<>>, file[i][t]}
  BY <1>2, NothingRoomy
<1>4. trs \in [Cyls -> Track]  BY <1>3 DEF RoomyTrack
<1>5. ej \in Drive /\ ej.cyl = drive[d].cyl  BY <1>2, EjectedDrive
<1>6. drive' = [drive EXCEPT ![d] = nd]  BY <1>1
<1>. HIDE DEF trs, ej
<1>7. /\ nd \in Drive /\ nd.inserted /\ nd.img = i /\ nd.cyl = drive[d].cyl
      /\ nd.tracks = trs
  BY <1>4, <1>5 DEF Drive
<1>. HIDE DEF nd
<1>8. /\ drive'[d] = nd /\ drive' \in [Drives -> Drive]
      /\ \A e \in Drives : e # d => drive'[e] = drive[e]
  BY <1>2, <1>6, <1>7
<1>9. DriveOk(nd)  BY <1>3, <1>7 DEF DriveOk
<1>10. DiskInv'  BY <1>2, <1>8, <1>9 DEF DiskInv
<1>11. Mirror(d)'  BY <1>2, <1>3, <1>7, <1>8 DEF Mirror
<1>. QED  BY <1>2, <1>7, <1>8, <1>10, <1>11 DEF Swapped
-----------------------------------------------------------------------------
(* The steps together *)

LEMMA EveryStep ==
    ASSUME Inv, Next
    PROVE  GuestStep \/ Swapped
<1>1. CASE fdc_write_data  BY <1>1, CmdByteStep, ExecByteStep DEF fdc_write_data
<1>2. CASE fdc_read_data  BY <1>2, ReadByteStep, ReadResultStep DEF fdc_read_data
<1>3. CASE fdc_read_status  BY <1>3, ReadStatusStep
<1>4. CASE fdc_tick  BY <1>4, TickStep
<1>5. CASE fdc_reset  BY <1>5, ResetStep
<1>6. CASE User  BY <1>6, EjectStep, LoadStep DEF User
<1>. QED  BY <1>1, <1>2, <1>3, <1>4, <1>5, <1>6 DEF Next

LEMMA InitInv == Init => Inv
<1>. SUFFICES ASSUME Init PROVE Inv  OBVIOUS
<1>1. FdcOk(fdc)  BY ResetType DEF Init
<1> DEFINE ej == Ejected([cyl |-> 0])
<1>2. /\ ej \in Drive /\ ~ej.inserted /\ ej.tracks = [t \in Cyls |-> <<>>]
  <2>1. /\ 0 \in 0 .. MaxCyl /\ 0 \in 0 .. TrackRoom - 1 /\ <<>> \in Track
    <3>1. <<>> \in Seq(Sector)  OBVIOUS
    <3>. QED  BY <3>1, SizeAssumption DEF Track
  <2>2. [t \in Cyls |-> <<>>] \in [Cyls -> Track]  BY <2>1
  <2>. QED  BY <2>1, <2>2 DEF Ejected, Drive
<1>3. DriveOk(ej)  BY <1>2, NothingRoomy DEF DriveOk
<1>4. drive = [d \in Drives |-> ej]  BY DEF Init
<1>. HIDE DEF ej
<1>5. drive \in [Drives -> Drive] /\ \A d \in Drives : DriveOk(drive[d])
  BY <1>2, <1>3, <1>4
<1>6. file \in [Images -> [Cyls -> RoomyTrack]]
  BY ValueAssumption DEF Init, RoomyTrack
<1>. QED  BY <1>1, <1>5, <1>6 DEF Inv, DiskInv

LEMMA StepInv == Inv /\ [Next]_vars => Inv'
<1>. SUFFICES ASSUME Inv, [Next]_vars PROVE Inv'  OBVIOUS
<1>1. CASE GuestStep
  <2>1. DiskInv'  BY <1>1 DEF GuestStep, HeadMoved, Wrote
  <2>. QED  BY <1>1, <2>1 DEF GuestStep, Inv
<1>2. CASE Swapped  BY <1>2 DEF Swapped, Inv
<1>3. CASE UNCHANGED vars
  <2>1. UNCHANGED fdc /\ UNCHANGED drive /\ UNCHANGED file  BY <1>3 DEF vars
  <2>. QED  BY <2>1 DEF Inv, FdcOk, DiskInv, DriveOk
<1>. QED  BY <1>1, <1>2, <1>3, EveryStep

LEMMA Invariant == Spec => []Inv
BY InitInv, StepInv, PTL DEF Spec

(* The counters of every phase stay short of their end, in every reachable *)
(* state: the byte that completes a command, a transfer or a result also   *)
(* ends its phase (fdc.c:407-505).                                         *)
THEOREM ControllerSound == Spec => []FsmSound
<1>1. Inv => FsmSound
  <2>. SUFFICES ASSUME Inv PROVE FsmSound  OBVIOUS
  <2>1. file \in [Images -> [Cyls -> Track]]
    <3>1. RoomyTrack \subseteq Track  BY DEF RoomyTrack
    <3>. QED  BY <3>1 DEF Inv, DiskInv
  <2>2. TypeOK  BY <2>1 DEF Inv, FdcOk, DiskInv, TypeOK
  <2>. QED  BY <2>2 DEF Inv, FdcOk, FsmSound
<1>. QED  BY <1>1, Invariant, PTL

-----------------------------------------------------------------------------
(* Seeks *)

LEMMA SeekStep == Inv /\ PendingSeekTrue /\ [Next]_vars => PendingSeekTrue'
<1>. SUFFICES ASSUME Inv, PendingSeekTrue, [Next]_vars PROVE PendingSeekTrue'
  OBVIOUS
<1>0. fdc.lastDrv \in Drives  BY DEF Inv, FdcOk, Fdc
<1>1. CASE GuestStep  BY <1>0, <1>1 DEF GuestStep, SeekKept, PendingSeekTrue
<1>2. CASE Swapped
  <2>1. fdc' = fdc /\ \A d \in Drives : drive'[d].cyl = drive[d].cyl
    BY <1>2 DEF Swapped
  <2>. QED  BY <1>0, <2>1 DEF PendingSeekTrue
<1>3. CASE UNCHANGED vars  BY <1>3 DEF vars, PendingSeekTrue
<1>. QED  BY <1>1, <1>2, <1>3, EveryStep

(* A seek interrupt that is pending names the cylinder the head stands on, *)
(* whatever disks come and go before SENSE INTERRUPT asks (fdc.c:107-150,  *)
(* disk.c:15-17).                                                          *)
THEOREM SeeksTrue == Spec => []PendingSeekTrue
<1>1. Init => PendingSeekTrue  BY DEF Init, ResetFdc, PendingSeekTrue
<1>. QED  BY <1>1, SeekStep, Invariant, PTL DEF Spec

-----------------------------------------------------------------------------
(* The image files *)

(* A write-protected disk's file is never changed, nor that of a disk no   *)
(* drive holds, whatever was swapped between a command and its last byte   *)
(* (fdc.c:374-377, disk.c:379 and 404).                                    *)
THEOREM FilesUntouched == Spec => ProtectedFileUntouched
<1> DEFINE A == \A i \in Images : file'[i] # file[i] =>
                   \E d \in Drives : drive[d].img = i /\ drive[d].inserted /\ ~drive[d].wp
<1>1. Inv /\ [Next]_vars => [A]_vars
  <2>. SUFFICES ASSUME Inv, Next PROVE A  OBVIOUS
  <2>1. CASE Swapped  BY <2>1 DEF Swapped
  <2>2. CASE HeadMoved  BY <2>2 DEF HeadMoved
  <2>3. CASE \E d \in Drives : Wrote(d)  BY <2>3 DEF Wrote
  <2>. QED  BY <2>1, <2>2, <2>3, EveryStep DEF GuestStep
<1>. QED  BY <1>1, Invariant, PTL DEF Spec, ProtectedFileUntouched

(* The disks apart, and each alike to its file: the inductive invariant    *)
(* behind MirrorsFile. *)
Alike == /\ Apart
         /\ \A d \in Drives : drive[d].inserted /\ ~drive[d].wp => Mirror(d)

LEMMA AlikeStep ==
    ASSUME OneDrivePerImage
    PROVE  Inv /\ Alike /\ [Next]_vars => Alike'
<1>. SUFFICES ASSUME Inv, Alike, [Next]_vars PROVE Alike'  OBVIOUS
<1>1. CASE HeadMoved
  <2>1. Apart'  BY <1>1 DEF HeadMoved, Alike, Apart
  <2>2. \A d \in Drives : Mirror(d) => Mirror(d)'  BY <1>1 DEF HeadMoved, Mirror
  <2>. QED  BY <1>1, <2>1, <2>2 DEF HeadMoved, Alike
<1>2. ASSUME NEW d \in Drives, Wrote(d) PROVE Alike'
  <2>1. \A e \in Drives : /\ drive'[e].inserted = drive[e].inserted
                          /\ drive'[e].img = drive[e].img
    <3>1. drive'[d].inserted = drive[d].inserted
      <4>1. drive'[d] \in Drive /\ drive[d] \in Drive  BY <1>2 DEF Wrote, Inv, DiskInv
      <4>. QED  BY <1>2, <4>1 DEF Wrote, Drive
    <3>. QED  BY <1>2, <3>1 DEF Wrote
  <2>2. Apart'  BY <2>1 DEF Alike, Apart
  <2>3. ASSUME NEW e \in Drives, e # d, drive[e].inserted, Mirror(e) PROVE Mirror(e)'
    <3>1. drive[e].img # drive[d].img /\ drive[e].img \in Images
      BY <1>2, <2>3 DEF Alike, Apart, Wrote, Inv, DiskInv, DriveOk
    <3>2. file'[drive[e].img] = file[drive[e].img] /\ drive'[e] = drive[e]
      BY <1>2, <2>3, <3>1 DEF Wrote
    <3>. QED  BY <2>3, <3>2 DEF Mirror
  <2>4. ASSUME NEW e \in Drives, drive'[e].inserted, ~drive'[e].wp PROVE Mirror(e)'
    <3>1. CASE e = d  BY <1>2, <2>4, <3>1 DEF Wrote, Alike
    <3>2. CASE e # d
      <4>1. drive'[e] = drive[e]  BY <1>2, <3>2 DEF Wrote
      <4>2. Mirror(e) /\ drive[e].inserted  BY <2>4, <4>1 DEF Alike
      <4>. QED  BY <2>3, <3>2, <4>2
    <3>. QED  BY <3>1, <3>2
  <2>. QED  BY <2>2, <2>4 DEF Alike
<1>3. CASE Swapped
  <2>1. PICK d \in Drives :
          /\ \A e \in Drives : e # d => drive'[e] = drive[e]
          /\ drive'[d].inserted =>
               /\ \A e \in Drives : e # d => drive[e].img # drive'[d].img
               /\ Mirror(d)'
    BY <1>3 DEF Swapped
  <2>2. Apart'
    <3>. SUFFICES ASSUME NEW a \in Drives, NEW b \in Drives, a # b,
                         drive'[a].inserted, drive'[b].inserted
                  PROVE  drive'[a].img # drive'[b].img
      BY DEF Apart
    <3>1. CASE a = d  BY <2>1, <3>1
    <3>2. CASE b = d  BY <2>1, <3>2
    <3>3. CASE a # d /\ b # d  BY <2>1, <3>3 DEF Alike, Apart
    <3>. QED  BY <3>1, <3>2, <3>3
  <2>3. \A e \in Drives : e # d /\ Mirror(e) => Mirror(e)'
    BY <1>3, <2>1 DEF Mirror, Swapped
  <2>. QED  BY <2>1, <2>2, <2>3 DEF Alike
<1>4. CASE UNCHANGED vars  BY <1>4 DEF vars, Alike, Apart, Mirror
<1>. QED  BY <1>1, <1>2, <1>3, <1>4, EveryStep DEF GuestStep

LEMMA AlikeAlways ==
    ASSUME OneDrivePerImage
    PROVE  Spec => []Alike
<1>1. Init => Alike  BY DEF Init, Ejected, Alike, Apart
<1>2. Inv /\ Alike /\ [Next]_vars => Alike'  BY AlikeStep
<1>. QED  BY <1>1, <1>2, Invariant, PTL DEF Spec

(* While the user keeps every image to one drive, the tracks a writable    *)
(* disk has in memory are those of its file, through failed and torn       *)
(* writes, formats and swaps (disk.c:384-391, 458-466).                    *)
THEOREM DisksMirrorFiles ==
    ASSUME OneDrivePerImage
    PROVE  Spec => []MirrorsFile
<1>1. Alike => MirrorsFile  BY DEF Alike, Mirror, MirrorsFile
<1>2. Spec => []Alike  BY AlikeAlways
<1>. QED  BY <1>1, <1>2, PTL
-----------------------------------------------------------------------------
(* What a WRITE stores *)

(* What WriteOkStored says of a step. *)
EndsWell == /\ fdc.phase = "EXEC" /\ fdc.execWrite /\ fdc.code = "WRITE"
            /\ fdc'.phase = "RESULT" /\ fdc'.result.ic = "OK"

HoldsBytes(tr, k) == Holds(tr, Nth(fdc.first, k), fdc'.buf[k])

(* Only the last byte of a write ends it, and only a write that succeeded  *)
(* ends it well.                                                           *)
LEMMA OnlyCommitEndsWell ==
    ASSUME Inv, Next, EndsWell
    PROVE  \E f : /\ Full(f) /\ f.code = "WRITE" /\ f.drv = fdc.drv /\ f.first = fdc.first
                  /\ Written(f) = Written(fdc)
                  /\ fdc' = set_result(f, "OK", {})
                  /\ drive[f.drv].inserted /\ ~drive[f.drv].wp
                  /\ Written(f) > 0 =>
                       LET dr == drive[f.drv]
                       IN  /\ file' = [file EXCEPT ![dr.img][dr.cyl] = OnFile(f, Written(f))]
                           /\ drive' = [drive EXCEPT ![f.drv].tracks[dr.cyl]
                                           = InMemory(f, Written(f))]
<1>1. /\ fdc \in Fdc /\ fdc.phase = "EXEC" /\ fdc.execWrite /\ fdc.code = "WRITE"
      /\ fdc.resultDelay = 0 /\ fdc.cmdPos = 0 /\ fdc.buf \in Seq(Data)
      /\ Len(fdc.buf) = fdc.execPos /\ fdc.execPos \in Nat /\ fdc.execLen \in Nat
      /\ fdc.execPos < fdc.execLen \/ fdc.execLen = 0
  <2>1. fdc \in Fdc  BY DEF Inv, FdcOk
  <2>2. fdc.resultDelay \in Nat /\ fdc.execPos \in Nat /\ fdc.execLen \in Nat
    BY <2>1 DEF Fdc
  <2>. QED  BY <2>1, <2>2 DEF Inv, FdcOk, EndsWell
<1>2. ExecByte
  <2>1. ~CmdByte /\ ~fdc_read_data /\ ~fdc_tick
    BY <1>1 DEF CmdByte, fdc_read_data, ReadByte, ReadResult, fdc_tick
  <2>2. ~fdc_read_status
    <3>1. [fdc EXCEPT !.statusDelay = FALSE].phase = "EXEC"  BY <1>1 DEF Fdc
    <3>. QED  BY <3>1 DEF EndsWell, fdc_read_status
  <2>3. ~fdc_reset  BY DEF EndsWell, fdc_reset, ResetFdc
  <2>4. ~User  BY DEF EndsWell, User, disk_eject, disk_load
  <2>. QED  BY <2>1, <2>2, <2>3, <2>4 DEF Next, fdc_write_data
<1>3. PICK v \in Data :
        LET f == IF fdc.execPos < fdc.execLen
                 THEN [fdc EXCEPT !.buf = Append(@, v), !.execPos = @ + 1] ELSE fdc
        IN  IF f.execPos >= f.execLen THEN commit_write(f)
            ELSE fdc' = f /\ UNCHANGED <<drive, file>>
  BY <1>1, <1>2 DEF ExecByte
<1> DEFINE b == Append(fdc.buf, v)
           f == IF fdc.execPos < fdc.execLen
                THEN [fdc EXCEPT !.buf = b, !.execPos = fdc.execPos + 1] ELSE fdc
<1>4. IF f.execPos >= f.execLen THEN commit_write(f)
      ELSE fdc' = f /\ UNCHANGED <<drive, file>>
  BY <1>3
<1>5. Len(b) = fdc.execPos + 1 /\ b \in Seq(Data)  BY <1>1
<1>6. b \in Seq(Ids \cup Data \cup {Torn})
  <2>. HIDE DEF b
  <2>. QED  BY <1>5
<1>. HIDE DEF b
<1>7. /\ f \in Fdc /\ f.phase = "EXEC" /\ f.cmdPos = 0 /\ f.resultDelay = 0
      /\ f.execLen = fdc.execLen /\ Len(f.buf) = f.execPos /\ f.code = "WRITE"
      /\ f.drv = fdc.drv /\ f.first = fdc.first /\ f.eot = fdc.eot /\ f.buf \in Seq(Data)
  <2>1. CASE fdc.execPos < fdc.execLen
    <3>1. fdc.execPos + 1 \in Nat  BY <1>1
    <3>. QED  BY <1>1, <1>5, <1>6, <2>1, <3>1 DEF Fdc
  <2>2. CASE ~(fdc.execPos < fdc.execLen)  BY <1>1, <2>2
  <2>. QED  BY <2>1, <2>2
<1>. HIDE DEF f
<1>8. f.execPos >= f.execLen
  <2>. SUFFICES ASSUME ~(f.execPos >= f.execLen) PROVE FALSE  OBVIOUS
  <2>. QED  BY <1>4, <1>7 DEF EndsWell
<1>9. CommitWrite(f)  BY <1>4, <1>7, <1>8 DEF commit_write
<1>10. Full(f)
  <2>1. f.execPos \in Nat /\ f.execLen \in Nat  BY <1>7 DEF Fdc
  <2>. QED  BY <1>7, <1>8, <2>1 DEF Full, Free
<1>11. Written(f) = Written(fdc)  BY <1>7 DEF Written
<1>12. \A err : set_result(f, "AT", err).result.ic = "AT"
  BY <1>7 DEF set_result, Fdc
<1>13. /\ drive[f.drv].inserted /\ ~drive[f.drv].wp
       /\ fdc' = set_result(f, "OK", {})
       /\ IF Written(f) = 0 THEN UNCHANGED <<drive, file>>
          ELSE LET dr == drive[f.drv]
               IN  /\ file' = [file EXCEPT ![dr.img][dr.cyl] = OnFile(f, Written(f))]
                   /\ drive' = [drive EXCEPT ![f.drv].tracks[dr.cyl]
                                           = InMemory(f, Written(f))]
  BY <1>9, <1>12 DEF CommitWrite, EndsWell
<1>14. Written(f) > 0 =>
         LET dr == drive[f.drv]
         IN  /\ file' = [file EXCEPT ![dr.img][dr.cyl] = OnFile(f, Written(f))]
             /\ drive' = [drive EXCEPT ![f.drv].tracks[dr.cyl] = InMemory(f, Written(f))]
  BY <1>13
<1>15. f.code = "WRITE" /\ f.drv = fdc.drv /\ f.first = fdc.first  BY <1>7
<1>16. drive[f.drv].inserted /\ ~drive[f.drv].wp /\ fdc' = set_result(f, "OK", {})
  BY <1>13
<1>. QED  BY <1>10, <1>11, <1>14, <1>15, <1>16, Zenon

LEMMA EndsWellStored ==
    ASSUME Inv, Alike, Next, EndsWell, NEW k \in 1 .. Written(fdc)
    PROVE  LET dr == drive'[fdc.drv]
           IN  HoldsBytes(dr.tracks[dr.cyl], k) /\ HoldsBytes(file'[dr.img][dr.cyl], k)
<1>1. PICK f : /\ Full(f) /\ f.code = "WRITE" /\ f.drv = fdc.drv /\ f.first = fdc.first
               /\ Written(f) = Written(fdc)
               /\ fdc' = set_result(f, "OK", {})
               /\ drive[f.drv].inserted /\ ~drive[f.drv].wp
               /\ Written(f) > 0 =>
                    LET dr == drive[f.drv]
                    IN  /\ file' = [file EXCEPT ![dr.img][dr.cyl] = OnFile(f, Written(f))]
                        /\ drive' = [drive EXCEPT ![f.drv].tracks[dr.cyl]
                                        = InMemory(f, Written(f))]
  BY OnlyCommitEndsWell
<1> DEFINE d   == f.drv
           dr  == drive[d]
           n   == Written(f)
           mem == UnderHead(dr)
<1>2. DiskInv  BY DEF Inv
<1>3. /\ d \in Drives /\ f.first \in Ids /\ n \in 0 .. IdMod - 1 /\ n \in 0 .. Len(f.buf)
      /\ \A j \in 1 .. n : Has(mem, Nth(f.first, j))
      /\ n > 0 => dr.cyl \in Cyls /\ mem = dr.tracks[dr.cyl] /\ mem # <<>>
  BY <1>1, <1>2, WrittenFound
<1>4. n > 0 /\ k \in 1 .. n
  <2>1. n \in Nat  BY <1>3
  <2>. QED  BY <1>1, <2>1
<1>5. /\ dr \in Drive /\ DriveOk(dr) /\ drive \in [Drives -> Drive]
      /\ file \in [Images -> [Cyls -> RoomyTrack]] /\ dr.img \in Images
  BY <1>1, <1>2, <1>3 DEF DiskInv, DriveOk
<1>6. mem \in RoomyTrack /\ dr.cyl \in Cyls /\ file[dr.img][dr.cyl] = mem
  <2>1. Mirror(d)  BY <1>1, <1>3 DEF Alike
  <2>. QED  BY <1>3, <1>4, <1>5, <2>1, UnderHeadTrack DEF Mirror
<1> DEFINE st == Stored(mem, mem, f.first, f.buf, n)
<1>7. /\ drive' = [drive EXCEPT ![d].tracks[dr.cyl] = st]
      /\ file' = [file EXCEPT ![dr.img][dr.cyl] = st]
  BY <1>1, <1>4, <1>6 DEF OnFile, InMemory
<1>8. Holds(st, Nth(f.first, k), f.buf[k])
  <2>1. mem \in Track  BY <1>6 DEF RoomyTrack
  <2>2. n \in 0 .. IdMod - 1 /\ f.first \in Ids /\ \A j \in 1 .. n : Has(mem, Nth(f.first, j))
    BY <1>3
  <2>. QED  BY <1>4, <2>1, <2>2, StoredHolds
<1>9. fdc'.buf = f.buf  BY <1>1 DEF set_result, Full, Free, Fdc
<1>10. HoldsBytes(st, k)  BY <1>1, <1>8, <1>9 DEF HoldsBytes
<1>. HIDE DEF st, mem, n
<1>11. drive'[d].cyl = dr.cyl /\ drive'[d].img = dr.img /\ drive'[d].tracks[dr.cyl] = st
  BY <1>3, <1>5, <1>6, <1>7 DEF Drive
<1>12. file'[dr.img][dr.cyl] = st  BY <1>5, <1>6, <1>7
<1>. QED  BY <1>1, <1>10, <1>11, <1>12

(* A WRITE that ends normally has put every sector it had data for in the  *)
(* image file and in memory, each with its own bytes: its sectors have     *)
(* distinct numbers, and file and memory were alike (fdc.c:379-399).       *)
THEOREM WritesStored ==
    ASSUME OneDrivePerImage
    PROVE  Spec => WriteOkStored
<1> DEFINE A == EndsWell =>
                LET dr == drive'[fdc.drv]
                IN  \A k \in 1 .. Written(fdc) :
                      \A tr \in {dr.tracks[dr.cyl], file'[dr.img][dr.cyl]} : HoldsBytes(tr, k)
<1>1. Inv /\ Alike /\ [Next]_vars => [A]_vars
  <2>. SUFFICES ASSUME Inv, Alike, Next PROVE A  OBVIOUS
  <2>. QED  BY EndsWellStored
<1>2. Spec => [][A]_vars
  <2>1. Spec => []Alike  BY AlikeAlways
  <2>. HIDE DEF A
  <2>. QED  BY <1>1, <2>1, Invariant, PTL DEF Spec
<1>. QED  BY <1>2 DEF WriteOkStored, EndsWell, HoldsBytes, Holds
=============================================================================
