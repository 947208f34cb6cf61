-------------------------------- MODULE Fat ---------------------------------
(***************************************************************************)
(* The FAT16 file system of a card image (fat.c): a file allocation table  *)
(* read and written through a cache of one of its sectors, a directory of  *)
(* a fixed number of entries, clusters of data, and open files.  A volume  *)
(* is a record; each operator takes it as it is, and the set io of the     *)
(* kinds of sectors the host cannot read (R) or write (W) while the        *)
(* operation lasts, and gives the volume as the operation leaves it.       *)
(*                                                                         *)
(* Abstracted: one directory, since a path only names the directory to     *)
(* search; names are compared as values, so long names and padding are     *)
(* left out; a cluster is one sector; the copies of the table are one;     *)
(* contents are counted in units, ClusterUnits to a cluster.               *)
(***************************************************************************)
EXTENDS Integers, Sequences, FiniteSets

CONSTANTS
    LastCluster,    \* clusters are numbered from 2
    ClusterUnits,   \* units of a cluster
    FatEntries,     \* entries in a sector of the table
    SlotCount,      \* entries of the directory
    Names, NoName,  \* names of files; what a free entry is named
    Units           \* what a unit of a file may hold, 0 when never written

Clusters == 2 .. LastCluster
Eoc == LastCluster + 1           \* end of a chain
Slots == 1 .. SlotCount
Attrs == {"file", "readonly", "other"}   \* other: a directory or a label
Kinds == {"fatR", "fatW", "dirR", "dirW", "dataR", "dataW"}

ASSUME FatAssumption ==
    /\ LastCluster \in Nat /\ LastCluster >= 2
    /\ {ClusterUnits, FatEntries, SlotCount} \subseteq Nat \ {0}
    /\ NoName \notin Names /\ 0 \notin Units

Block == [0 .. ClusterUnits - 1 -> Units \cup {0}]
Zeros == [u \in 0 .. ClusterUnits - 1 |-> 0]
Entry == [name : Names \cup {NoName}, cl : {0} \cup Clusters, size : Nat, attr : Attrs]
NoEntry == [name |-> NoName, cl |-> 0, size |-> 0, attr |-> "file"]

FatSector(c) == c \div FatEntries
NoSector == -1

(* fat, dir and data are on the host; the rest is FatVol: the cached       *)
(* sector, its entries, whether it was written to, and whether a sector    *)
(* could not be read or written since the last fat_open_mode.              *)
Volume == [fat : [Clusters -> {0} \cup Clusters \cup {Eoc}], dir : [Slots -> Entry],
           data : [Clusters -> Block], sec : Int,
           cache : [Clusters -> {0} \cup Clusters \cup {Eoc}],
           dirty : BOOLEAN, err : BOOLEAN]

(* FatFile *)
File == [slot : Slots, cl : {0} \cup Clusters, size : Nat, pos : Nat,
         wmode : BOOLEAN, modified : BOOLEAN, attr : Attrs]

NoCache == [c \in Clusters |-> 0]

(* fat_mount on an image that has a file system *)
fat_mount(v) == [v EXCEPT !.sec = NoSector, !.cache = NoCache, !.dirty = FALSE, !.err = FALSE]

(* Where a function goes on with what another returned, the rest of it is  *)
(* an operator on that result.                                             *)

(* st after the body of a loop was run n times *)
Iterate(body(_), st, n) ==
    LET run[i \in 0 .. n] == IF i = 0 THEN st ELSE body(run[i - 1])
    IN  run[n]

AtMost(a, b) == IF a < b THEN a ELSE b

-----------------------------------------------------------------------------
(* The table *)

Failed(v) == [v EXCEPT !.err = TRUE]

fat_flush_cache(v, io) ==
    IF ~v.dirty THEN [ok |-> TRUE, v |-> v]
    ELSE IF "fatW" \in io THEN [ok |-> FALSE, v |-> Failed(v)]
    ELSE [ok |-> TRUE,
          v |-> [v EXCEPT !.dirty = FALSE,
                          !.fat = [c \in Clusters |-> IF FatSector(c) = v.sec THEN v.cache[c]
                                                      ELSE v.fat[c]]]]

(* sector s of the table into the cache, in place of the one there *)
fat_load_sector(v, s, io) ==
    LET load(fl) ==
          IF ~fl.ok THEN fl
          ELSE IF "fatR" \in io
          THEN [ok |-> FALSE, v |-> Failed([fl.v EXCEPT !.sec = NoSector, !.cache = NoCache])]
          ELSE [ok |-> TRUE,
                v |-> [fl.v EXCEPT !.sec = s,
                                   !.cache = [c \in Clusters |-> IF FatSector(c) = s
                                                                 THEN fl.v.fat[c] ELSE 0]]]
    IN  IF v.sec = s THEN [ok |-> TRUE, v |-> v] ELSE load(fat_flush_cache(v, io))

(* the entry of c, 0 when it cannot be read *)
fat_read_entry(v, c, io) ==
    LET entry(ld) == [val |-> IF ld.ok THEN ld.v.cache[c] ELSE 0, v |-> ld.v]
    IN  entry(fat_load_sector(v, FatSector(c), io))

fat_write_entry(v, c, x, io) ==
    LET put(ld) == [ok |-> ld.ok,
                    v |-> IF ld.ok THEN [ld.v EXCEPT !.cache[c] = x, !.dirty = TRUE] ELSE ld.v]
    IN  put(fat_load_sector(v, FatSector(c), io))

AllocFaulty(v, io) ==        \* the cluster is not marked
    LET take(st, rd) ==
          IF rd.val # 0 THEN [c |-> 0, next |-> st.next + 1, v |-> rd.v]
          ELSE [c |-> st.next, next |-> 0, v |-> [rd.v EXCEPT !.data[st.next] = Zeros]]
        body(st) == IF st.c # 0 THEN st ELSE take(st, fat_read_entry(st.v, st.next, io))
        given(st) == [c |-> st.c, v |-> st.v]
    IN  given(Iterate(body, [c |-> 0, next |-> 2, v |-> v], LastCluster - 1))

(* The first cluster whose entry reads as 0, marked as the end of a chain  *)
(* and cleared; neither write is looked at again.  0 when there is none.   *)
fat_alloc_cluster(v, io) ==
    LET zeroed(w, c) == IF "dataW" \in io THEN Failed(w) ELSE [w EXCEPT !.data[c] = Zeros]
        take(st, rd) ==
          IF rd.val # 0 THEN [c |-> 0, next |-> st.next + 1, v |-> rd.v]
          ELSE [c |-> st.next, next |-> 0,
                v |-> zeroed(fat_write_entry(rd.v, st.next, Eoc, io).v, st.next)]
        body(st) == IF st.c # 0 THEN st ELSE take(st, fat_read_entry(st.v, st.next, io))
        given(st) == [c |-> st.c, v |-> st.v]
    IN  given(Iterate(body, [c |-> 0, next |-> 2, v |-> v], LastCluster - 1))

FreeChainFaulty(v, first, strict, io) ==     \* the first cluster only
    IF first \notin Clusters THEN [ok |-> TRUE, v |-> v] ELSE fat_write_entry(v, first, 0, io)

(* The entries of a chain set to 0, cluster by cluster (fat.c:581, 767).   *)
(* strict: an error of a read ends it, too.                                *)
FreeChain(v, first, strict, io) ==
    LET on(next, wr) == [c |-> next, ok |-> wr.ok, v |-> wr.v]
        free(st, rd) ==
          IF strict /\ rd.v.err THEN [st EXCEPT !.ok = FALSE, !.v = rd.v]
          ELSE on(rd.val, fat_write_entry(rd.v, st.c, 0, io))
        body(st) == IF ~st.ok \/ st.c \notin Clusters THEN st
                    ELSE free(st, fat_read_entry(st.v, st.c, io))
        freed(st) == [ok |-> st.ok, v |-> st.v]
    IN  freed(Iterate(body, [c |-> first, ok |-> TRUE, v |-> v], LastCluster))

-----------------------------------------------------------------------------
(* The directory *)

Named(v, name) == {s \in Slots : v.dir[s].name = name}
First(S) == CHOOSE s \in S : \A t \in S : s <= t

(* find_in_dir, over files and directories but not labels alone *)
Find(v, name, io) ==
    IF "dirR" \in io THEN [slot |-> 0, v |-> Failed(v)]
    ELSE [slot |-> IF Named(v, name) = {} THEN 0 ELSE First(Named(v, name)), v |-> v]

FreeSlotFaulty(v) ==         \* one past the end when there is none
    LET S == Named(v, NoName) IN IF S = {} THEN SlotCount + 1 ELSE First(S)

find_free_dir_slot(v) ==
    LET S == Named(v, NoName) IN IF S = {} THEN 0 ELSE First(S)

(* an entry of the directory, read and written back *)
WriteSlot(v, s, e, io) ==
    IF {"dirR", "dirW"} \cap io # {} THEN [ok |-> FALSE, v |-> Failed(v)]
    ELSE [ok |-> TRUE, v |-> [v EXCEPT !.dir[s] = e]]

-----------------------------------------------------------------------------
(* Files *)

NewFile(s, cl, size, wmode, modified, attr) ==
    [slot |-> s, cl |-> cl, size |-> size, pos |-> 0, wmode |-> wmode,
     modified |-> modified, attr |-> attr]

NotOpened(status, v) == [status |-> status, v |-> v, f |-> NewFile(1, 0, 0, FALSE, FALSE, "file")]

(* fat_open_mode: mode is READ, REPLACE or ALWAYS *)
fat_open_mode(v0, name, mode, io) ==
    LET opened(s, cl, size, modified, attr, w) ==
          IF ~w.ok THEN NotOpened("IO", w.v)
          ELSE [status |-> "OK", v |-> w.v,
                f |-> NewFile(s, cl, size, mode # "READ", modified, attr)]
        flushed(w) == IF w.ok THEN fat_flush_cache(w.v, io) ELSE w
        truncated(s, e, fc) ==
          IF fc.ok THEN flushed(WriteSlot(fc.v, s, [e EXCEPT !.cl = 0, !.size = 0], io)) ELSE fc
        found(v, s, e) ==
          IF e.attr = "other" \/ (mode # "READ" /\ e.attr = "readonly") THEN NotOpened("DENIED", v)
          ELSE IF mode = "REPLACE"
          THEN opened(s, 0, 0, TRUE, e.attr, truncated(s, e, FreeChain(v, e.cl, TRUE, io)))
          ELSE opened(s, e.cl, e.size, FALSE, e.attr, [ok |-> TRUE, v |-> v])
        created(v, s) ==
          IF s = 0 THEN NotOpened("DENIED", v)
          ELSE opened(s, 0, 0, TRUE, "file", WriteSlot(v, s, [NoEntry EXCEPT !.name = name], io))
        open(fd) == IF fd.v.err THEN NotOpened("IO", fd.v)
                    ELSE IF fd.slot # 0 THEN found(fd.v, fd.slot, fd.v.dir[fd.slot])
                    ELSE IF mode = "READ" THEN NotOpened("NOT_FOUND", fd.v)
                    ELSE created(fd.v, find_free_dir_slot(fd.v))
    IN  open(Find([v0 EXCEPT !.err = FALSE], name, io))

(* the cluster n steps down the chain of first, 0 when the chain is shorter *)
ClusterAt(v, first, n, io) ==
    LET on(rd) == [c |-> rd.val, v |-> rd.v]
        body(st) == IF st.c \in Clusters THEN on(fat_read_entry(st.v, st.c, io)) ELSE st
        at(st) == [c |-> IF st.c \in Clusters THEN st.c ELSE 0, v |-> st.v]
    IN  at(Iterate(body, [c |-> first, v |-> v], n))

(* the units of block b from within on, at most n of them *)
Part(b, within, n) == [i \in 1 .. AtMost(n, ClusterUnits - within) |-> b[within + i - 1]]

(* fat_read: up to n units; a sector that cannot be read ends it early *)
fat_read(v, f, n, io) ==
    LET size == IF f.wmode \/ f.pos >= f.size THEN 0 ELSE AtMost(n, f.size - f.pos)
        append(st, part) == [st EXCEPT !.got = @ \o part, !.pos = @ + Len(part)]
        from(st, at) ==
          IF at.c = 0 THEN [st EXCEPT !.v = at.v, !.stop = TRUE]
          ELSE IF "dataR" \in io THEN [st EXCEPT !.v = Failed(at.v), !.stop = TRUE]
          ELSE append([st EXCEPT !.v = at.v],
                      Part(at.v.data[at.c], st.pos % ClusterUnits, size - Len(st.got)))
        body(st) == IF st.stop \/ Len(st.got) = size THEN st
                    ELSE from(st, ClusterAt(st.v, f.cl, st.pos \div ClusterUnits, io))
        done(st) == [got |-> st.got, v |-> st.v, f |-> [f EXCEPT !.pos = st.pos]]
    IN  done(Iterate(body, [v |-> v, got |-> <<>>, pos |-> f.pos, stop |-> FALSE], n + 1))

(* The cluster n steps down the chain, clusters being added as needed; 0   *)
(* when there is none left.  first is the file's first cluster afterwards. *)
ClusterToWrite(v, first, n, io) ==
    LET linked(st, al) ==
          IF al.c = 0 THEN [st EXCEPT !.c = 0, !.v = al.v]
          ELSE [st EXCEPT !.c = al.c, !.v = fat_write_entry(al.v, st.c, al.c, io).v]
        follow(st, rd) ==
          IF rd.val \in Clusters THEN [st EXCEPT !.c = rd.val, !.v = rd.v]
          ELSE linked(st, fat_alloc_cluster(rd.v, io))
        body(st) == IF st.c = 0 THEN st ELSE follow(st, fat_read_entry(st.v, st.c, io))
        start(al) == [c |-> al.c, first |-> al.c, v |-> al.v]
    IN  Iterate(body, IF first \in Clusters THEN [c |-> first, first |-> first, v |-> v]
                      ELSE start(fat_alloc_cluster(v, io)), n)

(* units of vals from i on put into block b at within *)
PutPart(b, within, vals, i, n) ==
    [u \in DOMAIN b |-> IF u \in within .. within + n - 1 THEN vals[i + u - within] ELSE b[u]]

(* fat_write: every sector of vals, until no cluster is left or a sector   *)
(* fails; a sector that is written in part is read first.                  *)
fat_write(v, f, vals, io) ==
    LET put(st, c, within, part) ==
          IF "dataW" \in io \/ (part < ClusterUnits /\ "dataR" \in io)
          THEN [st EXCEPT !.v = Failed(@), !.stop = TRUE]
          ELSE [st EXCEPT !.v.data[c] = PutPart(@, within, vals, st.n + 1, part),
                          !.n = @ + part, !.pos = @ + part]
        into(st, to, within) ==
          IF to.c = 0 THEN [st EXCEPT !.cl = to.first, !.v = to.v, !.stop = TRUE]
          ELSE put([st EXCEPT !.cl = to.first, !.v = to.v], to.c, within,
                   AtMost(ClusterUnits - within, Len(vals) - st.n))
        body(st) == IF st.stop \/ st.n = Len(vals) THEN st
                    ELSE into(st, ClusterToWrite(st.v, st.cl, st.pos \div ClusterUnits, io),
                              st.pos % ClusterUnits)
        done(st) == [wrote |-> st.n, v |-> fat_flush_cache(st.v, io).v,
                     f |-> [f EXCEPT !.cl = st.cl, !.pos = st.pos, !.modified = TRUE,
                                     !.size = IF st.pos > @ THEN st.pos ELSE @]]
    IN  IF ~f.wmode \/ f.attr # "file" THEN [wrote |-> 0, v |-> v, f |-> f]
        ELSE done(Iterate(body, [v |-> v, cl |-> f.cl, n |-> 0, pos |-> f.pos, stop |-> FALSE],
                          Len(vals) + 1))

fat_seek(f, pos) == [f EXCEPT !.pos = pos]

(* fat_delete; ok: deleted.  The last flush is not looked at. *)
fat_delete(v, name, io) ==
    LET deleted(ws) == IF ws.ok THEN [ok |-> TRUE, v |-> fat_flush_cache(ws.v, io).v] ELSE ws
        freed(s, fc) == IF fc.ok THEN deleted(WriteSlot(fc.v, s, NoEntry, io)) ELSE fc
        erase(w, s) == IF s = 0 THEN [ok |-> FALSE, v |-> w]
                       ELSE IF w.dir[s].attr = "other" THEN [ok |-> FALSE, v |-> w]
                       ELSE freed(s, FreeChain(w, w.dir[s].cl, FALSE, io))
        search(fd) == erase(fd.v, fd.slot)
    IN  search(Find(v, name, io))

(* fat_close: size and first cluster into the directory *)
fat_close(v, f, io) ==
    IF f.wmode /\ f.modified
    THEN fat_flush_cache(WriteSlot(v, f.slot, [v.dir[f.slot] EXCEPT !.cl = f.cl, !.size = f.size],
                                   io).v, io).v
    ELSE v

(* The entry of slot s overwritten, the size and the first cluster too. *)
fat_write_dir_entry(v, s, e, io) ==
    LET flushed(w) == IF w.ok THEN [ok |-> TRUE, v |-> fat_flush_cache(w.v, io).v] ELSE w
    IN  flushed(WriteSlot(v, s, e, io))

(* how many clusters are free *)
fat_free_kb(v, io) ==
    LET add(st, rd, c) == [n |-> st.n + (IF rd.val = 0 THEN 1 ELSE 0), v |-> rd.v]
        count[c \in 1 .. LastCluster] ==
          IF c = 1 THEN [n |-> 0, v |-> v]
          ELSE add(count[c - 1], fat_read_entry(count[c - 1].v, c, io), c)
    IN  count[LastCluster]

fat_unmount(v, io) == fat_flush_cache(v, io).v

-----------------------------------------------------------------------------
(* What is on the image, for the properties *)

(* the clusters of a chain as the image has it, at most all of them *)
Chain(v, first) ==
    LET next == [c \in 0 .. Eoc |-> IF c \in Clusters THEN v.fat[c] ELSE 0]
        at[i \in 1 .. LastCluster] == IF i = 1 THEN first ELSE next[at[i - 1]]
    IN  SelectSeq(at, LAMBDA c : c \in Clusters)

(* size units of the chain of first, fewer when the chain ends before *)
Contents(v, first, size) ==
    LET ch == Chain(v, first)
    IN  [i \in 1 .. AtMost(size, ClusterUnits * Len(ch)) |->
           v.data[ch[(i - 1) \div ClusterUnits + 1]][(i - 1) % ClusterUnits]]

(* the chain of first ends, and only clusters in use are in it *)
ChainEnds(v, first) ==
    LET ch == Chain(v, first)
    IN  /\ Cardinality({ch[i] : i \in DOMAIN ch}) = Len(ch)
        /\ ch # <<>> => v.fat[ch[Len(ch)]] = Eoc

ChainSet(v, first) == LET ch == Chain(v, first) IN {ch[i] : i \in DOMAIN ch}
=============================================================================
