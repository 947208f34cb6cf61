----------------------------- MODULE FileStore ------------------------------
(***************************************************************************)
(* What the M4 board promises the programs that use its files: a name has  *)
(* a file with contents; a descriptor has a position in a file.  What is   *)
(* written over the published length is there at once; what a file grew by *)
(* is published when the descriptor is closed, and is lost when the        *)
(* machine goes away first.                                                *)
(***************************************************************************)
EXTENDS Integers, Sequences, SequencesExt

CONSTANTS Names, Units, Fds,
          WithExt,      \* the names asked for, with those tried when one to be
                        \* read is not there
          NoFile        \* what a closed descriptor refers to

VARIABLES
    file,     \* name -> whether there is one, its contents, its published length
    open,     \* descriptor -> file, position, length, whether it writes
    asked,    \* the last command, with its arguments
    reply,    \* the answer to it
    tidy,     \* no machine went away with a file open for writing
    broken    \* a sector could not be read or written: nothing is promised

vars == <<file, open, asked, reply, tidy, broken>>

Absent == [exists |-> FALSE, data |-> <<>>, len |-> 0]
Empty == [exists |-> TRUE, data |-> <<>>, len |-> 0]
Closed == [name |-> NoFile, pos |-> 0, size |-> 0, wr |-> FALSE]

Opened(n, size, wr) == [name |-> n, pos |-> 0, size |-> size, wr |-> wr]
IsOpen(d) == open[d] # Closed

Ok(data) == [ok |-> TRUE, data |-> data, end |-> FALSE]
OkEnd(data, end) == [ok |-> TRUE, data |-> data, end |-> end]
Refused == [ok |-> FALSE, data |-> <<>>, end |-> FALSE]

(* What a unit holds that was skipped over and never written.              *)
Filler == IF tidy THEN {0} ELSE Units \cup {0}

(* the units from pos on, at most n *)
From(s, pos, n) == SubSeq(s, pos + 1, IF pos + n < Len(s) THEN pos + n ELSE Len(s))

(* vals over s from pos on, which is at most its length *)
Patched(s, pos, vals) ==
    [i \in 1 .. IF pos + Len(vals) > Len(s) THEN pos + Len(vals) ELSE Len(s) |->
       IF i - pos \in DOMAIN vals THEN vals[i - pos] ELSE s[i]]

(* the files after descriptor d was closed *)
Published(d) ==
    IF open[d].wr THEN [file EXCEPT ![open[d].name].len = open[d].size] ELSE file

Init == /\ file \in [Names -> {Absent} \cup
                              {[exists |-> TRUE, data |-> s, len |-> Len(s)] :
                                 s \in BoundedSeq(Units \cup {0}, 5)}]
        /\ open = [d \in Fds |-> Closed]
        /\ asked = <<"RESET">> /\ reply = Refused
        /\ tidy = TRUE /\ broken = FALSE

-----------------------------------------------------------------------------
(* The names under which a file that is to be read is looked for, in turn. *)
Found(files, n) == SelectSeq(<<n>> \o WithExt[n], LAMBDA m : files[m].exists)

(* Without real, descriptor 1 reads and 2 writes, and a file it had open   *)
(* is closed; with real a closed one is used.  Reading opens the file      *)
(* there is; writing may be refused.                                       *)
Open(d, n, mode, real) ==
    /\ asked' = <<"OPEN", n, mode, real>>
    /\ IF real THEN d > 2 /\ ~IsOpen(d) ELSE d = IF mode = "READ" THEN 1 ELSE 2
    /\ LET files == Published(d)
           there == Found(files, n)
           closes == file' = files /\ open' = [open EXCEPT ![d] = Closed] /\ reply' = Refused
           opens(m, wr) == /\ open' = [open EXCEPT ![d] = Opened(m, file'[m].len, wr)]
                           /\ reply' = Ok(<<d>>)
       IN  CASE mode = "READ" ->
                  IF there = <<>> THEN closes ELSE file' = files /\ opens(Head(there), FALSE)
             [] mode = "ALWAYS" ->
                  \/ closes
                  \/ /\ file' = [files EXCEPT ![n] = IF @.exists THEN @ ELSE Empty]
                     /\ opens(n, TRUE)
             [] mode = "REPLACE" ->
                  closes \/ (file' = [files EXCEPT ![n] = Empty] /\ opens(n, TRUE))
    /\ UNCHANGED <<tidy, broken>>

(* Nothing is opened, nothing closed: a card that is protected, or no      *)
(* descriptor left.                                                        *)
OpenRefused(n, mode, real) ==
    /\ asked' = <<"OPEN", n, mode, real>>
    /\ mode # "READ" \/ (real /\ \A d \in Fds : d > 2 => IsOpen(d))
    /\ reply' = Refused
    /\ UNCHANGED <<file, open, tidy, broken>>

(* Units are read from a descriptor that reads, from its position to the   *)
(* length the file had when it was opened; READ adds zeros, READ2 tells.   *)
Read(d, n) ==
    /\ asked' \in {<<"READ", d, n>>, <<"READ2", d, n>>}
    /\ IsOpen(d)
    /\ LET h == open[d]
           got == IF h.wr THEN <<>> ELSE From(From(file[h.name].data, 0, h.size), h.pos, n)
       IN  /\ open' = [open EXCEPT ![d].pos = @ + Len(got)]
           /\ reply' = (IF asked'[1] = "READ"
                        THEN Ok(got \o [i \in 1 .. n - Len(got) |-> 0])
                        ELSE OkEnd(got, Len(got) < n))
    /\ UNCHANGED <<file, tidy, broken>>

(* vals is written, or a first part of it when the card is full, which     *)
(* WRITE tells and WRITE2 does not.  What was skipped over becomes part of *)
(* the file; with nothing written, the length takes in the position all    *)
(* the same, and the card holds as much of what was skipped as it can.     *)
Write(d, vals) ==
    /\ asked' \in {<<"WRITE", d, vals>>, <<"WRITE2", d, vals>>}
    /\ IsOpen(d)
    /\ LET h == open[d]
           s == file[h.name].data
           skipped == IF h.pos > Len(s) THEN h.pos - Len(s) ELSE 0
       IN  \E k \in IF h.wr THEN 0 .. Len(vals) ELSE {0} :
             /\ reply' = IF asked'[1] = "WRITE2" \/ k = Len(vals) THEN Ok(<<>>) ELSE Refused
             /\ IF h.wr
                THEN /\ open' = [open EXCEPT ![d].pos = @ + k,
                                             ![d].size = IF h.pos + k > @ THEN h.pos + k ELSE @]
                     /\ \E held \in IF k = 0 THEN 0 .. skipped ELSE {skipped} :
                          \E gap \in [1 .. held -> Filler] :
                            file' = [file EXCEPT ![h.name].data =
                                       IF k = 0 THEN s \o gap
                                       ELSE Patched(s \o gap, h.pos, SubSeq(vals, 1, k))]
                ELSE UNCHANGED <<file, open>>
    /\ UNCHANGED <<tidy, broken>>

Seek(d, pos) ==
    /\ asked' = <<"SEEK", d, pos>>
    /\ IsOpen(d)
    /\ open' = [open EXCEPT ![d].pos = pos]
    /\ reply' = Ok(<<>>)
    /\ UNCHANGED <<file, tidy, broken>>

(* position, length, and whether the end is reached                        *)
Tell(d) ==
    /\ asked' = <<"TELL", d>>
    /\ IsOpen(d)
    /\ reply' = OkEnd(<<open[d].pos, open[d].size>>, open[d].pos >= open[d].size)
    /\ UNCHANGED <<file, open, tidy, broken>>

Close(d) ==
    /\ asked' = <<"CLOSE", d>>
    /\ reply' = IF IsOpen(d) THEN Ok(<<>>) ELSE Refused
    /\ file' = Published(d)
    /\ open' = [open EXCEPT ![d] = Closed]
    /\ UNCHANGED <<tidy, broken>>

(* A file erased; a refusal erases nothing.                                *)
Erase(n) ==
    /\ asked' = <<"ERASE", n>>
    /\ \/ file' = [file EXCEPT ![n] = Absent] /\ file[n].exists /\ reply' = Ok(<<>>)
       \/ file' = file /\ reply' = Refused
    /\ UNCHANGED <<open, tidy, broken>>

(* Every descriptor closed at once, or no more than the image changed when *)
(* none is open.                                                           *)
CloseAll ==
    /\ asked' = <<"RESET">>
    /\ file' = [n \in Names |->
                  LET W == {d \in Fds : open[d].name = n /\ open[d].wr}
                  IN  IF W = {} THEN file[n]
                      ELSE [file[n] EXCEPT !.len = open[CHOOSE d \in W : TRUE].size]]
    /\ open' = [d \in Fds |-> Closed]
    /\ reply' = Refused
    /\ UNCHANGED <<tidy, broken>>

(* The machine goes away: what was published is there when it comes back.  *)
Quit ==
    /\ asked' = <<"QUIT">>
    /\ file' = [n \in Names |-> [file[n] EXCEPT !.data = From(@, 0, file[n].len)]]
    /\ open' = [d \in Fds |-> Closed]
    /\ reply' = Refused
    /\ tidy' = (tidy /\ \A d \in Fds : ~open[d].wr)
    /\ UNCHANGED broken

Fault == broken' = TRUE

Asked(cmds) == asked'[1] \in cmds

Next ==
    \/ Fault
    \/ /\ Asked({"OPEN"})
       /\ \E n \in DOMAIN WithExt, mode \in {"READ", "REPLACE", "ALWAYS"}, real \in BOOLEAN :
            OpenRefused(n, mode, real) \/ \E d \in Fds : Open(d, n, mode, real)
    \/ Asked({"READ", "READ2"}) /\ \E d \in Fds : asked'[3] \in Nat /\ Read(d, asked'[3])
    \/ /\ Asked({"WRITE", "WRITE2"})
       /\ \E d \in Fds : asked'[3] \in Seq(Units) /\ Write(d, asked'[3])
    \/ Asked({"SEEK"}) /\ \E d \in Fds : asked'[3] \in Nat /\ Seek(d, asked'[3])
    \/ Asked({"TELL"}) /\ \E d \in Fds : Tell(d)
    \/ Asked({"CLOSE"}) /\ \E d \in Fds : Close(d)
    \/ Asked({"ERASE"}) /\ \E n \in DOMAIN WithExt : Erase(n)
    \/ CloseAll \/ Quit

Spec == Init /\ [][Next]_vars
=============================================================================
