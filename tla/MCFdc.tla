------------------------------- MODULE MCFdc --------------------------------
(* The experiments run on Fdc: which commands the guest gives, which       *)
(* images the user puts in which drive, and the longest write.             *)
EXTENDS Fdc

CONSTANTS i1, i2, d1, d2
VARIABLE trial

MCBlank == <<[id |-> 1, data |-> d1], [id |-> 2, data |-> d1]>>

OneDrive(images) == [d \in Drives |-> IF d = 0 THEN images ELSE {}]

(* seeks and reads on two drives, a disk in one of them *)
SeekTrial == [codes |-> {"SPECIFY", "SENSE_DRIVE", "RECALIBRATE", "SEEK", "SENSE_INT",
                         "READ_ID", "READ", "READ_TRACK", "INVALID"},
              images |-> OneDrive({i1}), longest |-> 2]
(* sectors read and written on a disk *)
SectorTrial == [codes |-> {"READ", "WRITE"}, images |-> OneDrive({i1}), longest |-> 2]
(* sectors written while two disks are swapped in one drive *)
SwapTrial == [codes |-> {"WRITE"}, images |-> OneDrive({i1, i2}), longest |-> 1]
(* a track formatted with two sectors, maybe of one identifier *)
FormatTrial == [codes |-> {"FORMAT"}, images |-> OneDrive({i1}), longest |-> 2]
(* a track formatted, its sector written afterwards *)
RewriteTrial == [codes |-> {"WRITE", "FORMAT"}, images |-> OneDrive({i1}), longest |-> 1]
(* tracks formatted while disks are swapped *)
FormatSwapTrial == [codes |-> {"FORMAT"}, images |-> OneDrive({i1, i2}), longest |-> 1]
(* a disk moved between two drives *)
MoveTrial == [codes |-> {"WRITE"}, images |-> [d \in Drives |-> {i1}], longest |-> 1]

Trials == {SeekTrial, SectorTrial, SwapTrial, FormatTrial, RewriteTrial, FormatSwapTrial,
           MoveTrial}

MCInit == Init /\ trial \in Trials
MCNext == /\ Next
          /\ fdc'.code \in trial.codes \cup {"SPECIFY"}
          /\ fdc'.execLen <= trial.longest
          /\ \A d \in Drives : drive'[d].img \in trial.images[d] \cup {NoImage}
          /\ UNCHANGED trial

MCSpec == MCInit /\ [][MCNext]_<<vars, trial>> /\ Fairness
=============================================================================
