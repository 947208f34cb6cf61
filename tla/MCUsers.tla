------------------------------ MODULE MCUsers -------------------------------
(* What users do to the emulator: the hands on its keyboard, and the       *)
(* visitors of the web service.                                            *)
EXTENDS HostParts, Integers, Sequences

(* As in Inputs and Web *)
CONSTANTS HoldFrames, GapFrames, SettleFrames, ClickFrames, TapFrames, Texts, PtyMax, Script
CONSTANTS Clients, Slots, Requests, Small, Timeout, MaxTime, MaxRequests, MaxSessions
CONSTANTS MaxActs   \* bound on the events of either

PastedTexts == {<<"B", "none", "b">>}
JoyScript == <<[keys |-> {"up"}, frames |-> 2], [keys |-> {}, frames |-> 1]>>
Hands == INSTANCE Inputs WITH
    MaxEvents <- MaxActs, keys <- v1, ps <- v2, pl <- v3, o <- v4

-----------------------------------------------------------------------------
(* Two browsers: pages, streams, a joystick that is pressed and released,  *)
(* uploads in two pieces.                                                  *)
Request(kind, parts, cookie) ==
    [kind |-> kind, parts |-> parts, cookie |-> cookie, close |-> FALSE, down |-> TRUE, key |-> "fire"]
WebRequests ==
    {Request("page", 1, 0), Request("video", 1, 1), Request("audio", 1, 1), Request("joy", 1, 1),
     [Request("joy", 1, 1) EXCEPT !.down = FALSE, !.close = TRUE],
     [Request("key", 1, 1) EXCEPT !.key = "space"], Request("disk", 2, 1),
     Request("config", 2, 1), Request("paste", 2, 1), [Request("reset", 1, 1) EXCEPT !.close = TRUE]}
Webs == INSTANCE Web WITH MaxEvents <- MaxActs, cl <- v1, se <- v2, g <- v3, h <- v4

ASSUME UsersAssumption == Hands!InputsAssumption /\ Webs!WebAssumption

-----------------------------------------------------------------------------
(* The steps of these two parts; the others are free. *)
UsersInit == \/ part \notin {"input", "web"}
             \/ part = "input" /\ Hands!Init
             \/ part = "web" /\ Webs!Init

UsersNext == \/ part \notin {"input", "web"}
             \/ part = "input" /\ Hands!Next
             \/ part = "web" /\ Webs!Next

UsersSpec == UsersInit /\ [][part' = part /\ UsersNext]_hostVars

(* paste.c, kbd.c, pilot.c: a key that is down has a hand holding it, be   *)
(* it the user, a paste, a script or a tap, but for the key of a paste     *)
(* replaced or a tap over; pasted text is typed once and in order.         *)
InputsSound == part = "input" => Hands!InputsSound
(* websvc.c, webgui.c: a session counts its streams exactly and is not     *)
(* swept while it has one; every complete request is answered once and in  *)
(* order; a gui that stops leaves no key of its visitors down.             *)
WebSound == part = "web" => Webs!WebSound

(* docs/PILOT.md:64: "Press the key for `F` frames, then release it."      *)
TapEnds == part = "input" => Hands!TapEnds
=============================================================================
