-------------------------------- MODULE Web --------------------------------
(***************************************************************************)
(* The web service with a machine for every visitor (websvc.c) and the web *)
(* gui onto the one machine (webgui.c), which share the client's state     *)
(* machine: requests that arrive in parts and in numbers, uploads,         *)
(* keep-alive, video and audio streams, sessions that are created, reaped, *)
(* rebuilt and swept.                                                      *)
(*                                                                         *)
(* Abstracted: a request is its kind and as many parts as matter (its head *)
(* and its body); a response is one piece, a frame of a stream two; the    *)
(* pages, images and header syntax are left out.  Reading a client and     *)
(* dispatching what is complete is one step, in any order among clients.   *)
(***************************************************************************)
EXTENDS Integers, Sequences, FiniteSets

CONSTANTS
    Clients,        \* WS_MAX_CLIENTS slots
    Slots,          \* WS_MAX_SESSIONS slots
    Requests,       \* what may be asked: kind, parts, cookie, close, key
    Small,          \* parts of a request that fit WS_REQ_MAX
    Timeout,        \* WS_IDLE_TIMEOUT_MS
    MaxTime, MaxRequests, MaxSessions, MaxEvents \* bounds

WebAssumption ==
    /\ Timeout \in Nat \ {0} /\ Small \in Nat /\ \A r \in Requests : r.parts >= 1
    /\ IsFiniteSet(Clients) /\ Clients \subseteq Nat /\ Slots \subseteq Nat \ {0} /\ 1 \in Slots

VARIABLES
    cl,     \* clients: state, session and its cookie, reqs it was sent, how many of
            \* them are done and the parts of the next that came, out, closing,
            \* what the other end got, whether it has closed
    se,     \* sessions: use, cookie, attached, last, held sticks and buttons, the keys
            \* that are down, those of them pressed by name, disk, machine
    g,      \* whether this is the service or the gui, listening, the time, crashed
    h       \* history: cookies given, requests sent, a stream cut by a reap, the
            \* sessions whose new machine could not be built, events

vars == <<cl, se, g, h>>

NoSession == 0
FreeClient == [state |-> "free", sess |-> NoSession, cookie |-> 0, reqs |-> <<>>, done |-> 0,
               have |-> 0, out |-> <<>>, closing |-> FALSE, got |-> <<>>, fin |-> FALSE]
NoMachine == [use |-> FALSE, cookie |-> 0, attached |-> 0, last |-> 0, held |-> {},
              keys |-> {}, named |-> {}, disk |-> FALSE, built |-> FALSE]
Streaming == {"video", "audio"}
Service == g.mode = "service"

Init ==
    /\ cl = [c \in Clients |-> FreeClient]
    /\ g \in {[mode |-> mode, up |-> TRUE, now |-> 0, crashed |-> FALSE] : mode \in {"service", "gui"}}
    /\ se = [s \in Slots |-> IF g.mode = "gui" /\ s = 1
                             THEN [NoMachine EXCEPT !.use = TRUE, !.built = TRUE] ELSE NoMachine]
    /\ h = [cookies |-> 0, sent |-> 0, cut |-> FALSE, failed |-> {}, n |-> 0]

Event(next) == h.n < MaxEvents /\ h' = [next EXCEPT !.n = @ + 1]

-----------------------------------------------------------------------------
(* A world w is the clients, the sessions and the history together. *)

World == [cl |-> cl, se |-> se, h |-> h]
Becomes(w) == cl' = w.cl /\ se' = w.se /\ h' = w.h /\ UNCHANGED g

(* wc_close for a set of clients: each leaves the stream it watched, of     *)
(* which the gui keeps no count.                                           *)
Watchers(w, set, s) == {c \in set : w.cl[c].state \in Streaming /\ w.cl[c].sess = s}
LeavingFaulty(w, set, s) ==     \* audio streams are not counted down
    {c \in set : Service /\ w.cl[c].state = "video" /\ w.cl[c].sess = s}
Leaving(w, set, s) == {c \in Watchers(w, set, s) : Service}
wc_close(w, set) ==
    [w EXCEPT !.cl = [c \in Clients |-> IF c \in set THEN FreeClient ELSE w.cl[c]],
              !.se = [s \in Slots |->
                         IF Leaving(w, set, s) = {} THEN w.se[s]
                         ELSE [w.se[s] EXCEPT !.last = g.now,
                                  !.attached = w.se[s].attached - Cardinality(Leaving(w, set, s))]]]

Answer(w, c, keep) ==
    LET k == w.cl[c]
    IN  [w EXCEPT !.cl[c] =
            [k EXCEPT !.out = Append(k.out, [request |-> k.done + 1]), !.done = k.done + 1,
                      !.have = 0, !.state = "request", !.closing = k.closing \/ ~keep]]

session_lookup(w, cookie) ==
    IF \E s \in Slots : w.se[s].use /\ w.se[s].cookie = cookie
         THEN CHOOSE s \in Slots : w.se[s].use /\ w.se[s].cookie = cookie ELSE NoSession

(* the sticks and the buttons; nobody remembers a key pressed by name *)
session_release_input(x) == [x EXCEPT !.keys = @ \ x.held]

(* session_destroy for a set of sessions *)
session_destroy(w, set) ==
    LET its == {c \in Clients : w.cl[c].sess \in set}
        v == wc_close(w, its)
    IN  [v EXCEPT !.se = [s \in Slots |-> IF s \in set THEN NoMachine ELSE v.se[s]],
                  !.h.cut = @ \/ \E c \in its : w.cl[c].state \in Streaming]

Idle(w, s) == w.se[s].use /\ w.se[s].attached = 0 /\ g.now - w.se[s].last >= Timeout

(* the idle session that was left first, and of two the first *)
session_reap_one_idle(w) ==
    LET idle == {s \in Slots : Idle(w, s)}
        oldest == {s \in idle : \A t \in idle : w.se[s].last <= w.se[t].last}
    IN  IF idle = {} THEN w
        ELSE session_destroy(w, {s \in oldest : \A t \in oldest : s <= t})

(* a free slot, if need be an idle session's; then its index, or none: the *)
(* machine may also fail to be built                                       *)
session_create(w) ==
    LET v == IF \E s \in Slots : ~w.se[s].use THEN w ELSE session_reap_one_idle(w)
        free == {s \in Slots : ~v.se[s].use}
        slot == CHOOSE s \in free : \A t \in free : s <= t
        made == [v EXCEPT !.se[slot] = [NoMachine EXCEPT !.use = TRUE, !.built = TRUE,
                                                        !.cookie = v.h.cookies + 1, !.last = g.now],
                          !.h.cookies = @ + 1]
    IN  {<<v, NoSession>>} \cup (IF free = {} THEN {} ELSE {<<made, slot>>})

-----------------------------------------------------------------------------
(* What is asked for.  Each is the set of worlds after it. *)

Bound(w, c, s) == [w EXCEPT !.cl[c] = [w.cl[c] EXCEPT !.sess = s, !.cookie = w.se[s].cookie]]

(* "/": the reap may have closed this very client, whose answer is then    *)
(* lost with it                                                            *)
route_page(w, c, r) ==
    LET found == session_lookup(w, r.cookie)
    IN  {IF v[1].cl[c].state = "free" THEN v[1]
         ELSE IF v[2] = NoSession THEN Answer(v[1], c, FALSE)
         ELSE Answer(Bound(v[1], c, v[2]), c, TRUE) :
            v \in IF found # NoSession THEN {<<w, found>>} ELSE session_create(w)}

Header(w, c, kind) == [Answer(w, c, TRUE) EXCEPT !.cl[c].state = kind]
route_stream(w, c, kind) ==
    LET x == w.se[w.cl[c].sess]
    IN  {[Header(w, c, kind) EXCEPT !.se[w.cl[c].sess] = [x EXCEPT !.attached = x.attached + 1,
                                                                   !.last = g.now]]}

Turned(set, r) == IF r.down THEN set \cup {r.key} ELSE set \ {r.key}
route_key(w, c, r) ==
    LET x == w.se[w.cl[c].sess]
    IN  {[Answer(w, c, TRUE) EXCEPT !.se[w.cl[c].sess] =
             [x EXCEPT !.named = Turned(x.named, r), !.keys = Turned(x.keys, r)]]}
route_joy(w, c, r) ==
    LET x == w.se[w.cl[c].sess]
    IN  {[Answer(w, c, TRUE) EXCEPT !.se[w.cl[c].sess] =
             [x EXCEPT !.held = Turned(x.held, r), !.keys = Turned(x.keys, r)]]}

(* the host may fail to store it *)
mount_disk_bytes(w, c) == {Answer(w, c, TRUE),
                           [Answer(w, c, TRUE) EXCEPT !.se[w.cl[c].sess].disk = TRUE]}

(* The old machine is destroyed before the new one is built: if that fails *)
(* the session stays in use without one, its encoder freed.                *)
Without(x) == [x EXCEPT !.keys = {}, !.named = {}, !.disk = FALSE, !.built = FALSE]
rebuild_from_config_file(w, c) ==
    LET s == w.cl[c].sess
    IN  {Answer(w, c, TRUE),
         [Answer(w, c, TRUE) EXCEPT !.se[s] = [Without(w.se[s]) EXCEPT !.held = {}, !.built = TRUE]],
         [Answer(w, c, TRUE) EXCEPT !.se[s] = Without(w.se[s]),
                                    !.h.failed = w.h.failed \cup {w.se[s].cookie}]}

cpc_reset(w, c) ==
    LET x == w.se[w.cl[c].sess]
    IN  {[Answer(w, c, TRUE) EXCEPT !.se[w.cl[c].sess] = [x EXCEPT !.keys = {}, !.named = {}]]}

complete_upload(w, c, r) ==
    IF r.kind = "disk" THEN mount_disk_bytes(w, c) ELSE rebuild_from_config_file(w, c)

Asked(w, c, r) ==
    IF r.kind = "joy" THEN route_joy(w, c, r)
    ELSE IF r.kind = "key" THEN route_key(w, c, r)
    ELSE IF r.kind \in {"disk", "config"} THEN complete_upload(w, c, r)
    ELSE IF r.kind = "reset" THEN cpc_reset(w, c)
    ELSE {Answer(w, c, TRUE)}

route(w, c, r) ==
    LET s == session_lookup(w, r.cookie)
        v == Bound(w, c, s)
    IN  IF r.kind = "method" THEN {Answer(w, c, FALSE)}
        ELSE IF r.kind = "page" THEN route_page(w, c, r)
        ELSE IF s = NoSession THEN {Answer(w, c, FALSE)}
        ELSE IF r.kind \in Streaming THEN route_stream(v, c, r.kind)
        ELSE Asked(v, c, r)

(* the gui: one machine, whoever asks, and no other configuration for it *)
webgui_route(w, c, r) ==
    LET v == [w EXCEPT !.cl[c].sess = 1]
    IN  IF r.kind = "method" THEN {Answer(w, c, FALSE)}
        ELSE IF r.kind \in Streaming THEN {Header(v, c, r.kind)}
        ELSE IF r.kind \in {"page", "config"} THEN {Answer(v, c, TRUE)}
        ELSE Asked(v, c, r)

AskedClose(w, c, r) ==
    IF r.close /\ w.cl[c].state = "request" THEN [w EXCEPT !.cl[c].closing = TRUE] ELSE w

(* A request of k parts that are there, and all of it if it is an upload. *)
Uploading(w, c, r, k) ==
    IF k = r.parts THEN complete_upload(w, c, r) ELSE {[w EXCEPT !.cl[c].have = k]}
Whole(w, c, r, k, routed) ==
    IF r.parts > Small THEN {Answer(w, c, FALSE)}
    ELSE IF k < r.parts THEN {[w EXCEPT !.cl[c].have = k]}
    ELSE {AskedClose(v, c, r) : v \in routed}

try_dispatch(w, c, r, k) ==
    LET s == session_lookup(w, r.cookie)
    IN  IF w.cl[c].state = "upload" THEN Uploading(w, c, r, k)
        ELSE IF r.parts > Small /\ r.kind \in {"disk", "config"}
        THEN IF s = NoSession THEN {Answer(w, c, FALSE)}
             ELSE {[Bound(w, c, s) EXCEPT !.cl[c].state = "upload", !.cl[c].have = k]}
        ELSE Whole(w, c, r, k, route(w, c, r))

webgui_dispatch(w, c, r, k) ==
    IF w.cl[c].state = "upload" THEN Uploading(w, c, r, k)
    ELSE IF r.parts > Small /\ r.kind = "disk"
    THEN {[w EXCEPT !.cl[c] = [w.cl[c] EXCEPT !.state = "upload", !.have = k, !.sess = 1]]}
    ELSE Whole(w, c, r, k, webgui_route(w, c, r))

-----------------------------------------------------------------------------
(* ws_poll *)

Accept == /\ g.up /\ \E c \in Clients :
               /\ cl[c].state = "free" /\ \A d \in Clients : d < c => cl[d].state # "free"
               /\ cl' = [cl EXCEPT ![c].state = "request"]
          /\ Event(h) /\ UNCHANGED <<se, g>>

Receive ==
    \E c \in Clients :
        LET k == cl[c]
        IN  /\ k.state \in {"request", "upload"} /\ ~k.closing /\ k.done < Len(k.reqs)
            /\ \E n \in k.have + 1 .. k.reqs[k.done + 1].parts : (k.state = "upload" \/ n <= Small) /\
               \E w \in IF Service THEN try_dispatch(World, c, k.reqs[k.done + 1], n)
                         ELSE webgui_dispatch(World, c, k.reqs[k.done + 1], n) : Becomes(w)

(* the peer has closed, and everything it sent was read; or it reset *)
ReceiveEnd == \E c \in Clients :
                 /\ cl[c].state # "free" /\ cl[c].fin
                 /\ cl[c].state \in Streaming \/ cl[c].closing \/ cl[c].done = Len(cl[c].reqs)
                       \/ cl[c].have > 0
                 /\ Becomes(wc_close(World, {c}))

wc_send ==
    \E c \in Clients : \E n \in 1 .. Len(cl[c].out) :
        LET k == cl[c]
            w == [World EXCEPT !.cl[c] = [k EXCEPT !.got = k.got \o SubSeq(k.out, 1, n),
                                                   !.out = SubSeq(k.out, n + 1, Len(k.out))]]
        IN  /\ cl[c].state # "free"
            /\ Becomes(IF n = Len(cl[c].out) /\ cl[c].closing THEN wc_close(w, {c}) ELSE w)
SendFails == \E c \in Clients : /\ cl[c].state # "free" /\ cl[c].out # <<>> /\ cl[c].fin
                                /\ Becomes(wc_close(World, {c}))

(* session_frame: a new part for every stream that got the one before *)
Part == <<[half |-> 1], [half |-> 2]>>
Feeds(ready) == /\ ready # {}
                /\ cl' = [c \in Clients |-> IF c \in ready THEN [cl[c] EXCEPT !.out = Part] ELSE cl[c]]
                /\ Event(h) /\ UNCHANGED <<se, g>>
Waiting(kind) == {c \in Clients : cl[c].state = kind /\ cl[c].out = <<>>}
session_frame == \E s \in Slots, kind \in Streaming :
                     Service /\ g.up /\ se[s].use /\ Feeds({c \in Waiting(kind) : cl[c].sess = s})
webgui_frame == \E kind \in Streaming : ~Service /\ g.up /\ Feeds(Waiting(kind))

session_idle_sweep ==
    LET idle == {s \in Slots : Idle(World, s)}
    IN  Service /\ idle # {} /\ Becomes(session_destroy(World, idle))

Hangs(machines) == /\ g.up /\ se' = machines /\ Event(h)
                   /\ cl' = wc_close(World, Clients).cl
Terminated == /\ Service /\ g' = [g EXCEPT !.up = FALSE]
              /\ Hangs([s \in Slots |-> NoMachine])

(* A frame, a picture or the end of a session without a machine uses what  *)
(* was freed: undefined, the process may end there or go on.               *)
Crash == /\ Service /\ \E s \in Slots : se[s].use /\ ~se[s].built
         /\ g' = [g EXCEPT !.up = FALSE, !.crashed = TRUE]
         /\ Hangs([s \in Slots |-> NoMachine])
webgui_stop == /\ ~Service /\ g' = [g EXCEPT !.up = FALSE]
               /\ Hangs([s \in Slots |-> [session_release_input(se[s]) EXCEPT !.held = {}]])
webgui_start == ~g.up /\ ~Service /\ g' = [g EXCEPT !.up = TRUE] /\ Event(h) /\ UNCHANGED <<cl, se>>

-----------------------------------------------------------------------------
(* The other ends, and the clock *)
PeerAsks == \E c \in Clients, r \in Requests :
               /\ cl[c].state # "free" /\ ~cl[c].fin /\ h.sent < MaxRequests
               /\ Len(cl[c].reqs) < cl[c].done + 2
               /\ r.kind = "page" => h.cookies < MaxSessions
               /\ cl' = [cl EXCEPT ![c].reqs = Append(@, r)]
               /\ h' = [h EXCEPT !.sent = @ + 1] /\ UNCHANGED <<se, g>>
PeerCloses == \E c \in Clients : /\ cl[c].state # "free" /\ ~cl[c].fin
                                 /\ cl' = [cl EXCEPT ![c].fin = TRUE] /\ Event(h) /\ UNCHANGED <<se, g>>
Tick == g.now < MaxTime /\ Service /\ g' = [g EXCEPT !.now = @ + 1] /\ UNCHANGED <<cl, se, h>>

Next == \/ Accept \/ Receive \/ ReceiveEnd \/ wc_send \/ SendFails \/ session_frame
        \/ webgui_frame
        \/ session_idle_sweep \/ Terminated \/ Crash \/ webgui_stop \/ webgui_start \/ PeerAsks \/ PeerCloses \/ Tick

Spec == Init /\ [][Next]_vars

-----------------------------------------------------------------------------
(* A session counts the streams that watch it, so that none is reaped      *)
(* while it is watched, and no client keeps a session that is gone.        *)
AttachedExact ==
    Service => \A s \in Slots :
        se[s].attached = Cardinality(Watchers(World, Clients, s))
SessionsLive ==
    /\ ~h.cut
    /\ \A c \in Clients : cl[c].sess # NoSession =>
                              se[cl[c].sess].use /\ se[cl[c].sess].cookie = cl[c].cookie

(* Every request is answered once, in order, on the connection it came on, *)
(* and the parts of a stream are whole and come after its header, for a    *)
(* connection whose other end reads as slowly as it likes.                 *)
Answered ==
    \A c \in Clients :
        LET all == cl[c].got \o cl[c].out
        IN  /\ cl[c].done <= Len(all)
            /\ \A i \in DOMAIN all :
                  IF i <= cl[c].done THEN all[i] = [request |-> i]
                  ELSE cl[c].state \in Streaming /\ all[i] = [half |-> 2 - ((i - cl[c].done) % 2)]

(* Whoever goes on without a machine is a visitor whose own configuration  *)
(* could not be built, and the service dies only of such a one: not of a   *)
(* page that could not be given a machine, nor of another's session.       *)
MachinesBuilt ==
    /\ \A s \in Slots : se[s].use /\ ~se[s].built => se[s].cookie \in h.failed
    /\ g.crashed => h.failed # {}

(* When the gui stops, its sticks and buttons are up: what stays down is a *)
(* key pressed by name and not released, which webgui_stop forgets.        *)
StoppedLetsGo == ~g.up => \A s \in Slots : se[s].keys \subseteq se[s].named

WebSound == AttachedExact /\ SessionsLive /\ Answered /\ MachinesBuilt /\ StoppedLetsGo
=============================================================================
