-------------------------------- MODULE Relay --------------------------------
(***************************************************************************)
(* One forwarded connection and one terminal on the same SSH connection:   *)
(* the two relays a forward may run on, and the session loop that serves   *)
(* every channel of the connection.                                        *)
(* Source: tunnel/manager.rs, ssh/forwarding.rs, vendor/russh.             *)
(*                                                                         *)
(* A tunnel relays in one task: while it waits to write one way it reads   *)
(* neither.  A LocalForward relays in two tasks.  Either way the session   *)
(* loop waits while a channel's buffer is full, and while it waits it      *)
(* takes nothing off the wire, window adjustments included.                *)
(***************************************************************************)
EXTENDS Naturals, Sequences

CONSTANTS
    MaxChunks,  \* what the application and the remote end send, at most
    ShellChunks,\* what the program in the terminal prints
    Window,     \* chunks the server takes ahead of its reader
    Buffer,     \* channel_buffer_size
    Queue,      \* messages that wait for the session loop
    Socket,     \* what a local socket holds
    Wire        \* what the server has under way to us

RelayAssumption ==
    /\ {MaxChunks, ShellChunks} \subseteq Nat
    /\ {Window, Buffer, Queue, Socket, Wire} \subseteq Nat \ {0}

Channels == {"forward", "shell"}
Message == [to : Channels, is : {"data", "eof", "close", "adjust"}]
Nothing == [to |-> "nobody", is |-> "nothing"]

VARIABLES
    form,     \* which relay runs: "tunnel" or "forward"
    sends,    \* the chunks each end has to send
    left,     \* those it has still to send
    got,      \* those it has read
    ended,    \* it sent its end of file
    told,     \* it was told that there is no more
    gone,     \* it closed its connection altogether
    toRelay, toApp,  \* chunks in the local socket, each way
    up, down, \* what the relay is at, each way
    window,   \* chunks the server still takes
    queue,    \* to the session loop
    wire,     \* from the server
    hand,     \* the message the session loop waits to hand over
    buffer,   \* each channel's
    received  \* chunks the server has for the remote end

ends  == <<sends, left, got, ended, told, gone>>
local == <<toRelay, toApp>>
relay == <<up, down>>
loop  == <<window, queue, wire, hand, buffer>>
vars  == <<form, ends, local, relay, loop, received>>

Ends == {"app", "remote", "shell"}
Senders == {e \in {"app", "remote"} : sends[e] > 0}

TypeOK ==
    /\ form \in {"tunnel", "forward"}
    /\ sends \in [Ends -> Nat]
    /\ left \in [Ends -> Nat] /\ got \in [Ends -> Nat]
    /\ ended \in [Ends -> BOOLEAN] /\ told \in [Ends -> BOOLEAN]
    /\ gone \in [Ends -> BOOLEAN]
    /\ toRelay \in 0..Socket /\ toApp \in 0..Socket
    /\ up \in {"read", "write", "eof", "done"}
    /\ down \in {"read", "write", "done"}
    /\ window \in Nat /\ received \in Nat
    /\ queue \in Seq({"data", "eof"}) /\ Len(queue) <= Queue
    /\ wire \in Seq(Message)
    /\ hand \in Message \cup {Nothing}
    /\ buffer \in [Channels -> Seq({"data", "eof", "close"})]
    /\ \A c \in Channels : Len(buffer[c]) <= Buffer

Init ==
    /\ form \in {"tunnel", "forward"}
    /\ \E a, r \in 0..MaxChunks :
          sends = [e \in Ends |-> CASE e = "app" -> a [] e = "remote" -> r
                                    [] OTHER -> ShellChunks]
    /\ left = sends
    /\ got = [e \in Ends |-> 0]
    /\ ended = [e \in Ends |-> FALSE]
    /\ told = [e \in Ends |-> FALSE]
    /\ gone = [e \in Ends |-> FALSE]
    /\ toRelay = 0 /\ toApp = 0
    /\ up = "read" /\ down = "read"
    /\ window = Window
    /\ queue = <<>> /\ wire = <<>>
    /\ hand = Nothing
    /\ buffer = [c \in Channels |-> <<>>]
    /\ received = 0

-----------------------------------------------------------------------------
\* The local application.  It may also close its socket while much is under
\* way: what it has not read is lost, and it writes no more.

AppWrites ==
    /\ left["app"] > 0 /\ toRelay < Socket /\ ~gone["app"]
    /\ left' = [left EXCEPT !["app"] = @ - 1]
    /\ toRelay' = toRelay + 1
    /\ UNCHANGED <<form, sends, got, ended, told, gone, toApp, relay, loop, received>>

AppEnds ==
    /\ left["app"] = 0 /\ ~ended["app"] /\ ~gone["app"]
    /\ ended' = [ended EXCEPT !["app"] = TRUE]
    /\ UNCHANGED <<form, sends, left, got, told, gone, local, relay, loop, received>>

AppReads ==
    /\ toApp > 0 /\ ~gone["app"]
    /\ toApp' = toApp - 1
    /\ got' = [got EXCEPT !["app"] = @ + 1]
    /\ UNCHANGED <<form, sends, left, ended, told, gone, toRelay, relay, loop, received>>

AppGoes ==
    /\ ~gone["app"]
    /\ gone' = [gone EXCEPT !["app"] = TRUE]
    /\ ended' = [ended EXCEPT !["app"] = TRUE]
    /\ UNCHANGED <<form, sends, left, got, told, local, relay, loop, received>>

-----------------------------------------------------------------------------
\* The relay.  relay_connection is one task: one way is read only while it
\* does not wait to write the other.  relay() joins a task for each way.

Free(other) == form = "forward" \/ other \in {"read", "done"}

UpReads ==
    /\ up = "read" /\ Free(down)
    /\ toRelay > 0
    /\ toRelay' = toRelay - 1
    /\ up' = "write"
    /\ UNCHANGED <<form, ends, toApp, down, loop, received>>

UpEnds ==
    /\ up = "read" /\ Free(down)
    /\ toRelay = 0 /\ ended["app"]
    /\ up' = "eof"
    /\ UNCHANGED <<form, ends, local, down, loop, received>>

\* channel.data: once there is window, and room on the way to the loop.
UpWrites ==
    /\ up = "write"
    /\ window > 0 /\ Len(queue) < Queue
    /\ window' = window - 1
    /\ queue' = Append(queue, "data")
    /\ up' = "read"
    /\ UNCHANGED <<form, ends, local, down, wire, hand, buffer, received>>

UpSaysEnd ==
    /\ up = "eof" /\ Len(queue) < Queue
    /\ queue' = Append(queue, "eof")
    /\ up' = "done"
    /\ UNCHANGED <<form, ends, local, down, window, wire, hand, buffer, received>>

Taken == buffer' = [buffer EXCEPT !["forward"] = Tail(@)]

DownReads ==
    /\ down = "read" /\ Free(IF up = "eof" THEN "write" ELSE up)
    /\ buffer["forward"] # <<>> /\ Head(buffer["forward"]) = "data"
    /\ Taken
    /\ down' = "write"
    /\ UNCHANGED <<form, ends, local, up, window, queue, wire, hand, received>>

\* Eof, or no more after Close: the local socket is shut for writing.
DownEnds ==
    /\ down = "read" /\ Free(IF up = "eof" THEN "write" ELSE up)
    /\ buffer["forward"] # <<>> /\ Head(buffer["forward"]) # "data"
    /\ Taken
    /\ down' = "done"
    /\ told' = [told EXCEPT !["app"] = TRUE]
    /\ UNCHANGED <<form, sends, left, got, ended, gone, local, up, window, queue, wire, hand, received>>

DownWrites ==
    /\ down = "write" /\ toApp < Socket /\ ~gone["app"]
    /\ toApp' = toApp + 1
    /\ down' = "read"
    /\ UNCHANGED <<form, ends, toRelay, up, loop, received>>

DownFails ==
    /\ down = "write" /\ gone["app"]
    /\ down' = "done"
    /\ UNCHANGED <<form, ends, local, up, loop, received>>

\* The relay is over when both ways are, and its end of the channel is
\* dropped with it.
Over == up = "done" /\ down = "done"

-----------------------------------------------------------------------------
\* The session loop: one message at a time, of whatever channel.

LoopSends ==
    /\ hand = Nothing /\ queue # <<>>
    /\ queue' = Tail(queue)
    /\ IF gone["remote"] THEN UNCHANGED <<received, told>>
       ELSE IF Head(queue) = "data" THEN received' = received + 1 /\ UNCHANGED told
       ELSE told' = [told EXCEPT !["remote"] = TRUE] /\ UNCHANGED received
    /\ UNCHANGED <<form, sends, left, got, ended, gone, local, relay, window, wire, hand, buffer>>

\* Nobody holds the receiving end any more: what is sent to it is dropped.
Dropped(c) == c = "forward" /\ Over
Room(c) == Dropped(c) \/ Len(buffer[c]) < Buffer
Put(m) == buffer' = IF Dropped(m.to) THEN buffer
                    ELSE [buffer EXCEPT ![m.to] = Append(@, m.is)]

LoopAdjusts ==
    /\ hand = Nothing
    /\ wire # <<>> /\ Head(wire).is = "adjust"
    /\ wire' = Tail(wire)
    /\ window' = window + 1
    /\ UNCHANGED <<form, ends, local, relay, queue, hand, buffer, received>>

\* Data, Eof and Close are handed over, or waited with.
OfferOnce(m) == UNCHANGED hand /\ IF Room(m.to) THEN Put(m) ELSE UNCHANGED buffer
Offer(m) == IF Room(m.to) THEN Put(m) /\ UNCHANGED hand
            ELSE hand' = m /\ UNCHANGED buffer

LoopReceives ==
    /\ hand = Nothing
    /\ wire # <<>> /\ Head(wire).is # "adjust"
    /\ wire' = Tail(wire)
    /\ Offer(Head(wire))
    /\ UNCHANGED <<form, ends, local, relay, window, queue, received>>

LoopDelivers ==
    /\ hand # Nothing /\ Room(hand.to)
    /\ Put(hand)
    /\ hand' = Nothing
    /\ UNCHANGED <<form, ends, local, relay, window, queue, wire, received>>

-----------------------------------------------------------------------------
\* The server: data while there is room on the wire (the window it has
\* towards us is renewed as data arrives, whoever has read it), and an
\* adjustment for each chunk the remote end reads.

Says(c, is) == wire' = Append(wire, [to |-> c, is |-> is])

ServerSends(c, e) ==
    /\ left[e] > 0 /\ ~gone[e]
    /\ Len(wire) < Wire
    /\ left' = [left EXCEPT ![e] = @ - 1]
    /\ Says(c, "data")
    /\ UNCHANGED <<form, sends, got, ended, told, gone, local, relay, window, queue, hand, buffer, received>>

RemoteEnds ==
    /\ left["remote"] = 0 /\ ~ended["remote"] /\ ~gone["remote"]
    /\ Len(wire) < Wire
    /\ ended' = [ended EXCEPT !["remote"] = TRUE]
    /\ Says("forward", "eof")
    /\ UNCHANGED <<form, sends, left, got, told, gone, local, relay, window, queue, hand, buffer, received>>

RemoteReads ==
    /\ received > 0 /\ ~gone["remote"]
    /\ received' = received - 1
    /\ got' = [got EXCEPT !["remote"] = @ + 1]
    /\ Says("forward", "adjust")
    /\ UNCHANGED <<form, sends, left, ended, told, gone, local, relay, window, queue, hand, buffer>>

\* The remote end closes altogether: no adjustment follows.
RemoteGoes ==
    /\ ~gone["remote"] /\ Len(wire) < Wire
    /\ gone' = [gone EXCEPT !["remote"] = TRUE]
    /\ received' = 0
    /\ Says("forward", "close")
    /\ UNCHANGED <<form, sends, left, got, ended, told, local, relay, window, queue, hand, buffer>>

ShellReads ==
    /\ buffer["shell"] # <<>>
    /\ buffer' = [buffer EXCEPT !["shell"] = Tail(@)]
    /\ got' = [got EXCEPT !["shell"] = @ + 1]
    /\ UNCHANGED <<form, sends, left, ended, told, gone, local, relay, window, queue, wire, hand, received>>

-----------------------------------------------------------------------------
AppStep == AppWrites \/ AppEnds \/ AppReads
UpStep == UpReads \/ UpEnds \/ UpWrites \/ UpSaysEnd
DownStep == DownReads \/ DownEnds \/ DownWrites \/ DownFails
LoopIn == LoopAdjusts \/ LoopReceives \/ LoopDelivers
ServerStep == ServerSends("forward", "remote") \/ RemoteEnds

Next ==
    \/ AppStep \/ AppGoes
    \/ UpStep \/ DownStep
    \/ LoopSends \/ LoopIn
    \/ ServerStep \/ RemoteReads \/ RemoteGoes
    \/ ServerSends("shell", "shell") \/ ShellReads

\* Every task of the program is scheduled, and both ends go on reading and
\* writing; neither has to close its connection early.
Fairness ==
    /\ WF_vars(AppWrites) /\ WF_vars(AppEnds) /\ WF_vars(AppReads)
    /\ WF_vars(UpStep) /\ WF_vars(DownStep)
    /\ WF_vars(LoopSends) /\ WF_vars(LoopIn)
    /\ WF_vars(ServerStep) /\ WF_vars(RemoteReads)
    /\ WF_vars(ServerSends("shell", "shell")) /\ WF_vars(ShellReads)

Spec == Init /\ [][Next]_vars /\ Fairness

-----------------------------------------------------------------------------
\* An end that is told there is no more has been given everything the other
\* sent, in spite of the several queues it went through, unless one of the
\* two closed early.
EndIsLast ==
    gone["app"] \/ gone["remote"]
    \/ /\ told["app"] => got["app"] + toApp = sends["remote"]
       /\ told["remote"] => got["remote"] + received = sends["app"]

AllThere ==
    /\ told["app"] /\ told["remote"] /\ Over
    /\ got["app"] = sends["remote"]
    /\ got["remote"] = sends["app"]

Early == gone["app"] \/ gone["remote"]

\* A relay that leaves the loop its way: two tasks, and an application that
\* reads to the end; or data one way only.
Passable == Senders # {"app", "remote"} \/ (form = "forward" /\ ~gone["app"])

\* A forwarded connection whose two ends go on reading gets everything
\* across, end of file last, and the terminal beside it prints everything,
\* whoever closes early; in a tunnel, as long as only one end sends.
Carried ==
    /\ []EndIsLast
    /\ []<>(AllThere \/ Early \/ ~Passable)
    /\ []<>(got["shell"] = ShellChunks \/ ~Passable)
    /\ (gone["remote"] /\ gone["app"]) ~> (Over \/ (up = "write" /\ window = 0) \/ ~Passable)

\* tunnel/manager.rs: "Relay data bidirectionally between a local TCP stream
\* and an SSH direct-tcpip channel."
CarriedBothWays == []<>(AllThere \/ Early)
=============================================================================
