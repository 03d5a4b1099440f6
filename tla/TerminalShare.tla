--------------------------- MODULE TerminalShare ---------------------------
(***************************************************************************)
(* A terminal shared with another person, as one of the two machines has   *)
(* it: the share on the screen, the peer connections its starts made, the  *)
(* terminal's output on its way out and the other side's typing on its way *)
(* in.  Source: state/share.svelte.ts, share/peer.ts, share/crypto.ts,     *)
(* ShareDialog.svelte.                                                     *)
(*                                                                         *)
(* A peer calls back into one share for all of them: what an earlier peer  *)
(* says is said of the share on the screen now.  Each await of a start, of *)
(* the first steps of a connection and of a frame's decryption is a place  *)
(* where the share may end, and another begin.                             *)
(***************************************************************************)
EXTENDS Naturals, Sequences

CONSTANTS
    Shares,     \* starts and joins are numbered 1..Shares
    Tabs,       \* terminals that may be shared
    Choices,    \* what the dialog is filled in with
    None

Share == 1..Shares

Choice == [role : {"host", "guest"}, tab : Tabs \cup {None},
           mode : {"read-only", "read-write"}]

VARIABLES
    enabled,    \* config.enabled
    session,    \* the share on the screen
    peer,       \* the peer it would use
    listener,   \* unlistenOutput: whose listener it ends
    listens,    \* what each share's output listener follows
    busy,       \* the start the open dialog waits for
    start,      \* what each start is at
    rtc,        \* each start's SharePeer
    attaching,  \* the terminal a connected share is about to follow
    inbox,      \* frames of the other side not yet opened
    opening,    \* the one being decrypted
    astray,     \* history: output or typing went to another share
    together    \* history: one share began while another still had steps to
                \* take, or ended while it was about to follow its terminal

screen  == <<enabled, session, busy>>
output  == <<listener, listens, attaching>>
input   == <<inbox, opening>>
history == <<astray, together>>
vars    == <<screen, peer, start, rtc, output, input, history>>

\* `of` is the start that put it there, and `code` the one whose code it shows.
Shown == [of : Share, role : {"host", "guest"},
          phase : {"idle", "preparing", "exchanging", "connecting",
                   "connected", "ended", "failed"},
          tab : Tabs \cup {None}, mode : {"read-only", "read-write"},
          code : Share \cup {None}, failure : {"none", "bad-code", "other"}]

\* `tab` is the terminal its share was begun with, `made` says that its code
\* was shown, `applied` that the host has taken the guest's reply.
Peer == [role : {"host", "guest"}, tab : Tabs \cup {None},
         state : {"idle", "gathering", "awaiting-answer", "connecting",
                  "connected", "closed", "failed"},
         pc : {"open", "closing", "closed"}, channel : BOOLEAN,
         timer : BOOLEAN, made : BOOLEAN, applied : BOOLEAN]

NewPeer(role, t) ==
    [role |-> role, tab |-> t, state |-> "idle", pc |-> "open", channel |-> FALSE,
     timer |-> FALSE, made |-> FALSE, applied |-> FALSE]

Frame == {"in", "bye"}

TerminalShareAssumption ==
    /\ Shares \in Nat /\ Choices \subseteq Choice
    /\ None \notin Share /\ None \notin Tabs /\ None \notin Frame /\ None \notin Shown

TypeOK ==
    /\ enabled \in BOOLEAN
    /\ session \in Shown \cup {None}
    /\ {peer, listener, busy} \subseteq Share \cup {None}
    /\ listens \in [Share -> Tabs \cup {None}]
    /\ start \in [Share -> {"off", "importing", "gathering", "over"}]
    /\ rtc \in [Share -> Peer]
    /\ attaching \in [Share -> Tabs \cup {None}]
    /\ inbox \in [Share -> Seq(Frame)]
    /\ opening \in [Share -> Frame \cup {None}]
    /\ {astray, together} \subseteq BOOLEAN

Init ==
    /\ enabled = TRUE /\ session = None /\ peer = None /\ busy = None
    /\ listener = None /\ listens = [s \in Share |-> None]
    /\ start = [s \in Share |-> "off"]
    /\ rtc = [s \in Share |-> NewPeer("host", None)]
    /\ attaching = [s \in Share |-> None]
    /\ inbox = [s \in Share |-> <<>>] /\ opening = [s \in Share |-> None]
    /\ astray = FALSE /\ together = FALSE

-----------------------------------------------------------------------------
(* What a peer calls back into: onPeerState, teardown, close.              *)

\* The phase on the screen when a peer says it is in `state`.
Phase(state) ==
    CASE state = "gathering" -> "preparing"
      [] state = "awaiting-answer" -> "exchanging"
      [] state = "connecting" ->
            IF session.phase = "exchanging" THEN "exchanging" ELSE "connecting"
      [] state = "closed" ->
            IF session.phase = "failed" THEN "failed" ELSE "ended"
      [] OTHER -> state

Shows(state) ==
    IF session = None THEN session ELSE [session EXCEPT !.phase = Phase(state)]

\* teardown lets go of the peer and ends the listener.  Before it one that
\* only lets go.
TeardownDeaf == peer' = None /\ UNCHANGED <<listener, listens>>

Teardown ==
    /\ peer' = None /\ listener' = None
    /\ listens' = IF listener = None THEN listens ELSE [listens EXCEPT ![listener] = None]

\* A peer that is over says so, and whichever share there is comes down.
ComesDown(state) ==
    /\ session' = Shows(state)
    /\ IF session = None THEN UNCHANGED <<peer, listener, listens>> ELSE Teardown

\* close(): one whose channel is open says bye first and is over a little
\* later.
Closed(p) ==
    CASE p.pc # "open" -> p
      [] p.pc = "open" /\ p.channel -> [p EXCEPT !.pc = "closing", !.timer = FALSE]
      [] OTHER -> [p EXCEPT !.pc = "closed", !.timer = FALSE, !.state = "closed"]

CloseOurs == IF peer = None THEN rtc ELSE [rtc EXCEPT ![peer] = Closed(@)]

\* #fail: nothing if the peer is already over.
Failed(s) ==
    IF rtc[s].state \in {"failed", "closed"}
    THEN UNCHANGED <<session, peer, listener, listens, rtc>>
    ELSE /\ rtc' = [rtc EXCEPT ![s].state = "failed", ![s].channel = FALSE,
                        ![s].timer = FALSE, ![s].pc = IF @ = "open" THEN "closed" ELSE @]
         /\ session' = IF session = None THEN None
                       ELSE [session EXCEPT !.phase = "failed", !.failure = "other"]
         /\ IF session = None THEN UNCHANGED <<peer, listener, listens>> ELSE Teardown

-----------------------------------------------------------------------------
(* Starting and joining.                                                   *)

UnderWay(s) ==
    \/ start[s] \in {"importing", "gathering"}
    \/ attaching[s] # None \/ opening[s] # None
    \/ rtc[s].pc = "closing" \/ rtc[s].timer

\* startHosting, joinWithCode up to their first await; fresh dismisses what
\* was there.
Start(s, choice) ==
    /\ enabled /\ busy = None /\ start[s] = "off"
    /\ \A earlier \in 1..s - 1 : start[earlier] # "off"
    /\ session # None => session.phase = "idle"
    /\ session' = [of |-> s, role |-> choice.role, phase |-> "preparing",
                   tab |-> choice.tab, mode |-> choice.mode, code |-> None, failure |-> "none"]
    /\ rtc' = [CloseOurs EXCEPT ![s] = NewPeer(choice.role, choice.tab)]
    /\ IF peer = None THEN UNCHANGED <<peer, listener, listens>> ELSE Teardown
    /\ start' = [start EXCEPT ![s] = "importing"]
    /\ busy' = s
    /\ together' = (together \/ \E other \in Share : UnderWay(other))
    /\ UNCHANGED <<enabled, attaching, input, astray>>

\* The dialog's buttons are free again when the start it waits for returns.
Returns(s) ==
    /\ start' = [start EXCEPT ![s] = "over"]
    /\ busy' = IF busy = s THEN None ELSE busy

\* The sharing code is there: whatever has become of the share, this is its
\* peer now.
Imported(s) ==
    /\ start[s] = "importing"
    /\ start' = [start EXCEPT ![s] = "gathering"]
    /\ peer' = s
    /\ rtc' = [rtc EXCEPT ![s].state = "gathering"]
    /\ session' = Shows("gathering")
    /\ UNCHANGED <<enabled, busy, output, input, history>>

\* A step of the start went wrong: the pasted code was not one of ours, or
\* the connection was closed under it.  The peer is let go, not closed.
StartFails(s) ==
    /\ start[s] \in {"importing", "gathering"}
    /\ Returns(s)
    /\ session' = IF session = None THEN None
                  ELSE [session EXCEPT
                    !.phase = IF session.failure = "other" THEN "failed" ELSE "idle",
                    !.failure = IF @ = "none" THEN "bad-code" ELSE @]
    /\ IF session = None
       THEN /\ peer' = IF start[s] = "importing" THEN s ELSE peer
            /\ UNCHANGED <<listener, listens>>
       ELSE Teardown
    /\ UNCHANGED <<enabled, rtc, attaching, input, history>>

\* Gathering is complete, or has taken ten seconds: the code is shown, in
\* whichever share is on the screen.  Closing the connection does not end
\* the wait.
Gathered(s) ==
    /\ start[s] = "gathering"
    /\ Returns(s)
    /\ session' = IF session = None THEN None
                  ELSE [session EXCEPT !.phase = "exchanging", !.code = s]
    /\ rtc' = [rtc EXCEPT
        ![s].state = IF rtc[s].role = "host" THEN "awaiting-answer" ELSE "connecting",
        ![s].timer = rtc[s].role = "guest",
        ![s].made = session # None]
    /\ UNCHANGED <<enabled, peer, output, input, history>>

\* The host pastes the reply to x's code.
AcceptAnswer(x) ==
    /\ session # None /\ session.phase = "exchanging" /\ session.role = "host"
    /\ busy = None /\ peer # None
    /\ rtc[x].role = "host" /\ rtc[x].made
    /\ rtc[peer].state = "awaiting-answer"
    /\ IF x = peer
       THEN /\ session' = [session EXCEPT !.phase = "connecting", !.failure = "none"]
            /\ rtc' = [rtc EXCEPT ![x].state = "connecting",
                           ![x].timer = TRUE, ![x].applied = TRUE]
       ELSE /\ session' = [session EXCEPT !.failure = "bad-code"]
            /\ UNCHANGED rtc
    /\ UNCHANGED <<enabled, busy, peer, start, output, input, history>>

\* The other side does.
OtherAccepts(s) ==
    /\ rtc[s].role = "guest" /\ rtc[s].made /\ ~rtc[s].applied
    /\ rtc' = [rtc EXCEPT ![s].applied = TRUE]
    /\ UNCHANGED <<screen, peer, start, output, input, history>>

\* The channel opens.  onConnected takes the terminal of whichever share is
\* on the screen, says hello, and then follows it.
Opens(s) ==
    /\ rtc[s].state = "connecting" /\ rtc[s].pc = "open" /\ rtc[s].applied
    /\ rtc' = [rtc EXCEPT ![s].state = "connected", ![s].channel = TRUE,
                          ![s].timer = FALSE]
    /\ session' = Shows("connected")
    /\ attaching' = IF session = None \/ peer = None THEN attaching
                    ELSE [attaching EXCEPT ![s] = session.tab]
    /\ UNCHANGED <<enabled, busy, peer, start, listener, listens, input, history>>

\* The connect limit, armed by the reply's arrival at the host, and by its
\* making at the guest.
TimesOut(s) ==
    /\ rtc[s].timer
    /\ IF rtc[s].state = "connecting"
       THEN Failed(s)
       ELSE /\ rtc' = [rtc EXCEPT ![s].timer = FALSE]
            /\ UNCHANGED <<session, peer, listener, listens>>
    /\ UNCHANGED <<enabled, busy, start, attaching, input, history>>

\* No route, or none any more; the other side's channel closed.
Breaks(s) ==
    /\ rtc[s].pc # "closed" /\ rtc[s].applied
    /\ rtc[s].state \in {"connecting", "connected"}
    /\ Failed(s)
    /\ UNCHANGED <<enabled, busy, start, attaching, input, history>>

-----------------------------------------------------------------------------
(* While connected.                                                        *)

\* attachOutput: the listener stands, whether or not the share still does.
Attached(s) ==
    /\ attaching[s] # None
    /\ listens' = [listens EXCEPT ![s] = attaching[s]]
    /\ listener' = s
    /\ attaching' = [attaching EXCEPT ![s] = None]
    /\ together' = (together \/ session = None \/ session.of # s
                              \/ session.phase # "connected")
    /\ UNCHANGED <<screen, peer, start, rtc, input, astray>>

\* A terminal prints: each listener that follows it hands it to the peer
\* there is now.
Prints(t) ==
    /\ peer # None /\ rtc[peer].channel
    /\ \E s \in Share : listens[s] = t
    /\ astray' = (astray \/ rtc[peer].tab # t)
    /\ UNCHANGED <<screen, peer, start, rtc, output, input, together>>

\* The other side's frames, in order on the channel, bye the last.
Arrives(s, frame) ==
    /\ rtc[s].channel /\ Len(inbox[s]) < 2
    /\ \A i \in DOMAIN inbox[s] : inbox[s][i] # "bye"
    /\ inbox' = [inbox EXCEPT ![s] = Append(@, frame)]
    /\ UNCHANGED <<screen, peer, start, rtc, output, opening, history>>

\* #receive: one after the other, and none once the peer is closed.
OpenFrame(s) ==
    /\ opening[s] = None /\ inbox[s] # <<>>
    /\ inbox' = [inbox EXCEPT ![s] = Tail(@)]
    /\ opening' = [opening EXCEPT ![s] = IF rtc[s].pc = "open" THEN Head(inbox[s]) ELSE None]
    /\ UNCHANGED <<screen, peer, start, rtc, output, history>>

\* What is typed goes to the terminal of the share on the screen, if that
\* share lets it.
TypesIn(s) ==
    /\ opening[s] = "in"
    /\ opening' = [opening EXCEPT ![s] = None]
    /\ astray' = (astray \/ /\ session # None /\ session.mode = "read-write"
                            /\ session.tab \notin {rtc[s].tab, None})
    /\ UNCHANGED <<screen, peer, start, rtc, output, inbox, together>>

HearsBye(s) ==
    /\ opening[s] = "bye"
    /\ opening' = [opening EXCEPT ![s] = None]
    /\ rtc' = [rtc EXCEPT ![s] = [Closed(@) EXCEPT !.state = "closed"]]
    /\ IF rtc[s].state = "closed" THEN UNCHANGED <<session, peer, listener, listens>>
       ELSE ComesDown("closed")
    /\ UNCHANGED <<enabled, busy, start, attaching, inbox, history>>

SetMode(mode) ==
    /\ session # None /\ session.phase \in {"idle", "connected"}
    /\ session' = [session EXCEPT !.mode = mode]
    /\ UNCHANGED <<enabled, busy, peer, start, rtc, output, input, history>>

-----------------------------------------------------------------------------
(* Ending.                                                                 *)

End ==
    /\ rtc' = CloseOurs
    /\ Teardown
    /\ UNCHANGED <<start, attaching, input, history>>

EndShare ==
    /\ session # None /\ session.phase = "connected"
    /\ End
    /\ session' = Shows("closed")
    /\ UNCHANGED <<enabled, busy>>

\* Cancel, or Close below a share that is over.
Dismiss ==
    /\ session # None /\ session.phase \notin {"idle", "connected"}
    /\ session' = None
    /\ IF peer # None THEN End
       ELSE UNCHANGED <<peer, start, rtc, output, input, history>>
    /\ UNCHANGED <<enabled, busy>>

\* The bye has left, or 300 milliseconds have passed.
Finish(s) ==
    /\ rtc[s].pc = "closing"
    /\ rtc' = [rtc EXCEPT ![s].pc = "closed", ![s].channel = FALSE, ![s].state = "closed"]
    /\ IF rtc[s].state = "closed" THEN UNCHANGED <<session, peer, listener, listens>>
       ELSE ComesDown("closed")
    /\ UNCHANGED <<enabled, busy, start, attaching, input, history>>

\* The switch in the settings; the dialog goes with it, and comes anew.
Enable(on) ==
    /\ on # enabled
    /\ enabled' = on /\ busy' = None
    /\ IF ~on /\ session # None
       THEN End /\ session' = Shows("closed")
       ELSE UNCHANGED <<session, peer, start, rtc, output, input, history>>

\* Another tab's bar has a dialog of its own.
OtherDialog ==
    /\ busy # None
    /\ busy' = None
    /\ UNCHANGED <<enabled, session, peer, start, rtc, output, input, history>>

-----------------------------------------------------------------------------

Next ==
    \/ \E s \in Share :
        \/ \E choice \in Choices : Start(s, choice)
        \/ Imported(s) \/ StartFails(s) \/ Gathered(s)
        \/ AcceptAnswer(s) \/ OtherAccepts(s) \/ Opens(s) \/ TimesOut(s) \/ Breaks(s)
        \/ Attached(s) \/ OpenFrame(s) \/ TypesIn(s) \/ HearsBye(s) \/ Finish(s)
        \/ \E frame \in Frame : Arrives(s, frame)
    \/ \E t \in Tabs : Prints(t)
    \/ \E mode \in {"read-only", "read-write"} : SetMode(mode)
    \/ EndShare \/ Dismiss \/ OtherDialog
    \/ \E on \in BOOLEAN : Enable(on)

Spec == Init /\ [][Next]_vars

-----------------------------------------------------------------------------
(* Properties.                                                             *)

\* "A code is for one share.  Once connected, or once the share ends, it is
\* useless": no connection stands open that the screen does not show.
NothingLeftOpen ==
    \A s \in Share : rtc[s].channel /\ rtc[s].pc = "open" =>
        /\ peer = s
        /\ session # None /\ session.of = s /\ session.phase = "connected"

\* The code on the screen is the share's own, and it says connected only of
\* the share's own connection.
ScreenIsTrue ==
    session # None =>
        /\ session.code \in {None, session.of}
        /\ session.phase = "connected" => peer = session.of /\ rtc[peer].state = "connected"

\* As long as no share begins before all of the last one is over, however
\* that one ended (cancelled at any step, refused, timed out, broken off, bye
\* from either side), nothing it left changes the next: its connection is
\* closed, the screen is the next one's, and what either side sends goes from
\* and to the terminal chosen for that share, frames that arrive while one
\* ends included (teardown, close, #fail, attachOutput, writeToLocal).
SharesApart == ~together => NothingLeftOpen /\ ScreenIsTrue /\ ~astray

\* "From answer applied to channel open": the connect limit does not run
\* before the host has taken the reply.
WaitsForReply ==
    [][\A s \in Share : rtc[s].timer /\ ~rtc[s].applied => rtc'[s].state # "failed"]_vars
=============================================================================
