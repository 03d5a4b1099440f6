-------------------------- MODULE SshSessionsProofs --------------------------
(***************************************************************************)
(* Theorems about SshSessions, for every set of connection ids and every   *)
(* bound: typing, the inductive invariant SInv, and the safety properties  *)
(* the passing run checks.                                                 *)
(***************************************************************************)
EXTENDS SshSessions, SequenceTheorems, TLAPS

Pending(i) == call[i] \in {"connecting", "spawned", "registered", "failed"}

\* The tab a connection was made for.
Owner(t, i) == IF asker[i] \in Ids THEN asker[i] = t ELSE i = t

\* How far a command is says what there is of its connection.
CallKept(i) ==
    /\ call[i] \in {"unused", "connecting", "failed"} => task[i] = "none"
    /\ call[i] \in {"unused", "connecting", "failed", "spawned"}
          => i \notin connections
    /\ call[i] \in {"spawned", "registered"} => task[i] # "none"
    /\ task[i] = "none" =>
          inbox[i] = <<>> /\ backlog[i] = <<>> /\ read[i] = 0 /\ ~ready[i]

CallsKept == \A i \in Ids : CallKept(i)

\* A tab has connections made for it, that have returned; two only while it
\* reconnects; and it is not down while its terminal's runs.
TabKept(t) ==
    tab[t] # NoTab =>
        /\ call[t] = "returned"
        /\ \A i \in {tab[t].conn, tab[t].term} :
              call[i] = "returned" /\ task[i] # "none" /\ Owner(t, i)
        /\ Moved(t) => asker[tab[t].term] = t
        /\ tab[t].open /\ Moved(t) => tab[t].busy
        /\ tab[t].open /\ tab[t].down => task[tab[t].term] = "over"

TabsKept == \A t \in Ids : TabKept(t)

\* A reconnect under way is its tab's only one, and the old connection is over.
ReconnectKept(t) ==
    /\ tab[t].busy /\ ~Moved(t)
    /\ tab[t].open => ~tab[t].down
    /\ task[tab[t].term] = "over"

AskedKept ==
    /\ \A i \in Ids : asker[i] \in Ids =>
          /\ tab[asker[i]] # NoTab
          /\ Pending(i) => ReconnectKept(asker[i])
    /\ \A i, j \in Ids :
          Pending(i) /\ Pending(j) /\ asker[i] \in Ids /\ asker[i] = asker[j]
              => i = j

\* A connection's output is in its backlog until its terminal has asked, and
\* on the screen after that.
Has(q, cmd) == \E k \in DOMAIN q : q[k] = cmd
Asks(i) == Has(inbox[i], "ready")

ScreenOf(i) ==
    /\ call[i] # "returned" => ~Asks(i) /\ (i \notin flooded => ~ready[i])
    /\ i \notin flooded /\ ~ready[i] =>
          /\ shown[i] = <<>>
          /\ task[i] # "over" => backlog[i] = FirstChunks(read[i])
    /\ \A t \in Ids : TerminalOf(t, i) =>
          /\ Asks(i) => tab[t].hears = "asked"
          /\ i \notin flooded /\ ready[i] =>
                tab[t].hears = "asked" /\ shown[i] = FirstChunks(read[i])

ScreenKept == \A i \in Ids : ScreenOf(i)

\* A connection that was registered and is not any more is told to close, and
\* that of a closed tab is not, or its ssh_disconnect is on its way.
LetGoKept ==
    /\ \A i \in Ids \ connections :
          call[i] \in {"registered", "returned"} /\ task[i] = "running"
              => Has(inbox[i], "close")
    /\ \A t \in Ids :
          tab[t] # NoTab /\ ~tab[t].open =>
              tab[t].conn \in leaving \/ tab[t].conn \notin connections

Shape == TypeOK /\ CallsKept /\ TabsKept /\ AskedKept

SInv == Shape /\ ScreenKept /\ Accounted /\ LetGoKept

-----------------------------------------------------------------------------
\* What the steps do to the tabs.

LEMMA TabTyped ==
    ASSUME TypeOK, NEW t \in Ids, tab[t] # NoTab
    PROVE  /\ tab[t] \in Tab
           /\ tab[t].conn \in Ids /\ tab[t].term \in Ids
           /\ tab[t].open \in BOOLEAN /\ tab[t].down \in BOOLEAN
           /\ tab[t].busy \in BOOLEAN
<1>1. tab[t] \in Tab
  BY DEF TypeOK
<1> QED
  BY <1>1 DEF Tab

\* One tab is replaced.
TabBecomes(t, u) ==
    /\ u \in Tab
    /\ tab' \in [Ids -> Tab \cup {NoTab}]
    /\ tab'[t] = u
    /\ \A s \in Ids \ {t} : tab'[s] = tab[s]

LEMMA OneTab ==
    ASSUME TypeOK, NEW t \in Ids, NEW u \in Tab, tab' = [tab EXCEPT ![t] = u]
    PROVE  TabBecomes(t, u)
BY DEF TypeOK, TabBecomes

LEMMA ListenDataTab ==
    ASSUME TypeOK, NEW t \in Ids, ListenData(t)
    PROVE  TabBecomes(t, [tab[t] EXCEPT !.hears = "data"])
<1>1. tab[t] \in Tab
  BY TabTyped DEF ListenData
<1>2. [tab[t] EXCEPT !.hears = "data"] \in Tab
  BY <1>1 DEF Tab
<1> QED
  BY <1>2, OneTab DEF ListenData, TypeOK

LEMMA ListenExitTab ==
    ASSUME TypeOK, NEW t \in Ids, ListenExit(t)
    PROVE  TabBecomes(t, [tab[t] EXCEPT !.hears = "exit"])
<1>1. tab[t] \in Tab
  BY TabTyped DEF ListenExit
<1>2. [tab[t] EXCEPT !.hears = "exit"] \in Tab
  BY <1>1 DEF Tab
<1> QED
  BY <1>2, OneTab DEF ListenExit, TypeOK

AskedTab(t) ==
    [tab[t] EXCEPT !.hears = "asked", !.busy = @ /\ ~Moved(t),
                   !.conn = IF tab[t].open THEN tab[t].term ELSE @]

LEMMA AskReadyTab ==
    ASSUME TypeOK, NEW t \in Ids, AskReady(t)
    PROVE  TabBecomes(t, AskedTab(t))
<1>1. tab[t] \in Tab /\ tab[t].term \in Ids /\ tab[t].busy \in BOOLEAN
  BY TabTyped DEF AskReady
<1>2. (tab[t].busy /\ ~Moved(t)) \in BOOLEAN
  OBVIOUS
<1>3. AskedTab(t) \in Tab
  BY <1>1, <1>2 DEF Tab, AskedTab
<1>4. tab' = [tab EXCEPT ![t] = AskedTab(t)]
  BY <1>1 DEF AskReady, AskedTab, TypeOK, Tab
<1> QED
  BY <1>3, <1>4, OneTab

LEMMA ReconnectTab ==
    ASSUME TypeOK, NEW t \in Ids, NEW i \in Ids, Reconnect(t, i)
    PROVE  TabBecomes(t, [tab[t] EXCEPT !.busy = TRUE, !.down = FALSE])
<1>1. tab[t] \in Tab
  BY TabTyped DEF Reconnect
<1>2. [tab[t] EXCEPT !.busy = TRUE, !.down = FALSE] \in Tab
  BY <1>1 DEF Tab
<1>3. tab' = [tab EXCEPT ![t] = [tab[t] EXCEPT !.busy = TRUE, !.down = FALSE]]
  BY <1>1 DEF Reconnect, TypeOK, Tab
<1> QED
  BY <1>2, <1>3, OneTab

LEMMA CloseTabTab ==
    ASSUME TypeOK, NEW t \in Ids, CloseTab(t)
    PROVE  TabBecomes(t, [tab[t] EXCEPT !.open = FALSE])
<1>1. tab[t] \in Tab
  BY TabTyped DEF CloseTab
<1>2. [tab[t] EXCEPT !.open = FALSE] \in Tab
  BY <1>1 DEF Tab
<1> QED
  BY <1>2, OneTab DEF CloseTab, TypeOK

LEMMA ConnectedTab ==
    ASSUME Shape, NEW i \in Ids, Connected(i)
    PROVE  IF asker[i] \in Ids
           THEN /\ tab[asker[i]] # NoTab
                /\ TabBecomes(asker[i], [tab[asker[i]] EXCEPT
                                 !.term = i, !.hears = "nothing"])
           ELSE tab[i] = NoTab /\ TabBecomes(i, NewTab(i))
<1>1. CASE asker[i] \in Ids
  <2> DEFINE t == asker[i]
  <2>1. tab[t] # NoTab /\ tab[t] \in Tab
    BY <1>1, TabTyped DEF Shape, AskedKept
  <2>2. [tab[t] EXCEPT !.term = i, !.hears = "nothing"] \in Tab
    BY <2>1 DEF Tab
  <2>3. tab' = [tab EXCEPT ![t] =
                  [tab[t] EXCEPT !.term = i, !.hears = "nothing"]]
    BY <1>1, <2>1 DEF Connected, Shape, TypeOK, Tab
  <2> QED
    BY <1>1, <2>1, <2>2, <2>3, OneTab DEF Shape
<1>2. CASE asker[i] \notin Ids
  <2>1. NewTab(i) \in Tab
    BY DEF NewTab, Tab
  <2>2. tab[i] = NoTab
    BY DEF Connected, Shape, TabsKept, TabKept
  <2> QED
    BY <1>2, <2>1, <2>2, OneTab DEF Connected, Shape
<1> QED
  BY <1>1, <1>2

LEMMA NotConnectedTab ==
    ASSUME Shape, NEW i \in Ids, NotConnected(i)
    PROVE  IF asker[i] \in Ids
           THEN /\ tab[asker[i]] # NoTab
                /\ TabBecomes(asker[i], [tab[asker[i]] EXCEPT
                                 !.busy = FALSE, !.down = TRUE])
           ELSE tab' = tab
<1>1. CASE asker[i] \in Ids
  <2> DEFINE t == asker[i]
  <2>1. tab[t] # NoTab /\ tab[t] \in Tab
    BY <1>1, TabTyped DEF Shape, AskedKept
  <2>2. [tab[t] EXCEPT !.busy = FALSE, !.down = TRUE] \in Tab
    BY <2>1 DEF Tab
  <2>3. tab' = [tab EXCEPT ![t] =
                  [tab[t] EXCEPT !.busy = FALSE, !.down = TRUE]]
    BY <1>1, <2>1 DEF NotConnected, Shape, TypeOK, Tab
  <2> QED
    BY <1>1, <2>1, <2>2, <2>3, OneTab DEF Shape
<1> QED
  BY <1>1 DEF NotConnected

\* The end of a task marks its terminal's tab, and no other.
LEMMA EndedTab ==
    ASSUME TypeOK, NEW i \in Ids, EmitExit(i)
    PROVE  /\ tab' \in [Ids -> Tab \cup {NoTab}]
           /\ \A t \in Ids :
                 \/ tab'[t] = tab[t]
                 \/ /\ TerminalOf(t, i)
                    /\ tab'[t] = [tab[t] EXCEPT !.down = TRUE]
                    /\ tab'[t] \in Tab
<1> SUFFICES ASSUME NEW t \in Ids
             PROVE  /\ tab'[t] \in Tab \cup {NoTab}
                    /\ \/ tab'[t] = tab[t]
                       \/ /\ TerminalOf(t, i)
                          /\ tab'[t] = [tab[t] EXCEPT !.down = TRUE]
                          /\ tab'[t] \in Tab
  BY DEF EmitExit
<1>1. CASE TerminalOf(t, i)
  <2>1. tab[t] \in Tab
    BY <1>1, TabTyped DEF TerminalOf
  <2>2. [tab[t] EXCEPT !.down = TRUE] \in Tab
    BY <2>1 DEF Tab
  <2> QED
    BY <1>1, <2>1, <2>2 DEF EmitExit
<1>2. CASE ~TerminalOf(t, i)
  BY <1>2 DEF EmitExit, TypeOK
<1> QED
  BY <1>1, <1>2

-----------------------------------------------------------------------------
\* Typing.

LEMMA FirstChunksEmpty == FirstChunks(0) = <<>>
<1>1. \A k \in 1..0 : k \in Nat
  OBVIOUS
<1>2. FirstChunks(0) \in Seq(Nat)
  BY <1>1, IsASeq DEF FirstChunks
<1>3. DOMAIN FirstChunks(0) = 1..0
  BY DEF FirstChunks
<1> QED
  BY <1>2, <1>3, LenProperties, EmptySeq

LEMMA NothingAsked ==
    ASSUME NEW i \in Ids, inbox[i] = <<>>
    PROVE  ~Asks(i)
<1>1. DOMAIN inbox[i] = 1..0
  BY LenProperties, EmptySeq
<1> QED
  BY <1>1 DEF Asks, Has

LEMMA InitSInv == Init => SInv
<1> SUFFICES ASSUME Init PROVE SInv
  OBVIOUS
<1> USE SshAssumption DEF Init
<1>1. TypeOK
  BY DEF TypeOK, Calls
<1>2. CallsKept /\ TabsKept /\ AskedKept
  BY DEF CallsKept, CallKept, TabsKept, TabKept, AskedKept, Pending
<1>3. ScreenKept
  <2>1. \A i \in Ids : inbox[i] = <<>>
    OBVIOUS
  <2>2. \A i \in Ids : ~Asks(i)
    BY <2>1, NothingAsked
  <2> QED
    BY <2>2, FirstChunksEmpty DEF ScreenKept, ScreenOf, TerminalOf
<1>4. Accounted /\ LetGoKept
  BY DEF Accounted, LetGoKept
<1> QED
  BY <1>1, <1>2, <1>3, <1>4 DEF SInv, Shape

LEMMA EmitType ==
    ASSUME TypeOK, NEW i \in Ids, NEW chunks \in Seq(Nat), Emit(i, chunks)
    PROVE  shown' \in [Ids -> Seq(Nat)]
BY DEF TypeOK, Emit

LEMMA SendType ==
    ASSUME TypeOK, NEW i \in Ids, NEW cmd \in Commands, Send(i, cmd)
    PROVE  inbox' \in [Ids -> Seq(Commands)]
BY DEF TypeOK, Send

LEMMA TypeStep == Shape /\ [Next]_vars => TypeOK'
<1> SUFFICES ASSUME Shape, [Next]_vars PROVE TypeOK'
  OBVIOUS
<1>0. TypeOK
  BY DEF Shape
<1>1. ASSUME NEW i \in Ids,
             AskFromDialog(i) \/ Cancel(i) \/ Connects(i) \/ ConnectFails(i)
                \/ Register(i)
      PROVE  TypeOK'
  BY <1>0, <1>1 DEF TypeOK, AskFromDialog, Cancel, Connects, ConnectFails, Register,
       Calls, session, server, screen
<1>2. ASSUME NEW i \in Ids, Connected(i) PROVE TypeOK'
  <2>1. tab' \in [Ids -> Tab \cup {NoTab}]
    BY <1>2, ConnectedTab DEF TabBecomes
  <2> QED
    BY <1>0, <1>2, <2>1 DEF TypeOK, Connected, Calls, session, server, screen
<1>3. ASSUME NEW i \in Ids, NotConnected(i) PROVE TypeOK'
  <2>1. tab' \in [Ids -> Tab \cup {NoTab}]
    BY <1>0, <1>3, NotConnectedTab DEF TabBecomes, TypeOK
  <2> QED
    BY <1>0, <1>3, <2>1 DEF TypeOK, NotConnected, Calls, session, server, screen
<1>4. ASSUME NEW i \in Ids, ReadOutput(i) PROVE TypeOK'
  <2>1. read' \in [Ids -> Nat] /\ read[i] + 1 \in Nat
    BY <1>0, <1>4 DEF ReadOutput, TypeOK
  <2>2. /\ ready' \in [Ids -> BOOLEAN]
        /\ backlog' \in [Ids -> Seq(Nat)]
        /\ flooded' \subseteq Ids
        /\ shown' \in [Ids -> Seq(Nat)]
    <3>1. CASE ready[i]
      <4>1. Emit(i, <<read[i] + 1>>) /\ <<read[i] + 1>> \in Seq(Nat)
        BY <1>4, <2>1, <3>1 DEF ReadOutput, Deliver
      <4> QED
        BY <1>0, <1>4, <3>1, <4>1, EmitType DEF ReadOutput, Deliver, TypeOK
    <3>2. CASE ~ready[i]
      <4> DEFINE held == Append(backlog[i], read[i] + 1)
      <4>1. held \in Seq(Nat)
        BY <1>0, <2>1 DEF TypeOK
      <4>2. CASE Len(held) >= Cap
        <5>1. /\ ready' = [ready EXCEPT ![i] = TRUE]
              /\ backlog' = [backlog EXCEPT ![i] = <<>>]
              /\ Emit(i, held)
              /\ flooded' = flooded \cup {i}
          BY <1>4, <3>2, <4>2 DEF ReadOutput, Deliver
        <5>2. shown' \in [Ids -> Seq(Nat)]
          BY <1>0, <4>1, <5>1, EmitType
        <5> QED
          BY <1>0, <5>1, <5>2, EmptySeq DEF TypeOK
      <4>3. CASE ~(Len(held) >= Cap)
        BY <1>0, <1>4, <3>2, <4>1, <4>3 DEF ReadOutput, Deliver, TypeOK
      <4> QED
        BY <4>2, <4>3
    <3> QED
      BY <3>1, <3>2
  <2> QED
    BY <1>0, <1>4, <2>1, <2>2 DEF TypeOK, ReadOutput, server
<1>5. ASSUME NEW i \in Ids, TaskEnds(i) PROVE TypeOK'
  <2>1. tab' \in [Ids -> Tab \cup {NoTab}]
    BY <1>0, <1>5, EndedTab DEF TaskEnds
  <2> QED
    BY <1>0, <1>5, <2>1, EmptySeq DEF TypeOK, TaskEnds, server, screen
<1>6. ASSUME NEW i \in Ids, TakeReady(i) PROVE TypeOK'
  <2>1. inbox' \in [Ids -> Seq(Commands)]
    BY <1>0, <1>6 DEF TypeOK, TakeReady
  <2>2. /\ ready' \in [Ids -> BOOLEAN]
        /\ backlog' \in [Ids -> Seq(Nat)]
    <3>1. <<>> \in Seq(Nat)
      BY EmptySeq
    <3>2. CASE ready[i]
      BY <1>0, <1>6, <3>2 DEF TypeOK, TakeReady
    <3>3. CASE ~ready[i]
      BY <1>0, <1>6, <3>1, <3>3 DEF TypeOK, TakeReady
    <3> QED
      BY <3>2, <3>3
  <2>3. Flushed(i) \in Seq(Nat)
    BY <1>0 DEF TypeOK, Flushed
  <2>4. shown' \in [Ids -> Seq(Nat)]
    BY <1>0, <1>6, <2>3, EmitType DEF TypeOK, TakeReady
  <2> QED
    BY <1>0, <1>6, <2>1, <2>2, <2>4 DEF TypeOK, TakeReady, server
<1>7. ASSUME NEW i \in Ids, Disconnect(i) PROVE TypeOK'
  <2>1. inbox' \in [Ids -> Seq(Commands)]
    BY <1>0, <1>7, SendType DEF TypeOK, Disconnect, Commands
  <2> QED
    BY <1>0, <1>7, <2>1 DEF TypeOK, Disconnect, server, screen
<1>8. ASSUME NEW i \in Ids, Says(i) \/ Ends(i) PROVE TypeOK'
  <2>1. said' \in [Ids -> Nat] /\ ended' \in [Ids -> BOOLEAN]
    <3>1. CASE Says(i)
      <4>1. said[i] + 1 \in Nat
        BY <1>0 DEF TypeOK
      <4> QED
        BY <1>0, <3>1, <4>1 DEF TypeOK, Says
    <3>2. CASE Ends(i)
      BY <1>0, <3>2 DEF TypeOK, Ends
    <3> QED
      BY <1>8, <3>1, <3>2
  <2> QED
    BY <1>0, <1>8, <2>1 DEF TypeOK, Says, Ends, session, screen
<1>9. ASSUME NEW t \in Ids, ListenData(t) \/ ListenExit(t) PROVE TypeOK'
  <2>1. tab' \in [Ids -> Tab \cup {NoTab}]
    BY <1>0, <1>9, ListenDataTab, ListenExitTab DEF TabBecomes
  <2> QED
    BY <1>0, <1>9, <2>1 DEF TypeOK, ListenData, ListenExit, session, server, screen
<1>10. ASSUME NEW t \in Ids, AskReady(t) PROVE TypeOK'
  <2>1. tab' \in [Ids -> Tab \cup {NoTab}]
    BY <1>0, <1>10, AskReadyTab DEF TabBecomes
  <2>2. tab[t].conn \in Ids /\ tab[t].term \in Ids
    BY <1>0, <1>10, TabTyped DEF AskReady
  <2>3. inbox' \in [Ids -> Seq(Commands)]
    BY <1>0, <1>10, <2>2, SendType DEF TypeOK, AskReady, Commands
  <2> QED
    BY <1>0, <1>10, <2>1, <2>2, <2>3 DEF TypeOK, AskReady, Left, server, screen
<1>11. ASSUME NEW t \in Ids, NEW i \in Ids, Reconnect(t, i) PROVE TypeOK'
  <2>1. tab' \in [Ids -> Tab \cup {NoTab}]
    BY <1>0, <1>11, ReconnectTab DEF TabBecomes
  <2> QED
    BY <1>0, <1>11, <2>1 DEF TypeOK, Reconnect, Calls, session, server, screen
<1>12. ASSUME NEW t \in Ids, CloseTab(t) PROVE TypeOK'
  <2>1. tab' \in [Ids -> Tab \cup {NoTab}]
    BY <1>0, <1>12, CloseTabTab DEF TabBecomes
  <2>2. tab[t].conn \in Ids
    BY <1>0, <1>12, TabTyped DEF CloseTab
  <2> QED
    BY <1>0, <1>12, <2>1, <2>2 DEF TypeOK, CloseTab, session, server, screen
<1>13. UNCHANGED vars => TypeOK'
  BY <1>0 DEF TypeOK, vars, session, server, screen
<1> QED
  BY <1>1, <1>2, <1>3, <1>4, <1>5, <1>6, <1>7, <1>8, <1>9, <1>10, <1>11, <1>12, <1>13
     DEF Next, ReadEnd, TakeClose

-----------------------------------------------------------------------------
\* The shape of calls, tabs and reconnects.

LEMMA CallsStep == Shape /\ [Next]_vars => CallsKept'
<1> SUFFICES ASSUME Shape, [Next]_vars, NEW j \in Ids PROVE CallKept(j)'
  BY DEF CallsKept
<1>0. TypeOK /\ CallKept(j)
  BY DEF Shape, CallsKept
<1> USE DEF CallKept
<1>1. ASSUME NEW i \in Ids,
             AskFromDialog(i) \/ Cancel(i) \/ Connects(i) \/ ConnectFails(i)
                \/ Register(i) \/ Connected(i) \/ NotConnected(i)
      PROVE  CallKept(j)'
  BY <1>0, <1>1 DEF TypeOK, AskFromDialog, Cancel, Connects, ConnectFails,
       Register, Connected, NotConnected, session
<1>2. ASSUME NEW i \in Ids, ReadOutput(i) PROVE CallKept(j)'
  <2>1. i # j => backlog'[j] = backlog[j] /\ ready'[j] = ready[j]
                   /\ read'[j] = read[j]
    BY <1>0, <1>2 DEF TypeOK, ReadOutput, Deliver
  <2> QED
    BY <1>0, <1>2, <2>1 DEF TypeOK, ReadOutput
<1>3. ASSUME NEW i \in Ids, ReadEnd(i) \/ TakeClose(i) PROVE CallKept(j)'
  BY <1>0, <1>3 DEF TypeOK, ReadEnd, TakeClose, TaskEnds
<1>4. ASSUME NEW i \in Ids, TakeReady(i) PROVE CallKept(j)'
  <2>1. i # j => backlog'[j] = backlog[j] /\ ready'[j] = ready[j]
                   /\ inbox'[j] = inbox[j]
    BY <1>0, <1>4 DEF TypeOK, TakeReady
  <2> QED
    BY <1>0, <1>4, <2>1 DEF TypeOK, TakeReady
<1>5. ASSUME NEW i \in Ids, Disconnect(i) PROVE CallKept(j)'
  <2>1. task[j] # "running" => inbox'[j] = inbox[j]
    BY <1>0, <1>5 DEF TypeOK, Disconnect, Send
  <2> QED
    BY <1>0, <1>5, <2>1 DEF TypeOK, Disconnect
<1>6. ASSUME NEW t \in Ids, AskReady(t) PROVE CallKept(j)'
  <2>1. tab[t].term \in Ids
    BY <1>0, <1>6, TabTyped DEF AskReady
  <2>2. task[j] # "running" => inbox'[j] = inbox[j]
    BY <1>0, <1>6, <2>1 DEF TypeOK, AskReady, Send
  <2> QED
    BY <1>0, <1>6, <2>2 DEF AskReady
<1>7. ASSUME NEW t \in Ids, NEW i \in Ids, Reconnect(t, i) PROVE CallKept(j)'
  BY <1>0, <1>7 DEF TypeOK, Reconnect, session
<1>8. ASSUME NEW i \in Ids,
             Says(i) \/ Ends(i) \/ ListenData(i) \/ ListenExit(i) \/ CloseTab(i)
      PROVE  CallKept(j)'
  BY <1>0, <1>8 DEF Says, Ends, ListenData, ListenExit, CloseTab, session
<1>9. UNCHANGED vars => CallKept(j)'
  BY <1>0 DEF vars, session
<1> QED
  BY <1>1, <1>2, <1>3, <1>4, <1>5, <1>6, <1>7, <1>8, <1>9 DEF Next

\* What has returned stays so, for the same asker, and what is over stays over.
Settles(i) ==
    /\ call[i] = "returned" => call'[i] = "returned" /\ asker'[i] = asker[i]
    /\ task[i] # "none" => task'[i] # "none"
    /\ task[i] = "over" => task'[i] = "over"

LEMMA Settled ==
    ASSUME Shape, [Next]_vars, NEW j \in Ids
    PROVE  Settles(j)
<1>0. TypeOK /\ CallKept(j)
  BY DEF Shape, CallsKept
<1> USE DEF Settles
<1>1. ASSUME NEW i \in Ids,
             AskFromDialog(i) \/ Cancel(i) \/ Connects(i) \/ ConnectFails(i)
                \/ Register(i) \/ Connected(i) \/ NotConnected(i)
      PROVE  Settles(j)
  BY <1>0, <1>1 DEF TypeOK, CallKept, AskFromDialog, Cancel, Connects,
       ConnectFails, Register, Connected, NotConnected, session
<1>2. ASSUME NEW i \in Ids,
             ReadOutput(i) \/ ReadEnd(i) \/ TakeReady(i) \/ TakeClose(i)
                \/ Disconnect(i) \/ Says(i) \/ Ends(i)
      PROVE  Settles(j)
  BY <1>0, <1>2 DEF TypeOK, ReadOutput, ReadEnd, TakeReady, TakeClose, TaskEnds,
       Disconnect, Says, Ends, session
<1>3. ASSUME NEW t \in Ids,
             ListenData(t) \/ ListenExit(t) \/ AskReady(t) \/ CloseTab(t)
                \/ \E i \in Ids : Reconnect(t, i)
      PROVE  Settles(j)
  BY <1>0, <1>3 DEF TypeOK, ListenData, ListenExit, AskReady, CloseTab,
       Reconnect, session
<1>4. UNCHANGED vars => Settles(j)
  BY DEF vars, session
<1> QED
  BY <1>1, <1>2, <1>3, <1>4 DEF Next

\* A tab that no step touches is kept.
LEMMA SameTab ==
    ASSUME Shape, [Next]_vars, NEW t \in Ids, tab'[t] = tab[t]
    PROVE  TabKept(t)'
<1> SUFFICES ASSUME tab[t] # NoTab PROVE TabKept(t)'
  BY DEF TabKept
<1>1. TypeOK /\ TabKept(t)
  BY DEF Shape, TabsKept
<1>2. tab[t].conn \in Ids /\ tab[t].term \in Ids
  BY <1>1, TabTyped
<1>3. Settles(t) /\ Settles(tab[t].conn) /\ Settles(tab[t].term)
  BY <1>2, Settled
<1> QED
  BY <1>1, <1>2, <1>3 DEF TabKept, Settles, Moved, Owner

\* A tab that is replaced by one of the same connections is kept, when it is
\* not made less busy than its connections say, nor down before its terminal's
\* connection is.
LEMMA SameConnections ==
    ASSUME Shape, [Next]_vars, NEW t \in Ids, tab[t] # NoTab, tab'[t] \in Tab,
           tab'[t].conn = tab[t].conn, tab'[t].term = tab[t].term,
           tab'[t].open /\ Moved(t) => tab'[t].busy,
           tab'[t].open /\ tab'[t].down => task'[tab[t].term] = "over"
    PROVE  TabKept(t)'
<1>1. TypeOK /\ TabKept(t)
  BY DEF Shape, TabsKept
<1>2. tab[t].conn \in Ids /\ tab[t].term \in Ids
  BY <1>1, TabTyped
<1>3. Settles(t) /\ Settles(tab[t].conn) /\ Settles(tab[t].term)
  BY <1>2, Settled
<1> QED
  BY <1>1, <1>2, <1>3 DEF TabKept, Settles, Moved, Owner

LEMMA TabsStep == Shape /\ [Next]_vars => TabsKept'
<1> SUFFICES ASSUME Shape, [Next]_vars, NEW s \in Ids PROVE TabKept(s)'
  BY DEF TabsKept
<1>0. TypeOK /\ TabKept(s) /\ CallsKept /\ AskedKept
  BY DEF Shape, TabsKept
<1>a. CASE tab'[s] = tab[s]
  BY <1>a, SameTab
<1>b. CASE tab'[s] # tab[s]
  <2>1. ASSUME NEW i \in Ids, Connected(i) PROVE TabKept(s)'
    <3>1. CASE asker[i] \in Ids
      <4>1. s = asker[i] /\ tab[s] # NoTab
            /\ tab'[s] = [tab[s] EXCEPT !.term = i, !.hears = "nothing"]
        BY <1>b, <2>1, <3>1, ConnectedTab DEF TabBecomes
      <4>2. tab[s] \in Tab /\ tab[s].conn \in Ids
        BY <1>0, <4>1, TabTyped
      <4>3. tab[s].busy /\ ~Moved(s) /\ (tab[s].open => ~tab[s].down)
        BY <1>0, <2>1, <4>1 DEF AskedKept, ReconnectKept, Pending, Connected
      <4>4. /\ tab'[s].conn = tab[s].conn /\ tab'[s].term = i
            /\ tab'[s].busy = tab[s].busy /\ tab'[s].open = tab[s].open
            /\ tab'[s].down = tab[s].down
        BY <4>1, <4>2 DEF Tab
      <4>5. call'[i] = "returned" /\ task'[i] # "none" /\ asker'[i] = s
        BY <1>0, <2>1, <4>1 DEF Connected, CallsKept, CallKept, TypeOK, session
      <4>6. Settles(s) /\ Settles(tab[s].conn)
        BY <4>2, Settled
      <4> QED
        BY <1>0, <3>1, <4>1, <4>3, <4>4, <4>5, <4>6
           DEF TabKept, Settles, Moved, Owner
    <3>2. CASE asker[i] \notin Ids
      <4>1. s = i /\ tab'[s] = NewTab(i)
        BY <1>b, <2>1, <3>2, ConnectedTab DEF TabBecomes
      <4>2. call'[i] = "returned" /\ task'[i] # "none" /\ asker'[i] = asker[i]
        BY <1>0, <2>1 DEF Connected, CallsKept, CallKept, TypeOK, session
      <4> QED
        BY <3>2, <4>1, <4>2 DEF TabKept, NewTab, Moved, Owner
    <3> QED
      BY <3>1, <3>2
  <2>2. ASSUME NEW i \in Ids, NotConnected(i) PROVE TabKept(s)'
    <3>1. asker[i] \in Ids /\ s = asker[i] /\ tab[s] # NoTab /\ tab'[s] \in Tab
          /\ tab'[s] = [tab[s] EXCEPT !.busy = FALSE, !.down = TRUE]
      BY <1>b, <2>2, NotConnectedTab DEF TabBecomes
    <3>2. ~Moved(s) /\ task[tab[s].term] = "over"
      BY <1>0, <2>2, <3>1 DEF AskedKept, ReconnectKept, Pending, NotConnected
    <3>3. tab'[s].conn = tab[s].conn /\ tab'[s].term = tab[s].term
      BY <1>0, <3>1, TabTyped DEF Tab
    <3> QED
      BY <2>2, <3>1, <3>2, <3>3, SameConnections DEF NotConnected, session
  <2>3. ASSUME NEW i \in Ids, TaskEnds(i) PROVE TabKept(s)'
    <3>1. TerminalOf(s, i) /\ tab'[s] = [tab[s] EXCEPT !.down = TRUE]
          /\ tab'[s] \in Tab
      BY <1>0, <1>b, <2>3, EndedTab DEF TaskEnds
    <3>2. /\ tab'[s].conn = tab[s].conn /\ tab'[s].term = tab[s].term
          /\ tab'[s].busy = tab[s].busy /\ tab'[s].open = tab[s].open
      BY <1>0, <3>1, TabTyped DEF Tab, TerminalOf
    <3>3. tab[s] # NoTab /\ task'[tab[s].term] = "over"
      BY <1>0, <2>3, <3>1 DEF TaskEnds, TerminalOf, TypeOK
    <3> QED
      BY <1>0, <3>1, <3>2, <3>3, SameConnections DEF TabKept
  <2>4. ASSUME NEW t \in Ids, ListenData(t) \/ ListenExit(t) PROVE TabKept(s)'
    <3>1. s = t /\ tab[s] # NoTab /\ tab'[s] \in Tab
          /\ \E h \in {"data", "exit"} : tab'[s] = [tab[s] EXCEPT !.hears = h]
      BY <1>0, <1>b, <2>4, ListenDataTab, ListenExitTab
         DEF TabBecomes, ListenData, ListenExit
    <3>2. /\ tab'[s].conn = tab[s].conn /\ tab'[s].term = tab[s].term
          /\ tab'[s].busy = tab[s].busy /\ tab'[s].open = tab[s].open
          /\ tab'[s].down = tab[s].down
      BY <1>0, <3>1, TabTyped DEF Tab
    <3>3. task'[tab[s].term] = task[tab[s].term]
      BY <2>4 DEF ListenData, ListenExit, session
    <3>4. /\ tab'[s].open /\ Moved(s) => tab'[s].busy
          /\ tab'[s].open /\ tab'[s].down => task'[tab[s].term] = "over"
      BY <1>0, <3>1, <3>2, <3>3 DEF TabKept
    <3> QED
      BY <3>1, <3>2, <3>4, SameConnections
  <2>5. ASSUME NEW t \in Ids, AskReady(t) PROVE TabKept(s)'
    <3>1. s = t /\ tab[s] # NoTab /\ tab'[s] = AskedTab(s)
      BY <1>0, <1>b, <2>5, AskReadyTab DEF TabBecomes, AskReady
    <3>2. tab[s] \in Tab /\ tab[s].conn \in Ids /\ tab[s].term \in Ids
      BY <1>0, <3>1, TabTyped
    <3>3. /\ tab'[s].conn = IF tab[s].open THEN tab[s].term ELSE tab[s].conn
          /\ tab'[s].term = tab[s].term
          /\ tab'[s].open = tab[s].open /\ tab'[s].down = tab[s].down
      BY <3>1, <3>2 DEF AskedTab, Tab
    <3>4. task' = task /\ call' = call /\ asker' = asker
      BY <2>5 DEF AskReady
    <3> QED
      BY <1>0, <3>1, <3>3, <3>4 DEF TabKept, Moved, Owner
  <2>6. ASSUME NEW t \in Ids, NEW i \in Ids, Reconnect(t, i) PROVE TabKept(s)'
    <3>1. s = t /\ tab[s] # NoTab /\ tab'[s] \in Tab
          /\ tab'[s] = [tab[s] EXCEPT !.busy = TRUE, !.down = FALSE]
      BY <1>0, <1>b, <2>6, ReconnectTab DEF TabBecomes, Reconnect
    <3>2. /\ tab'[s].conn = tab[s].conn /\ tab'[s].term = tab[s].term
          /\ tab'[s].busy /\ ~tab'[s].down
      BY <1>0, <3>1, TabTyped DEF Tab
    <3> QED
      BY <3>1, <3>2, SameConnections
  <2>7. ASSUME NEW t \in Ids, CloseTab(t) PROVE TabKept(s)'
    <3>1. s = t /\ tab[s] # NoTab /\ tab'[s] \in Tab
          /\ tab'[s] = [tab[s] EXCEPT !.open = FALSE]
      BY <1>0, <1>b, <2>7, CloseTabTab DEF TabBecomes, CloseTab
    <3>2. /\ tab'[s].conn = tab[s].conn /\ tab'[s].term = tab[s].term
          /\ ~tab'[s].open
      BY <1>0, <3>1, TabTyped DEF Tab
    <3> QED
      BY <3>1, <3>2, SameConnections
  <2> QED
    BY <1>b, <2>1, <2>2, <2>3, <2>4, <2>5, <2>6, <2>7
       DEF Next, vars, AskFromDialog, Cancel, Connects, ConnectFails, Register,
           ReadOutput, ReadEnd, TakeReady, TakeClose, Disconnect, Says, Ends
<1> QED
  BY <1>a, <1>b

\* A reconnect that was under way stays as it was while its tab is not touched.
LEMMA SameAsker ==
    ASSUME Shape, [Next]_vars, NEW i \in Ids, asker'[i] \in Ids,
           asker'[i] = asker[i], Pending(i)' => Pending(i),
           tab'[asker[i]] = tab[asker[i]]
    PROVE  /\ tab'[asker'[i]] # NoTab
           /\ Pending(i)' => ReconnectKept(asker[i])'
<1> DEFINE t == asker[i]
<1>1. TypeOK /\ tab[t] # NoTab /\ (Pending(i) => ReconnectKept(t))
  BY DEF Shape, AskedKept
<1>2. tab[t].term \in Ids
  BY <1>1, TabTyped
<1>3. Settles(tab[t].term)
  BY <1>2, Settled
<1> QED
  BY <1>1, <1>3 DEF ReconnectKept, Moved, Settles

\* A tab is asked to reconnect once at a time.
LEMMA ReconnectAlone ==
    ASSUME Shape, NEW t \in Ids, NEW i \in Ids, Reconnect(t, i)
    PROVE  /\ \A j \in Ids : Pending(j) => asker[j] # t
           /\ ~Moved(t) /\ task[tab[t].term] = "over"
<1>1. ~tab[t].busy
  BY DEF Reconnect, MayReconnect
<1>2. \A j \in Ids : Pending(j) => asker[j] # t
  BY <1>1 DEF Shape, AskedKept, ReconnectKept
<1> QED
  BY <1>1, <1>2 DEF Shape, TabsKept, TabKept, Reconnect, MayReconnect

LEMMA AskedTabs ==
    ASSUME Shape, [Next]_vars, NEW i \in Ids, asker'[i] \in Ids
    PROVE  /\ tab'[asker'[i]] # NoTab
           /\ Pending(i)' => ReconnectKept(asker[i])'
<1> DEFINE Goal == /\ tab'[asker'[i]] # NoTab
                   /\ Pending(i)' => ReconnectKept(asker[i])'
<1> HIDE DEF Goal
<1>0. TypeOK /\ AskedKept /\ TabsKept /\ CallsKept
  BY DEF Shape
<1>1. ASSUME NEW j \in Ids,
             AskFromDialog(j) \/ Cancel(j) \/ Connects(j) \/ ConnectFails(j)
                \/ Register(j)
      PROVE  Goal
  <2>1. asker'[i] = asker[i] /\ (Pending(i)' => Pending(i)) /\ tab' = tab
    BY <1>0, <1>1, SshAssumption DEF TypeOK, AskFromDialog, Cancel, Connects,
       ConnectFails, Register, Pending
  <2> QED
    BY <2>1, SameAsker DEF Goal
<1>2. ASSUME NEW j \in Ids, Connected(j) \/ NotConnected(j) PROVE Goal
  <2>1. asker' = asker /\ call' = [call EXCEPT ![j] = "returned"]
    BY <1>2 DEF Connected, NotConnected
  <2>2. tab[asker[i]] # NoTab /\ (Pending(i)' => Pending(i) /\ i # j) /\ Pending(j)
    BY <1>0, <1>2, <2>1 DEF AskedKept, TypeOK, Pending, Connected, NotConnected
  <2>3. CASE ~Pending(i)'
    <3>1. tab'[asker[i]] # NoTab
      BY <1>2, <2>1, <2>2, ConnectedTab, NotConnectedTab, NoTabAssumption
         DEF TabBecomes
    <3> QED
      BY <2>1, <2>3, <3>1 DEF Goal
  <2>4. CASE Pending(i)'
    <3>1. asker[j] # asker[i]
      BY <1>0, <2>1, <2>2, <2>4 DEF AskedKept
    <3>2. tab'[asker[i]] = tab[asker[i]]
      BY <1>2, <2>1, <2>2, <3>1, ConnectedTab, NotConnectedTab DEF TabBecomes
    <3> QED
      BY <2>1, <2>2, <3>2, SameAsker DEF Goal
  <2> QED
    BY <2>3, <2>4
<1>3. ASSUME NEW j \in Ids,
             ReadOutput(j) \/ TakeReady(j) \/ Disconnect(j) \/ Says(j) \/ Ends(j)
      PROVE  Goal
  BY <1>3, SameAsker DEF Goal, ReadOutput, TakeReady, Disconnect, Says, Ends,
     Pending
<1>4. ASSUME NEW j \in Ids, task[j] = "running", TaskEnds(j) PROVE Goal
  <2> DEFINE t == asker[i]
  <2>1. asker' = asker /\ call' = call /\ tab[t] # NoTab
    BY <1>0, <1>4 DEF TaskEnds, AskedKept
  <2>2. tab'[t] # NoTab
    BY <1>0, <1>4, <2>1, EndedTab, NoTabAssumption DEF TaskEnds
  <2>3. ASSUME Pending(i) PROVE tab'[t] = tab[t]
    <3>1. task[tab[t].term] = "over"
      BY <1>0, <2>1, <2>3 DEF AskedKept, ReconnectKept
    <3>2. ~TerminalOf(t, j)
      BY <1>4, <3>1 DEF TerminalOf
    <3> QED
      BY <1>0, <1>4, <2>1, <3>2, EndedTab DEF TaskEnds
  <2> QED
    BY <2>1, <2>2, <2>3, SameAsker DEF Goal, Pending
<1>5. ASSUME NEW s \in Ids,
             ListenData(s) \/ ListenExit(s) \/ AskReady(s) \/ CloseTab(s)
      PROVE  Goal
  <2> DEFINE t == asker[i]
  <2>1. asker' = asker /\ call' = call /\ task' = task /\ tab[t] # NoTab
    BY <1>0, <1>5 DEF ListenData, ListenExit, AskReady, CloseTab, AskedKept, session
  <2>2. CASE t # s
    <3>1. tab'[t] = tab[t]
      BY <1>0, <1>5, <2>1, <2>2, ListenDataTab, ListenExitTab, AskReadyTab,
         CloseTabTab DEF TabBecomes
    <3> QED
      BY <2>1, <3>1, SameAsker DEF Goal, Pending
  <2>3. CASE t = s
    <3>1. tab[t] \in Tab /\ tab'[t] \in Tab
      <4>1. tab[t] \in Tab
        BY <1>0, <2>1, <2>3, TabTyped
      <4>2. \E u \in Tab : TabBecomes(t, u)
        BY <1>0, <1>5, <2>3, ListenDataTab, ListenExitTab, AskReadyTab,
           CloseTabTab DEF TabBecomes
      <4> QED
        BY <4>1, <4>2 DEF TabBecomes
    <3>2. CASE AskReady(s)
      <4>1. tab'[t] = AskedTab(t)
        BY <1>0, <2>3, <3>2, AskReadyTab DEF TabBecomes
      <4>2. /\ tab'[t].conn = IF tab[t].open THEN tab[t].term ELSE tab[t].conn
            /\ tab'[t].term = tab[t].term
            /\ tab'[t].busy = (tab[t].busy /\ ~Moved(t))
            /\ tab'[t].open = tab[t].open /\ tab'[t].down = tab[t].down
        BY <3>1, <4>1 DEF AskedTab, Tab
      <4> QED
        BY <1>0, <2>1, <3>1, <4>2, NoTabAssumption
           DEF Goal, Pending, AskedKept, ReconnectKept, Moved
    <3>3. CASE ~AskReady(s)
      <4>1. \/ \E h \in {"data", "exit"} : tab'[t] = [tab[t] EXCEPT !.hears = h]
            \/ tab'[t] = [tab[t] EXCEPT !.open = FALSE]
        BY <1>0, <1>5, <2>3, <3>3, ListenDataTab, ListenExitTab, CloseTabTab
           DEF TabBecomes
      <4>2. /\ tab'[t].conn = tab[t].conn /\ tab'[t].term = tab[t].term
            /\ tab'[t].busy = tab[t].busy /\ tab'[t].down = tab[t].down
            /\ tab'[t].open => tab[t].open
        BY <3>1, <4>1 DEF Tab
      <4> QED
        BY <1>0, <2>1, <3>1, <4>2, NoTabAssumption
           DEF Goal, Pending, AskedKept, ReconnectKept, Moved
    <3> QED
      BY <3>2, <3>3
  <2> QED
    BY <2>2, <2>3
<1>6. ASSUME NEW s \in Ids, NEW j \in Ids, Reconnect(s, j) PROVE Goal
  <2>1. /\ tab'[s] \in Tab
        /\ tab'[s] = [tab[s] EXCEPT !.busy = TRUE, !.down = FALSE]
        /\ \A u \in Ids \ {s} : tab'[u] = tab[u]
    BY <1>0, <1>6, ReconnectTab DEF TabBecomes
  <2>2. CASE i = j
    <3>1. asker'[i] = s /\ task' = task
      BY <1>0, <1>6, <2>2 DEF Reconnect, TypeOK, session
    <3>2. tab[s] \in Tab
      BY <1>0, <1>6, TabTyped DEF Reconnect
    <3>3. /\ tab'[s].conn = tab[s].conn /\ tab'[s].term = tab[s].term
          /\ tab'[s].busy /\ ~tab'[s].down
      BY <2>1, <3>2 DEF Tab
    <3>4. ~Moved(s) /\ task[tab[s].term] = "over"
      BY <1>6, ReconnectAlone
    <3>5. ReconnectKept(s)'
      BY <3>1, <3>3, <3>4 DEF ReconnectKept, Moved
    <3>6. tab'[s] # NoTab
      BY <2>1, NoTabAssumption
    <3> QED
      BY <3>1, <3>5, <3>6 DEF Goal, ReconnectKept, Moved
  <2>3. CASE i # j
    <3>1. asker'[i] = asker[i] /\ call'[i] = call[i]
      BY <1>0, <1>6, <2>3 DEF Reconnect, TypeOK
    <3>2. CASE asker[i] = s
      <4>1. ~Pending(i)
        BY <1>6, <3>2, ReconnectAlone
      <4> QED
        BY <2>1, <3>1, <3>2, <4>1, NoTabAssumption DEF Goal, Pending
    <3>3. CASE asker[i] # s
      BY <2>1, <3>1, <3>3, SameAsker DEF Goal, Pending
    <3> QED
      BY <3>2, <3>3
  <2> QED
    BY <2>2, <2>3
<1>7. UNCHANGED vars => Goal
  BY SameAsker DEF Goal, vars, Pending
<1> QED
  BY <1>1, <1>2, <1>3, <1>4, <1>5, <1>6, <1>7 DEF Next, ReadEnd, TakeClose, Goal

LEMMA AskedStep == Shape /\ [Next]_vars => AskedKept'
<1> SUFFICES ASSUME Shape, [Next]_vars,
                    NEW i \in Ids, NEW j \in Ids, Pending(i)', Pending(j)',
                    asker'[i] \in Ids, asker'[i] = asker'[j]
             PROVE  i = j
  BY AskedTabs DEF AskedKept
<1>0. TypeOK /\ AskedKept
  BY DEF Shape
<1>1. ASSUME NEW s \in Ids, NEW k \in Ids, Reconnect(s, k) PROVE i = j
  <2>1. call' = [call EXCEPT ![k] = "connecting"]
        /\ asker' = [asker EXCEPT ![k] = s]
    BY <1>1 DEF Reconnect
  <2>2. \A m \in Ids \ {k} : Pending(m)' => Pending(m) /\ asker'[m] = asker[m]
    BY <1>0, <2>1 DEF TypeOK, Pending
  <2>3. asker'[k] = s
    BY <1>0, <2>1 DEF TypeOK
  <2> QED
    BY <1>0, <1>1, <2>2, <2>3, ReconnectAlone DEF AskedKept
<1>2. CASE ~\E s, k \in Ids : Reconnect(s, k)
  <2>1. \A m \in Ids : asker'[m] \in Ids /\ Pending(m)' =>
           asker'[m] = asker[m] /\ Pending(m)
    <3> SUFFICES ASSUME NEW m \in Ids, asker'[m] \in Ids, Pending(m)'
                 PROVE  asker'[m] = asker[m] /\ Pending(m)
      OBVIOUS
    <3>1. ASSUME NEW k \in Ids,
                 AskFromDialog(k) \/ Cancel(k) \/ Connects(k) \/ ConnectFails(k)
                    \/ Register(k) \/ Connected(k) \/ NotConnected(k)
          PROVE  asker'[m] = asker[m] /\ Pending(m)
      BY <1>0, <3>1, SshAssumption DEF TypeOK, Pending, AskFromDialog, Cancel,
         Connects, ConnectFails, Register, Connected, NotConnected
    <3>2. CASE UNCHANGED <<call, asker>>
      BY <3>2 DEF Pending
    <3> QED
      BY <1>2, <3>1, <3>2 DEF Next, vars, ReadOutput, ReadEnd, TakeReady,
         TakeClose, TaskEnds, Disconnect, Says, Ends, ListenData, ListenExit,
         AskReady, CloseTab
  <2> QED
    BY <1>0, <2>1 DEF AskedKept
<1> QED
  BY <1>1, <1>2

LEMMA ShapeStep == Shape /\ [Next]_vars => Shape'
BY TypeStep, CallsStep, TabsStep, AskedStep DEF Shape

-----------------------------------------------------------------------------
\* Tabs and what is let go.

LEMMA AppendHas ==
    ASSUME NEW q \in Seq(Commands), NEW c \in Commands, NEW d \in Commands
    PROVE  Has(Append(q, c), d) <=> Has(q, d) \/ c = d
<1>1. /\ Len(Append(q, c)) = Len(q) + 1 /\ Len(q) \in Nat
      /\ DOMAIN Append(q, c) = 1..(Len(q) + 1) /\ DOMAIN q = 1..Len(q)
      /\ \A k \in 1..Len(q) : Append(q, c)[k] = q[k]
      /\ Append(q, c)[Len(q) + 1] = c
  OBVIOUS
<1> QED
  BY <1>1 DEF Has

LEMMA TailHas ==
    ASSUME NEW q \in Seq(Commands), q # <<>>, NEW d \in Commands
    PROVE  /\ Has(Tail(q), d) => Has(q, d)
           /\ Has(q, d) /\ Head(q) # d => Has(Tail(q), d)
<1>1. /\ Len(q) \in Nat \ {0} /\ DOMAIN q = 1..Len(q)
      /\ Len(Tail(q)) = Len(q) - 1 /\ DOMAIN Tail(q) = 1..(Len(q) - 1)
      /\ \A k \in 1..(Len(q) - 1) : Tail(q)[k] = q[k + 1]
      /\ Head(q) = q[1]
  BY HeadTailProperties, LenProperties, EmptySeq
<1>2. ASSUME Has(Tail(q), d) PROVE Has(q, d)
  <2>1. PICK k \in 1..(Len(q) - 1) : Tail(q)[k] = d
    BY <1>1, <1>2 DEF Has
  <2> QED
    BY <1>1, <2>1 DEF Has
<1>3. ASSUME Has(q, d), Head(q) # d PROVE Has(Tail(q), d)
  <2>1. PICK k \in 1..Len(q) : q[k] = d
    BY <1>1, <1>3 DEF Has
  <2>2. k - 1 \in 1..(Len(q) - 1) /\ Tail(q)[k - 1] = d
    BY <1>1, <1>3, <2>1
  <2> QED
    BY <1>1, <2>2 DEF Has
<1> QED
  BY <1>2, <1>3

\* The steps that leave every tab its connections.
TabsStay ==
    \A t \in Ids :
        \/ tab'[t] = tab[t]
        \/ /\ tab[t] # NoTab /\ tab'[t] # NoTab
           /\ tab'[t].conn = tab[t].conn /\ tab'[t].term = tab[t].term
           /\ tab'[t].open = tab[t].open

LEMMA StayingTabs ==
    ASSUME Shape, [Next]_vars,
           ~\E i \in Ids : Connected(i) \/ AskReady(i) \/ CloseTab(i)
    PROVE  TabsStay
<1> SUFFICES ASSUME NEW s \in Ids, tab'[s] # tab[s]
             PROVE  /\ tab[s] # NoTab /\ tab'[s] # NoTab
                    /\ tab'[s].conn = tab[s].conn /\ tab'[s].term = tab[s].term
                    /\ tab'[s].open = tab[s].open
  BY DEF TabsStay
<1>0. TypeOK
  BY DEF Shape
<1>1. /\ tab[s] # NoTab /\ tab'[s] \in Tab
      /\ \/ tab'[s] = [tab[s] EXCEPT !.busy = FALSE, !.down = TRUE]
         \/ tab'[s] = [tab[s] EXCEPT !.busy = TRUE, !.down = FALSE]
         \/ tab'[s] = [tab[s] EXCEPT !.down = TRUE]
         \/ tab'[s] = [tab[s] EXCEPT !.hears = "data"]
         \/ tab'[s] = [tab[s] EXCEPT !.hears = "exit"]
  <2> DEFINE Goal ==
        /\ tab[s] # NoTab /\ tab'[s] \in Tab
        /\ \/ tab'[s] = [tab[s] EXCEPT !.busy = FALSE, !.down = TRUE]
           \/ tab'[s] = [tab[s] EXCEPT !.busy = TRUE, !.down = FALSE]
           \/ tab'[s] = [tab[s] EXCEPT !.down = TRUE]
           \/ tab'[s] = [tab[s] EXCEPT !.hears = "data"]
           \/ tab'[s] = [tab[s] EXCEPT !.hears = "exit"]
  <2>1. ASSUME NEW i \in Ids, NotConnected(i) PROVE Goal
    BY <2>1, NotConnectedTab DEF TabBecomes
  <2>2. ASSUME NEW i \in Ids, TaskEnds(i) PROVE Goal
    BY <1>0, <2>2, EndedTab DEF TaskEnds, TerminalOf
  <2>3. ASSUME NEW t \in Ids, NEW i \in Ids, Reconnect(t, i) PROVE Goal
    BY <1>0, <2>3, ReconnectTab DEF TabBecomes, Reconnect
  <2>4. ASSUME NEW t \in Ids, ListenData(t) PROVE Goal
    BY <1>0, <2>4, ListenDataTab DEF TabBecomes, ListenData
  <2>5. ASSUME NEW t \in Ids, ListenExit(t) PROVE Goal
    BY <1>0, <2>5, ListenExitTab DEF TabBecomes, ListenExit
  <2> QED
    BY <2>1, <2>2, <2>3, <2>4, <2>5
       DEF Next, vars, AskFromDialog, Cancel, Connects, ConnectFails, Register,
           ReadOutput, ReadEnd, TakeReady, TakeClose, Disconnect, Says, Ends
<1>2. tab[s] \in Tab
  BY <1>0, <1>1, TabTyped
<1> QED
  BY <1>1, <1>2, NoTabAssumption DEF Tab

LEMMA LetGoStep == Shape /\ LetGoKept /\ [Next]_vars => LetGoKept'
<1> SUFFICES ASSUME Shape, LetGoKept, [Next]_vars PROVE LetGoKept'
  OBVIOUS
<1>0. TypeOK /\ CallsKept /\ TabsKept /\ AskedKept
  BY DEF Shape
<1>a. "close" \in Commands /\ "ready" \in Commands
  BY DEF Commands
<1> DEFINE Told(i) == i \notin connections /\ task[i] = "running"
                        /\ call[i] \in {"registered", "returned"}
                           => Has(inbox[i], "close")
           Left1(t) == tab[t] # NoTab /\ ~tab[t].open =>
                         tab[t].conn \in leaving \/ tab[t].conn \notin connections
<1>b. ASSUME NEW i \in Ids PROVE Told(i)'
  <2>0. Told(i) /\ inbox[i] \in Seq(Commands) /\ CallKept(i)
    BY <1>0 DEF LetGoKept, TypeOK, CallsKept
  <2>1. ASSUME NEW j \in Ids,
               AskFromDialog(j) \/ Cancel(j) \/ Connects(j) \/ ConnectFails(j)
                  \/ Register(j) \/ Connected(j) \/ NotConnected(j)
        PROVE  Told(i)'
    BY <1>0, <2>0, <2>1 DEF TypeOK, CallKept, AskFromDialog, Cancel, Connects,
       ConnectFails, Register, Connected, NotConnected, session
  <2>2. ASSUME NEW j \in Ids, TaskEnds(j) PROVE Told(i)'
    BY <1>0, <2>0, <2>2 DEF TypeOK, TaskEnds
  <2>3. ASSUME NEW j \in Ids, TakeReady(j) PROVE Told(i)'
    <3>1. inbox'[i] = IF i = j THEN Tail(inbox[i]) ELSE inbox[i]
      BY <1>0, <2>3 DEF TypeOK, TakeReady
    <3>2. i = j => inbox[i] # <<>> /\ Head(inbox[i]) # "close"
      BY <2>3 DEF TakeReady
    <3>3. Has(inbox[i], "close") => Has(inbox'[i], "close")
      BY <1>a, <2>0, <3>1, <3>2, TailHas
    <3> QED
      BY <2>0, <2>3, <3>3 DEF TakeReady
  <2>4. ASSUME NEW j \in Ids, Disconnect(j) PROVE Told(i)'
    <3>1. CASE i = j /\ i \in connections
      <4>1. task[i] = "running" => inbox'[i] = Append(inbox[i], "close")
        BY <1>0, <2>4, <3>1 DEF TypeOK, Disconnect, Send
      <4>2. Has(Append(inbox[i], "close"), "close")
        BY <1>a, <2>0, AppendHas
      <4>3. task[i] = "running" => Has(inbox'[i], "close")
        BY <4>1, <4>2
      <4> QED
        BY <2>4, <4>3 DEF Disconnect
    <3>2. CASE ~(i = j /\ i \in connections)
      <4>1. inbox'[i] = inbox[i] /\ (i \in connections <=> i \in connections')
        BY <1>0, <2>4, <3>2 DEF TypeOK, Disconnect, Send
      <4> QED
        BY <2>0, <2>4, <4>1 DEF Disconnect
    <3> QED
      BY <3>1, <3>2
  <2>5. ASSUME NEW t \in Ids, AskReady(t) PROVE Told(i)'
    <3>1. inbox'[i] = inbox[i] \/ inbox'[i] = Append(inbox[i], "ready")
      BY <1>0, <2>5 DEF TypeOK, AskReady, Send
    <3>2. Has(inbox[i], "close") => Has(Append(inbox[i], "ready"), "close")
      BY <1>a, <2>0, AppendHas
    <3> QED
      BY <2>0, <2>5, <3>1, <3>2 DEF AskReady
  <2>6. ASSUME NEW t \in Ids, NEW j \in Ids, Reconnect(t, j) PROVE Told(i)'
    BY <1>0, <2>0, <2>6 DEF TypeOK, CallKept, Reconnect, session
  <2>7. CASE UNCHANGED <<call, task, inbox, connections>>
    BY <2>0, <2>7
  <2> QED
    BY <2>1, <2>2, <2>3, <2>4, <2>5, <2>6, <2>7
       DEF Next, vars, session, ReadOutput, ReadEnd, TakeClose, Says, Ends,
           ListenData, ListenExit, CloseTab
<1>c. ASSUME NEW t \in Ids PROVE Left1(t)'
  <2>0. Left1(t)
    BY DEF LetGoKept
  <2>1. ASSUME NEW j \in Ids, Connected(j) PROVE Left1(t)'
    <3>1. CASE asker[j] \in Ids
      <4>1. /\ tab[asker[j]] \in Tab
            /\ TabBecomes(asker[j], [tab[asker[j]] EXCEPT
                             !.term = j, !.hears = "nothing"])
        BY <1>0, <2>1, <3>1, ConnectedTab, TabTyped
      <4>2. \/ tab'[t] = tab[t]
            \/ /\ tab[t] # NoTab
               /\ tab'[t].conn = tab[t].conn /\ tab'[t].open = tab[t].open
        BY <3>1, <4>1, NoTabAssumption DEF TabBecomes, Tab
      <4> QED
        BY <2>0, <2>1, <4>2 DEF Connected
    <3>2. CASE asker[j] \notin Ids
      <4>1. TabBecomes(j, NewTab(j))
        BY <2>1, <3>2, ConnectedTab
      <4>2. tab'[t] = tab[t] \/ tab'[t] = NewTab(j)
        BY <4>1 DEF TabBecomes
      <4> QED
        BY <2>0, <2>1, <4>2 DEF Connected, NewTab
    <3> QED
      BY <3>1, <3>2
  <2>2. ASSUME NEW s \in Ids, AskReady(s) PROVE Left1(t)'
    <3>1. CASE s # t
      BY <1>0, <2>0, <2>2, <3>1, AskReadyTab DEF TabBecomes, AskReady
    <3>2. CASE s = t
      <4>1. tab[t] \in Tab /\ tab'[t] = AskedTab(t)
        BY <1>0, <2>2, <3>2, TabTyped, AskReadyTab DEF TabBecomes, AskReady
      <4>2. tab'[t].open = tab[t].open
            /\ (~tab[t].open => tab'[t].conn = tab[t].conn)
        BY <4>1 DEF AskedTab, Tab
      <4> QED
        BY <2>0, <2>2, <3>2, <4>2 DEF AskReady
    <3> QED
      BY <3>1, <3>2
  <2>3. ASSUME NEW s \in Ids, CloseTab(s) PROVE Left1(t)'
    <3>1. CASE s # t
      BY <1>0, <2>0, <2>3, <3>1, CloseTabTab DEF TabBecomes, CloseTab
    <3>2. CASE s = t
      <4>1. tab[t] \in Tab /\ tab'[t] = [tab[t] EXCEPT !.open = FALSE]
        BY <1>0, <2>3, <3>2, TabTyped, CloseTabTab DEF TabBecomes, CloseTab
      <4>2. tab'[t].conn = tab[t].conn
        BY <4>1 DEF Tab
      <4> QED
        BY <2>3, <3>2, <4>2 DEF CloseTab
    <3> QED
      BY <3>1, <3>2
  <2>4. CASE ~\E i \in Ids : Connected(i) \/ AskReady(i) \/ CloseTab(i)
    <3>1. TabsStay
      BY <2>4, StayingTabs
    <3>2. tab'[t] # NoTab /\ ~tab'[t].open =>
            /\ tab[t] # NoTab /\ ~tab[t].open
            /\ tab'[t].conn = tab[t].conn
      BY <3>1 DEF TabsStay
    <3>3. ASSUME NEW j \in Ids, Register(j) PROVE Left1(t)'
      <4>1. tab[t] # NoTab => tab[t].conn # j
        BY <1>0, <3>3 DEF TabsKept, TabKept, Register
      <4> QED
        BY <2>0, <3>2, <3>3, <4>1 DEF Register
    <3>4. ASSUME NEW j \in Ids, Disconnect(j) PROVE Left1(t)'
      BY <2>0, <3>2, <3>4 DEF Disconnect
    <3>5. CASE leaving \subseteq leaving' /\ connections' = connections
      BY <2>0, <3>2, <3>5
    <3> QED
      BY <2>4, <3>3, <3>4, <3>5
         DEF Next, vars, AskFromDialog, Cancel, Connects, ConnectFails,
             NotConnected, ReadOutput, ReadEnd, TakeReady, TakeClose, TaskEnds,
             Says, Ends, ListenData, ListenExit, Reconnect
  <2> QED
    BY <2>1, <2>2, <2>3, <2>4
<1> QED
  BY <1>b, <1>c DEF LetGoKept

\* What Accounted says of one connection.
Account(i) ==
    \/ i \in leaving
    \/ call[i] # "returned"
    \/ \E t \in OpenTabs : i \in {tab[t].conn, tab[t].term}
    \/ asker[i] \in Ids /\ asker[i] \notin OpenTabs

\* A connection that tabs keep as they are is accounted for as it was.
LEMMA StayingAccount ==
    ASSUME Shape, TabsStay, NEW i \in Ids, Account(i),
           i \in leaving => i \in leaving',
           call'[i] = call[i], asker'[i] = asker[i] \/ asker[i] \notin Ids
    PROVE  Account(i)'
<1>1. /\ OpenTabs' = OpenTabs
      /\ \A t \in OpenTabs : tab'[t].conn = tab[t].conn /\ tab'[t].term = tab[t].term
  BY DEF TabsStay, OpenTabs
<1> QED
  BY <1>1 DEF Account

LEMMA AccountedStep == Shape /\ Accounted /\ [Next]_vars => Accounted'
<1> SUFFICES ASSUME Shape, Accounted, [Next]_vars, NEW i \in Ids,
                    i \in connections'
             PROVE  Account(i)'
  <2>1. ASSUME Shape, [Next]_vars PROVE TypeOK'
    BY <2>1, TypeStep
  <2> QED
    BY <2>1 DEF Accounted, Account, TypeOK
<1>0. TypeOK /\ CallsKept /\ TabsKept /\ AskedKept
  BY DEF Shape
<1>a. CallKept(i) /\ (i \in connections => Account(i))
  BY <1>0 DEF CallsKept, Accounted, Account
<1>1. ASSUME NEW j \in Ids, Connected(j) PROVE Account(i)'
  <2>0. /\ i \in connections /\ Account(i)
        /\ leaving' = leaving /\ asker' = asker
        /\ call'[j] = "returned" /\ \A k \in Ids \ {j} : call'[k] = call[k]
    BY <1>0, <1>1, <1>a DEF Connected, TypeOK
  <2>1. CASE asker[j] \in Ids
    <3> DEFINE t == asker[j]
    <3>1. tab[t] \in Tab /\ ~Moved(t)
          /\ TabBecomes(t, [tab[t] EXCEPT !.term = j, !.hears = "nothing"])
      BY <1>0, <1>1, <2>1, ConnectedTab, TabTyped
         DEF AskedKept, ReconnectKept, Pending, Connected
    <3>2. /\ tab'[t] # NoTab /\ tab[t] # NoTab
          /\ tab'[t].conn = tab[t].conn /\ tab'[t].term = j
          /\ tab'[t].open = tab[t].open /\ tab[t].conn = tab[t].term
          /\ \A s \in Ids \ {t} : tab'[s] = tab[s]
      BY <3>1, NoTabAssumption DEF TabBecomes, Tab, Moved
    <3>3. OpenTabs' = OpenTabs
      BY <3>2 DEF OpenTabs
    <3>4. CASE i = j
      BY <2>0, <2>1, <3>2, <3>3, <3>4 DEF Account
    <3>5. CASE i # j
      <4>1. CASE \E s \in OpenTabs : i \in {tab[s].conn, tab[s].term}
        <5>1. \E s \in OpenTabs : i \in {tab'[s].conn, tab'[s].term}
          BY <2>1, <3>2, <4>1 DEF OpenTabs
        <5> QED
          BY <3>3, <5>1 DEF Account
      <4>2. CASE ~\E s \in OpenTabs : i \in {tab[s].conn, tab[s].term}
        BY <2>0, <3>3, <3>5, <4>2 DEF Account
      <4> QED
        BY <4>1, <4>2
    <3> QED
      BY <3>4, <3>5
  <2>2. CASE asker[j] \notin Ids
    <3>1. /\ tab[j] = NoTab /\ tab'[j] # NoTab /\ tab'[j].open /\ tab'[j].conn = j
          /\ \A s \in Ids \ {j} : tab'[s] = tab[s]
      <4>1. tab[j] = NoTab /\ TabBecomes(j, NewTab(j))
        BY <1>1, <2>2, ConnectedTab
      <4>2. NewTab(j).open /\ NewTab(j).conn = j
        BY DEF NewTab
      <4> QED
        BY <4>1, <4>2, NoTabAssumption DEF TabBecomes
    <3>2. OpenTabs' = OpenTabs \cup {j} /\ j \notin OpenTabs
      BY <3>1 DEF OpenTabs
    <3>3. CASE i = j
      BY <3>1, <3>2, <3>3 DEF Account
    <3>4. CASE i # j
      <4>1. CASE \E s \in OpenTabs : i \in {tab[s].conn, tab[s].term}
        <5>1. PICK s \in OpenTabs : i \in {tab[s].conn, tab[s].term}
          BY <4>1
        <5>2. s \in OpenTabs' /\ tab'[s] = tab[s]
          BY <3>1, <3>2, <5>1 DEF OpenTabs
        <5> QED
          BY <5>1, <5>2 DEF Account
      <4>2. CASE ~\E s \in OpenTabs : i \in {tab[s].conn, tab[s].term}
        <5>1. asker[i] \in Ids => asker[i] # j
          BY <1>0, <3>1 DEF AskedKept
        <5> QED
          BY <2>0, <3>2, <3>4, <4>2, <5>1 DEF Account
      <4> QED
        BY <4>1, <4>2
    <3> QED
      BY <3>3, <3>4
  <2> QED
    BY <2>1, <2>2
<1>2. ASSUME NEW t \in Ids, AskReady(t) PROVE Account(i)'
  <2>0. /\ i \in connections /\ Account(i) /\ tab[t] # NoTab
        /\ leaving' = leaving \cup Left(t) /\ asker' = asker /\ call' = call
    BY <1>2, <1>a DEF AskReady
  <2>1. tab[t] \in Tab /\ TabBecomes(t, AskedTab(t))
    BY <1>0, <1>2, <2>0, TabTyped, AskReadyTab
  <2>2. /\ tab'[t] # NoTab /\ tab'[t].term = tab[t].term
        /\ tab'[t].open = tab[t].open
        /\ \A s \in Ids \ {t} : tab'[s] = tab[s]
    BY <2>1, NoTabAssumption DEF TabBecomes, AskedTab, Tab
  <2>3. OpenTabs' = OpenTabs
    BY <2>0, <2>2 DEF OpenTabs
  <2>4. CASE \E s \in OpenTabs : i \in {tab[s].conn, tab[s].term}
    <3>1. PICK s \in OpenTabs : i \in {tab[s].conn, tab[s].term}
      BY <2>4
    <3>2. CASE s # t \/ i = tab[s].term
      BY <2>2, <2>3, <3>1, <3>2 DEF Account, OpenTabs
    <3>3. CASE s = t /\ i # tab[s].term
      BY <2>0, <3>1, <3>3 DEF Account, Left, Moved, OpenTabs
    <3> QED
      BY <3>2, <3>3
  <2>5. CASE ~\E s \in OpenTabs : i \in {tab[s].conn, tab[s].term}
    BY <2>0, <2>3, <2>5 DEF Account
  <2> QED
    BY <2>4, <2>5
<1>3. ASSUME NEW t \in Ids, CloseTab(t) PROVE Account(i)'
  <2>0. /\ i \in connections /\ Account(i) /\ tab[t] # NoTab /\ tab[t].open
        /\ leaving' = leaving \cup {tab[t].conn} /\ asker' = asker /\ call' = call
    BY <1>3, <1>a DEF CloseTab
  <2>1. tab[t] \in Tab /\ TabBecomes(t, [tab[t] EXCEPT !.open = FALSE])
    BY <1>0, <1>3, <2>0, TabTyped, CloseTabTab
  <2>2. ~tab'[t].open /\ \A s \in Ids \ {t} : tab'[s] = tab[s]
    BY <2>1 DEF TabBecomes, Tab
  <2>3. OpenTabs' = OpenTabs \ {t}
    BY <2>2 DEF OpenTabs
  <2>4. CASE i \in {tab[t].conn, tab[t].term}
    <3>1. i = tab[t].conn \/ asker[i] = t
      BY <1>0, <2>0, <2>4 DEF TabsKept, TabKept, Moved
    <3> QED
      BY <2>0, <2>3, <3>1 DEF Account
  <2>5. CASE i \notin {tab[t].conn, tab[t].term}
    <3>1. CASE \E s \in OpenTabs : i \in {tab[s].conn, tab[s].term}
      <4>1. PICK s \in OpenTabs : i \in {tab[s].conn, tab[s].term}
        BY <3>1
      <4>2. s \in OpenTabs' /\ tab'[s] = tab[s]
        BY <2>2, <2>3, <2>5, <4>1 DEF OpenTabs
      <4> QED
        BY <4>1, <4>2 DEF Account
    <3>2. CASE ~\E s \in OpenTabs : i \in {tab[s].conn, tab[s].term}
      BY <2>0, <2>3, <3>2 DEF Account
    <3> QED
      BY <3>1, <3>2
  <2> QED
    BY <2>4, <2>5
<1>4. CASE ~\E k \in Ids : Connected(k) \/ AskReady(k) \/ CloseTab(k)
  <2>0. TabsStay
    BY <1>4, StayingTabs
  <2>1. ASSUME NEW j \in Ids,
               AskFromDialog(j) \/ Cancel(j) \/ Connects(j) \/ ConnectFails(j)
                  \/ NotConnected(j)
        PROVE  Account(i)'
    <3>1. i \in connections
      BY <2>1 DEF AskFromDialog, Cancel, Connects, ConnectFails, NotConnected
    <3>2. CASE i = j
      BY <1>0, <1>a, <2>1, <3>1, <3>2 DEF CallKept, TypeOK, Account,
         AskFromDialog, Cancel, Connects, ConnectFails, NotConnected
    <3>3. CASE i # j
      <4>1. call'[i] = call[i] /\ asker'[i] = asker[i] /\ leaving \subseteq leaving'
        BY <1>0, <2>1, <3>3 DEF TypeOK, AskFromDialog, Cancel, Connects,
           ConnectFails, NotConnected
      <4> QED
        BY <1>a, <2>0, <3>1, <4>1, StayingAccount
    <3> QED
      BY <3>2, <3>3
  <2>2. ASSUME NEW j \in Ids, Register(j) PROVE Account(i)'
    <3>1. CASE i = j
      BY <1>0, <2>2, <3>1 DEF Register, TypeOK, Account
    <3>2. CASE i # j
      <4>1. i \in connections /\ call'[i] = call[i] /\ asker' = asker
            /\ leaving' = leaving
        BY <1>0, <2>2, <3>2 DEF Register, TypeOK
      <4> QED
        BY <1>a, <2>0, <4>1, StayingAccount
    <3> QED
      BY <3>1, <3>2
  <2>3. ASSUME NEW j \in Ids, Disconnect(j) PROVE Account(i)'
    <3>1. i \in connections /\ i # j /\ call' = call /\ asker' = asker
          /\ leaving' = leaving \ {j}
      BY <2>3 DEF Disconnect
    <3> QED
      BY <1>a, <2>0, <3>1, StayingAccount
  <2>4. ASSUME NEW t \in Ids, NEW j \in Ids, Reconnect(t, j) PROVE Account(i)'
    <3>1. i \in connections /\ i # j /\ leaving' = leaving
      BY <1>a, <2>4 DEF Reconnect, CallKept
    <3>2. call'[i] = call[i] /\ asker'[i] = asker[i]
      BY <1>0, <2>4, <3>1 DEF Reconnect, TypeOK
    <3> QED
      BY <1>a, <2>0, <3>1, <3>2, StayingAccount
  <2>5. CASE UNCHANGED <<call, asker, connections, leaving>>
    BY <1>a, <2>0, <2>5, StayingAccount
  <2> QED
    BY <1>4, <2>1, <2>2, <2>3, <2>4, <2>5
       DEF Next, vars, ReadOutput, ReadEnd, TakeReady, TakeClose, TaskEnds,
           Says, Ends, ListenData, ListenExit
<1> QED
  BY <1>1, <1>2, <1>3, <1>4

-----------------------------------------------------------------------------
\* What terminals show.

LEMMA NextChunk ==
    ASSUME NEW n \in Nat
    PROVE  /\ FirstChunks(n) \in Seq(Nat)
           /\ Append(FirstChunks(n), n + 1) = FirstChunks(n + 1)
           /\ FirstChunks(n) \o <<n + 1>> = FirstChunks(n + 1)
<1>1. \A m \in Nat : FirstChunks(m) \in Seq(Nat) /\ Len(FirstChunks(m)) = m
  <2> SUFFICES ASSUME NEW m \in Nat
               PROVE  FirstChunks(m) \in Seq(Nat) /\ Len(FirstChunks(m)) = m
    OBVIOUS
  <2>1. FirstChunks(m) \in Seq(Nat)
    <3>1. \A k \in 1..m : k \in Nat
      OBVIOUS
    <3> QED
      BY <3>1, IsASeq DEF FirstChunks
  <2>2. DOMAIN FirstChunks(m) = 1..m
    BY DEF FirstChunks
  <2> QED
    BY <2>1, <2>2, LenProperties
<1>2. \A m \in Nat : \A k \in 1..m : FirstChunks(m)[k] = k
  BY DEF FirstChunks
<1> DEFINE s == Append(FirstChunks(n), n + 1)
           u == FirstChunks(n) \o <<n + 1>>
<1>3. /\ s \in Seq(Nat) /\ Len(s) = n + 1
      /\ \A k \in 1..(n + 1) : s[k] = k
  BY <1>1, <1>2
<1>4. /\ u \in Seq(Nat) /\ Len(u) = n + 1
      /\ \A k \in 1..(n + 1) : u[k] = k
  <2>1. <<n + 1>> \in Seq(Nat) /\ Len(<<n + 1>>) = 1 /\ <<n + 1>>[1] = n + 1
    OBVIOUS
  <2>2. FirstChunks(n) \in Seq(Nat) /\ Len(FirstChunks(n)) = n
    BY <1>1
  <2>3. /\ u \in Seq(Nat) /\ Len(u) = n + 1
        /\ \A k \in 1..(n + 1) : u[k] = IF k <= n THEN FirstChunks(n)[k]
                                                 ELSE <<n + 1>>[k - n]
    BY <2>1, <2>2, ConcatProperties
  <2>4. \A k \in 1..(n + 1) : u[k] = k
    <3> SUFFICES ASSUME NEW k \in 1..(n + 1) PROVE u[k] = k
      OBVIOUS
    <3>1. CASE k <= n
      BY <1>2, <2>3, <3>1
    <3>2. CASE ~(k <= n)
      <4>1. k = n + 1 /\ k - n = 1
        BY <3>2
      <4> QED
        BY <2>1, <2>3, <3>2, <4>1
    <3> QED
      BY <3>1, <3>2
  <2> QED
    BY <2>3, <2>4
<1> HIDE DEF s, u
<1>5. s = FirstChunks(n + 1) /\ u = FirstChunks(n + 1)
  BY <1>1, <1>2, <1>3, <1>4, SeqEqual
<1> QED
  BY <1>1, <1>5 DEF s, u

\* One terminal at most shows a connection.
LEMMA OneTerminal ==
    ASSUME Shape, NEW i \in Ids, NEW s \in Ids, NEW t \in Ids,
           TerminalOf(s, i), TerminalOf(t, i)
    PROVE  s = t
<1>1. Owner(s, i) /\ Owner(t, i)
  BY DEF Shape, TabsKept, TabKept, TerminalOf
<1> QED
  BY <1>1 DEF Owner

\* A connection's screen is as it was when nothing of its session changes, and
\* its terminal is none that was not there, nor one that asks no more.
LEMMA SameScreen ==
    ASSUME NEW i \in Ids, ScreenOf(i),
           call[i] # "returned" \/ call'[i] = "returned",
           task'[i] = task[i] \/ (task[i] = "none" /\ task'[i] = "running"),
           Asks(i)' <=> Asks(i),
           ready'[i] = ready[i], backlog'[i] = backlog[i], read'[i] = read[i],
           shown'[i] = shown[i], flooded' = flooded,
           \A t \in Ids : TerminalOf(t, i)' =>
               \/ TerminalOf(t, i)
                  /\ (tab[t].hears = "asked" => tab'[t].hears = "asked")
               \/ ~Asks(i) /\ (i \notin flooded => ~ready[i])
    PROVE  ScreenOf(i)'
BY DEF ScreenOf

\* The steps that take no terminal from what it has asked, nor give it another.
LEMMA StayingTerminals ==
    ASSUME Shape, [Next]_vars, ~\E k \in Ids : Connected(k), NEW i \in Ids,
           NEW t \in Ids, TerminalOf(t, i)'
    PROVE  /\ TerminalOf(t, i)
           /\ tab[t].hears = "asked" => tab'[t].hears = "asked"
<1>0. TypeOK
  BY DEF Shape
<1> DEFINE Goal == /\ TerminalOf(t, i)
                   /\ tab[t].hears = "asked" => tab'[t].hears = "asked"
<1>a. CASE tab'[t] = tab[t]
  BY <1>a DEF TerminalOf
<1>b. CASE tab'[t] # tab[t]
  <2>1. /\ tab[t] \in Tab /\ tab[t] # NoTab
        /\ \/ tab'[t] = [tab[t] EXCEPT !.busy = FALSE, !.down = TRUE]
           \/ tab'[t] = [tab[t] EXCEPT !.busy = TRUE, !.down = FALSE]
           \/ tab'[t] = [tab[t] EXCEPT !.down = TRUE]
           \/ tab[t].hears = "nothing" /\ tab'[t] = [tab[t] EXCEPT !.hears = "data"]
           \/ tab[t].hears = "data" /\ tab'[t] = [tab[t] EXCEPT !.hears = "exit"]
           \/ tab'[t] = AskedTab(t)
           \/ tab'[t] = [tab[t] EXCEPT !.open = FALSE]
    <3> DEFINE Becomes ==
           /\ tab[t] # NoTab
           /\ \/ tab'[t] = [tab[t] EXCEPT !.busy = FALSE, !.down = TRUE]
              \/ tab'[t] = [tab[t] EXCEPT !.busy = TRUE, !.down = FALSE]
              \/ tab'[t] = [tab[t] EXCEPT !.down = TRUE]
              \/ tab[t].hears = "nothing" /\ tab'[t] = [tab[t] EXCEPT !.hears = "data"]
              \/ tab[t].hears = "data" /\ tab'[t] = [tab[t] EXCEPT !.hears = "exit"]
              \/ tab'[t] = AskedTab(t)
              \/ tab'[t] = [tab[t] EXCEPT !.open = FALSE]
    <3>1. ASSUME NEW j \in Ids, NotConnected(j) PROVE Becomes
      BY <1>b, <3>1, NotConnectedTab DEF TabBecomes
    <3>2. ASSUME NEW j \in Ids, TaskEnds(j) PROVE Becomes
      BY <1>0, <1>b, <3>2, EndedTab DEF TaskEnds, TerminalOf
    <3>3. ASSUME NEW s \in Ids, NEW j \in Ids, Reconnect(s, j) PROVE Becomes
      BY <1>0, <1>b, <3>3, ReconnectTab DEF TabBecomes, Reconnect
    <3>4. ASSUME NEW s \in Ids, ListenData(s) PROVE Becomes
      BY <1>0, <1>b, <3>4, ListenDataTab DEF TabBecomes, ListenData
    <3>5. ASSUME NEW s \in Ids, ListenExit(s) PROVE Becomes
      BY <1>0, <1>b, <3>5, ListenExitTab DEF TabBecomes, ListenExit
    <3>6. ASSUME NEW s \in Ids, AskReady(s) PROVE Becomes
      BY <1>0, <1>b, <3>6, AskReadyTab DEF TabBecomes, AskReady
    <3>7. ASSUME NEW s \in Ids, CloseTab(s) PROVE Becomes
      BY <1>0, <1>b, <3>7, CloseTabTab DEF TabBecomes, CloseTab
    <3>8. Becomes
      BY <1>b, <3>1, <3>2, <3>3, <3>4, <3>5, <3>6, <3>7
         DEF Next, vars, AskFromDialog, Cancel, Connects, ConnectFails, Register,
             ReadOutput, ReadEnd, TakeReady, TakeClose, Disconnect, Says, Ends
    <3> QED
      BY <1>0, <3>8, TabTyped
  <2>2. /\ tab'[t].term = tab[t].term
        /\ tab'[t].open => tab[t].open
        /\ tab[t].hears = "asked" => tab'[t].hears = "asked"
    BY <2>1 DEF Tab, AskedTab
  <2> QED
    BY <2>1, <2>2 DEF TerminalOf
<1> QED
  BY <1>a, <1>b

LEMMA ScreenStep == Shape /\ ScreenKept /\ [Next]_vars => ScreenKept'
<1> SUFFICES ASSUME Shape, ScreenKept, [Next]_vars, NEW i \in Ids
             PROVE  ScreenOf(i)'
  BY DEF ScreenKept
<1>0. TypeOK /\ CallsKept /\ TabsKept /\ AskedKept /\ ScreenOf(i)
  BY DEF Shape, ScreenKept
<1>a. /\ inbox[i] \in Seq(Commands) /\ "ready" \in Commands /\ "close" \in Commands
      /\ read[i] \in Nat /\ backlog[i] \in Seq(Nat) /\ shown[i] \in Seq(Nat)
  BY <1>0 DEF TypeOK, Commands
<1>1. ASSUME NEW j \in Ids, Connected(j) PROVE ScreenOf(i)'
  <2>0. /\ call[j] = "registered" /\ call'[i] \in {call[i], "returned"}
        /\ UNCHANGED <<session, screen>>
    BY <1>0, <1>1 DEF Connected, TypeOK
  <2>1. ASSUME NEW t \in Ids, TerminalOf(t, i)'
        PROVE  \/ TerminalOf(t, i)
                  /\ (tab[t].hears = "asked" => tab'[t].hears = "asked")
               \/ ~Asks(i) /\ (i \notin flooded => ~ready[i])
    <3>1. CASE tab'[t] = tab[t]
      BY <2>1, <3>1 DEF TerminalOf
    <3>2. CASE tab'[t] # tab[t]
      <4>1. tab'[t].term = j
        <5>1. CASE asker[j] \in Ids
          <6>1. tab[t] \in Tab
                /\ tab'[t] = [tab[t] EXCEPT !.term = j, !.hears = "nothing"]
            BY <1>0, <1>1, <3>2, <5>1, ConnectedTab, TabTyped DEF TabBecomes
          <6> QED
            BY <6>1 DEF Tab
        <5>2. CASE asker[j] \notin Ids
          <6>1. tab'[t] = NewTab(j)
            BY <1>1, <3>2, <5>2, ConnectedTab DEF TabBecomes
          <6> QED
            BY <6>1 DEF NewTab
        <5> QED
          BY <5>1, <5>2
      <4>2. i = j
        BY <2>1, <4>1 DEF TerminalOf
      <4> QED
        BY <1>0, <2>0, <4>2 DEF ScreenOf
    <3> QED
      BY <3>1, <3>2
  <2> QED
    BY <1>0, <2>0, <2>1, SameScreen DEF session, screen, Asks
<1>b. CASE ~\E k \in Ids : Connected(k)
  <2>0. \A t \in Ids : TerminalOf(t, i)' =>
           TerminalOf(t, i) /\ (tab[t].hears = "asked" => tab'[t].hears = "asked")
    BY <1>b, StayingTerminals
  <2>1. ASSUME NEW j \in Ids,
               AskFromDialog(j) \/ Cancel(j) \/ ConnectFails(j) \/ Register(j)
                  \/ NotConnected(j)
        PROVE  ScreenOf(i)'
    <3>1. UNCHANGED <<session, screen>>
          /\ (call[i] # "returned" \/ call'[i] = "returned")
      BY <1>0, <2>1 DEF TypeOK, AskFromDialog, Cancel, ConnectFails, Register,
         NotConnected
    <3> QED
      BY <1>0, <2>0, <3>1, SameScreen DEF session, screen, Asks
  <2>2. ASSUME NEW j \in Ids, Connects(j) PROVE ScreenOf(i)'
    <3>1. /\ task'[i] = task[i] \/ (task[i] = "none" /\ task'[i] = "running")
          /\ call[i] # "returned" \/ call'[i] = "returned"
          /\ UNCHANGED <<inbox, ready, backlog, read, screen>>
      BY <1>0, <2>2 DEF TypeOK, CallsKept, CallKept, Connects
    <3> QED
      BY <1>0, <2>0, <3>1, SameScreen DEF screen, Asks
  <2>3. ASSUME NEW j \in Ids, Disconnect(j) PROVE ScreenOf(i)'
    <3>1. inbox'[i] = inbox[i] \/ inbox'[i] = Append(inbox[i], "close")
      BY <1>0, <2>3 DEF TypeOK, Disconnect, Send
    <3>2. Has(Append(inbox[i], "close"), "ready") <=> Has(inbox[i], "ready")
      BY <1>a, AppendHas
    <3>3. Asks(i)' <=> Asks(i)
      BY <3>1, <3>2 DEF Asks
    <3> QED
      BY <1>0, <2>0, <2>3, <3>3, SameScreen DEF Disconnect, screen
  <2>4. ASSUME NEW t \in Ids, NEW j \in Ids, Reconnect(t, j) PROVE ScreenOf(i)'
    <3>1. UNCHANGED <<session, screen>>
          /\ (call[i] # "returned" \/ call'[i] = "returned")
      BY <1>0, <2>4 DEF TypeOK, Reconnect
    <3> QED
      BY <1>0, <2>0, <3>1, SameScreen DEF session, screen, Asks
  <2>5. ASSUME NEW j \in Ids,
               ListenData(j) \/ ListenExit(j) \/ CloseTab(j) \/ Says(j) \/ Ends(j)
        PROVE  ScreenOf(i)'
    <3>1. UNCHANGED <<call, session, screen>>
      BY <2>5 DEF ListenData, ListenExit, CloseTab, Says, Ends
    <3> QED
      BY <1>0, <2>0, <3>1, SameScreen DEF session, screen, Asks
  <2>6. ASSUME NEW t \in Ids, AskReady(t) PROVE ScreenOf(i)'
    <3>1. UNCHANGED <<call, task, ready, backlog, read, screen>>
      BY <2>6 DEF AskReady
    <3>2. CASE tab[t].term # i
      <4>1. inbox'[i] = inbox[i]
        BY <1>0, <2>6, <3>2, TabTyped DEF TypeOK, AskReady, Send
      <4> QED
        BY <1>0, <2>0, <3>1, <4>1, SameScreen DEF screen, Asks
    <3>3. CASE tab[t].term = i
      <4>1. call[i] = "returned"
        BY <1>0, <2>6, <3>3 DEF TabsKept, TabKept, AskReady
      <4>2. ASSUME NEW s \in Ids, TerminalOf(s, i)'
            PROVE  TerminalOf(s, i) /\ tab'[s].hears = "asked"
        <5>1. TerminalOf(s, i)
          BY <2>0, <4>2
        <5>2. CASE s = t
          <6>1. tab[t] \in Tab /\ tab'[t] = AskedTab(t)
            BY <1>0, <2>6, TabTyped, AskReadyTab DEF TabBecomes, AskReady
          <6>2. tab'[t].hears = "asked"
            BY <6>1 DEF AskedTab, Tab
          <6> QED
            BY <5>1, <5>2, <6>2
        <5>3. CASE s # t
          <6>1. Owner(s, i) /\ Owner(t, i)
            BY <1>0, <2>6, <3>3, <5>1 DEF TabsKept, TabKept, TerminalOf, AskReady
          <6> QED
            BY <5>3, <6>1 DEF Owner
        <5> QED
          BY <5>2, <5>3
      <4> QED
        BY <1>0, <3>1, <4>1, <4>2 DEF ScreenOf, screen
    <3> QED
      BY <3>2, <3>3
  <2>7. ASSUME NEW j \in Ids, TaskEnds(j) PROVE ScreenOf(i)'
    <3>1. UNCHANGED <<call, ready, read, shown, flooded>>
      BY <2>7 DEF TaskEnds, screen
    <3>2. CASE i = j
      <4>1. inbox'[i] = <<>> /\ task'[i] = "over"
        BY <1>0, <2>7, <3>2 DEF TypeOK, TaskEnds
      <4>2. ~Asks(i)'
        <5>1. DOMAIN inbox'[i] = 1..0
          BY <4>1, LenProperties, EmptySeq
        <5> QED
          BY <5>1 DEF Asks, Has
      <4> QED
        BY <1>0, <2>0, <3>1, <4>1, <4>2 DEF ScreenOf
    <3>3. CASE i # j
      <4>1. inbox'[i] = inbox[i] /\ task'[i] = task[i] /\ backlog'[i] = backlog[i]
        BY <1>0, <2>7, <3>3 DEF TypeOK, TaskEnds
      <4> QED
        BY <1>0, <2>0, <3>1, <4>1, SameScreen DEF Asks
    <3> QED
      BY <3>2, <3>3
  <2>8. ASSUME NEW j \in Ids, TakeReady(j) PROVE ScreenOf(i)'
    <3>0. UNCHANGED <<call, task, read, tab, flooded>>
      BY <2>8 DEF TakeReady
    <3>1. CASE i # j
      <4>1. /\ inbox'[i] = inbox[i] /\ ready'[i] = ready[i]
            /\ backlog'[i] = backlog[i] /\ shown'[i] = shown[i]
        BY <1>0, <2>8, <3>1 DEF TypeOK, TakeReady, Emit
      <4> QED
        BY <1>0, <2>0, <3>0, <4>1, SameScreen DEF Asks
    <3>2. CASE i = j
      <4>0. /\ inbox[i] # <<>> /\ Head(inbox[i]) = "ready" /\ task[i] = "running"
            /\ inbox'[i] = Tail(inbox[i])
        BY <1>0, <2>8, <3>2 DEF TypeOK, TakeReady
      <4>1. Asks(i) /\ (Asks(i)' => Asks(i))
        <5>1. inbox[i][1] = "ready" /\ 1 \in DOMAIN inbox[i]
          BY <1>a, <4>0, HeadTailProperties, LenProperties, EmptySeq
        <5>2. Has(Tail(inbox[i]), "ready") => Has(inbox[i], "ready")
          BY <1>a, <4>0, TailHas
        <5> QED
          BY <4>0, <5>1, <5>2 DEF Asks, Has
      <4>2. call[i] = "returned"
            /\ \A t \in Ids : TerminalOf(t, i) => tab[t].hears = "asked"
        BY <1>0, <4>1 DEF ScreenOf
      <4>3. CASE ready[i]
        <5>1. ready' = ready /\ backlog' = backlog /\ shown' = shown
          BY <2>8, <3>2, <4>3 DEF TakeReady
        <5> QED
          BY <1>0, <2>0, <3>0, <4>1, <4>2, <5>1 DEF ScreenOf
      <4>4. CASE ~ready[i]
        <5>1. ready'[i] /\ Emit(i, backlog[i])
          BY <1>0, <2>8, <3>2, <4>4 DEF TypeOK, TakeReady, Flushed
        <5>2. ASSUME NEW t \in Ids, TerminalOf(t, i), i \notin flooded
              PROVE  shown'[i] = FirstChunks(read[i])
          <6>1. DataHeard(i)
            BY <4>2, <5>2 DEF DataHeard
          <6>2. shown[i] = <<>> /\ backlog[i] = FirstChunks(read[i])
            BY <1>0, <4>0, <4>4, <5>2 DEF ScreenOf
          <6>3. shown'[i] = <<>> \o backlog[i]
            BY <1>0, <5>1, <6>1, <6>2 DEF TypeOK, Emit
          <6> QED
            BY <1>a, <6>2, <6>3, ConcatEmptySeq
        <5> QED
          BY <2>0, <3>0, <4>1, <4>2, <5>1, <5>2 DEF ScreenOf
      <4> QED
        BY <4>3, <4>4
    <3> QED
      BY <3>1, <3>2
  <2>9. ASSUME NEW j \in Ids, ReadOutput(j) PROVE ScreenOf(i)'
    <3>0. /\ UNCHANGED <<call, task, inbox, tab>>
          /\ Asks(i)' <=> Asks(i)
      BY <2>9 DEF ReadOutput, Asks
    <3>1. CASE i # j
      <4>1. /\ ready'[i] = ready[i] /\ backlog'[i] = backlog[i]
            /\ shown'[i] = shown[i] /\ read'[i] = read[i]
            /\ i \in flooded' <=> i \in flooded
        BY <1>0, <2>9, <3>1 DEF TypeOK, ReadOutput, Deliver, Emit
      <4> QED
        BY <1>0, <2>0, <3>0, <4>1 DEF ScreenOf
    <3>2. CASE i = j
      <4>0. read'[i] = read[i] + 1 /\ Deliver(i, read[i] + 1)
        BY <1>0, <2>9, <3>2 DEF TypeOK, ReadOutput
      <4>1. CASE ready[i]
        <5>1. Emit(i, <<read[i] + 1>>) /\ UNCHANGED <<ready, backlog, flooded>>
          BY <4>0, <4>1 DEF Deliver
        <5>2. ASSUME NEW t \in Ids, TerminalOf(t, i), i \notin flooded
              PROVE  shown'[i] = FirstChunks(read'[i])
          <6>1. DataHeard(i) /\ shown[i] = FirstChunks(read[i])
            BY <1>0, <4>1, <5>2 DEF DataHeard, ScreenOf
          <6>2. shown'[i] = shown[i] \o <<read[i] + 1>>
            BY <1>0, <5>1, <6>1 DEF TypeOK, Emit
          <6> QED
            BY <1>a, <4>0, <6>1, <6>2, NextChunk
        <5> QED
          BY <1>0, <2>0, <3>0, <4>1, <5>1, <5>2 DEF ScreenOf
      <4>2. CASE ~ready[i] /\ i \in flooded'
        BY <1>0, <2>0, <3>0, <4>2 DEF ScreenOf
      <4>3. CASE ~ready[i] /\ i \notin flooded'
        <5>1. /\ backlog'[i] = Append(backlog[i], read[i] + 1)
              /\ UNCHANGED <<ready, shown, flooded>>
          BY <1>0, <4>0, <4>3 DEF Deliver, TypeOK
        <5>2. task[i] # "over" => backlog'[i] = FirstChunks(read'[i])
          BY <1>0, <1>a, <4>0, <4>3, <5>1, NextChunk DEF ScreenOf
        <5> QED
          BY <1>0, <2>0, <3>0, <4>3, <5>1, <5>2 DEF ScreenOf
      <4> QED
        BY <4>1, <4>2, <4>3
    <3> QED
      BY <3>1, <3>2
  <2>10. UNCHANGED vars => ScreenOf(i)'
    BY <1>0, <2>0, SameScreen DEF vars, session, screen, Asks
  <2> QED
    BY <1>b, <2>1, <2>2, <2>3, <2>4, <2>5, <2>6, <2>7, <2>8, <2>9, <2>10
       DEF Next, ReadEnd, TakeClose
<1> QED
  BY <1>1, <1>b

-----------------------------------------------------------------------------
\* The theorems.

LEMMA SInvStep == SInv /\ [Next]_vars => SInv'
BY ShapeStep, ScreenStep, AccountedStep, LetGoStep DEF SInv

LEMMA AlwaysSInv == Spec => []SInv
BY InitSInv, SInvStep, PTL DEF Spec

\* The commands, the manager's connections, the sessions' tasks and the tabs
\* keep their types: no tab ever has a connection that is not one.
THEOREM SshTypeCorrect == Spec => []TypeOK
<1>1. SInv => TypeOK
  BY DEF SInv, Shape
<1> QED
  BY AlwaysSInv, <1>1, PTL

\* What a terminal shows is what its session has read: the backlog is replayed
\* before anything live, once, and nothing is left out between the two.
THEOREM ScreenAlwaysOutput == Spec => []ScreenIsOutput
<1>1. SInv => ScreenIsOutput
  <2> SUFFICES ASSUME SInv, NEW t \in OpenTabs, tab[t].term \notin flooded
               PROVE  shown[tab[t].term] =
                         IF ready[tab[t].term]
                         THEN FirstChunks(read[tab[t].term]) ELSE <<>>
    BY DEF ScreenIsOutput
  <2>1. t \in Ids /\ tab[t].term \in Ids /\ TerminalOf(t, tab[t].term)
    BY TabTyped DEF SInv, Shape, OpenTabs, TerminalOf
  <2> QED
    BY <2>1 DEF SInv, ScreenKept, ScreenOf
<1> QED
  BY AlwaysSInv, <1>1, PTL

\* A tab that says it is disconnected is, also while others reconnect.
THEOREM DownAlwaysTrue == Spec => []DownIsTrue
<1>1. SInv => DownIsTrue
  BY DEF SInv, Shape, TabsKept, TabKept, DownIsTrue, OpenTabs
<1> QED
  BY AlwaysSInv, <1>1, PTL

\* No registered connection is forgotten, but by a tab closed while it
\* reconnects.
THEOREM AlwaysAccounted == Spec => []Accounted
BY AlwaysSInv, PTL DEF SInv

\* Closing a tab lets its connection go, whatever it is doing.
THEOREM ClosedAlwaysLetGo == Spec => []ClosedLetGo
<1>1. SInv => ClosedLetGo
  <2> SUFFICES ASSUME SInv, NEW t \in Ids, tab[t] # NoTab, ~tab[t].open,
                      tab[t].conn \notin leaving
               PROVE  /\ tab[t].conn \notin connections
                      /\ \/ task[tab[t].conn] = "over"
                         \/ \E k \in DOMAIN inbox[tab[t].conn] :
                               inbox[tab[t].conn][k] = "close"
    BY DEF ClosedLetGo
  <2> DEFINE i == tab[t].conn
  <2>1. i \in Ids /\ call[i] = "returned" /\ task[i] \in {"running", "over"}
    BY TabTyped DEF SInv, Shape, TypeOK, TabsKept, TabKept
  <2>2. i \notin connections
    BY DEF SInv, LetGoKept
  <2>3. task[i] = "running" => Has(inbox[i], "close")
    BY <2>1, <2>2 DEF SInv, LetGoKept
  <2> QED
    BY <2>1, <2>2, <2>3 DEF Has
<1> QED
  BY AlwaysSInv, <1>1, PTL
=============================================================================
