---------------------------- MODULE DbTabsProofs ----------------------------
(***************************************************************************)
(* For any number of tabs, calls and pooled connections: a tab's session   *)
(* is its own as long as it keeps it, and Stop stops that tab's statement. *)
(***************************************************************************)
EXTENDS DbTabs, TLAPS

Call == [at : {"free", "got", "acquire", "settle", "queue", "run", "ending"},
         owner : Owners \cup {Nothing}, conn : Connections \cup {Nothing},
         does : Statement \cup {"cancel", "backup", "restore", Nothing},
         kill : Connections \cup {Nothing}]

Types ==
    /\ slot \in [Owners -> Connections \cup {Nothing}]
    /\ begun \in [Connections -> Owners \cup {Nothing}]
    /\ task \in [Tasks -> Call]

\* What a call has got by where it is.
Stations ==
    \A c \in Tasks :
        /\ task[c].at \in {"settle", "queue", "run"} => task[c].conn \in Connections
        /\ task[c].at # "free" => task[c].owner \in Owners
        /\ task[c].at \notin {"free", "got"} /\ task[c].does = "cancel"
              => task[c].kill \in Connections

TheJob ==
    task[Job].at # "free" => /\ task[Job].owner = "__job__"
                             /\ task[Job].does \in {"backup", "restore"}
                             /\ task[Job].at = "got" => task[Job].conn = Nothing

\* A connection in a slot is in no other, and whoever holds it besides holds
\* it for that slot's owner.  One that has left its slot may still be held,
\* and enters another only when it is not.
Sole ==
    /\ \A c \in Tasks, o \in Owners :
          slot[o] # Nothing /\ task[c].conn = slot[o] => On(c) = o
    /\ \A o, p \in Owners : slot[o] # Nothing /\ slot[p] = slot[o] => o = p

\* One whose session is being made is held by nobody else.
Unshared ==
    \A c \in Tasks : task[c].at = "settle" =>
        /\ \A o \in Owners : slot[o] # task[c].conn
        /\ \A d \in Tasks \ {c} : task[d].conn # task[c].conn

IInv == Types /\ Stations /\ TheJob /\ Sole /\ Unshared

-----------------------------------------------------------------------------
LEMMA InitIInv == Init => IInv
<1> SUFFICES ASSUME Init PROVE IInv
    OBVIOUS
<1> USE DEF Init, Free
<1>1. Types
    BY DEF Types, Call
<1>2. Stations /\ TheJob
    BY DEF Stations, TheJob, Tasks
<1>3. Sole /\ Unshared
    BY DEF Sole, Unshared
<1> QED
    BY <1>1, <1>2, <1>3 DEF IInv

LEMMA JobIsTask == Job \in Tasks /\ Calls \subseteq Tasks /\ Job \notin Calls
    BY DbTabsAssumption DEF Tasks

LEMMA NamedOwners == "__job__" \in Owners /\ "__control__" \in Owners /\ Tabs \subseteq Owners
    BY DEF Owners

\* What comes back to the pool is ended or stays as it was.
LEMMA ReturnType ==
    \A open \in [Connections -> Owners \cup {Nothing}] :
        Return(open) \in [Connections -> Owners \cup {Nothing}]
    BY DEF Return

\* A step in which a call moves on with what it has, and slots are let go at
\* most.
MovesOn ==
    /\ task' \in [Tasks -> Call]
    /\ \A c \in Tasks :
        \/ task'[c] = Free
        \/ task'[c] = task[c]
        \/ /\ task[c].at \notin {"free", "got"} /\ task'[c].at \notin {"free", "got"}
           /\ task'[c].owner = task[c].owner /\ task'[c].does = task[c].does
           /\ task'[c].kill = task[c].kill
           /\ task'[c].conn = task[c].conn \/ task'[c].conn = Nothing
           /\ task'[c].at # "settle"
           /\ task'[c].at \in {"queue", "run"} => task'[c].conn \in Connections
    /\ slot' \in [Owners -> Connections \cup {Nothing}]
    /\ \A o \in Owners : slot'[o] \in {slot[o], Nothing}
    /\ begun' \in [Connections -> Owners \cup {Nothing}]

LEMMA MovesOnStep == ASSUME IInv, MovesOn PROVE IInv'
<1>1. Types'
    BY DEF MovesOn, Types
<1>2. Stations'
    BY DEF MovesOn, IInv, Stations, Free
<1>3. TheJob'
    BY JobIsTask DEF MovesOn, IInv, TheJob, Free
<1>4. Sole'
    <2>1. ASSUME NEW c \in Tasks, NEW o \in Owners,
                 slot'[o] # Nothing, task'[c].conn = slot'[o]
          PROVE  On(c)' = o
        <3>1. slot'[o] = slot[o]
            BY <2>1 DEF MovesOn
        <3>2. task'[c] # Free
            BY <2>1 DEF Free
        <3>3. task'[c].conn = task[c].conn /\ task'[c].owner = task[c].owner
              /\ task'[c].does = task[c].does
            BY <2>1, <3>2 DEF MovesOn
        <3> QED
            BY <2>1, <3>1, <3>3 DEF IInv, Sole, On
    <2>2. ASSUME NEW o \in Owners, NEW p \in Owners,
                 slot'[o] # Nothing, slot'[p] = slot'[o]
          PROVE  o = p
        BY <2>2 DEF MovesOn, IInv, Sole
    <2> QED
        BY <2>1, <2>2 DEF Sole
<1>5. Unshared'
    <2> SUFFICES ASSUME NEW c \in Tasks, task'[c].at = "settle"
                 PROVE  /\ \A o \in Owners : slot'[o] # task'[c].conn
                        /\ \A d \in Tasks \ {c} : task'[d].conn # task'[c].conn
        BY DEF Unshared
    <2>1. task'[c] = task[c] /\ task[c].conn \in Connections
        BY DEF MovesOn, Free, IInv, Stations
    <2>2. \A o \in Owners : slot'[o] # task[c].conn
        BY <2>1, DbTabsAssumption DEF MovesOn, IInv, Unshared
    <2>3. \A d \in Tasks \ {c} : task'[d].conn # task[c].conn
        BY <2>1, DbTabsAssumption DEF MovesOn, Free, IInv, Unshared
    <2> QED
        BY <2>1, <2>2, <2>3
<1> QED
    BY <1>1, <1>2, <1>3, <1>4, <1>5 DEF IInv

\* The steps by which a call gets a session that its owner's slot holds, or
\* goes to make one.
LEMMA GivenStep ==
    ASSUME IInv, NEW c \in Tasks, NEW call \in Call, NEW o \in Owners,
           task' = [task EXCEPT ![c] = Given(call, o)],
           UNCHANGED <<slot, begun>>,
           call.owner \in Owners, call.conn = Nothing,
           call.does = "cancel" => call.kill \in Connections,
           o = (IF call.does = "cancel" THEN "__control__" ELSE call.owner),
           c = Job => call.owner = "__job__" /\ call.does \in {"backup", "restore"}
    PROVE  IInv'
<1>1. Given(call, o) \in Call /\ Given(call, o).at \notin {"free", "got"}
      /\ Given(call, o).owner = call.owner /\ Given(call, o).does = call.does
      /\ Given(call, o).kill = call.kill
      /\ Given(call, o).conn \in {Nothing, slot[o]}
      /\ Given(call, o).at # "settle"
      /\ (Given(call, o).at \in {"queue", "run"} => Given(call, o).conn \in Connections)
    BY ZenonT(60) DEF Given, Call, Key, IInv, Types
<1>2. Types'
    BY <1>1 DEF IInv, Types
<1>3. task'[c] = Given(call, o) /\ \A d \in Tasks \ {c} : task'[d] = task[d]
    BY DEF IInv, Types
<1>4. Stations'
    BY <1>1, <1>3 DEF IInv, Stations
<1>5. TheJob'
    BY <1>1, <1>3, JobIsTask DEF IInv, TheJob
<1>6. Sole'
    <2>1. ASSUME NEW d \in Tasks, NEW p \in Owners,
                 slot'[p] # Nothing, task'[d].conn = slot'[p]
          PROVE  On(d)' = p
        <3>1. CASE d = c
            <4>1. On(d)' = o
                BY <1>1, <1>3, <3>1 DEF On
            <4>2. slot[o] = slot[p]
                BY <1>1, <1>3, <2>1, <3>1
            <4> QED
                BY <2>1, <4>1, <4>2 DEF IInv, Sole
        <3>2. CASE d # c
            BY <1>3, <2>1, <3>2 DEF IInv, Sole, On
        <3> QED
            BY <3>1, <3>2
    <2>2. \A p, q \in Owners : slot'[p] # Nothing /\ slot'[q] = slot'[p] => p = q
        BY DEF IInv, Sole
    <2> QED
        BY <2>1, <2>2 DEF Sole
<1>7. Unshared'
    <2> SUFFICES ASSUME NEW d \in Tasks, task'[d].at = "settle"
                 PROVE  /\ \A p \in Owners : slot'[p] # task'[d].conn
                        /\ \A e \in Tasks \ {d} : task'[e].conn # task'[d].conn
        BY DEF Unshared
    <2>1. d # c /\ task'[d] = task[d] /\ task[d].conn \in Connections
        BY <1>1, <1>3 DEF IInv, Stations
    <2>2. \A p \in Owners : slot[p] # task[d].conn
        BY <2>1 DEF IInv, Unshared
    <2>3. task'[c].conn # task[d].conn
        BY <1>1, <1>3, <2>1, <2>2, DbTabsAssumption
    <2> QED
        BY <1>3, <2>1, <2>2, <2>3 DEF IInv, Unshared
<1> QED
    BY <1>2, <1>4, <1>5, <1>6, <1>7 DEF IInv

LEMMA ExecuteStep ==
    ASSUME IInv, NEW c \in Calls, NEW t \in Tabs, NEW d \in Statement, Execute(c, t, d)
    PROVE  IInv'
<1> DEFINE call == [Free EXCEPT !.owner = t, !.does = d]
<1>1. call \in Call /\ call.owner = t /\ call.conn = Nothing /\ call.does = d
      /\ d # "cancel"
    BY NamedOwners DEF Call, Free, Statement
<1>2. c \in Tasks /\ c # Job /\ t \in Owners
    BY JobIsTask, NamedOwners
<1>3. task' = [task EXCEPT ![c] = Given(call, t)] /\ UNCHANGED <<slot, begun>>
    BY DEF Execute
<1> HIDE DEF call
<1> QED
    BY <1>1, <1>2, <1>3, GivenStep

LEMMA CancelStep ==
    ASSUME IInv, NEW c \in Calls, NEW t \in Tabs, Cancel(c, t)
    PROVE  IInv'
<1> DEFINE call == [Free EXCEPT !.owner = t, !.does = "cancel", !.kill = slot[Key(t)]]
<1>1. slot[Key(t)] \in Connections
    BY NamedOwners DEF Cancel, IInv, Types, Key
<1>2. call \in Call /\ call.owner = t /\ call.conn = Nothing /\ call.does = "cancel"
      /\ call.kill \in Connections
    BY <1>1, NamedOwners DEF Call, Free
<1>3. c \in Tasks /\ c # Job /\ t \in Owners /\ "__control__" \in Owners
    BY JobIsTask, NamedOwners
<1>4. task' = [task EXCEPT ![c] = Given(call, "__control__")] /\ UNCHANGED <<slot, begun>>
    BY DEF Cancel
<1> HIDE DEF call
<1> QED
    BY <1>2, <1>3, <1>4, GivenStep

LEMMA FlaggedStep == ASSUME IInv, Flagged PROVE IInv'
<1>1. task[Job] \in Call /\ task[Job].owner = "__job__" /\ task[Job].conn = Nothing
      /\ task[Job].does # "cancel"
      /\ task[Job].does \in {"backup", "restore"}
    BY JobIsTask DEF Flagged, IInv, Types, TheJob
<1>2. task' = [task EXCEPT ![Job] = Given(task[Job], "__job__")]
      /\ UNCHANGED <<slot, begun>>
    BY DEF Flagged
<1> QED
    BY <1>1, <1>2, GivenStep, JobIsTask, NamedOwners

LEMMA StartJobStep ==
    ASSUME IInv, NEW d \in {"backup", "restore"}, StartJob(d) PROVE IInv'
<1> DEFINE call == [Free EXCEPT !.at = "got", !.owner = "__job__", !.does = d]
<1>1. call \in Call /\ call.at = "got" /\ call.owner = "__job__" /\ call.does = d
      /\ call.conn = Nothing
    BY NamedOwners DEF Call, Free
<1>2. task' = [task EXCEPT ![Job] = call] /\ UNCHANGED <<slot, begun>>
    BY DEF StartJob
<1> HIDE DEF call
<1>3. task'[Job] = call /\ \A c \in Tasks \ {Job} : task'[c] = task[c]
    BY <1>2, JobIsTask DEF IInv, Types
<1>4. Types'
    BY <1>1, <1>2 DEF IInv, Types
<1>5. Stations'
    BY <1>1, <1>3, NamedOwners DEF IInv, Stations
<1>6. TheJob'
    BY <1>1, <1>3, JobIsTask DEF IInv, TheJob
<1>7. Sole'
    BY <1>1, <1>2, <1>3 DEF IInv, Sole, On
<1>8. Unshared'
    BY <1>1, <1>2, <1>3, DbTabsAssumption DEF IInv, Unshared, Stations
<1> QED
    BY <1>4, <1>5, <1>6, <1>7, <1>8 DEF IInv

\* A call takes a connection that nobody holds.
LEMMA AcquiredStep ==
    ASSUME IInv, NEW c \in Tasks, NEW k \in Connections, Acquired(c, k)
    PROVE  IInv'
<1>1. task[c].at = "acquire" /\ k # Nothing /\ task[c] \in Call
    BY DbTabsAssumption DEF Acquired, IInv, Types
<1>2. (\A o \in Owners : slot[o] # k) /\ (\A d \in Tasks : task[d].conn # k)
    BY DEF Acquired, Held
<1>3. /\ slot' = slot /\ begun' = begun
      /\ task' = [task EXCEPT ![c].at = "settle", ![c].conn = k]
    BY DEF Acquired
<1>4. /\ task'[c] = [task[c] EXCEPT !.at = "settle", !.conn = k]
      /\ \A d \in Tasks \ {c} : task'[d] = task[d]
    BY <1>3 DEF IInv, Types
<1>5. /\ task'[c].at = "settle" /\ task'[c].conn = k /\ task'[c].owner = task[c].owner
      /\ task'[c].does = task[c].does /\ task'[c].kill = task[c].kill
      /\ task'[c] \in Call
    BY <1>1, <1>4 DEF Call
<1>6. Types'
    BY <1>3, <1>4, <1>5 DEF IInv, Types
<1>7. Stations' /\ TheJob'
    BY ZenonT(60), <1>1, <1>4, <1>5, JobIsTask DEF IInv, Stations, TheJob
<1>8. /\ slot' = slot /\ \A o \in Owners : slot'[o] # task'[c].conn
      /\ \A d \in Tasks \ {c} : task'[d] = task[d] /\ task'[d].conn # task'[c].conn
    BY <1>2, <1>3, <1>4, <1>5
<1>9. Sole'
    <2>1. ASSUME NEW d \in Tasks, NEW o \in Owners,
                 slot'[o] # Nothing, task'[d].conn = slot'[o]
          PROVE  On(d)' = o
        BY <1>8, <2>1 DEF IInv, Sole, On
    <2> QED
        BY <1>8, <2>1 DEF IInv, Sole
<1>10. Unshared'
    <2> SUFFICES ASSUME NEW d \in Tasks \ {c}, task'[d].at = "settle"
                 PROVE  /\ \A o \in Owners : slot'[o] # task'[d].conn
                        /\ \A e \in Tasks \ {d} : task'[e].conn # task'[d].conn
        BY <1>8 DEF Unshared
    <2> QED
        BY <1>8 DEF IInv, Unshared
<1> QED
    BY <1>6, <1>7, <1>9, <1>10 DEF IInv

\* The session it made of it gets the slot of its owner.
LEMMA KeptStep == ASSUME IInv, NEW c \in Tasks, Kept(c) PROVE IInv'
<1> DEFINE k == task[c].conn
<1>1. /\ On(c) \in Owners /\ task[c].at = "settle" /\ task[c] \in Call
      /\ k \in Connections /\ k # Nothing
    BY NamedOwners, DbTabsAssumption DEF Kept, IInv, Types, Stations, On
<1>2. \A o \in Owners : slot[o] # k
    BY <1>1 DEF IInv, Unshared
<1>3. \A d \in Tasks \ {c} : task[d].conn # k
    BY <1>1 DEF IInv, Unshared
<1>4. /\ slot' = [slot EXCEPT ![On(c)] = k] /\ begun' = Return(begun)
      /\ task' = [task EXCEPT ![c].at = "queue"]
    BY DEF Kept, Key, Go
<1>5. /\ slot'[On(c)] = k /\ \A o \in Owners \ {On(c)} : slot'[o] = slot[o]
      /\ task'[c] = [task[c] EXCEPT !.at = "queue"]
      /\ \A d \in Tasks \ {c} : task'[d] = task[d]
    BY <1>1, <1>4 DEF IInv, Types
<1>6. /\ task'[c].at = "queue" /\ task'[c].conn = k /\ task'[c].owner = task[c].owner
      /\ task'[c].does = task[c].does /\ task'[c].kill = task[c].kill
      /\ task'[c] \in Call
    BY <1>1, <1>5 DEF Call
<1>7. begun' \in [Connections -> Owners \cup {Nothing}]
    BY <1>4, ReturnType DEF IInv, Types
<1>8. Types'
    BY <1>1, <1>4, <1>5, <1>6, <1>7 DEF IInv, Types
<1>9. Stations' /\ TheJob'
    <2>1. Stations'
        BY ZenonT(60), <1>1, <1>5, <1>6 DEF IInv, Stations
    <2>2. TheJob'
        BY ZenonT(60), <1>1, <1>5, <1>6, JobIsTask DEF IInv, TheJob
    <2> QED
        BY <2>1, <2>2
<1>10. Sole'
    <2>1. On(c)' = On(c) /\ \A d \in Tasks \ {c} : On(d)' = On(d)
        BY <1>5, <1>6 DEF On
    <2>2. ASSUME NEW d \in Tasks, NEW o \in Owners,
                 slot'[o] # Nothing, task'[d].conn = slot'[o]
          PROVE  On(d)' = o
        <3>1. CASE o = On(c)
            BY <1>3, <1>5, <2>1, <2>2, <3>1
        <3>2. CASE o # On(c)
            <4>1. slot'[o] = slot[o] /\ d # c
                BY <1>2, <1>5, <1>6, <2>2, <3>2
            <4>2. On(d) = o
                BY <1>5, <2>2, <4>1 DEF IInv, Sole
            <4> QED
                BY <2>1, <4>1, <4>2
        <3> QED
            BY <3>1, <3>2
    <2>3. \A o, p \in Owners : slot'[o] # Nothing /\ slot'[p] = slot'[o] => o = p
        BY <1>2, <1>5 DEF IInv, Sole
    <2> QED
        BY <2>2, <2>3 DEF Sole
<1>11. Unshared'
    <2> SUFFICES ASSUME NEW d \in Tasks, task'[d].at = "settle"
                 PROVE  /\ \A o \in Owners : slot'[o] # task'[d].conn
                        /\ \A e \in Tasks \ {d} : task'[e].conn # task'[d].conn
        BY DEF Unshared
    <2>1. d # c /\ task'[d] = task[d]
        BY <1>5, <1>6
    <2>2. task[d].conn # k
        BY <1>3, <2>1
    <2>3. \A o \in Owners : slot'[o] # task[d].conn
        BY <1>5, <2>1, <2>2 DEF IInv, Unshared
    <2>4. ASSUME NEW e \in Tasks \ {d} PROVE task'[e].conn # task[d].conn
        <3>1. task[e].conn # task[d].conn
            BY <2>1 DEF IInv, Unshared
        <3>2. CASE e = c
            BY <1>6, <2>2, <3>2
        <3>3. CASE e # c
            BY <1>5, <3>1, <3>3
        <3> QED
            BY <3>2, <3>3
    <2> QED
        BY <2>1, <2>3, <2>4
<1> QED
    BY <1>8, <1>9, <1>10, <1>11 DEF IInv

-----------------------------------------------------------------------------
\* The steps that move on with what there is.
LEMMA CallSteps ==
    ASSUME IInv, NEW c \in Tasks,
           NotKept(c) \/ Begins(c) \/ (c \in Calls /\ (Finishes(c) \/ Kills(c)))
    PROVE  MovesOn
<1> USE DEF IInv, Types
<1>1. Free \in Call
    BY DEF Free, Call
<1>2. task[c] \in Call
    OBVIOUS
<1>3. CASE NotKept(c)
    <2>1. begun' \in [Connections -> Owners \cup {Nothing}] /\ slot' = slot
        BY <1>3, ReturnType DEF NotKept
    <2>2. CASE c = Job
        <3>1. task' = [task EXCEPT ![c].at = "ending", ![c].conn = Nothing]
              /\ task[c].at \in {"acquire", "settle"}
            BY <1>3, <2>2 DEF NotKept
        <3>2. task'[c] = [task[c] EXCEPT !.at = "ending", !.conn = Nothing]
              /\ \A d \in Tasks \ {c} : task'[d] = task[d]
            BY <3>1
        <3>3. task' \in [Tasks -> Call]
            BY <1>2, <3>1 DEF Call
        <3> QED
            BY <1>2, <2>1, <3>1, <3>2, <3>3 DEF MovesOn, Call
    <2>3. CASE c # Job
        BY <1>1, <1>3, <2>1, <2>3 DEF NotKept, Ends, MovesOn
    <2> QED
        BY <2>2, <2>3
<1>4. CASE Begins(c)
    BY <1>2, <1>4 DEF Begins, Go, MovesOn, Call, Stations
<1>5. CASE Finishes(c)
    <2>1. task[c].owner \in Owners
        BY <1>5 DEF Finishes, Stations
    <2>2. begun' \in [Connections -> Owners \cup {Nothing}]
        <3> DEFINE open == [begun EXCEPT ![task[c].conn] =
                  IF task[c].does = "query" THEN @
                  ELSE IF @ = Nothing THEN task[c].owner ELSE Nothing]
        <3>1. open \in [Connections -> Owners \cup {Nothing}]
            BY <2>1
        <3>2. begun' = Return(open)
            BY <1>5 DEF Finishes
        <3> HIDE DEF open
        <3> QED
            BY <3>1, <3>2, ReturnType
    <2>3. task' = [task EXCEPT ![c] = Free] /\ slot' = slot
        BY <1>5 DEF Finishes, Ends
    <2> QED
        BY <1>1, <2>2, <2>3 DEF MovesOn
<1>6. CASE Kills(c)
    <2>1. begun' \in [Connections -> Owners \cup {Nothing}]
        BY <1>6, ReturnType DEF Kills
    <2>2. task' \in [Tasks -> Call] /\ \A d \in Tasks : task'[d] \in {Free, task[d]}
        BY <1>1, <1>6 DEF Kills
    <2>3. slot' = slot
        BY <1>6 DEF Kills
    <2> QED
        BY <2>1, <2>2, <2>3 DEF MovesOn
<1> QED
    BY <1>3, <1>4, <1>5, <1>6

LEMMA JobSteps ==
    ASSUME IInv, Sends \/ JobRuns \/ JobOver \/ EndJob \/ CancelJob PROVE MovesOn
<1> USE JobIsTask DEF IInv, Types
<1>1. Free \in Call
    BY DEF Free, Call
<1>2. task[Job] \in Call
    OBVIOUS
<1>3. CASE JobOver
    <2>1. begun' \in [Connections -> Owners \cup {Nothing}]
        BY <1>3, ReturnType DEF JobOver
    <2>2. task' = [task EXCEPT ![Job].at = "ending", ![Job].conn = Nothing]
          /\ slot' = slot /\ task[Job].at = "run"
        BY <1>3 DEF JobOver
    <2>3. task'[Job] = [task[Job] EXCEPT !.at = "ending", !.conn = Nothing]
          /\ \A c \in Tasks \ {Job} : task'[c] = task[c]
        BY <2>2
    <2>4. task' \in [Tasks -> Call]
        BY <1>2, <2>2 DEF Call
    <2> QED
        BY <1>2, <2>1, <2>2, <2>3, <2>4 DEF MovesOn, Call
<1>4. CASE EndJob
    BY <1>1, <1>4 DEF EndJob, Ends, MovesOn
<1>5. CASE Sends \/ JobRuns \/ CancelJob
    BY <1>5 DEF Sends, JobRuns, CancelJob, MovesOn
<1> QED
    BY <1>3, <1>4, <1>5

LEMMA ClosingSteps ==
    ASSUME IInv,
           \/ \E t \in Tabs : CloseTab(t)
           \/ Disconnect \/ TurnedOff \/ PoolClosed
           \/ \E k \in Connections : IdleClosed(k)
           \/ UNCHANGED vars
    PROVE  MovesOn
<1> USE DEF IInv, Types
<1>1. CASE \E t \in Tabs : CloseTab(t)
    BY <1>1, NamedOwners DEF CloseTab, Key, MovesOn
<1>2. CASE Disconnect \/ TurnedOff
    <2>1. Shut
        BY <1>2 DEF Disconnect, TurnedOff
    <2>2. begun' \in [Connections -> Owners \cup {Nothing}]
        BY <2>1, ReturnType DEF Shut
    <2> QED
        BY <2>1, <2>2 DEF Shut, Cleared, MovesOn
<1>3. CASE PoolClosed
    BY <1>3 DEF PoolClosed, MovesOn
<1>4. CASE \E k \in Connections : IdleClosed(k)
    BY <1>4 DEF IdleClosed, MovesOn
<1>5. CASE UNCHANGED vars
    BY <1>5 DEF vars, MovesOn
<1> QED
    BY <1>1, <1>2, <1>3, <1>4, <1>5

LEMMA NextIInv == ASSUME IInv, [Next]_vars PROVE IInv'
<1>1. CASE \E c \in Calls, t \in Tabs, d \in Statement : Execute(c, t, d)
    BY <1>1, ExecuteStep
<1>2. CASE \E c \in Calls, t \in Tabs : Cancel(c, t)
    BY <1>2, CancelStep
<1>3. CASE \E d \in {"backup", "restore"} : StartJob(d)
    BY <1>3, StartJobStep
<1>4. CASE Flagged
    BY <1>4, FlaggedStep
<1>5. CASE \E c \in Tasks, k \in Connections : Acquired(c, k)
    BY <1>5, AcquiredStep
<1>6. CASE \E c \in Tasks : Kept(c)
    BY <1>6, KeptStep
<1>7. CASE \/ \E c \in Tasks : NotKept(c) \/ Begins(c)
           \/ \E c \in Calls : Finishes(c) \/ Kills(c)
    BY <1>7, CallSteps, MovesOnStep, JobIsTask
<1>8. CASE Sends \/ JobRuns \/ JobOver \/ EndJob \/ CancelJob
    BY <1>8, JobSteps, MovesOnStep
<1>9. CASE \/ \E t \in Tabs : CloseTab(t)
           \/ Disconnect \/ TurnedOff \/ PoolClosed
           \/ \E k \in Connections : IdleClosed(k)
           \/ UNCHANGED vars
    BY <1>9, ClosingSteps, MovesOnStep
<1> QED
    BY <1>1, <1>2, <1>3, <1>4, <1>5, <1>6, <1>7, <1>8, <1>9, JobIsTask
    DEF Next, CallMoves, JobMoves

-----------------------------------------------------------------------------
\* Nothing runs on a connection with a tab's transaction open but that tab's
\* own calls, as long as the tab keeps its session (LiveDb::session), with any
\* number of tabs, calls and connections.
THEOREM TabsAlwaysApart == Spec => []TabsApart
<1>1. IInv => TabsApart
    <2> SUFFICES ASSUME IInv, NEW c \in Tasks, task[c].at = "run",
                        begun[task[c].conn] # Nothing,
                        slot[begun[task[c].conn]] = task[c].conn
                 PROVE  begun[task[c].conn] = On(c)
        BY DEF TabsApart
    <2>1. task[c].conn \in Connections
        BY DEF IInv, Stations
    <2>2. begun[task[c].conn] \in Owners /\ task[c].conn # Nothing
        BY <2>1, DbTabsAssumption DEF IInv, Types
    <2> QED
        BY <2>2 DEF IInv, Sole
<1> QED
    BY InitIInv, NextIInv, <1>1, PTL DEF Spec

\* Stop ends the statement of the tab it was pressed in and no other's, unless
\* that tab has let its session go since (db_cancel).
THEOREM AlwaysCancelsOwn == Spec => CancelsOwn
<1> DEFINE Ending(c, d) ==
        /\ task[c].at = "run" /\ task[c].does = "cancel" /\ task'[c] = Free
        /\ c # d /\ task[d].at = "run" /\ task'[d] = Free
<1> DEFINE Own == \A c, d \in Tasks : Ending(c, d) =>
                      task[d].owner = task[c].owner \/ slot[task[c].owner] # task[c].kill
<1>1. ASSUME IInv, [Next]_vars PROVE [Own]_vars
    <2> SUFFICES ASSUME NEW c \in Tasks, NEW d \in Tasks, Ending(c, d),
                        slot[task[c].owner] = task[c].kill
                 PROVE  task[d].owner = task[c].owner
        OBVIOUS
    <2> USE <1>1
    <2>1. task'[c] # task[c] /\ task'[d] # task[d]
        BY DEF Free
    <2>2. Kills(c)
        <3>1. ASSUME NEW x \in Tasks, \A y \in Tasks \ {x} : task'[y] = task[y]
              PROVE  FALSE
            BY <2>1, <3>1
        <3>2. CASE \E e \in Calls : Kills(e)
            BY <2>1, <3>2, JobIsTask DEF Kills, Statement
        <3>3. CASE \E e \in Calls, t \in Tabs :
                       (\E s \in Statement : Execute(e, t, s)) \/ Cancel(e, t)
            BY ZenonT(60), <3>1, <3>3, JobIsTask DEF Execute, Cancel, IInv, Types
        <3>4. CASE \/ \E s \in {"backup", "restore"} : StartJob(s)
                   \/ Flagged \/ JobOver \/ EndJob
            BY <3>1, <3>4, JobIsTask DEF StartJob, Flagged, JobOver, EndJob, Ends, IInv, Types
        <3>5. CASE \E e \in Tasks : Kept(e) \/ NotKept(e) \/ Begins(e)
            BY <3>1, <3>5 DEF Kept, NotKept, Begins, Go, Ends, IInv, Types
        <3>6. CASE \E e \in Calls : Finishes(e)
            BY <3>1, <3>6, JobIsTask DEF Finishes, Ends, IInv, Types
        <3>7. CASE \E e \in Tasks, k \in Connections : Acquired(e, k)
            BY <3>1, <3>7 DEF Acquired, IInv, Types
        <3>8. CASE \/ Sends \/ JobRuns \/ CancelJob
                   \/ \E t \in Tabs : CloseTab(t)
                   \/ Disconnect \/ TurnedOff \/ PoolClosed
                   \/ \E k \in Connections : IdleClosed(k)
                   \/ UNCHANGED vars
            BY <2>1, <3>8 DEF Sends, JobRuns, CancelJob, CloseTab, Disconnect, TurnedOff, Shut,
               PoolClosed, IdleClosed, vars
        <3> QED
            BY <3>2, <3>3, <3>4, <3>5, <3>6, <3>7, <3>8, JobIsTask
            DEF Next, CallMoves, JobMoves
    <2>3. task[d].conn = task[c].kill /\ task[d].does \in Statement
        BY <2>1, <2>2 DEF Kills
    <2>4. task[d].conn \in Connections /\ task[d].conn # Nothing
          /\ task[c].owner \in Owners
        BY DbTabsAssumption DEF IInv, Stations
    <2>5. On(d) = task[c].owner
        BY <2>3, <2>4 DEF IInv, Sole
    <2> QED
        BY <2>3, <2>5 DEF On, Statement
<1>2. [][Own]_vars <=> CancelsOwn
    BY DEF CancelsOwn
<1> HIDE DEF Own
<1> QED
    BY InitIInv, NextIInv, <1>1, <1>2, PTL DEF Spec
=============================================================================
