------------------------------ MODULE Transfers ------------------------------
(***************************************************************************)
(* Files from and to a server, each over a `base64` channel of its own.    *)
(* Source: sftp/transfer.rs, ipc/sftp_commands.rs and the explorer's       *)
(* FileExplorer.svelte.                                                    *)
(*                                                                         *)
(* A file is Pieces lines of base64.  A message of the channel is sent and *)
(* heard in one step: nobody looks at it on its way, and one that is lost  *)
(* with the connection may as well not have been sent.  Of an upload only  *)
(* the command's outcome is kept, as nobody looks at what arrived either.  *)
(***************************************************************************)
EXTENDS Naturals, Sequences

CONSTANTS
    Transfer,
    Place,      \* paths on this machine
    DragPlace,  \* of these, the copies made to be dragged out, one per remote file
    Pieces,
    MaxFiles,   \* files in an uploaded folder
    None, Old, Removed, Hole

TransfersAssumption ==
    /\ DragPlace \subseteq Place
    /\ None \notin Place
    /\ Pieces \in Nat \ {0}
    /\ MaxFiles \in Nat \ {0}

VARIABLES
    task,      \* the backend's task of each transfer, with its channel
    disk,      \* what is at each place: a file is the sequence of its lines
    drag,      \* the explorer's cache of copies to drag
    dropping   \* the upload the explorer waits for before it starts another

vars == <<task, disk, drag, dropping>>

\* A transfer that has not begun.  Of a download: where to, what the remote
\* file is, the lines read, the end of the output and the status if they were
\* heard, whether its open file is still the one at its place, and whether its
\* size came from a `stat` that said nothing.  Of an upload: the files left,
\* the command's state, and, of the files so far, whether all are there and
\* whether a status, a good one or a bad one, was heard for each.
Off == [at |-> "off", place |-> None, is |-> "full", got |-> 0, eof |-> FALSE,
        exit |-> "none", linked |-> FALSE, guessed |-> FALSE,
        left |-> 0, command |-> "none", whole |-> TRUE, told |-> TRUE,
        listens |-> FALSE, cancelled |-> FALSE]

Ended == {"complete", "failed"}
Download == {"sizing", "checking", "opening", "receiving"}
Upload == {"making", "reading", "connecting", "sending", "waiting"}

TypeOK ==
    /\ task \in [Transfer ->
          [at : {"off"} \cup Download \cup Upload \cup Ended, place : Place \cup {None},
           is : {"full", "empty", "missing"}, got : 0..Pieces, eof : BOOLEAN,
           exit : {"none", "ok", "bad"}, linked : BOOLEAN, guessed : BOOLEAN,
           left : 0..MaxFiles, command : {"none", "running", "ok", "bad", "killed"},
           whole : BOOLEAN, told : BOOLEAN, listens : BOOLEAN, cancelled : BOOLEAN]]
    /\ \A p \in Place :
          \/ disk[p] \in {None, Old, Removed}
          \/ Len(disk[p]) <= Pieces
             /\ \A i \in 1..Len(disk[p]) : disk[p][i] \in Transfer \cup DragPlace \cup {Hole}
    /\ drag \in [DragPlace -> {"absent", "fetching", "ready", "failed"}]
    /\ dropping \in Transfer \cup {None}

Init ==
    /\ task = [t \in Transfer |-> Off]
    /\ disk \in [Place -> {None, Old}]
    /\ drag = [p \in DragPlace |-> "absent"]
    /\ dropping = None

At(t, at) == task[t].at = at
Goes(t, at) == task' = [task EXCEPT ![t].at = at]

\* The copies of one remote file are alike; two files a user saves are not.
Content(t) == IF task[t].place \in DragPlace THEN task[t].place ELSE t
Whole(t) == [i \in 1..Pieces |-> Content(t)]

-----------------------------------------------------------------------------
\* What the explorer hears of an end.  An event nobody listens for is lost.

CacheAfter(t, end) ==
    IF task[t].place \in DragPlace /\ task[t].listens
    THEN [drag EXCEPT ![task[t].place] = IF end = "complete" THEN "ready" ELSE "failed"]
    ELSE drag

Ends(t, end) ==
    /\ task' = [task EXCEPT ![t].at = end, ![t].linked = FALSE]
    /\ drag' = CacheAfter(t, end)
    /\ dropping' = IF dropping = t /\ task[t].listens THEN None ELSE dropping

\* The command's answer is there: the row goes on the list, the listeners stand.
Listens(t) ==
    /\ ~At(t, "off") /\ ~task[t].listens
    /\ task' = [task EXCEPT ![t].listens = TRUE]
    /\ UNCHANGED <<disk, drag, dropping>>

-----------------------------------------------------------------------------
\* Downloads.

Begins(t, p, is) ==
    task' = [task EXCEPT ![t] = [Off EXCEPT !.place = p, !.is = is, !.at = "sizing"]]

StartDownload(t, p, is) ==
    /\ At(t, "off") /\ p \notin DragPlace
    /\ Begins(t, p, is)
    /\ UNCHANGED <<disk, drag, dropping>>

\* A press on a row that may become a drag: its copy is fetched once.
Press(t, p, is) ==
    /\ At(t, "off") /\ drag[p] = "absent"
    /\ Begins(t, p, is)
    /\ drag' = [drag EXCEPT ![p] = "fetching"]
    /\ UNCHANGED <<disk, dropping>>

\* The copy is forgotten and the row goes; the download itself goes on.
CancelDrag(t) ==
    /\ task[t].place \in DragPlace /\ task[t].at \notin Ended
    /\ task[t].listens /\ ~task[t].cancelled
    /\ drag' = [drag EXCEPT ![task[t].place] = "absent"]
    /\ task' = [task EXCEPT ![t].cancelled = TRUE]
    /\ UNCHANGED <<disk, dropping>>

\* stat answers with a size, or with zero; or with nothing, as where it is
\* missing or takes over ten seconds, and that counts as zero.
Sized(t) ==
    /\ At(t, "sizing")
    /\ \/ task[t].is = "full" /\ Goes(t, "opening")
       \/ task' = [task EXCEPT ![t].at = "checking", ![t].guessed = task[t].is = "full"]
    /\ UNCHANGED <<disk, drag, dropping>>

\* A file that is there and has no size is written as an empty one, though
\* not into the folder of a copy to drag that no download has made yet.
FoundEmpty(t) ==
    /\ At(t, "checking") /\ task[t].is # "missing"
    /\ ~(task[t].place \in DragPlace /\ disk[task[t].place] = None)
    /\ disk' = [disk EXCEPT ![task[t].place] = <<>>]
    /\ Ends(t, "complete")

\* No channel, no such file, no right to write here; of an upload, no such
\* file here, a folder that cannot be made there, or a broken connection.
GivesUp(t) ==
    /\ task[t].at \in (Download \ {"receiving"}) \cup (Upload \ {"waiting"})
    /\ Ends(t, "failed")
    /\ UNCHANGED disk

Creates(t) ==
    /\ At(t, "opening")
    /\ disk' = [disk EXCEPT ![task[t].place] = <<>>]
    /\ task' = [task EXCEPT ![t].at = "receiving", ![t].linked = TRUE]
    /\ UNCHANGED <<drag, dropping>>

\* A line goes where this download is in the file, past what another one
\* that has truncated it since has written.
Put(file, i, line) ==
    [j \in 1..(IF i > Len(file) THEN i ELSE Len(file)) |->
        IF j = i THEN line ELSE IF j <= Len(file) THEN file[j] ELSE Hole]

HearData(t) ==
    LET i == task[t].got + 1  p == task[t].place
    IN  /\ At(t, "receiving") /\ ~task[t].eof /\ i <= Pieces
        /\ task' = [task EXCEPT ![t].got = i]
        /\ disk' = IF task[t].linked
                   THEN [disk EXCEPT ![p] = Put(disk[p], i, Content(t))] ELSE disk
        /\ UNCHANGED <<drag, dropping>>

\* The file is removed, whoever else has it open.
Removes(t) ==
    LET p == task[t].place
    IN  /\ disk' = [disk EXCEPT ![p] = Removed]
        /\ task' = [u \in Transfer |->
              IF u = t THEN [task[t] EXCEPT !.at = "failed", !.linked = FALSE]
              ELSE [task[u] EXCEPT !.linked = @ /\ task[u].place # p]]
        /\ drag' = CacheAfter(t, "failed")
        /\ UNCHANGED dropping

ReceivedUnsaid(t, eof, exit) ==
    IF exit # "bad"
    THEN /\ task' = [task EXCEPT ![t].at = "complete", ![t].eof = eof, ![t].linked = FALSE]
         /\ drag' = CacheAfter(t, "complete")
         /\ UNCHANGED <<disk, dropping>>
    ELSE Removes(t)

\* The loop is over; what the command said decides.
Received(t, eof, exit) ==
    IF exit = "ok"
    THEN /\ task' = [task EXCEPT ![t].at = "complete", ![t].eof = eof, ![t].linked = FALSE]
         /\ drag' = CacheAfter(t, "complete")
         /\ UNCHANGED <<disk, dropping>>
    ELSE Removes(t)

\* A message that may be the last of the two, the end of the output and the
\* command's status.  A command that says 0 has sent the whole file, and its
\* status may overtake what it sent.
Last(t, eof, exit) ==
    /\ At(t, "receiving")
    /\ eof /\ exit = "ok" => task[t].got = Pieces
    /\ IF eof /\ exit # "none"
       THEN Received(t, eof, exit)
       ELSE /\ task' = [task EXCEPT ![t].eof = eof, ![t].exit = exit]
            /\ UNCHANGED <<disk, drag, dropping>>

HearExit(t) ==
    /\ task[t].exit = "none"
    /\ \E exit \in {"ok", "bad"} : Last(t, task[t].eof, exit)

HearEof(t) ==
    /\ ~task[t].eof
    /\ Last(t, TRUE, task[t].exit)

\* The channel or the connection has closed.
HearClose(t) ==
    /\ At(t, "receiving")
    /\ Received(t, task[t].eof, task[t].exit)

\* Nothing for thirty seconds; or a line that does not decode, or a full disk.
GoesWrong(t) ==
    /\ At(t, "receiving")
    /\ Removes(t)

-----------------------------------------------------------------------------
\* Uploads: a file, or a folder's files one after the other.

StartUpload(t, n, folder) ==
    /\ At(t, "off") /\ dropping = None
    /\ ~folder => n = 1
    /\ task' = [task EXCEPT ![t] = [Off EXCEPT !.left = n,
                                       !.at = IF folder THEN "making" ELSE "reading"]]
    /\ dropping' = t
    /\ UNCHANGED <<disk, drag>>

\* Every mkdir said 0.
Made(t) ==
    /\ At(t, "making")
    /\ IF task[t].left = 0 THEN Ends(t, "complete")
       ELSE Goes(t, "reading") /\ UNCHANGED <<drag, dropping>>
    /\ UNCHANGED disk

\* This file is done with, as well as the task can tell.
NextFile(t, whole, told) ==
    LET end == task[t].left = 1
    IN  /\ task' = [task EXCEPT ![t].left = @ - 1, ![t].command = "none", ![t].exit = "none",
                       ![t].whole = @ /\ whole, ![t].told = @ /\ told,
                       ![t].at = IF end THEN "complete" ELSE "reading"]
        /\ dropping' = IF end /\ dropping = t /\ task[t].listens THEN None ELSE dropping
        /\ UNCHANGED <<disk, drag>>

\* Nobody looks at the status of the `: >` that makes an empty file.
ReadsEmpty(t) ==
    /\ At(t, "reading")
    /\ \E whole \in BOOLEAN : NextFile(t, whole, FALSE)

Reads(t) ==
    /\ At(t, "reading")
    /\ Goes(t, "connecting")
    /\ UNCHANGED <<disk, drag, dropping>>

SendOpens(t) ==
    /\ At(t, "connecting")
    /\ task' = [task EXCEPT ![t].at = "sending", ![t].command = "running"]
    /\ UNCHANGED <<disk, drag, dropping>>

\* The last chunk and the end of the input have gone out.
Sent(t) ==
    /\ At(t, "sending")
    /\ Goes(t, "waiting")
    /\ UNCHANGED <<disk, drag, dropping>>

\* The command may fail at any time, and succeeds once all has arrived; one
\* that is killed by a signal or with the connection has no status.
CommandEnds(t, how) ==
    /\ task[t].command = "running"
    /\ how = "ok" => At(t, "waiting")
    /\ task' = [task EXCEPT ![t].command = how]
    /\ UNCHANGED <<disk, drag, dropping>>

HearStatus(t) ==
    /\ At(t, "waiting")
    /\ task[t].exit = "none" /\ task[t].command \in {"ok", "bad"}
    /\ task' = [task EXCEPT ![t].exit = task[t].command]
    /\ UNCHANGED <<disk, drag, dropping>>

NeverRefused(t) == FALSE

\* A status that was heard and is not 0 is an error, of the folder as well.
Refused(t) == task[t].exit = "bad"

\* The end of the output after the status; the channel's end; or nothing for
\* thirty seconds: the last two are no error of an upload's.
StopsWaiting(t) ==
    /\ At(t, "waiting")
    /\ IF Refused(t) THEN Ends(t, "failed") /\ UNCHANGED disk
       ELSE NextFile(t, task[t].command = "ok", task[t].exit # "none")

-----------------------------------------------------------------------------

Next ==
    \/ \E t \in Transfer, p \in Place, is \in {"full", "empty", "missing"} :
          StartDownload(t, p, is)
    \/ \E t \in Transfer, p \in DragPlace, is \in {"full", "empty", "missing"} :
          Press(t, p, is)
    \/ \E t \in Transfer, n \in 0..MaxFiles, folder \in BOOLEAN : StartUpload(t, n, folder)
    \/ \E t \in Transfer, how \in {"ok", "bad", "killed"} : CommandEnds(t, how)
    \/ \E t \in Transfer :
          \/ Listens(t) \/ CancelDrag(t)
          \/ Sized(t) \/ FoundEmpty(t) \/ GivesUp(t) \/ Creates(t)
          \/ HearData(t) \/ HearExit(t) \/ HearEof(t) \/ HearClose(t) \/ GoesWrong(t)
          \/ Made(t) \/ ReadsEmpty(t) \/ Reads(t) \/ SendOpens(t) \/ Sent(t)
          \/ HearStatus(t) \/ StopsWaiting(t)

\* Of a transfer only the limit on a download's silence is sure to come: data
\* renew it, and there are only so many.
Fairness == \A t \in Transfer : WF_vars(GoesWrong(t))

Spec == Init /\ [][Next]_vars /\ Fairness

-----------------------------------------------------------------------------
\* Properties.

Alone(t) == \A u \in Transfer \ {t} : task[u].place # task[t].place

DownloadsWhole ==
    \A t \in Transfer :
        task[t].place # None /\ Alone(t) =>
            /\ At(t, "complete") /\ task[t].is = "full" /\ ~task[t].guessed =>
                  disk[task[t].place] = Whole(t) \/ ~task[t].eof
            /\ At(t, "failed") => disk[task[t].place] \in {None, Old, Removed}

UploadsWhole ==
    \A t \in Transfer : At(t, "complete") /\ task[t].told => task[t].whole

\* A download that had its place to itself leaves a whole file or, once it
\* has begun to write, no file: a complete one has every line, whatever order
\* the status and the end of the output came in, and a failed one leaves
\* nothing cut short behind (receive_base64 and the removal after it).
\* Excepted are a file whose size stat would not say, and one whose channel
\* closed after the status and before the end of the output.  And an upload
\* that is said to be complete is, if send_bytes heard a status, good or bad,
\* for each file of it: one that the server could not write fails the folder,
\* whichever it is and whatever follows it (send_bytes, upload_directory).
WholeOrNothing == DownloadsWhole /\ UploadsWhole

\* A download that receives comes to an end: the server sends on, or falls
\* silent and the idle limit ends it (DOWNLOAD_IDLE_LIMIT).
DownloadsEnd == \A t \in Transfer : At(t, "receiving") ~> task[t].at \in Ended

\* What the comment on a drag's cancel says: no copy looks ready while a
\* download is still writing it.  It does not hold: the download that was
\* cancelled goes on, and its end marks the copy that a new press began.
NotHalfWritten ==
    \A t \in Transfer :
        At(t, "receiving") /\ task[t].linked /\ task[t].place \in DragPlace =>
            drag[task[t].place] # "ready"
=============================================================================
