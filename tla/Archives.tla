------------------------------ MODULE Archives ------------------------------
(***************************************************************************)
(* Compressing and extracting on the server, and calling it off.  Source:  *)
(* sftp/archive.rs, the archive commands of ipc/sftp_commands.rs and       *)
(* runArchive in FileExplorer.svelte, which runs one at a time.            *)
(*                                                                         *)
(* One thing on the server is compressed, and one archive extracted, in    *)
(* one directory that only these operations change.                        *)
(***************************************************************************)
EXTENDS Naturals, Sequences

CONSTANTS
    Op,
    Name,        \* the names in the directory that matter
    Archive,     \* the one that is extracted
    Candidates,  \* of each kind of operation, the names it may produce, in order
    None, User

Kind == {"create", "extract"}

ArchivesAssumption ==
    /\ Archive \in Name
    /\ None \notin Op \cup Name /\ User \notin Op
    /\ \A k \in Kind : Candidates[k] \in Seq(Name) /\ Candidates[k] # <<>>

VARIABLES
    op,     \* each operation, from its click on
    file,   \* who wrote what is at each name
    busy    \* the operation the explorer waits for (archiveBusy)

vars == <<op, file, busy>>

\* out is the name the backend settled on and produced the one the explorer
\* knows; target is what its cancel was given.  fell: the backend did not find
\* a free name and took the plain one.  early: cancelled before the explorer
\* heard the name.  killed: a cancel found the process.
Off == [at |-> "off", kind |-> "create", out |-> None, produced |-> None,
        target |-> None, cancel |-> "none",
        fell |-> FALSE, early |-> FALSE, killed |-> FALSE, wrote |-> FALSE]

TypeOK ==
    /\ op \in [Op ->
          [at : {"off", "resolving", "counting", "starting", "running", "over"},
           kind : Kind, out : Name \cup {None}, produced : Name \cup {None},
           target : Name \cup {None}, cancel : {"none", "asked", "sleeping", "done"},
           fell : BOOLEAN, early : BOOLEAN, killed : BOOLEAN, wrote : BOOLEAN]]
    /\ file \in [Name -> Op \cup {None, User}]
    /\ busy \in Op \cup {None}

Init ==
    /\ op = [o \in Op |-> Off]
    /\ file \in [Name -> {None, User}]
    /\ busy = None

At(o, at) == op[o].at = at
Goes(o, at) == op' = [op EXCEPT ![o].at = at]
Frees(o) == busy' = IF busy = o THEN None ELSE busy

\* The row, and what cancelling removes until a better name is known.
Label(k) == IF k = "create" THEN Candidates[k][1] ELSE Archive

Start(o, k) ==
    /\ At(o, "off") /\ busy = None
    /\ k = "extract" => file[Archive] # None
    /\ op' = [op EXCEPT ![o] = [Off EXCEPT !.at = "resolving", !.kind = k,
                                           !.produced = Label(k)]]
    /\ busy' = o
    /\ UNCHANGED file

Free(k) == {i \in DOMAIN Candidates[k] : file[Candidates[k][i]] = None}

ResolveTaken(o) ==
    /\ At(o, "resolving")
    /\ op' = [op EXCEPT ![o].at = "counting", ![o].out = Candidates[op[o].kind][1]]
    /\ UNCHANGED <<file, busy>>

\* The first free candidate; or the plain name, if none is free or the
\* machine does not answer.
Resolve(o) ==
    LET k == op[o].kind
        Takes(i, fell) == op' = [op EXCEPT ![o].at = "counting", ![o].fell = fell,
                                           ![o].out = Candidates[k][i]]
    IN  /\ At(o, "resolving")
        /\ \/ \E i \in Free(k) : (\A j \in Free(k) : i <= j) /\ Takes(i, FALSE)
           \/ Takes(1, TRUE)
        /\ UNCHANGED <<file, busy>>

TotalUnheard(o) ==
    /\ At(o, "counting")
    /\ Goes(o, "starting")
    /\ UNCHANGED <<file, busy>>

\* The files are counted, and archive-total tells the explorer the name.
Total(o) ==
    /\ At(o, "counting")
    /\ op' = [op EXCEPT ![o].at = "starting", ![o].produced = op[o].out]
    /\ UNCHANGED <<file, busy>>

\* The shell has recorded its process, and its tool begins to write.
Begins(o) ==
    /\ At(o, "starting")
    /\ op' = [op EXCEPT ![o].at = "running", ![o].wrote = TRUE]
    /\ file' = [file EXCEPT ![op[o].out] = o]
    /\ UNCHANGED busy

\* No tool for it, a broken connection; or the tool is done, well or badly.
Ends(o) ==
    /\ op[o].at \notin {"off", "over"}
    /\ Goes(o, "over") /\ Frees(o)
    /\ UNCHANGED file

\* Five minutes without output, as with one large file: the explorer is told
\* that it failed, and the tool goes on.
GoesQuiet(o) ==
    /\ At(o, "running") /\ busy = o
    /\ busy' = None
    /\ UNCHANGED <<op, file>>

Cancel(o) ==
    /\ busy = o /\ op[o].cancel = "none"
    /\ op' = [op EXCEPT ![o].cancel = "asked", ![o].target = op[o].produced,
                        ![o].early = op[o].at \in {"resolving", "counting"}]
    /\ UNCHANGED <<file, busy>>

\* The cancel's command on the server: it kills what has recorded a process,
Kills(o) ==
    /\ op[o].cancel = "asked"
    /\ op' = [op EXCEPT ![o].cancel = "sleeping", ![o].killed = At(o, "running"),
                        ![o].at = IF @ = "running" THEN "over" ELSE @]
    /\ IF At(o, "running") THEN Frees(o) ELSE UNCHANGED busy
    /\ UNCHANGED file

\* and a second later removes the target, whatever is there.
Removes(o) ==
    /\ op[o].cancel = "sleeping"
    /\ op' = [op EXCEPT ![o].cancel = "done"]
    /\ file' = [file EXCEPT ![op[o].target] = None]
    /\ UNCHANGED busy

Next ==
    \E o \in Op :
        \/ \E k \in Kind : Start(o, k)
        \/ Resolve(o) \/ Total(o) \/ Begins(o) \/ Ends(o) \/ GoesQuiet(o)
        \/ Cancel(o) \/ Kills(o) \/ Removes(o)

Spec == Init /\ [][Next]_vars

-----------------------------------------------------------------------------
\* Properties.

\* What was there before, or another operation made, is neither overwritten
\* nor removed: an operation writes to a free name, and its cancel removes
\* what it wrote (resolve_free_name, cancel_command).  Excepted are one that
\* found no free name, one cancelled before the explorer knew the name, and one
\* that stopped before it wrote, whose name the next may have taken since.
OthersSpared ==
    [][\A n \in Name : file[n] # None /\ file'[n] # file[n] =>
          \E o \in Op :
             \/ file[n] = o /\ op[o].cancel = "sleeping" /\ op[o].target = n
             \/ op[o].out = n /\ op[o].fell
             \/ op[o].target = n /\ (op[o].early \/ ~op[o].wrote)]_vars

\* A cancel that found its operation at work, and whose command has run, leaves
\* nothing of it behind, under whichever name it wrote (cancel_command, the
\* produced name of archive-total), if the explorer knew that name.
CancelUndoes ==
    \A o \in Op :
        op[o].killed /\ ~op[o].early /\ op[o].cancel = "done" => \A n \in Name : file[n] # o

\* What the comments on the cancel say: whatever it removes was written by
\* the run it cancels.  It does not hold of a cancel before archive-total.
RemovesOwn ==
    [][\A o \in Op : op[o].cancel = "sleeping" /\ op'[o].cancel = "done" =>
          file[op[o].target] \in {None, o}]_vars
=============================================================================
