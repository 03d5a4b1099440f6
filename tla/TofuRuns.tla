------------------------------ MODULE TofuRuns ------------------------------
(***************************************************************************)
(* OpenTofu's plan, the gate above its result, and apply.  Source:         *)
(* tofu/runner.rs, tofu_run_command and tofu_discard_plan of               *)
(* ipc/tofu_commands.rs, state/tofu.svelte.ts and TofuWorkspace.svelte.    *)
(*                                                                         *)
(* A plan is known by the run that made it.  A run's end and its done      *)
(* event are one step, as the explorer's listener outlives every view.     *)
(* The commands that neither plan nor apply change nothing here.           *)
(***************************************************************************)

CONSTANTS
    Project,
    Run,
    None,
    Old     \* a plan from before

ASSUME TofuRunsAssumption == Run \cap {None, Old} = {} /\ None # Old /\ None \notin Project

VARIABLES
    run,
    saved,      \* the plan in each project's .reach-plan on this machine
    view,       \* what the workspace shows
    discarding, \* the project whose plan is being discarded, and the plan shown
    refused,    \* the plans that were discarded
    stray       \* a run outlived its view, or one ran on a server

vars == <<run, saved, view, discarding, refused, stray>>

Machine == {"local", "ssh"}
Verb == {"plan", "apply"}
Plan == Run \cup {Old, None}

\* reads is the plan an apply read; promised is the one its gate showed.
Off == [at |-> "off", command |-> "plan", project |-> None, target |-> "local",
        approve |-> FALSE, gate |-> FALSE, promised |-> None, withPlan |-> FALSE,
        reads |-> None, listens |-> FALSE]

TypeOK ==
    /\ run \in [Run ->
          [at : {"off", "asked", "starting", "working", "over"}, command : Verb,
           project : Project \cup {None}, target : Machine, approve : BOOLEAN,
           gate : BOOLEAN, promised : Plan, withPlan : BOOLEAN, reads : Plan,
           listens : BOOLEAN]]
    /\ saved \in [Project -> Plan]
    /\ view \in [project : Project \cup {None}, target : Machine, running : BOOLEAN,
                 pending : BOOLEAN, shown : Plan]
    /\ discarding \in (Project \X Plan) \cup {None}
    /\ refused \subseteq Plan
    /\ stray \in BOOLEAN

Init ==
    /\ run = [r \in Run |-> Off]
    /\ saved \in [Project -> {None, Old}]
    /\ view = [project |-> None, target |-> "local", running |-> FALSE,
               pending |-> FALSE, shown |-> None]
    /\ discarding = None
    /\ refused = {}
    /\ stray = FALSE

\* Of a run that is over only what its gate promised and what it read matter.
Over(r) == [Off EXCEPT !.at = "over", !.gate = run[r].gate, !.promised = run[r].promised,
                       !.reads = run[r].reads]

Live(r) == run[r].at \in {"asked", "starting", "working"}

-----------------------------------------------------------------------------
\* The workspace.

Open(p) ==
    /\ view.project = None
    /\ view' = [view EXCEPT !.project = p, !.target = "local"]
    /\ UNCHANGED <<run, saved, discarding, refused, stray>>

CloseKeepsGate ==
    /\ view.project # None
    /\ view' = [view EXCEPT !.project = None, !.running = FALSE, !.shown = None]
    /\ stray' = (stray \/ \E r \in Run : Live(r))
    /\ UNCHANGED <<run, saved, discarding, refused>>

\* The gate goes, and nothing stops a run or its listener.
Close ==
    /\ view.project # None
    /\ view' = [view EXCEPT !.project = None, !.running = FALSE, !.pending = FALSE,
                            !.shown = None]
    /\ stray' = (stray \/ \E r \in Run : Live(r))
    /\ UNCHANGED <<run, saved, discarding, refused>>

Switch(target) ==
    /\ view.project # None /\ view.target # target
    /\ view' = [view EXCEPT !.target = target]
    /\ UNCHANGED <<run, saved, discarding, refused, stray>>

Gate == view.project # None /\ view.pending /\ ~view.running

\* Plan and Apply from the run bar, and the gate's own Apply, which approves
\* nothing.  Destroy is here an apply that approves itself.
Click(r, command, approve, gate) ==
    /\ run[r].at = "off" /\ view.project # None /\ ~view.running
    /\ gate => Gate /\ command = "apply" /\ ~approve
    /\ command = "plan" => ~approve
    /\ run' = [run EXCEPT ![r] = [Off EXCEPT !.at = "asked", !.command = command,
                  !.project = view.project, !.target = view.target, !.approve = approve,
                  !.gate = gate, !.promised = IF gate THEN view.shown ELSE None]]
    /\ view' = [view EXCEPT !.running = TRUE]
    /\ stray' = (stray \/ view.target = "ssh")
    /\ UNCHANGED <<saved, discarding, refused>>

Discard ==
    /\ Gate /\ discarding = None
    /\ discarding' = <<view.project, view.shown>>
    /\ UNCHANGED <<run, saved, view, refused, stray>>

DiscardedInView ==
    /\ discarding # None
    /\ discarding' = None
    /\ refused' = refused \cup {discarding[2]}
    /\ view' = [view EXCEPT !.pending = FALSE]
    /\ UNCHANGED <<run, saved, stray>>

\* The file is removed, or cannot be, and then the gate stays.
Discarded ==
    /\ discarding # None
    /\ discarding' = None
    /\ \/ saved' = [saved EXCEPT ![discarding[1]] = None]
          /\ refused' = refused \cup {discarding[2]}
          /\ view' = [view EXCEPT !.pending = FALSE]
       \/ UNCHANGED <<saved, refused, view>>
    /\ UNCHANGED <<run, stray>>

-----------------------------------------------------------------------------
\* A run.

\* Without approval apply takes the saved plan, of a project of this machine.
SavedPlan(r) ==
    /\ run[r].command = "apply" /\ ~run[r].approve
    /\ run[r].target = "local" /\ saved[run[r].project] # None

Allowed(r) == run[r].command = "plan" \/ run[r].approve \/ SavedPlan(r)

Taken(r) ==
    /\ run[r].at = "asked" /\ Allowed(r)
    /\ run' = [run EXCEPT ![r].at = "starting", ![r].withPlan = SavedPlan(r)]
    /\ UNCHANGED <<saved, view, discarding, refused, stray>>

\* There is no plan to apply, and the event that says so comes before the
\* run's id does, so that nobody hears it; or the tool is off by now.
Refused(r) ==
    /\ run[r].at = "asked"
    /\ run' = [run EXCEPT ![r] = Over(r)]
    /\ UNCHANGED <<saved, view, discarding, refused, stray>>

Listens(r) ==
    /\ run[r].at \in {"starting", "working"} /\ ~run[r].listens
    /\ run' = [run EXCEPT ![r].listens = TRUE]
    /\ UNCHANGED <<saved, view, discarding, refused, stray>>

\* The process is there, and has read the plan it was told to apply.
Starts(r) ==
    /\ run[r].at = "starting"
    /\ run' = [run EXCEPT ![r].at = "working",
                  ![r].reads = IF run[r].withPlan THEN saved[run[r].project] ELSE None]
    /\ UNCHANGED <<saved, view, discarding, refused, stray>>

\* What the view makes of the end of a run it has a listener for, whichever
\* project it shows by then.
Hears(r, changes) ==
    IF ~run[r].listens THEN view
    ELSE [view EXCEPT !.running = FALSE,
             !.pending = run[r].command = "plan" /\ changes,
             !.shown = IF run[r].command = "plan" THEN r ELSE view.shown]

\* There is no process: no OpenTofu to start, as its done event says; or none
\* that could be started, or a server out of reach, with no such event.
Fails(r) ==
    /\ run[r].at = "starting"
    /\ run' = [run EXCEPT ![r] = Over(r)]
    /\ \/ view' = Hears(r, FALSE)
       \/ UNCHANGED view
    /\ UNCHANGED <<saved, discarding, refused, stray>>

\* A plan that finds changes, or none, is written; one that fails is not,
\* and leaves what an earlier one wrote.
Ends(r, outcome) ==
    /\ run[r].at = "working"
    /\ run' = [run EXCEPT ![r] = Over(r)]
    /\ saved' = IF run[r].command = "plan" /\ run[r].target = "local" /\ outcome # "error"
                THEN [saved EXCEPT ![run[r].project] = r] ELSE saved
    /\ view' = Hears(r, outcome = "changes")
    /\ UNCHANGED <<discarding, refused, stray>>

Next ==
    \/ \E p \in Project : Open(p)
    \/ Close
    \/ \E target \in Machine : Switch(target)
    \/ \E r \in Run, command \in Verb, approve \in BOOLEAN, gate \in BOOLEAN :
          Click(r, command, approve, gate)
    \/ Discard \/ Discarded
    \/ \E r \in Run :
          \/ Taken(r) \/ Refused(r) \/ Listens(r) \/ Starts(r) \/ Fails(r)
          \/ \E outcome \in {"changes", "nothing", "error"} : Ends(r, outcome)

Spec == Init /\ [][Next]_vars

-----------------------------------------------------------------------------
\* Properties.

\* What the gate says: "This is the plan that will be applied. Nothing else."
\* It does not hold when a run outlives its view or ran on a server.
NothingElse ==
    \A r \in Run : run[r].gate /\ run[r].reads # None => run[r].reads = run[r].promised

\* It does hold as long as every run is one of this machine and ends before
\* its view is closed, through failed and empty plans, plans left over from
\* earlier, lost done events and a discard that races the apply
\* (tofu_run_command, PLAN_FILE, the gate's planPending).
GateHolds == ~stray => NothingElse

\* Under the same conditions a plan someone chose not to run, and whose file
\* could be removed, is not the one a later click runs (tofu_discard_plan),
\* however many projects and runs there were in between.
DiscardHolds ==
    [][~stray => \A r \in Run : run'[r].reads # run[r].reads => run'[r].reads \notin refused]_vars
=============================================================================
