----------------------------- MODULE WorkProofs -----------------------------
(***************************************************************************)
(* What is worked with besides a terminal, for any number of targets,      *)
(* transfers, archives, projects and commands: OpenTofu's plans, archives  *)
(* on the server, transfers, saved targets, tunnels.  Each part has its    *)
(* inductive invariant, a lemma for each action or each kind of action,    *)
(* and the theorems, in the words of MCWork.                               *)
(***************************************************************************)
EXTENDS MCWork, Naturals, Sequences, TLAPS

-----------------------------------------------------------------------------
(* OpenTofu's plans: as long as every run is one of this machine and ends  *)
(* before its view is closed, the gate's Apply applies the plan that was   *)
(* shown, and a discarded plan is not applied.                             *)

Record ==
    [at : {"off", "asked", "starting", "working", "over"}, command : Verb,
     project : Project \cup {None}, target : Machine, approve : BOOLEAN,
     gate : BOOLEAN, promised : Plan, withPlan : BOOLEAN, reads : Plan,
     listens : BOOLEAN]

\* Whatever is said of a plan, its run is over: a new one is none of those.
Ended ==
    \A x \in Run :
        \/ \E p \in Project : saved[p] = x
        \/ x \in refused \/ view.shown = x
        \/ discarding # None /\ discarding[2] = x
        => run[x].at = "over"

Placed == \A r \in Run : Live(r) => run[r].project \in Project

\* A run that goes on is the only one, and the view waits for it.
Alone ==
    /\ \A r \in Run : Live(r) => /\ view.project \in Project /\ view.running
                                 /\ run[r].project = view.project
                                 /\ run[r].target = "local"
    /\ \A r, s \in Run : Live(r) /\ Live(s) => r = s

\* Two projects never hold the same plan, but one from before.
Single == \A p, q \in Project : saved[p] \in Run /\ saved[q] = saved[p] => p = q

\* What the gate offers is the project's saved plan; without a project it is
\* shut.
Offered ==
    /\ Gate => view.shown \in Run /\ saved[view.project] = view.shown
    /\ view.project = None => ~view.pending

\* What is being discarded is in no other project, and what was discarded is in
\* none.
Rejected ==
    /\ discarding # None => /\ discarding \in Project \X Run
                            /\ \A p \in Project : saved[p] = discarding[2] => p = discarding[1]
    /\ refused \subseteq Run
    /\ \A p \in Project : saved[p] \notin refused

\* From the click on the gate's Apply until the plan is read, nothing replaces
\* what it showed.
Promise ==
    \A r \in Run :
        /\ run[r].gate => run[r].command = "apply" \/ run[r].at = "over"
        /\ run[r].gate /\ run[r].at \in {"asked", "starting"} =>
              saved[run[r].project] \in {None, run[r].promised}
        /\ run[r].at \in {"off", "asked", "starting"} => run[r].reads = None

Orderly == Alone /\ Single /\ Offered /\ Rejected /\ Promise /\ NothingElse

IInv == TypeOK /\ Placed /\ Ended /\ (~stray => Orderly)

-----------------------------------------------------------------------------
\* The invariant holds at the start.
LEMMA InitIInv == Init => IInv
<1> SUFFICES ASSUME Init PROVE IInv
    OBVIOUS
<1> USE TofuRunsAssumption DEF Init, Off
<1>1. TypeOK
    BY DEF TypeOK, Plan, Verb, Machine
<1>2. Ended /\ Placed
    BY DEF Ended, Placed, Live
<1>3. Alone /\ Single /\ Offered
    BY DEF Alone, Live, Single, Offered, Gate
<1>4. Rejected /\ Promise /\ NothingElse
    BY DEF Rejected, Promise, NothingElse
<1> QED
    BY <1>1, <1>2, <1>3, <1>4 DEF IInv, Orderly

\* The workspace.
LEMMA ViewSteps ==
    ASSUME IInv, (\E p \in Project : Open(p)) \/ Close \/ (\E t \in Machine : Switch(t))
    PROVE  IInv'
<1> USE TofuRunsAssumption DEF IInv
<1>1. /\ UNCHANGED <<run, saved, discarding, refused>>
      /\ view'.shown \in {view.shown, None}
      /\ \/ /\ stray' = stray
            /\ \/ view'.project = view.project
               \/ view.project = None /\ view'.project \in Project
            /\ view'.running = view.running /\ view'.pending = view.pending
            /\ view'.shown = view.shown
         \/ /\ stray' = (stray \/ \E r \in Run : Live(r))
            /\ view'.project = None /\ ~view'.pending
    BY DEF Open, Close, Switch, TypeOK
<1>2. TypeOK'
    BY ZenonT(60) DEF Open, Close, Switch, TypeOK, Plan, Machine
<1>3. Ended' /\ Placed'
    BY <1>1 DEF Ended, Placed, Live
<1>4. ASSUME ~stray' PROVE Orderly'
    <2>1. ~stray /\ Orderly
        BY <1>1, <1>4 DEF TypeOK
    <2>2. Alone'
        BY <1>1, <1>4, <2>1 DEF Orderly, Alone, Live
    <2>3. Offered'
        <3>1. CASE view'.project = None
            BY <1>1, <2>1, <3>1 DEF Orderly, Offered, Gate
        <3>2. CASE view'.project = view.project /\ view'.running = view.running
                   /\ view'.pending = view.pending /\ view'.shown = view.shown
            BY <1>1, <2>1, <3>2 DEF Orderly, Offered, Gate
        <3>3. CASE view.project = None /\ view'.project \in Project
            BY <1>1, <2>1, <3>3 DEF Orderly, Offered, Gate
        <3> QED
            BY <1>1, <3>1, <3>2, <3>3
    <2>4. (Single /\ Rejected /\ Promise /\ NothingElse)'
        BY <1>1, <2>1 DEF Orderly, Single, Rejected, Promise, NothingElse
    <2> QED
        BY <2>2, <2>3, <2>4 DEF Orderly
<1> QED
    BY <1>2, <1>3, <1>4

\* A click on Plan, Apply or Destroy.
LEMMA ClickStep ==
    ASSUME IInv, NEW r \in Run, NEW verb \in Verb, NEW approve \in BOOLEAN,
           NEW gate \in BOOLEAN, Click(r, verb, approve, gate)
    PROVE  IInv'
<1> USE TofuRunsAssumption DEF IInv
<1> DEFINE new == [Off EXCEPT !.at = "asked", !.command = verb,
                  !.project = view.project, !.target = view.target, !.approve = approve,
                  !.gate = gate, !.promised = IF gate THEN view.shown ELSE None]
<1>1. /\ run[r].at = "off" /\ view.project # None /\ ~view.running
      /\ gate => Gate /\ verb = "apply"
      /\ run' = [run EXCEPT ![r] = new]
      /\ view' = [view EXCEPT !.running = TRUE]
      /\ stray' = (stray \/ view.target = "ssh")
      /\ UNCHANGED <<saved, discarding, refused>>
    BY DEF Click
<1>2. /\ new \in Record /\ new.at = "asked" /\ new.command = verb
      /\ new.project = view.project /\ new.target = view.target /\ new.gate = gate
      /\ new.promised = (IF gate THEN view.shown ELSE None) /\ new.reads = None
    <2>1. /\ view.project \in Project \cup {None} /\ view.target \in Machine
          /\ (IF gate THEN view.shown ELSE None) \in Plan
        BY DEF TypeOK, Plan
    <2>2. Off \in Record
        BY DEF Off, Record, Plan, Verb, Machine
    <2> QED
        BY <2>1, <2>2 DEF Record, Off
<1> HIDE DEF new
<1>3. TypeOK'
    BY <1>1, <1>2 DEF TypeOK, Record
<1>4. run'[r] = new /\ \A s \in Run \ {r} : run'[s] = run[s]
    BY <1>1 DEF TypeOK
<1>5. /\ view'.project = view.project /\ view'.running /\ view'.pending = view.pending
      /\ view'.shown = view.shown /\ view'.target = view.target
      /\ view.project \in Project
    BY <1>1 DEF TypeOK
<1>6. Ended' /\ Placed'
    BY <1>1, <1>2, <1>4, <1>5 DEF Ended, Placed, Live
<1>7. ASSUME ~stray' PROVE Orderly'
    <2>1. ~stray /\ Orderly /\ view.target = "local"
        BY <1>1, <1>7 DEF TypeOK, Machine
    <2>2. \A s \in Run \ {r} : ~Live(s) /\ ~Live(s)'
        BY <1>1, <1>4, <2>1 DEF Orderly, Alone, Live
    <2>3. Alone'
        BY <1>2, <1>4, <1>5, <2>1, <2>2 DEF Alone
    <2>4. Promise'
        <3>1. gate => saved[view.project] = view.shown
            BY <1>1, <2>1 DEF Orderly, Offered
        <3> QED
            BY <1>1, <1>2, <1>4, <2>1, <3>1 DEF Orderly, Promise
    <2>5. NothingElse'
        BY <1>2, <1>4, <2>1 DEF Orderly, NothingElse
    <2>6. (Single /\ Rejected /\ Offered)'
        BY <1>1, <1>5, <2>1 DEF Orderly, Single, Rejected, Offered, Gate
    <2> QED
        BY <2>3, <2>4, <2>5, <2>6 DEF Orderly
<1> QED
    BY <1>3, <1>6, <1>7

\* A discard.
LEMMA DiscardStep == ASSUME IInv, Discard PROVE IInv'
<1> USE TofuRunsAssumption DEF IInv
<1>1. /\ Gate /\ discarding' = <<view.project, view.shown>>
      /\ UNCHANGED <<run, saved, view, refused, stray>>
    BY DEF Discard
<1>2. TypeOK'
    BY <1>1 DEF TypeOK, Gate
<1>3. Ended' /\ Placed'
    BY <1>1, <1>2 DEF Ended, Placed, Live
<1>4. ASSUME ~stray' PROVE Orderly'
    <2>1. Orderly /\ view.project \in Project /\ view.shown \in Run
          /\ saved[view.project] = view.shown
        BY <1>1, <1>4 DEF Orderly, Offered, Gate, TypeOK
    <2>2. Rejected'
        BY <1>1, <2>1 DEF Orderly, Rejected, Single
    <2> QED
        BY <1>1, <2>1, <2>2 DEF Orderly, Alone, Live, Single, Offered, Gate, Promise,
           NothingElse
<1> QED
    BY <1>2, <1>3, <1>4

\* The discarded plan is gone.
LEMMA DiscardedStep == ASSUME IInv, Discarded PROVE IInv'
<1> USE TofuRunsAssumption DEF IInv
<1>1. /\ discarding # None /\ discarding' = None /\ run' = run /\ stray' = stray
      /\ \/ /\ saved' = [saved EXCEPT ![discarding[1]] = None]
            /\ refused' = refused \cup {discarding[2]}
            /\ view' = [view EXCEPT !.pending = FALSE]
         \/ UNCHANGED <<saved, refused, view>>
    BY DEF Discarded
<1>2. discarding[1] \in Project /\ discarding[2] \in Plan
    BY <1>1 DEF TypeOK
<1>3. TypeOK'
    BY <1>1, <1>2 DEF TypeOK, Plan
<1>4. \A p \in Project : saved'[p] \in {saved[p], None}
    BY <1>1 DEF TypeOK
<1>5. view'.shown = view.shown /\ view'.project = view.project
      /\ view'.running = view.running /\ (view'.pending => view' = view /\ saved' = saved)
    BY <1>1 DEF TypeOK
<1>6. Ended' /\ Placed'
    BY <1>1, <1>4, <1>5 DEF Ended, Placed, Live
<1>7. ASSUME ~stray' PROVE Orderly'
    <2>1. Orderly
        BY <1>1, <1>7
    <2>2. Alone'
        BY <1>1, <1>5, <2>1 DEF Orderly, Alone, Live
    <2>3. Single' /\ Promise' /\ NothingElse'
        <3>1. \A r \in Run : run[r].gate /\ run[r].at \in {"asked", "starting"} =>
                  run[r].project \in Project
            BY <2>1 DEF Orderly, Alone, Live
        <3> QED
            BY <1>1, <1>4, <2>1, <3>1 DEF Orderly, Single, Promise, NothingElse
    <2>4. Offered'
        BY <1>5, <2>1 DEF Orderly, Offered, Gate
    <2>5. Rejected'
        <3>1. CASE UNCHANGED <<saved, refused, view>>
            BY <1>1, <2>1, <3>1 DEF Orderly, Rejected
        <3>2. CASE /\ saved' = [saved EXCEPT ![discarding[1]] = None]
                   /\ refused' = refused \cup {discarding[2]}
            <4>1. discarding[2] \in Run
                BY <1>1, <2>1 DEF Orderly, Rejected
            <4>2. \A p \in Project : saved'[p] # discarding[2]
                BY <1>1, <2>1, <3>2, <4>1 DEF Orderly, Rejected, TypeOK
            <4> QED
                BY <1>1, <1>4, <2>1, <3>2, <4>1, <4>2 DEF Orderly, Rejected
        <3> QED
            BY <1>1, <3>1, <3>2
    <2> QED
        BY <2>2, <2>3, <2>4, <2>5 DEF Orderly
<1> QED
    BY <1>3, <1>6, <1>7

-----------------------------------------------------------------------------
\* The steps of a run in which it goes on with what it has, or is over, and
\* the files stay as they are.  What the view shows changes, if at all, to
\* nothing to be offered, which only a run that is over brings about.
Goes(r) ==
    /\ run' \in [Run -> Record]
    /\ Live(r) /\ run'[r].at \in {"starting", "working", "over"}
    /\ run'[r].at = "starting" => run[r].at \in {"asked", "starting"}
    /\ run'[r].gate = run[r].gate /\ run'[r].promised = run[r].promised
    /\ run'[r].reads = run[r].reads
    /\ run'[r].at # "over" => /\ run'[r].command = run[r].command
                              /\ run'[r].project = run[r].project
                              /\ run'[r].target = run[r].target
    /\ \A s \in Run \ {r} : run'[s] = run[s]
    /\ UNCHANGED <<saved, discarding, refused, stray>>
    /\ \/ view' = view
       \/ /\ run'[r].at = "over" /\ ~view'.pending /\ view'.project = view.project
          /\ view'.target = view.target /\ view'.running = FALSE
          /\ view'.shown \in {view.shown, r}
    /\ TypeOK'

\* Every step Goes describes keeps the invariant.
LEMMA GoesStep == ASSUME IInv, NEW r \in Run, Goes(r) PROVE IInv'
<1> USE TofuRunsAssumption DEF IInv, Goes
<1>1. \A s \in Run : run[s].at = "over" => run'[s].at = "over"
    BY DEF Live
<1>2. Ended' /\ Placed'
    BY <1>1 DEF Ended, Placed, Live
<1>3. ASSUME ~stray' PROVE Orderly'
    <2>1. Orderly
        BY <1>3
    <2>2. \A s \in Run \ {r} : ~Live(s)'
        BY <2>1 DEF Orderly, Alone, Live
    <2>3. Alone'
        <3>1. CASE view' = view
            BY <2>1, <2>2, <3>1 DEF Orderly, Alone, Live
        <3>2. CASE run'[r].at = "over"
            BY <2>2, <3>2 DEF Alone, Live
        <3> QED
            BY <3>1, <3>2
    <2>4. Offered'
        BY <2>1 DEF Orderly, Offered, Gate
    <2>5. Promise'
        <3>1. \A s \in Run : run'[s].gate => run'[s].command = "apply" \/ run'[s].at = "over"
            BY <2>1 DEF Orderly, Promise, Live
        <3>2. \A s \in Run : run'[s].gate /\ run'[s].at \in {"asked", "starting"} =>
                  saved'[run'[s].project] \in {None, run'[s].promised}
            BY <2>1 DEF Orderly, Promise
        <3>3. \A s \in Run : run'[s].at \in {"off", "asked", "starting"} => run'[s].reads = None
            BY <2>1 DEF Orderly, Promise
        <3> QED
            BY <3>1, <3>2, <3>3 DEF Promise
    <2>6. NothingElse'
        BY <2>1 DEF Orderly, NothingElse
    <2>7. (Single /\ Rejected)'
        BY <2>1 DEF Orderly, Single, Rejected
    <2> QED
        BY <2>3, <2>4, <2>5, <2>6, <2>7 DEF Orderly
<1> QED
    BY <1>2, <1>3

\* A run that is over is still the run it was.
LEMMA OverIsRecord ==
    ASSUME TypeOK, NEW r \in Run
    PROVE  /\ Over(r) \in Record /\ Over(r).at = "over"
           /\ Over(r).gate = run[r].gate /\ Over(r).promised = run[r].promised
           /\ Over(r).reads = run[r].reads
    BY DEF TypeOK, Over, Off, Record, Verb, Machine, Plan

\* The steps of a run that Goes describes.
LEMMA RunGoes ==
    ASSUME IInv, NEW r \in Run, Taken(r) \/ Refused(r) \/ Listens(r) \/ Fails(r)
    PROVE  Goes(r)
<1> USE DEF IInv
<1>1. run \in [Run -> Record] /\ run[r] \in Record
    BY DEF TypeOK, Record
<1>2. CASE Taken(r)
    <2>1. /\ run' = [run EXCEPT ![r].at = "starting", ![r].withPlan = SavedPlan(r)]
          /\ run[r].at = "asked" /\ UNCHANGED <<saved, view, discarding, refused, stray>>
        BY <1>2 DEF Taken
    <2>2. SavedPlan(r) \in BOOLEAN
        BY DEF SavedPlan
    <2>3. run' \in [Run -> Record]
        BY <1>1, <2>1, <2>2 DEF Record
    <2> QED
        BY <1>1, <2>1, <2>3 DEF Goes, Live, TypeOK, Record
<1>3. CASE Refused(r)
    <2>1. /\ run' = [run EXCEPT ![r] = Over(r)] /\ run[r].at = "asked"
          /\ UNCHANGED <<saved, view, discarding, refused, stray>>
        BY <1>3 DEF Refused
    <2>2. run' \in [Run -> Record] /\ run'[r] = Over(r)
        BY <1>1, <2>1, OverIsRecord
    <2> QED
        BY <1>1, <2>1, <2>2, OverIsRecord DEF Goes, Live, TypeOK, Record
<1>4. CASE Listens(r)
    <2>1. /\ run' = [run EXCEPT ![r].listens = TRUE] /\ run[r].at \in {"starting", "working"}
          /\ UNCHANGED <<saved, view, discarding, refused, stray>>
        BY <1>4 DEF Listens
    <2>2. run' \in [Run -> Record]
        BY <1>1, <2>1 DEF Record
    <2> QED
        BY <1>1, <2>1, <2>2 DEF Goes, Live, TypeOK, Record
<1>5. CASE Fails(r)
    <2>1. /\ run' = [run EXCEPT ![r] = Over(r)] /\ run[r].at = "starting"
          /\ view' = view \/ view' = Hears(r, FALSE)
          /\ UNCHANGED <<saved, discarding, refused, stray>>
        BY <1>5 DEF Fails
    <2>2. run' \in [Run -> Record] /\ run'[r] = Over(r)
        BY <1>1, <2>1, OverIsRecord
    <2>3. \/ view' = view
          \/ /\ ~view'.pending /\ view'.project = view.project
             /\ view'.target = view.target /\ view'.running = FALSE
             /\ view'.shown \in {view.shown, r}
        BY <2>1 DEF Hears, TypeOK
    <2>4. TypeOK'
        <3>1. view \in [project : Project \cup {None}, target : Machine, running : BOOLEAN,
                        pending : BOOLEAN, shown : Plan]
            BY DEF TypeOK
        <3>2. Hears(r, FALSE) \in [project : Project \cup {None}, target : Machine,
                                  running : BOOLEAN, pending : BOOLEAN, shown : Plan]
            BY <3>1 DEF Hears, Plan
        <3> QED
            BY <2>1, <2>2, <3>1, <3>2 DEF TypeOK, Record
    <2> QED
        BY <1>1, <2>1, <2>2, <2>3, <2>4, OverIsRecord DEF Goes, Live
<1> QED
    BY <1>2, <1>3, <1>4, <1>5

\* The plan is read: it is the one the gate showed, and not a discarded one.
LEMMA StartsStep == ASSUME IInv, NEW r \in Run, Starts(r) PROVE IInv'
<1> USE TofuRunsAssumption DEF IInv
<1> DEFINE plan == IF run[r].withPlan THEN saved[run[r].project] ELSE None
<1>1. run \in [Run -> Record] /\ run[r] \in Record
    BY DEF TypeOK, Record
<1>2. /\ run' = [run EXCEPT ![r].at = "working", ![r].reads = plan]
      /\ run[r].at = "starting" /\ UNCHANGED <<saved, view, discarding, refused, stray>>
    BY DEF Starts
<1>3. \A s \in Run \ {r} : run'[s] = run[s]
    BY <1>1, <1>2
<1>4. /\ run'[r].at = "working" /\ run'[r].reads = plan /\ run'[r].gate = run[r].gate
      /\ run'[r].promised = run[r].promised /\ run'[r].command = run[r].command
      /\ run'[r].project = run[r].project /\ run'[r].target = run[r].target
    BY <1>1, <1>2 DEF Record
<1> HIDE DEF plan
<1>5. ASSUME ~stray' PROVE Orderly' /\ plan \in Plan
    <2>0. run[r].at = "starting" /\ UNCHANGED <<saved, view, discarding, refused, stray>>
        BY <1>2
    <2>1. Orderly /\ run[r].project \in Project /\ plan \in {None, saved[run[r].project]}
        BY <1>2, <1>5 DEF Orderly, Alone, Live, plan
    <2>2. plan \in Plan
        BY <2>1 DEF TypeOK, Plan
    <2>3. Alone'
        <3>1. \A s \in Run : Live(s)' <=> Live(s)
            BY <1>3, <1>4, <2>0 DEF Live
        <3> QED
            BY <1>3, <1>4, <2>0, <2>1, <3>1 DEF Orderly, Alone
    <2>4. Promise'
        <3>1. ASSUME NEW s \in Run, s # r
              PROVE  /\ run'[s] = run[s]
                     /\ run[s].gate => run[s].command = "apply" \/ run[s].at = "over"
                     /\ run[s].gate /\ run[s].at \in {"asked", "starting"} =>
                           saved[run[s].project] \in {None, run[s].promised}
                     /\ run[s].at \in {"off", "asked", "starting"} => run[s].reads = None
            BY <1>3, <2>1, <3>1 DEF Orderly, Promise
        <3>2. run[r].gate => run[r].command = "apply" \/ run[r].at = "over"
            BY <2>1 DEF Orderly, Promise
        <3>3. run'[r].gate => run'[r].command = "apply"
            BY <1>4, <2>0, <3>2
        <3> QED
            BY <1>4, <2>0, <3>1, <3>3 DEF Promise
    <2>5. NothingElse'
        <3>1. run[r].gate => plan \in {None, run[r].promised}
            BY <1>2, <2>1 DEF Orderly, Promise
        <3> QED
            BY <1>3, <1>4, <2>1, <3>1 DEF Orderly, NothingElse
    <2> QED
        BY <1>2, <2>1, <2>2, <2>3, <2>4, <2>5
        DEF Orderly, Single, Offered, Gate, Rejected
<1>6. TypeOK'
    <2>1. plan \in Plan
        BY <1>2 DEF plan, TypeOK, Plan, Placed, Live
    <2>2. run' \in [Run -> Record]
        BY <1>1, <1>2, <2>1 DEF Record
    <2> QED
        BY <1>2, <2>2 DEF TypeOK, Record
<1>7. Ended' /\ Placed'
    BY ZenonT(60), <1>2, <1>3, <1>4 DEF Ended, Placed, Live
<1> QED
    BY <1>5, <1>6, <1>7

\* A plan that ends is new: nobody has shown or discarded it, and no project
\* holds it but its own, whose gate shows it if anything.
LEMMA EndsStep ==
    ASSUME IInv, NEW r \in Run, NEW outcome \in {"changes", "nothing", "error"},
           Ends(r, outcome)
    PROVE  IInv'
<1> USE TofuRunsAssumption DEF IInv
<1> DEFINE writes == run[r].command = "plan" /\ run[r].target = "local" /\ outcome # "error"
<1>1. run \in [Run -> Record] /\ run[r] \in Record
    BY DEF TypeOK, Record
<1>2. /\ run' = [run EXCEPT ![r] = Over(r)] /\ run[r].at = "working"
      /\ saved' = IF writes THEN [saved EXCEPT ![run[r].project] = r] ELSE saved
      /\ view' = Hears(r, outcome = "changes")
      /\ UNCHANGED <<discarding, refused, stray>>
    BY DEF Ends
<1>3. run' \in [Run -> Record] /\ run'[r] = Over(r)
      /\ \A s \in Run \ {r} : run'[s] = run[s]
    BY <1>1, <1>2, OverIsRecord
<1> HIDE DEF writes
<1>4. CASE ~writes /\ (view' = view \/ ~view'.pending)
    <2>1. \/ view' = view
          \/ /\ view'.project = view.project /\ view'.target = view.target
             /\ view'.running = FALSE /\ view'.shown \in {view.shown, r}
        BY <1>2 DEF Hears, TypeOK
    <2>2. view' \in [project : Project \cup {None}, target : Machine, running : BOOLEAN,
                     pending : BOOLEAN, shown : Plan]
        BY <1>2 DEF Hears, TypeOK, Plan
    <2>3. TypeOK'
        BY <1>2, <1>3, <1>4, <2>2 DEF TypeOK, Record
    <2>4. Goes(r)
        BY <1>2, <1>3, <1>4, <2>1, <2>3, OverIsRecord DEF Goes, Live
    <2> QED
        BY <2>4, GoesStep
<1>5. CASE writes \/ (view' # view /\ view'.pending)
    <2>1. run[r].project \in Project /\ run[r].command = "plan"
        BY <1>2, <1>5 DEF Placed, Live, Hears, TypeOK, writes
    <2>2. /\ run[r].listens => /\ view'.running = FALSE
                               /\ view'.pending = (outcome = "changes")
                               /\ view'.shown = r
          /\ ~run[r].listens => view' = view
          /\ view'.project = view.project
        BY <1>2, <2>1 DEF Hears, TypeOK
    <2>3. TypeOK'
        <3>1. view \in [project : Project \cup {None}, target : Machine, running : BOOLEAN,
                        pending : BOOLEAN, shown : Plan]
            BY DEF TypeOK
        <3>2. Hears(r, outcome = "changes") \in
                  [project : Project \cup {None}, target : Machine,
                   running : BOOLEAN, pending : BOOLEAN, shown : Plan]
            BY <3>1 DEF Hears, Plan
        <3>3. saved' \in [Project -> Plan]
            BY <1>2, <2>1 DEF TypeOK, Plan
        <3> QED
            BY <1>2, <1>3, <3>2, <3>3 DEF TypeOK, Record
    <2>4. /\ run'[r].at = "over" /\ run'[r].gate = run[r].gate
          /\ run'[r].promised = run[r].promised /\ run'[r].reads = run[r].reads
        BY <1>3, OverIsRecord
    <2>5. Placed'
        BY <1>3, <2>4 DEF Placed, Live
    <2>6. \A p \in Project : saved'[p] = IF writes /\ p = run[r].project THEN r ELSE saved[p]
        BY <1>2, <2>1 DEF TypeOK
    <2>7. Ended'
        BY <1>2, <1>3, <2>2, <2>4, <2>6 DEF Ended
    <2>8. ASSUME ~stray' PROVE Orderly'
        <3>1. /\ Orderly /\ writes /\ view.project = run[r].project
              /\ view.running /\ \A s \in Run \ {r} : ~Live(s)
            BY <1>2, <1>5, <2>1, <2>2, <2>8 DEF Orderly, Alone, Live, writes
        <3>2. Alone'
            BY <1>3, <2>4, <3>1 DEF Alone, Live
        <3>3. r \notin refused /\ (\A p \in Project : saved[p] # r)
              /\ (discarding # None => discarding[2] # r)
            BY <1>2 DEF Ended
        <3>4. Single' /\ Rejected'
            BY <1>2, <2>6, <3>1, <3>3 DEF Orderly, Single, Rejected
        <3>5. Offered'
            BY <1>2, <2>1, <2>2, <2>6, <3>1 DEF Orderly, Offered, Gate
        <3>6. Promise'
            BY <1>3, <2>1, <2>4, <2>6, <3>1 DEF Orderly, Promise, Live
        <3>7. NothingElse'
            BY <1>3, <2>4, <3>1 DEF Orderly, NothingElse
        <3> QED
            BY <3>2, <3>4, <3>5, <3>6, <3>7 DEF Orderly
    <2> QED
        BY <2>3, <2>5, <2>7, <2>8
<1> QED
    BY <1>4, <1>5

-----------------------------------------------------------------------------
\* Every step keeps the invariant.
LEMMA NextIInv == ASSUME IInv, [Next]_vars PROVE IInv'
<1>1. CASE (\E p \in Project : Open(p)) \/ Close \/ (\E target \in Machine : Switch(target))
    BY <1>1, ViewSteps
<1>2. CASE \E r \in Run, verb \in Verb, approve \in BOOLEAN, gate \in BOOLEAN :
               Click(r, verb, approve, gate)
    BY <1>2, ClickStep
<1>3. CASE Discard \/ Discarded
    BY <1>3, DiscardStep, DiscardedStep
<1>4. CASE \E r \in Run : Taken(r) \/ Refused(r) \/ Listens(r) \/ Fails(r)
    BY <1>4, RunGoes, GoesStep
<1>5. CASE \E r \in Run : Starts(r)
    BY <1>5, StartsStep
<1>6. CASE \E r \in Run, outcome \in {"changes", "nothing", "error"} : Ends(r, outcome)
    BY <1>6, EndsStep
<1>7. CASE UNCHANGED vars
    BY <1>7 DEF vars, IInv, TypeOK, Placed, Live, Ended, Orderly, Alone, Single, Offered,
       Gate, Rejected, Promise, NothingElse
<1> QED
    BY <1>1, <1>2, <1>3, <1>4, <1>5, <1>6, <1>7 DEF Next

\* The gate's Apply applies the plan it showed, as long as every run is one of
\* this machine and ends before its view is closed (tofu_run_command,
\* planPending), with any number of projects and runs.
THEOREM GateAlwaysHolds == Spec => []GateHolds
<1>1. IInv => GateHolds
    BY DEF IInv, Orderly, GateHolds
<1> QED
    BY InitIInv, NextIInv, <1>1, PTL DEF Spec

\* Under the same conditions no run reads a plan that was discarded
\* (tofu_discard_plan).
THEOREM DiscardAlwaysHolds == Spec => DiscardHolds
<1> DEFINE Holds == ~stray => \A r \in Run : run'[r].reads # run[r].reads =>
                                                 run'[r].reads \notin refused
<1>1. ASSUME IInv, [Next]_vars PROVE [Holds]_vars
    <2> SUFFICES ASSUME ~stray, NEW r \in Run, run'[r].reads # run[r].reads
                 PROVE  run'[r].reads \notin refused
        OBVIOUS
    <2> USE <1>1 DEF IInv
    <2>1. Orderly /\ run \in [Run -> Record]
        BY DEF TypeOK, Record
    <2>2. PICK s \in Run : Starts(s)
        <3>1. CASE \E s \in Run : Taken(s) \/ Refused(s) \/ Listens(s) \/ Fails(s)
            BY <3>1, RunGoes DEF Goes
        <3>2. CASE \E s \in Run, outcome \in {"changes", "nothing", "error"} : Ends(s, outcome)
            BY <2>1, <3>2, OverIsRecord DEF Ends
        <3>3. CASE \E s \in Run, verb \in Verb, approve \in BOOLEAN, gate \in BOOLEAN :
                       Click(s, verb, approve, gate)
            <4>1. PICK s \in Run : /\ run[s].at = "off" /\ run'[s].reads = None
                                   /\ \A q \in Run \ {s} : run'[q] = run[q]
                BY <2>1, <3>3 DEF Click, Off
            <4> QED
                BY <2>1, <4>1 DEF Orderly, Promise
        <3>4. CASE \/ \E p \in Project : Open(p)
                   \/ Close \/ Discard \/ Discarded \/ UNCHANGED vars
                   \/ \E target \in Machine : Switch(target)
            BY <3>4 DEF Open, Close, Discard, Discarded, Switch, vars
        <3> QED
            BY <3>1, <3>2, <3>3, <3>4 DEF Next
    <2>3. run'[r].reads \in {None, saved[run[r].project]} /\ Live(r)
        BY <2>1, <2>2 DEF Starts, Live, Record
    <2>4. run[r].project \in Project
        BY <2>3 DEF Placed
    <2> QED
        BY <2>1, <2>3, <2>4, TofuRunsAssumption DEF Orderly, Rejected
<1>2. [][Holds]_vars <=> DiscardHolds
    BY DEF DiscardHolds
<1> HIDE DEF Holds
<1> QED
    BY InitIInv, NextIInv, <1>1, <1>2, PTL DEF Spec

-----------------------------------------------------------------------------
(* Archives.                                                               *)

Before == {"resolving", "counting", "starting"}
Settled == {"starting", "running", "over"}

\* The explorer waits for an operation from its click to its first output.
WaitsOne ==
    \A o \in Op :
        /\ busy = o => op[o].at \in Before \cup {"running"}
        /\ op[o].at \in Before => busy = o
        /\ op[o].at = "off" => op[o] = A!Off

\* An operation writes once, to the name it settled on, which was free when
\* it found it so and is until it writes.
WritesOwn ==
    /\ \A o \in Op, n \in Name :
          file[n] = o => op[o].out = n /\ op[o].at \in {"running", "over"}
    /\ \A o \in Op :
          /\ op[o].at \in {"counting", "starting", "running"} => op[o].out \in Name
          /\ op[o].at = "running" => op[o].wrote
          /\ op[o].wrote => op[o].at \in {"running", "over"} /\ op[o].out \in Name
          /\ op[o].at \in {"counting", "starting"} /\ ~op[o].fell =>
                file[op[o].out] = None

\* A cancel is given the name that is written to, once the explorer knows it.
CancelsOwn ==
    \A o \in Op :
        /\ op[o].at \in {"starting", "running"} => op[o].produced = op[o].out
        /\ op[o].produced = None <=> op[o].at = "off"
        /\ op[o].cancel = "none" => ~op[o].early
        /\ op[o].cancel # "none" => op[o].target \in Name
        /\ op[o].cancel # "none" /\ ~op[o].early =>
              op[o].target = op[o].out /\ op[o].at \in Settled
        /\ op[o].killed => op[o].at = "over" /\ op[o].wrote
        /\ op[o].killed /\ ~op[o].early /\ op[o].cancel = "done" =>
              \A n \in Name : file[n] # o

\* Somebody may take the name n from who wrote there: one that found no name
\* free, or whose cancel removes what it did not write.
Disputed(n) ==
    \E r \in Op :
        \/ op[r].out = n /\ op[r].fell
        \/ op[r].target = n
           /\ (op[r].early \/ (op[r].at = "over" /\ ~op[r].wrote))

\* What was written stays until its own cancel has removed it, where nobody
\* disputes the name.
StaysOwn ==
    \A o \in Op :
        op[o].wrote /\ op[o].cancel # "done" /\ ~Disputed(op[o].out) =>
            file[op[o].out] = o

ArchivesInv == A!TypeOK /\ WaitsOne /\ WritesOwn /\ CancelsOwn /\ StaysOwn

\* Whatever an operation may produce is a name.
LEMMA CandidateIsName ==
    ASSUME A!ArchivesAssumption, NEW k \in A!Kind
    PROVE  /\ \A i \in DOMAIN Candidates[k] : Candidates[k][i] \in Name
           /\ 1 \in DOMAIN Candidates[k]
           /\ A!Label(k) \in Name
<1>1. Candidates[k] \in Seq(Name) /\ Len(Candidates[k]) # 0
  BY DEF A!ArchivesAssumption
<1>2. Len(Candidates[k]) \in Nat /\ DOMAIN Candidates[k] = 1..Len(Candidates[k])
  BY <1>1
<1>3. \A i \in 1..Len(Candidates[k]) : Candidates[k][i] \in Name
  BY <1>1
<1>4. Candidates[k][1] \in Name
  BY <1>1, <1>2, <1>3
<1> QED
  BY <1>1, <1>2, <1>3, <1>4 DEF A!Label, A!ArchivesAssumption

OpType ==
    [at : {"off", "resolving", "counting", "starting", "running", "over"},
     kind : A!Kind, out : Name \cup {None}, produced : Name \cup {None},
     target : Name \cup {None}, cancel : {"none", "asked", "sleeping", "done"},
     fell : BOOLEAN, early : BOOLEAN, killed : BOOLEAN, wrote : BOOLEAN]

\* An operation's record changes, and the types stay.
LEMMA OpChanges ==
    ASSUME A!TypeOK, NEW o \in Op, NEW rec \in OpType, op' = [op EXCEPT ![o] = rec],
           file' \in [Name -> Op \cup {None, User}], busy' \in Op \cup {None}
    PROVE  A!TypeOK'
BY DEF A!TypeOK, OpType

\* Only what was started is cancelled.
LEMMA OffNotCancelled ==
    ASSUME WaitsOne, NEW o \in Op, op[o].cancel # "none"
    PROVE  op[o].at # "off"
BY DEF WaitsOne, A!Off

\* The invariant holds at the start.
LEMMA ArchivesInit ==
    ASSUME A!ArchivesAssumption, A!Init
    PROVE  ArchivesInv
<1>1. /\ op = [o \in Op |-> A!Off] /\ file \in [Name -> {None, User}] /\ busy = None
      /\ None \notin Op /\ User \notin Op /\ None \notin Name
  BY DEF A!Init, A!ArchivesAssumption
<1>2. A!TypeOK
  BY <1>1 DEF A!TypeOK, A!Off, A!Kind
<1>3. WaitsOne
  BY <1>1 DEF WaitsOne, A!Off, Before
<1>4. WritesOwn
  <2>1. \A n \in Name : file[n] \notin Op
    BY <1>1
  <2> QED
    BY <1>1, <2>1 DEF WritesOwn, A!Off
<1>5. CancelsOwn
  BY <1>1 DEF CancelsOwn, A!Off
<1>6. StaysOwn
  BY <1>1 DEF StaysOwn, A!Off
<1> QED
  BY <1>2, <1>3, <1>4, <1>5, <1>6 DEF ArchivesInv

\* Every step keeps the invariant: a name is written to once, by who found it
\* free, and taken back by its own cancel.
LEMMA ArchivesNext ==
    ASSUME A!ArchivesAssumption, ArchivesInv, [A!Next]_A!vars
    PROVE  ArchivesInv'
<1> USE DEF A!ArchivesAssumption, ArchivesInv
<1>1. ASSUME NEW o \in Op, NEW k \in A!Kind, A!Start(o, k) PROVE ArchivesInv'
  <2>0. A!Label(k) \in Name
    BY CandidateIsName
  <2>1. /\ op' = [op EXCEPT ![o] = [A!Off EXCEPT !.at = "resolving", !.kind = k,
                                               !.produced = A!Label(k)]]
        /\ busy' = o /\ file' = file /\ busy = None /\ op[o] = A!Off
    BY <1>1 DEF A!Start, A!At, WaitsOne
  <2>2. A!TypeOK'
    BY <2>0, <2>1 DEF A!TypeOK, A!Off, A!Kind
  <2>3. WaitsOne'
    BY <2>1 DEF WaitsOne, A!TypeOK, A!Off, Before
  <2>4. WritesOwn'
    BY <2>1 DEF WritesOwn, A!TypeOK, A!Off
  <2>5. CancelsOwn'
    BY <2>0, <2>1 DEF CancelsOwn, A!TypeOK, A!Off, Settled
  <2>6. StaysOwn'
    BY <2>1 DEF StaysOwn, Disputed, A!TypeOK, A!Off
  <2> QED
    BY <2>2, <2>3, <2>4, <2>5, <2>6
<1>2. ASSUME NEW o \in Op, A!Resolve(o) PROVE ArchivesInv'
  <2>1. PICK i \in DOMAIN Candidates[op[o].kind], fell \in BOOLEAN :
           /\ op' = [op EXCEPT ![o].at = "counting", ![o].fell = fell,
                               ![o].out = Candidates[op[o].kind][i]]
           /\ ~fell => file[Candidates[op[o].kind][i]] = None
    BY <1>2, CandidateIsName DEF A!Resolve, A!Free, A!TypeOK, A!Kind
  <2> DEFINE out == Candidates[op[o].kind][i]
  <2>2. out \in Name /\ op[o].at = "resolving" /\ busy' = busy /\ file' = file
    BY <1>2, CandidateIsName DEF A!Resolve, A!At, A!TypeOK
  <2>3. op' = [op EXCEPT ![o].at = "counting", ![o].fell = fell, ![o].out = out]
        /\ (~fell => file[out] = None)
    BY <2>1
  <2> HIDE DEF out
  <2>4. A!TypeOK'
    <3>1. op[o] \in OpType
      BY DEF A!TypeOK, OpType
    <3> DEFINE rec == [op[o] EXCEPT !.at = "counting", !.fell = fell, !.out = out]
    <3>2. rec \in OpType
      BY <3>1, <2>2, <2>3 DEF OpType
    <3>3. op' = [op EXCEPT ![o] = rec]
      BY <2>2, <2>3
    <3> QED
      BY <3>2, <3>3, <2>2, <2>3, OpChanges DEF A!TypeOK
  <2>5. WaitsOne'
    BY <2>2, <2>3 DEF WaitsOne, A!TypeOK, Before
  <2>6. WritesOwn'
    BY <2>2, <2>3 DEF WritesOwn, A!TypeOK
  <2>7. CancelsOwn'
    BY <2>2, <2>3 DEF CancelsOwn, A!TypeOK, Settled
  <2>8. StaysOwn'
    BY <2>2, <2>3 DEF StaysOwn, Disputed, A!TypeOK, WritesOwn
  <2> QED
    BY SMTT(30), <2>4, <2>5, <2>6, <2>7, <2>8
<1>3. ASSUME NEW o \in Op, A!Total(o) PROVE ArchivesInv'
  <2>1. /\ op' = [op EXCEPT ![o].at = "starting", ![o].produced = op[o].out]
        /\ op[o].at = "counting" /\ file' = file /\ busy' = busy
    BY <1>3 DEF A!Total, A!At
  <2>2. A!TypeOK'
    <3>1. op[o] \in OpType
      BY DEF A!TypeOK, OpType
    <3> DEFINE rec == [op[o] EXCEPT !.at = "starting", !.produced = op[o].out]
    <3>2. rec \in OpType
      BY <3>1, <2>1 DEF OpType
    <3>3. op' = [op EXCEPT ![o] = rec]
      BY <2>1
    <3> QED
      BY <3>2, <3>3, <2>1, OpChanges DEF A!TypeOK
  <2>5. WaitsOne'
    BY <2>1 DEF WaitsOne, A!TypeOK, Before
  <2>6. WritesOwn'
    BY <2>1 DEF WritesOwn, A!TypeOK
  <2>3. CancelsOwn'
    BY <2>1 DEF CancelsOwn, WritesOwn, A!TypeOK, Settled
  <2>4. StaysOwn'
    BY <2>1 DEF StaysOwn, Disputed, A!TypeOK, WritesOwn
  <2> QED
    BY <2>2, <2>3, <2>4, <2>5, <2>6
<1>4. ASSUME NEW o \in Op, A!Begins(o) PROVE ArchivesInv'
  <2>1. /\ op' = [op EXCEPT ![o].at = "running", ![o].wrote = TRUE]
        /\ op[o].at = "starting" /\ busy' = busy /\ op[o].out \in Name
        /\ file' = [file EXCEPT ![op[o].out] = o]
    BY <1>4 DEF A!Begins, A!At, WritesOwn
  <2>2. A!TypeOK'
    <3>1. op[o] \in OpType
      BY DEF A!TypeOK, OpType
    <3> DEFINE rec == [op[o] EXCEPT !.at = "running", !.wrote = TRUE]
    <3>2. rec \in OpType
      BY <3>1, <2>1 DEF OpType
    <3>3. op' = [op EXCEPT ![o] = rec]
      BY <2>1
    <3> QED
      BY <3>2, <3>3, <2>1, OpChanges DEF A!TypeOK
  <2>8. WaitsOne'
    BY <2>1 DEF WaitsOne, A!TypeOK, Before
  <2>3. \A r \in Op : op[r].at \in {"counting", "starting"} => r = o
    BY <2>1 DEF WaitsOne, Before
  <2>4. WritesOwn'
    BY <2>1, <2>3 DEF WritesOwn, A!TypeOK
  <2>5. CancelsOwn'
    BY <2>1 DEF CancelsOwn, A!TypeOK, Settled
  <2>6. \A n \in Name : Disputed(n) => Disputed(n)'
    BY <2>1 DEF Disputed, A!TypeOK
  <2>7. StaysOwn'
    <3>1. ASSUME NEW r \in Op, r # o,
                 (op[r].wrote /\ op[r].cancel # "done" /\ ~Disputed(op[r].out))'
          PROVE  (file[op[r].out] = r)'
      <4>1. op'[r] = op[r]
        BY <2>1, <3>1 DEF A!TypeOK
      <4>2. file[op[r].out] = r
        <5>1. op[r].wrote /\ op[r].cancel # "done" /\ op[r].out \in Name
          BY <3>1, <4>1 DEF WritesOwn
        <5>2. ~Disputed(op[r].out)'
          BY <3>1
        <5>3. ~Disputed(op[r].out)
          BY <2>6, <5>1, <5>2, <4>1
        <5> QED
          BY <5>1, <5>3 DEF StaysOwn
      <4>3. CASE op[r].out # op[o].out
        BY <2>1, <4>1, <4>2, <4>3 DEF A!TypeOK
      <4>4. CASE op[r].out = op[o].out
        BY <2>1, <3>1, <4>1, <4>2, <4>4 DEF WritesOwn, Disputed, A!TypeOK
      <4> QED
        BY <4>3, <4>4
    <3>2. (file[op[o].out] = o)'
      BY <2>1 DEF A!TypeOK
    <3> QED
      BY <3>1, <3>2 DEF StaysOwn
  <2> QED
    BY <2>2, <2>4, <2>5, <2>7, <2>8
\* Ending, and going quiet, change neither a name nor a file.
<1>5. ASSUME NEW o \in Op, A!Ends(o) PROVE ArchivesInv'
  <2>1. /\ op' = [op EXCEPT ![o].at = "over"] /\ op[o].at \notin {"off", "over"}
        /\ busy' = IF busy = o THEN None ELSE busy
        /\ file' = file
    BY <1>5 DEF A!Ends, A!Goes, A!Frees
  <2>2. A!TypeOK'
    BY <2>1 DEF A!TypeOK
  <2>5. WaitsOne'
    BY <2>1 DEF WaitsOne, A!TypeOK, Before
  <2>6. WritesOwn'
    BY <2>1 DEF WritesOwn, A!TypeOK
  <2>3. CancelsOwn'
    BY <2>1 DEF CancelsOwn, WritesOwn, A!TypeOK, Settled
  <2>4. StaysOwn'
    BY <2>1 DEF StaysOwn, Disputed, A!TypeOK
  <2> QED
    BY <2>2, <2>3, <2>4, <2>5, <2>6
<1>6. ASSUME NEW o \in Op, A!GoesQuiet(o) PROVE ArchivesInv'
  <2>1. op' = op /\ file' = file /\ busy' = None /\ op[o].at = "running" /\ busy = o
    BY <1>6 DEF A!GoesQuiet, A!At
  <2>2. A!TypeOK'
    BY <2>1 DEF A!TypeOK
  <2>3. WaitsOne'
    BY <2>1 DEF WaitsOne, A!TypeOK, Before
  <2>4. WritesOwn' /\ CancelsOwn' /\ StaysOwn'
    BY <2>1 DEF WritesOwn, CancelsOwn, StaysOwn, Disputed
  <2> QED
    BY <2>2, <2>3, <2>4
<1>7. ASSUME NEW o \in Op, A!Cancel(o) PROVE ArchivesInv'
  <2>1. /\ op' = [op EXCEPT ![o].cancel = "asked", ![o].target = op[o].produced,
                            ![o].early = op[o].at \in {"resolving", "counting"}]
        /\ busy = o /\ op[o].cancel = "none" /\ file' = file /\ busy' = busy
    BY <1>7 DEF A!Cancel
  <2>2. op[o].at \in {"resolving", "counting", "starting", "running"}
        /\ op[o].produced \in Name
    BY <2>1 DEF WaitsOne, CancelsOwn, A!TypeOK, Before
  <2>3. A!TypeOK'
    <3>1. op[o] \in OpType
      BY DEF A!TypeOK, OpType
    <3> DEFINE rec == [op[o] EXCEPT !.cancel = "asked", !.target = op[o].produced,
                                      !.early = op[o].at \in {"resolving", "counting"}]
    <3>4. (op[o].at \in {"resolving", "counting"}) \in BOOLEAN
      OBVIOUS
    <3>2. rec \in OpType
      BY <3>1, <3>4, <2>1, <2>2 DEF OpType
    <3>3. op' = [op EXCEPT ![o] = rec]
      BY <2>1, <2>2
    <3> QED
      BY <3>2, <3>3, <2>1, <2>2, OpChanges DEF A!TypeOK
  <2>6. WaitsOne'
    BY <2>1, <2>2 DEF WaitsOne, A!TypeOK, Before
  <2>7. WritesOwn'
    BY <2>1, <2>2 DEF WritesOwn, A!TypeOK
  <2>4. CancelsOwn'
    BY SMTT(30), <2>1, <2>2 DEF CancelsOwn, A!TypeOK, Settled
  <2>5. StaysOwn'
    <3>1. /\ \A p \in Op \ {o} : op'[p] = op[p]
          /\ op'[o].out = op[o].out /\ op'[o].fell = op[o].fell
          /\ op'[o].wrote = op[o].wrote /\ op'[o].cancel = "asked"
      BY <2>1 DEF A!TypeOK
    <3>2. ~op[o].early /\ op[o].at # "over"
      BY <2>1, <2>2 DEF CancelsOwn
    <3>3. \A n : Disputed(n) => Disputed(n)'
      BY <3>1, <3>2 DEF Disputed
    <3>4. \A p \in Op : /\ op'[p].out = op[p].out /\ op'[p].wrote = op[p].wrote
                        /\ op'[p].cancel # "done" => op[p].cancel # "done"
      BY <2>1, <3>1
    <3> QED
      BY <2>1, <3>3, <3>4 DEF StaysOwn
  <2> QED
    BY <2>3, <2>4, <2>5, <2>6, <2>7
<1>8. ASSUME NEW o \in Op, A!Kills(o) PROVE ArchivesInv'
  <2>1. /\ op' = [op EXCEPT ![o].cancel = "sleeping", ![o].killed = op[o].at = "running",
                            ![o].at = IF @ = "running" THEN "over" ELSE @]
        /\ op[o].cancel = "asked" /\ file' = file
        /\ busy' = IF op[o].at = "running" /\ busy = o THEN None ELSE busy
    BY <1>8 DEF A!Kills, A!At, A!Frees
  <2>2. A!TypeOK'
    <3>1. op[o] \in OpType
      BY DEF A!TypeOK, OpType
    <3> DEFINE rec == [op[o] EXCEPT !.cancel = "sleeping", !.killed = op[o].at = "running",
                                      !.at = IF @ = "running" THEN "over" ELSE @]
    <3>2. rec \in OpType
      BY <3>1, <2>1 DEF OpType
    <3>3. op' = [op EXCEPT ![o] = rec]
      BY <2>1
    <3> QED
      BY SMTT(30), <3>2, <3>3, <2>1, OpChanges DEF A!TypeOK
  <2>5. WaitsOne'
    BY <2>1, OffNotCancelled DEF WaitsOne, A!TypeOK, Before
  <2>6. WritesOwn'
    BY <2>1 DEF WritesOwn, A!TypeOK
  <2>3. CancelsOwn'
    BY <2>1 DEF CancelsOwn, WritesOwn, A!TypeOK, Settled
  <2>7. \A r \in Op :
           /\ op'[r].out = op[r].out
           /\ op'[r].target = op[r].target
           /\ op'[r].fell <=> op[r].fell
           /\ op'[r].early <=> op[r].early
           /\ op'[r].wrote <=> op[r].wrote
           /\ op'[r].cancel = "done" <=> op[r].cancel = "done"
           /\ op'[r].at = "over" /\ ~op[r].wrote => op[r].at = "over"
           /\ op[r].at = "over" => op'[r].at = "over"
    BY <2>1 DEF A!TypeOK, WritesOwn
  <2>8. \A n \in Name : Disputed(n)' <=> Disputed(n)
    BY <2>7 DEF Disputed
  <2>4. StaysOwn'
    <3>1. ASSUME NEW r \in Op,
                 (op[r].wrote /\ op[r].cancel # "done" /\ ~Disputed(op[r].out))'
          PROVE  (file[op[r].out] = r)'
      <4>1. op[r].wrote /\ op[r].cancel # "done" /\ op[r].out \in Name
        BY <2>7, <3>1 DEF WritesOwn
      <4>2. ~Disputed(op[r].out)
        BY <2>7, <2>8, <3>1, <4>1
      <4> QED
        BY <2>1, <2>7, <4>1, <4>2 DEF StaysOwn
    <3> QED
      BY <3>1 DEF StaysOwn
  <2> QED
    BY <2>2, <2>3, <2>4, <2>5, <2>6
<1>9. ASSUME NEW o \in Op, A!Removes(o) PROVE ArchivesInv'
  <2>1. /\ op' = [op EXCEPT ![o].cancel = "done"] /\ busy' = busy
        /\ op[o].cancel = "sleeping" /\ op[o].target \in Name
        /\ file' = [file EXCEPT ![op[o].target] = None]
    BY <1>9 DEF A!Removes, CancelsOwn
  <2>2. A!TypeOK'
    BY <2>1 DEF A!TypeOK
  <2>7. WaitsOne'
    BY <2>1, OffNotCancelled DEF WaitsOne, A!TypeOK, Before
  <2>3. WritesOwn'
    BY <2>1 DEF WritesOwn, A!TypeOK
  <2>4. CancelsOwn'
    BY <2>1 DEF CancelsOwn, WritesOwn, A!TypeOK, Settled
  <2>5. \A n \in Name : Disputed(n)' <=> Disputed(n)
    BY <2>1 DEF Disputed, A!TypeOK
  <2>6. ASSUME NEW r \in Op,
               (op[r].wrote /\ op[r].cancel # "done" /\ ~Disputed(op[r].out))'
        PROVE  (file[op[r].out] = r)'
    <3>0. r # o /\ op'[r] = op[r]
      BY <2>1, <2>6 DEF A!TypeOK
    <3>1. r # o /\ op'[r] = op[r] /\ op[r].out \in Name
      BY <2>6, <3>0 DEF WritesOwn
    <3>2. file[op[r].out] = r /\ ~Disputed(op[r].out)
      BY <2>5, <2>6, <3>1 DEF StaysOwn
    <3>3. op[o].target # op[r].out
      <4>1. SUFFICES ASSUME op[o].target = op[r].out PROVE FALSE
        OBVIOUS
      <4>2. ~op[o].early /\ op[o].target = op[o].out /\ op[o].at \in Settled
            /\ (op[o].at = "over" => op[o].wrote) /\ ~op[o].fell
        BY <2>1, <3>2, <4>1 DEF Disputed, CancelsOwn
      <4>3. CASE op[o].wrote
        BY <2>1, <3>1, <3>2, <4>1, <4>2, <4>3 DEF StaysOwn
      <4>4. CASE ~op[o].wrote
        BY <3>1, <3>2, <4>1, <4>2, <4>4 DEF WritesOwn, Settled
      <4> QED
        BY <4>3, <4>4
    <3> QED
      BY <2>1, <3>1, <3>2, <3>3 DEF A!TypeOK
  <2>8. StaysOwn'
    BY <2>6 DEF StaysOwn
  <2> QED
    BY <2>2, <2>3, <2>4, <2>7, <2>8
<1>10. ASSUME UNCHANGED A!vars PROVE ArchivesInv'
  BY <1>10 DEF A!vars, A!TypeOK, WaitsOne, WritesOwn, CancelsOwn, StaysOwn, Disputed
<1> QED
  BY <1>1, <1>2, <1>3, <1>4, <1>5, <1>6, <1>7, <1>8, <1>9, <1>10 DEF A!Next

\* The invariant holds in every behaviour.
LEMMA ArchivesAlways == A!Spec => []ArchivesInv
<1>1. A!Init => ArchivesInv
  BY ArchivesInit, WorkAssumption
<1>2. ArchivesInv /\ [A!Next]_A!vars => ArchivesInv'
  BY ArchivesNext, WorkAssumption
<1> QED
  BY <1>1, <1>2, PTL DEF A!Spec

\* What a cancelled operation wrote is gone, when its cancel found it at work.
THEOREM CancelAlwaysUndoes == A!Spec => []CancelUndoes
<1>1. ArchivesInv => A!CancelUndoes
  BY DEF ArchivesInv, CancelsOwn, A!CancelUndoes
<1> QED
  BY <1>1, ArchivesAlways, PTL DEF CancelUndoes

\* What was there before, or another operation made, is neither overwritten
\* nor removed, but for the three exceptions OthersSpared names.
THEOREM OthersAlwaysSpared == A!Spec => OthersSpared
<1>1. ASSUME A!ArchivesAssumption, ArchivesInv, A!Next, NEW n \in Name,
             file[n] # None, file'[n] # file[n]
      PROVE  \E o \in Op :
                \/ file[n] = o /\ op[o].cancel = "sleeping" /\ op[o].target = n
                \/ op[o].out = n /\ op[o].fell
                \/ op[o].target = n /\ (op[o].early \/ ~op[o].wrote)
  <2>1. PICK o \in Op : A!Begins(o) \/ A!Removes(o)
    BY <1>1 DEF A!Next, A!Start, A!Resolve, A!Total, A!Ends, A!GoesQuiet, A!Cancel, A!Kills
  <2>2. CASE A!Begins(o)
    BY <1>1, <2>2 DEF A!Begins, A!At, ArchivesInv, A!TypeOK, WritesOwn
  <2>3. CASE A!Removes(o)
    <3>1. op[o].cancel = "sleeping" /\ op[o].target = n
      BY <1>1, <2>3 DEF A!Removes, ArchivesInv, A!TypeOK
    <3>2. CASE ~op[o].early /\ op[o].wrote
      <4>1. op[o].out = n
        BY <1>1, <3>1, <3>2 DEF ArchivesInv, CancelsOwn
      <4>2. file[n] = o \/ Disputed(n)
        BY <1>1, <3>1, <3>2, <4>1 DEF ArchivesInv, StaysOwn
      <4> QED
        BY <3>1, <4>2 DEF Disputed
    <3> QED
      BY <3>1, <3>2
  <2> QED
    BY SMTT(30), <2>1, <2>2, <2>3
<1>2. ArchivesInv /\ [A!Next]_A!vars =>
        [\A n \in Name : file[n] # None /\ file'[n] # file[n] =>
            \E o \in Op :
               \/ file[n] = o /\ op[o].cancel = "sleeping" /\ op[o].target = n
               \/ op[o].out = n /\ op[o].fell
               \/ op[o].target = n /\ (op[o].early \/ ~op[o].wrote)]_A!vars
  BY <1>1, WorkAssumption
<1> QED
  BY <1>2, ArchivesAlways, PTL DEF OthersSpared, A!Spec, A!OthersSpared

-----------------------------------------------------------------------------
(* Transfers.                                                              *)

TaskType ==
    [at : {"off"} \cup F!Download \cup F!Upload \cup F!Ended, place : Place \cup {None},
     is : {"full", "empty", "missing"}, got : 0..Pieces, eof : BOOLEAN,
     exit : {"none", "ok", "bad"}, linked : BOOLEAN, guessed : BOOLEAN,
     left : 0..MaxFiles, command : {"none", "running", "ok", "bad", "killed"},
     whole : BOOLEAN, told : BOOLEAN, listens : BOOLEAN, cancelled : BOOLEAN]

TasksTyped ==
    /\ task \in [Transfer -> TaskType]
    /\ disk = [p \in Place |-> disk[p]]

\* Nobody writes to a place before a download is given it.
Untouched(p) ==
    (\A t \in Transfer : task[t].place # p) => disk[p] \in {None, Old}

Lines(t, n) == [j \in 1..n |-> F!Content(t)]

\* A download that has its place to itself finds there what it has written.
Kept(t) ==
    LET lines == disk[task[t].place]
    IN  /\ task[t].at \in {"sizing", "checking", "opening"} =>
              lines \in {None, Old} /\ task[t].got = 0
        /\ F!At(t, "checking") /\ task[t].is = "full" => task[t].guessed
        /\ F!At(t, "receiving") => task[t].linked /\ lines = Lines(t, task[t].got)
        /\ F!At(t, "complete") /\ task[t].is = "full" /\ ~task[t].guessed =>
              lines = F!Whole(t) \/ ~task[t].eof
        /\ F!At(t, "failed") => lines \in {None, Old, Removed}

\* Every stage of a task has what it works with; a status an upload has heard
\* is its command's.
InOrder(t) ==
    /\ F!At(t, "off") => task[t].place = None
    /\ task[t].at \in F!Download => task[t].place \in Place
    /\ task[t].at \in F!Upload => task[t].place = None
    /\ task[t].at \in {"sizing", "checking", "opening"} => task[t].exit = "none"
    /\ F!At(t, "receiving") => ~(task[t].eof /\ task[t].exit # "none")
    /\ task[t].at \in {"reading", "connecting", "sending", "waiting"} => task[t].left # 0
    /\ task[t].at \in F!Upload /\ task[t].exit # "none" =>
          F!At(t, "waiting") /\ task[t].command = task[t].exit
    /\ task[t].told => task[t].whole

TransfersInv ==
    /\ TasksTyped
    /\ \A p \in Place : Untouched(p)
    /\ \A t \in Transfer : task[t].place \in Place /\ F!Alone(t) => Kept(t)
    /\ \A t \in Transfer : InOrder(t)

\* What a step of a transfer leaves alone: the others, and all files but its
\* own.
SameTask(u) ==
    /\ task'[u].at = task[u].at /\ task'[u].place = task[u].place
    /\ task'[u].is = task[u].is /\ task'[u].got = task[u].got
    /\ task'[u].eof = task[u].eof /\ task'[u].exit = task[u].exit
    /\ task'[u].guessed = task[u].guessed /\ task'[u].left = task[u].left
    /\ task'[u].command = task[u].command
    /\ task'[u].whole = task[u].whole /\ task'[u].told = task[u].told

Acts(t) ==
    /\ \A u \in Transfer \ {t} :
          /\ SameTask(u)
          /\ task[u].place # task'[t].place => task'[u].linked = task[u].linked
    /\ task[t].place \in {None, task'[t].place}
    /\ \A p \in Place : p # task'[t].place => disk'[p] = disk[p]

\* A step that changes one transfer's record, and at most its own place's file.
LEMMA Acting ==
    ASSUME TasksTyped, NEW t \in Transfer, NEW rec \in TaskType,
           task' = [task EXCEPT ![t] = rec], task[t].place \in {None, rec.place},
           \/ disk' = disk
           \/ \E lines : disk' = [disk EXCEPT ![rec.place] = lines]
    PROVE  TasksTyped' /\ Acts(t) /\ task'[t] = rec
<1>1. task' \in [Transfer -> TaskType] /\ task'[t] = rec
  BY DEF TasksTyped
<1>2. \A u \in Transfer \ {t} : task'[u] = task[u]
  BY DEF TasksTyped
<1>3. disk' = [p \in Place |-> disk'[p]] /\ \A p \in Place : p # rec.place => disk'[p] = disk[p]
  BY DEF TasksTyped
<1> QED
  BY <1>1, <1>2, <1>3 DEF TasksTyped, Acts, SameTask

\* A place that nobody else has now, nobody else has had.
LEMMA OthersKept ==
    ASSUME TransfersInv, NEW t \in Transfer, Acts(t), TasksTyped'
    PROVE  /\ \A p \in Place : Untouched(p)'
           /\ \A u \in Transfer \ {t} :
                 InOrder(u)' /\ ((task[u].place \in Place /\ F!Alone(u))' => Kept(u)')
           /\ task'[t].place \in Place /\ F!Alone(t)' =>
                 \A u \in Transfer \ {t} : task[u].place # task'[t].place
<1> USE DEF TransfersInv
<1>0. None \notin Place
  BY WorkAssumption DEF F!TransfersAssumption
<1>1. ASSUME NEW p \in Place, \A u \in Transfer : task'[u].place # p
      PROVE  disk'[p] \in {None, Old}
  <2>1. \A u \in Transfer : task[u].place # p
    BY <1>0, <1>1 DEF Acts, SameTask
  <2>2. disk'[p] = disk[p]
    BY <1>1 DEF Acts
  <2> QED
    BY <2>1, <2>2 DEF Untouched
<1>2. ASSUME NEW u \in Transfer \ {t} PROVE InOrder(u)'
  BY <1>2 DEF InOrder, Acts, SameTask, F!At
<1>3. ASSUME NEW u \in Transfer \ {t}, task'[u].place \in Place, F!Alone(u)'
      PROVE  Kept(u)'
  <2>1. SameTask(u) /\ task'[t].place # task[u].place
    BY <1>3 DEF Acts, SameTask, F!Alone
  <2>2. task'[u].linked = task[u].linked /\ disk'[task[u].place] = disk[task[u].place]
    BY <1>3, <2>1 DEF Acts, SameTask
  <2>3. F!Alone(u)
    <3>1. ASSUME NEW v \in Transfer \ {u} PROVE task[v].place # task[u].place
      <4>1. task'[v].place # task[u].place
        BY <1>3, <2>1 DEF F!Alone, SameTask
      <4>2. CASE v = t
        BY <1>0, <1>3, <2>1, <4>1, <4>2 DEF Acts, SameTask
      <4>3. CASE v # t
        BY <4>1, <4>3 DEF Acts, SameTask
      <4> QED
        BY <4>2, <4>3
    <3> QED
      BY <3>1 DEF F!Alone
  <2>4. Kept(u)
    BY <1>3, <2>1, <2>3 DEF SameTask
  <2>5. F!Content(u)' = F!Content(u)
    BY <2>1 DEF F!Content, SameTask
  <2>6. F!Whole(u)' = F!Whole(u) /\ Lines(u, task[u].got)' = Lines(u, task[u].got)
    BY <2>1, <2>5 DEF F!Whole, Lines, SameTask
  <2> QED
    BY <2>1, <2>2, <2>4, <2>5, <2>6 DEF Kept, SameTask, F!At
<1>4. ASSUME F!Alone(t)', NEW u \in Transfer \ {t} PROVE task[u].place # task'[t].place
  BY <1>4 DEF F!Alone, Acts, SameTask
<1> QED
  BY <1>1, <1>2, <1>3, <1>4 DEF Untouched

\* It is enough to look at the transfer that acts, where it keeps its place.
LEMMA OwnKept ==
    ASSUME TransfersInv, NEW t \in Transfer, Acts(t), TasksTyped', InOrder(t)',
           task'[t].place = task[t].place,
           task[t].place \in Place /\ Kept(t) => Kept(t)'
    PROVE  TransfersInv'
<1>1. task'[t].place \in Place /\ F!Alone(t)' => F!Alone(t)
  BY OthersKept DEF F!Alone
<1>2. task'[t].place \in Place /\ F!Alone(t)' => Kept(t)'
  BY <1>1 DEF TransfersInv
<1> QED
  BY <1>2, OthersKept DEF TransfersInv

\* A transfer that has not begun is a record of the type.
LEMMA OffTyped == F!Off \in TaskType
<1>1. Pieces \in Nat /\ MaxFiles \in Nat
  BY WorkAssumption DEF F!TransfersAssumption
<1> QED
  BY <1>1 DEF F!Off, TaskType

\* The invariant holds at the start.
LEMMA TransfersInit ==
    ASSUME F!Init
    PROVE  TransfersInv
<1>1. task = [t \in Transfer |-> F!Off] /\ disk \in [Place -> {None, Old}]
      /\ None \notin Place
  BY WorkAssumption DEF F!Init, F!TransfersAssumption
<1>3. TasksTyped
  BY <1>1, OffTyped DEF TasksTyped
<1>4. \A t \in Transfer : InOrder(t)
  BY <1>1 DEF InOrder, F!Off, F!At, F!Download, F!Upload
<1> QED
  BY <1>1, <1>3, <1>4 DEF TransfersInv, Untouched, F!Off

\* Nothing of a file or of its place changes.
LEMMA TellsOnly ==
    ASSUME TransfersInv, NEW t \in Transfer, F!Listens(t) \/ F!CancelDrag(t)
    PROVE  TransfersInv'
<1>1. task[t] \in TaskType /\ disk' = disk
  BY DEF TransfersInv, TasksTyped, F!Listens, F!CancelDrag
<1>2. PICK rec \in TaskType :
         /\ task' = [task EXCEPT ![t] = rec]
         /\ \/ rec = [task[t] EXCEPT !.listens = TRUE]
            \/ rec = [task[t] EXCEPT !.cancelled = TRUE]
  <2>1. [task[t] EXCEPT !.listens = TRUE] \in TaskType
        /\ [task[t] EXCEPT !.cancelled = TRUE] \in TaskType
    BY <1>1 DEF TaskType
  <2> QED
    BY <2>1 DEF F!Listens, F!CancelDrag
<1>3. /\ rec.at = task[t].at /\ rec.place = task[t].place /\ rec.is = task[t].is
      /\ rec.got = task[t].got /\ rec.eof = task[t].eof /\ rec.exit = task[t].exit
      /\ rec.linked = task[t].linked /\ rec.guessed = task[t].guessed
      /\ rec.left = task[t].left /\ rec.command = task[t].command
      /\ rec.whole = task[t].whole /\ rec.told = task[t].told
  BY <1>1, <1>2 DEF TaskType
<1>4. TasksTyped' /\ Acts(t) /\ task'[t] = rec
  BY <1>1, <1>2, <1>3, Acting DEF TransfersInv
<1>5. InOrder(t)'
  BY <1>3, <1>4 DEF InOrder, F!At, TransfersInv
<1>6. Kept(t) => Kept(t)'
  <2>1. F!Whole(t)' = F!Whole(t) /\ Lines(t, task[t].got)' = Lines(t, task[t].got)
    BY <1>3, <1>4 DEF F!Content, F!Whole, Lines
  <2> QED
    BY <1>1, <1>3, <1>4, <2>1 DEF Kept, F!At
<1> QED
  BY <1>3, <1>4, <1>5, <1>6, OwnKept

\* A download begins at a place.
LEMMA BeginsDownload ==
    ASSUME TransfersInv, NEW t \in Transfer, NEW p \in Place,
           NEW is \in {"full", "empty", "missing"},
           F!At(t, "off"), F!Begins(t, p, is), disk' = disk
    PROVE  TransfersInv'
<1> DEFINE rec == [F!Off EXCEPT !.place = p, !.is = is, !.at = "sizing"]
<1>1. rec \in TaskType /\ rec.at = "sizing" /\ rec.place = p /\ rec.exit = "none"
      /\ rec.got = 0 /\ rec.told = TRUE /\ rec.whole = TRUE
  <2>1. rec \in TaskType
    BY OffTyped DEF TaskType, F!Download
  <2> QED
    BY <2>1 DEF F!Off
<1>2. task' = [task EXCEPT ![t] = rec] /\ task[t].place = None
  BY DEF F!Begins, TransfersInv, InOrder
<1> HIDE DEF rec
<1>3. TasksTyped' /\ Acts(t) /\ task'[t] = rec
  BY <1>1, <1>2, Acting DEF TransfersInv
<1>4. InOrder(t)'
  BY <1>1, <1>3 DEF InOrder, F!At, F!Download, F!Upload
<1>5. ASSUME F!Alone(t)' PROVE Kept(t)'
  <2>1. \A u \in Transfer : task[u].place # p
    BY <1>1, <1>2, <1>3, <1>5, OthersKept, WorkAssumption DEF F!TransfersAssumption
  <2>2. disk[p] \in {None, Old}
    BY <2>1 DEF TransfersInv, Untouched
  <2> QED
    BY <1>1, <1>3, <2>2 DEF Kept, F!At
<1> QED
  BY <1>3, <1>4, <1>5, OthersKept DEF TransfersInv

\* A step of a download's that keeps its place.
LEMMA DownloadStep ==
    ASSUME TransfersInv, NEW t \in Transfer, NEW rec \in TaskType,
           task' = [task EXCEPT ![t] = rec],
           task[t].at \in F!Download, rec.at \in F!Download \cup F!Ended,
           rec.place = task[t].place, rec.told = task[t].told, rec.whole = task[t].whole,
           rec.at \in {"sizing", "checking", "opening"} => rec.exit = "none",
           rec.at = "receiving" => ~(rec.eof /\ rec.exit # "none"),
           disk' = disk \/ \E lines : disk' = [disk EXCEPT ![rec.place] = lines],
           Kept(t) => Kept(t)'
    PROVE  TransfersInv'
<1>1. TasksTyped' /\ Acts(t) /\ task'[t] = rec
  BY Acting DEF TransfersInv
<1>2. InOrder(t)'
  BY <1>1 DEF InOrder, TransfersInv, F!At, F!Download, F!Upload, F!Ended
<1> QED
  BY <1>1, <1>2, OwnKept

\* A download up to its first data: sized, found empty, its file created, or
\* given up.
LEMMA OpensFile ==
    ASSUME TransfersInv, NEW t \in Transfer,
           F!Sized(t) \/ F!FoundEmpty(t) \/ F!Creates(t) \/ (F!GivesUp(t) /\ task[t].at \in F!Download)
    PROVE  TransfersInv'
<1>0. task[t] \in TaskType
  BY DEF TransfersInv, TasksTyped
<1>9. InOrder(t)
  BY DEF TransfersInv
<1>1. CASE F!Sized(t) /\ task[t].is = "full" /\ F!Goes(t, "opening")
  <2> DEFINE rec == [task[t] EXCEPT !.at = "opening"]
  <2>1. rec \in TaskType
    BY <1>0 DEF TaskType, F!Download
  <2>2. task' = [task EXCEPT ![t] = rec] /\ disk' = disk /\ F!At(t, "sizing")
    BY <1>1 DEF F!Goes, F!Sized
  <2>3. task'[t] = rec
    BY <2>2 DEF TransfersInv, TasksTyped
  <2>4. Kept(t) => Kept(t)'
    BY <1>0, <2>2, <2>3 DEF Kept, F!At, TaskType
  <2> QED
    BY ZenonT(60), <1>0, <2>1, <2>2, <2>4, DownloadStep, <1>9 DEF InOrder, TaskType, F!At, F!Download
<1>2. CASE F!Sized(t) /\ ~(task[t].is = "full" /\ F!Goes(t, "opening"))
  <2> DEFINE rec == [task[t] EXCEPT !.at = "checking", !.guessed = task[t].is = "full"]
  <2>1. rec \in TaskType
    <3>1. (task[t].is = "full") \in BOOLEAN
      OBVIOUS
    <3> QED
      BY <1>0, <3>1 DEF TaskType, F!Download
  <2>2. task' = [task EXCEPT ![t] = rec] /\ disk' = disk /\ F!At(t, "sizing")
    BY <1>2 DEF F!Sized
  <2>3. task'[t] = rec
    BY <2>2 DEF TransfersInv, TasksTyped
  <2>5. /\ rec.at = "checking" /\ rec.is = task[t].is /\ rec.place = task[t].place
        /\ rec.got = task[t].got /\ rec.exit = task[t].exit
        /\ rec.told = task[t].told /\ rec.whole = task[t].whole
        /\ rec.is = "full" => rec.guessed
    BY <1>0 DEF TaskType
  <2> HIDE DEF rec
  <2>4. Kept(t) => Kept(t)'
    BY <2>2, <2>3, <2>5 DEF Kept, F!At
  <2> QED
    BY <2>1, <2>2, <2>4, <2>5, DownloadStep, <1>9 DEF InOrder, F!At, F!Download
<1>3. CASE F!FoundEmpty(t)
  <2> DEFINE rec == [task[t] EXCEPT !.at = "complete", !.linked = FALSE]
  <2>1. rec \in TaskType
    BY <1>0 DEF TaskType, F!Ended
  <2>2. /\ task' = [task EXCEPT ![t] = rec] /\ F!At(t, "checking")
        /\ disk' = [disk EXCEPT ![task[t].place] = <<>>]
    BY <1>3 DEF F!FoundEmpty, F!Ends
  <2>3. task'[t] = rec
    BY <2>2 DEF TransfersInv, TasksTyped
  <2>5. /\ rec.at = "complete" /\ rec.is = task[t].is /\ rec.place = task[t].place
        /\ rec.told = task[t].told /\ rec.whole = task[t].whole
        /\ rec.guessed = task[t].guessed
    BY <1>0 DEF TaskType
  <2> HIDE DEF rec
  <2>4. Kept(t) => Kept(t)'
    BY <2>2, <2>3, <2>5 DEF Kept, F!At
  <2> QED
    BY <2>1, <2>2, <2>4, <2>5, DownloadStep, <1>9 DEF InOrder, F!At, F!Download, F!Ended
<1>4. CASE F!Creates(t)
  <2> DEFINE rec == [task[t] EXCEPT !.at = "receiving", !.linked = TRUE]
  <2>1. rec \in TaskType
    BY <1>0 DEF TaskType, F!Download
  <2>2. /\ task' = [task EXCEPT ![t] = rec] /\ F!At(t, "opening")
        /\ disk' = [disk EXCEPT ![task[t].place] = <<>>]
    BY <1>4 DEF F!Creates
  <2>3. task'[t] = rec /\ disk'[task[t].place] = <<>>
    BY <2>2 DEF TransfersInv, TasksTyped, InOrder, F!At, F!Download
  <2>5. /\ rec.at = "receiving" /\ rec.linked /\ rec.place = task[t].place
        /\ rec.got = task[t].got /\ rec.exit = task[t].exit
        /\ rec.told = task[t].told /\ rec.whole = task[t].whole
    BY <1>0 DEF TaskType
  <2>6. Lines(t, 0)' = <<>>
    BY DEF Lines
  <2> HIDE DEF rec
  <2>4. Kept(t) => Kept(t)'
    BY <2>2, <2>3, <2>5, <2>6 DEF Kept, F!At
  <2> QED
    BY <2>1, <2>2, <2>4, <2>5, DownloadStep, <1>9 DEF InOrder, F!At, F!Download
<1>5. CASE F!GivesUp(t) /\ task[t].at \in F!Download
  <2> DEFINE rec == [task[t] EXCEPT !.at = "failed", !.linked = FALSE]
  <2>1. rec \in TaskType
    BY <1>0 DEF TaskType, F!Ended
  <2>2. /\ task' = [task EXCEPT ![t] = rec] /\ disk' = disk
        /\ task[t].at \in {"sizing", "checking", "opening"}
    BY <1>5 DEF F!GivesUp, F!Ends, F!Download, F!Upload
  <2>3. task'[t] = rec
    BY <2>2 DEF TransfersInv, TasksTyped
  <2>4. Kept(t) => Kept(t)'
    BY <1>0, <2>2, <2>3 DEF Kept, F!At, TaskType
  <2> QED
    BY ZenonT(60), <1>0, <1>5, <2>1, <2>2, <2>4, DownloadStep DEF TaskType, F!Ended
<1> QED
  BY <1>1, <1>2, <1>3, <1>4, <1>5

\* A line more of a file that is whole so far.
LEMMA PutNext ==
    ASSUME NEW got \in Nat, NEW line
    PROVE  F!Put([j \in 1..got |-> line], got + 1, line) = [j \in 1..(got + 1) |-> line]
<1> DEFINE lines == [j \in 1..got |-> line]
<1>1. Len(lines) = got /\ \A j \in 1..got : lines[j] = line
  <2>1. lines \in Seq({line})
    OBVIOUS
  <2> QED
    BY <2>1
<1> HIDE DEF lines
<1>2. \A j \in 1..(got + 1) : j = got + 1 \/ j \in 1..got
  OBVIOUS
<1> QED
  BY <1>1, <1>2 DEF F!Put

\* A piece is put where its number says, in the file the transfer has linked.
LEMMA Hearing ==
    ASSUME TransfersInv, NEW t \in Transfer, F!HearData(t)
    PROVE  TransfersInv'
<1>0. /\ task[t] \in TaskType /\ Pieces \in Nat /\ F!At(t, "receiving") /\ ~task[t].eof
      /\ task[t].place \in Place
  BY WorkAssumption DEF TransfersInv, TasksTyped, F!TransfersAssumption, F!HearData, InOrder, F!At, F!Download
<1> DEFINE i == task[t].got + 1
           rec == [task[t] EXCEPT !.got = i]
<1>1. task[t].got \in Nat /\ i \in 0..Pieces
  BY <1>0 DEF F!HearData, TaskType
<1>2. rec \in TaskType
  BY <1>0, <1>1 DEF TaskType
<1>3. /\ rec.at = "receiving" /\ rec.is = task[t].is /\ rec.place = task[t].place
      /\ rec.got = i /\ rec.linked = task[t].linked /\ rec.eof = task[t].eof
      /\ rec.told = task[t].told /\ rec.whole = task[t].whole
  BY <1>0 DEF TaskType, F!At
<1>4. /\ task' = [task EXCEPT ![t] = rec]
      /\ disk' = IF task[t].linked
                 THEN [disk EXCEPT ![task[t].place] = F!Put(disk[task[t].place], i, F!Content(t))]
                 ELSE disk
  BY DEF F!HearData
<1>9. InOrder(t)
  BY DEF TransfersInv
<1> HIDE DEF i, rec
<1>5. task'[t] = rec
  BY <1>4 DEF TransfersInv, TasksTyped
<1>6. Lines(t, task[t].got)' = Lines(t, i)
  BY <1>3, <1>5 DEF Lines, F!Content
<1>7. ASSUME Kept(t) PROVE Kept(t)'
  <2>1. task[t].linked /\ disk[task[t].place] = Lines(t, task[t].got)
    BY <1>0, <1>7 DEF Kept
  <2>2. disk'[task[t].place] = F!Put(disk[task[t].place], i, F!Content(t))
    BY <1>0, <1>4, <2>1 DEF TransfersInv, TasksTyped
  <2>4. F!Put(Lines(t, task[t].got), i, F!Content(t)) = Lines(t, i)
    BY <1>1, PutNext DEF Lines, i
  <2>3. disk'[task[t].place] = Lines(t, i)
    BY <2>1, <2>2, <2>4
  <2> QED
    BY <1>0, <1>3, <1>5, <1>6, <2>1, <2>3 DEF Kept, F!At
<1>8. disk' = disk \/ \E lines : disk' = [disk EXCEPT ![rec.place] = lines]
  BY <1>3, <1>4
<1> QED
  BY <1>0, <1>2, <1>3, <1>4, <1>7, <1>8, DownloadStep, <1>9 DEF InOrder, F!At, F!Download

\* It removes its own file, and no file of another's place.
LEMMA Removing ==
    ASSUME TransfersInv, NEW t \in Transfer, F!At(t, "receiving"), F!Removes(t)
    PROVE  TransfersInv'
<1> DEFINE rec == [task[t] EXCEPT !.at = "failed", !.linked = FALSE]
           p == task[t].place
<1>0. task \in [Transfer -> TaskType] /\ p \in Place /\ task[t] \in TaskType
  BY DEF TransfersInv, TasksTyped, InOrder, F!At, F!Download
<1>1. rec \in TaskType
  BY <1>0 DEF TaskType, F!Ended
<1>2. /\ rec.at = "failed" /\ rec.place = p /\ rec.told = task[t].told
      /\ rec.whole = task[t].whole
  BY <1>0 DEF TaskType
<1>3. /\ disk' = [disk EXCEPT ![p] = Removed]
      /\ task' = [u \in Transfer |->
            IF u = t THEN rec ELSE [task[u] EXCEPT !.linked = @ /\ task[u].place # p]]
  BY DEF F!Removes
<1> HIDE DEF rec
<1>4. \A u \in Transfer \ {t} :
         task'[u] = [task[u] EXCEPT !.linked = task[u].linked /\ task[u].place # p]
  BY <1>3
<1>5. ASSUME NEW u \in Transfer \ {t}
      PROVE  /\ task'[u] \in TaskType /\ SameTask(u)
             /\ task[u].place # p => task'[u].linked = task[u].linked
  <2>1. task[u] \in TaskType /\ (task[u].linked /\ task[u].place # p) \in BOOLEAN
    BY <1>0
  <2>2. task'[u] \in TaskType
    BY ZenonT(60), <1>4, <2>1 DEF TaskType
  <2>3. SameTask(u)
    BY <1>4, <2>1 DEF TaskType, SameTask
  <2>4. task'[u].linked = (task[u].linked /\ task[u].place # p)
    BY <1>4, <2>1 DEF TaskType
  <2>5. task[u].linked \in BOOLEAN
    BY <2>1 DEF TaskType
  <2> QED
    BY <2>2, <2>3, <2>4, <2>5
<1>6. task'[t] = rec
  BY <1>3
<1>7. TasksTyped'
  BY <1>0, <1>1, <1>3, <1>5, <1>6 DEF TransfersInv, TasksTyped
<1>8. Acts(t) /\ task'[t].place = p
  BY <1>0, <1>2, <1>3, <1>5, <1>6 DEF Acts, TransfersInv, TasksTyped
<1>9. InOrder(t)'
  BY <1>2, <1>6 DEF InOrder, TransfersInv, F!At, F!Download, F!Upload, F!Ended
<1>10. Kept(t)'
  BY <1>0, <1>2, <1>3, <1>6 DEF Kept, F!At, TransfersInv, TasksTyped
<1> QED
  BY <1>7, <1>8, <1>9, <1>10, OwnKept

\* The command has said 0, and all of its output that was heard is there.
LEMMA Completing ==
    ASSUME TransfersInv, NEW t \in Transfer, F!At(t, "receiving"),
           NEW eof \in BOOLEAN, eof => task[t].got = Pieces,
           F!Received(t, eof, "ok")
    PROVE  TransfersInv'
<1> DEFINE rec == [task[t] EXCEPT !.at = "complete", !.eof = eof, !.linked = FALSE]
<1>0. task[t] \in TaskType
  BY DEF TransfersInv, TasksTyped
<1>1. rec \in TaskType
  BY <1>0 DEF TaskType, F!Ended
<1>2. /\ rec.at = "complete" /\ rec.place = task[t].place /\ rec.told = task[t].told
      /\ rec.whole = task[t].whole /\ rec.eof = eof
  BY <1>0 DEF TaskType
<1>3. task' = [task EXCEPT ![t] = rec] /\ disk' = disk
  BY DEF F!Received
<1> HIDE DEF rec
<1>4. task'[t] = rec
  BY <1>3 DEF TransfersInv, TasksTyped
<1>5. F!Whole(t)' = Lines(t, Pieces)
  BY <1>2, <1>4 DEF F!Whole, F!Content, Lines
<1>6. Kept(t) => Kept(t)'
  BY <1>2, <1>3, <1>4, <1>5 DEF Kept, F!At
<1> QED
  BY <1>1, <1>2, <1>3, <1>6, DownloadStep DEF F!At, F!Download, F!Ended

\* A download's last word: whole, cut off, or still to come.
LEMMA LastHeard ==
    ASSUME TransfersInv, NEW t \in Transfer, NEW eof \in BOOLEAN,
           NEW exit \in {"none", "ok", "bad"}, F!Last(t, eof, exit)
    PROVE  TransfersInv'
<1>0. task[t] \in TaskType /\ F!At(t, "receiving")
  BY DEF TransfersInv, TasksTyped, F!Last
<1>1. CASE eof /\ exit = "ok"
  BY <1>0, <1>1, Completing DEF F!Last
<1>2. CASE eof /\ exit = "bad"
  BY <1>0, <1>2, Removing DEF F!Last, F!Received
<1>3. CASE ~(eof /\ exit # "none")
  <2> DEFINE rec == [task[t] EXCEPT !.eof = eof, !.exit = exit]
  <2>1. rec \in TaskType
    BY <1>0 DEF TaskType
  <2>2. /\ rec.at = "receiving" /\ rec.place = task[t].place /\ rec.told = task[t].told
        /\ rec.whole = task[t].whole /\ rec.eof = eof /\ rec.exit = exit
        /\ rec.got = task[t].got /\ rec.linked = task[t].linked
    BY <1>0 DEF TaskType, F!At
  <2>3. task' = [task EXCEPT ![t] = rec] /\ disk' = disk
    BY <1>3 DEF F!Last
  <2> HIDE DEF rec
  <2>4. task'[t] = rec
    BY <2>3 DEF TransfersInv, TasksTyped
  <2>5. Lines(t, task[t].got)' = Lines(t, task[t].got)
    BY <2>2, <2>4 DEF F!Content, Lines
  <2>6. Kept(t) => Kept(t)'
    BY <1>0, <1>3, <2>2, <2>3, <2>4, <2>5 DEF Kept, F!At
  <2> QED
    BY <1>0, <2>1, <2>2, <2>3, <2>6, DownloadStep, <1>3 DEF F!At, F!Download
<1> QED
  BY <1>1, <1>2, <1>3

\* The command's status, the end of its output, the end of the channel, and
\* what goes wrong.
LEMMA Receiving ==
    ASSUME TransfersInv, NEW t \in Transfer,
           F!HearExit(t) \/ F!HearEof(t) \/ F!HearClose(t) \/ F!GoesWrong(t)
    PROVE  TransfersInv'
<1>0. task[t].eof \in BOOLEAN /\ task[t].exit \in {"none", "ok", "bad"}
  BY DEF TransfersInv, TasksTyped, TaskType
<1>1. CASE F!HearExit(t)
  BY <1>0, <1>1, LastHeard DEF F!HearExit
<1>2. CASE F!HearEof(t)
  BY <1>0, <1>2, LastHeard DEF F!HearEof
<1>3. CASE F!HearClose(t)
  <2>1. F!At(t, "receiving") /\ F!Received(t, task[t].eof, task[t].exit)
        /\ (task[t].exit = "ok" => ~task[t].eof)
    BY <1>3 DEF F!HearClose, TransfersInv, InOrder
  <2>2. CASE task[t].exit = "ok"
    BY <1>0, <2>1, <2>2, Completing
  <2>3. CASE task[t].exit # "ok"
    BY <2>1, <2>3, Removing DEF F!Received
  <2> QED
    BY <2>2, <2>3
<1>4. CASE F!GoesWrong(t)
  BY <1>4, Removing DEF F!GoesWrong
<1> QED
  BY <1>1, <1>2, <1>3, <1>4

\* An upload has no place.
LEMMA UploadStep ==
    ASSUME TransfersInv, NEW t \in Transfer, NEW rec \in TaskType,
           task' = [task EXCEPT ![t] = rec], disk' = disk,
           task[t].at \in {"off"} \cup F!Upload, rec.at \in F!Upload \cup F!Ended,
           rec.place = None, rec.told => rec.whole,
           rec.at \in {"reading", "connecting", "sending", "waiting"} => rec.left # 0,
           rec.at \in F!Upload /\ rec.exit # "none" =>
              rec.at = "waiting" /\ rec.command = rec.exit
    PROVE  TransfersInv'
<1>1. task[t].place = None /\ None \notin Place
  BY WorkAssumption DEF TransfersInv, InOrder, F!At, F!TransfersAssumption
<1>2. TasksTyped' /\ Acts(t) /\ task'[t] = rec
  BY <1>1, Acting DEF TransfersInv
<1>3. InOrder(t)'
  BY <1>2 DEF InOrder, F!At, F!Download, F!Upload, F!Ended
<1> QED
  BY <1>1, <1>2, <1>3, OwnKept

\* An upload goes on to its next file, or is complete.
LEMMA NextFileStep ==
    ASSUME TransfersInv, NEW t \in Transfer, NEW whole \in BOOLEAN, NEW told \in BOOLEAN,
           task[t].at \in {"reading", "waiting"}, told => whole, F!NextFile(t, whole, told)
    PROVE  TransfersInv'
<1> DEFINE left == task[t].left - 1
           allWhole == task[t].whole /\ whole
           allTold == task[t].told /\ told
           at == IF task[t].left = 1 THEN "complete" ELSE "reading"
           rec == [task[t] EXCEPT !.left = left, !.command = "none", !.exit = "none",
                                  !.whole = allWhole, !.told = allTold, !.at = at]
<1>0. /\ task[t] \in TaskType /\ InOrder(t) /\ MaxFiles \in Nat
      /\ task[t].place = None
  BY WorkAssumption DEF TransfersInv, TasksTyped, F!TransfersAssumption, InOrder, F!Upload
<1>1. task[t].left \in 1..MaxFiles
  BY <1>0 DEF TaskType, InOrder
<1>2. /\ left \in 0..MaxFiles /\ (at = "reading" => left # 0)
      /\ allWhole \in BOOLEAN /\ allTold \in BOOLEAN /\ (allTold => allWhole)
      /\ at \in {"complete", "reading"}
  BY <1>0, <1>1 DEF TaskType, InOrder
<1>5. task' = [task EXCEPT ![t] = rec] /\ disk' = disk
  BY DEF F!NextFile
<1> HIDE DEF left, allWhole, allTold, at
<1>3. rec \in TaskType
  BY ZenonT(60), <1>0, <1>2 DEF TaskType, F!Ended, F!Upload
<1>4. /\ rec.at = at /\ rec.left = left /\ rec.exit = "none" /\ rec.place = None
      /\ rec.told = allTold /\ rec.whole = allWhole
  BY <1>0 DEF TaskType
<1> HIDE DEF rec
<1> QED
  BY <1>2, <1>3, <1>4, <1>5, UploadStep DEF F!Upload, F!Ended

\* An upload ends.
LEMMA UploadEnds ==
    ASSUME TransfersInv, NEW t \in Transfer, NEW end \in F!Ended, F!Ends(t, end), disk' = disk,
           task[t].at \in F!Upload
    PROVE  TransfersInv'
<1> DEFINE rec == [task[t] EXCEPT !.at = end, !.linked = FALSE]
<1>0. task[t] \in TaskType /\ InOrder(t)
  BY DEF TransfersInv, TasksTyped
<1>1. rec \in TaskType
  BY <1>0 DEF TaskType
<1>2. /\ rec.at = end /\ rec.place = None /\ rec.told = task[t].told
      /\ rec.whole = task[t].whole
  BY <1>0 DEF TaskType, InOrder
<1>3. task' = [task EXCEPT ![t] = rec]
  BY DEF F!Ends
<1> HIDE DEF rec
<1> QED
  BY <1>0, <1>1, <1>2, <1>3, UploadStep DEF InOrder, F!Upload, F!Ended

\* An upload goes on with the file it is at.
LEMMA UploadGoes ==
    ASSUME TransfersInv, NEW t \in Transfer, disk' = disk, task[t].at \in F!Upload,
           NEW at \in {"reading", "connecting", "sending", "waiting"},
           NEW cmd \in {"none", "running", "ok", "bad", "killed"},
           NEW exit \in {"none", "ok", "bad"},
           task' = [task EXCEPT ![t] = [task[t] EXCEPT !.at = at, !.command = cmd,
                                                       !.exit = exit]],
           task[t].left # 0, exit # "none" => at = "waiting" /\ cmd = exit
    PROVE  TransfersInv'
<1> DEFINE rec == [task[t] EXCEPT !.at = at, !.command = cmd, !.exit = exit]
<1>0. task[t] \in TaskType /\ InOrder(t)
  BY DEF TransfersInv, TasksTyped
<1>1. rec \in TaskType
  BY <1>0 DEF TaskType, F!Upload
<1>2. /\ rec.at = at /\ rec.place = None /\ rec.told = task[t].told
      /\ rec.whole = task[t].whole /\ rec.left = task[t].left
      /\ rec.command = cmd /\ rec.exit = exit
  BY <1>0 DEF TaskType, InOrder
<1>3. task' = [task EXCEPT ![t] = rec]
  OBVIOUS
<1> HIDE DEF rec
<1> QED
  BY <1>0, <1>1, <1>2, <1>3, UploadStep DEF InOrder, F!Upload

\* Every step of an upload keeps the invariant.
LEMMA Uploading ==
    ASSUME TransfersInv, NEW t \in Transfer,
           \/ \E n \in 0..MaxFiles, folder \in BOOLEAN : F!StartUpload(t, n, folder)
           \/ F!GivesUp(t) /\ task[t].at \notin F!Download
           \/ F!Made(t) \/ F!ReadsEmpty(t) \/ F!Reads(t) \/ F!SendOpens(t) \/ F!Sent(t)
           \/ F!HearStatus(t) \/ F!StopsWaiting(t)
    PROVE  TransfersInv'
<1>0. task[t] \in TaskType /\ InOrder(t)
  BY DEF TransfersInv, TasksTyped
<1>1. ASSUME NEW n \in 0..MaxFiles, NEW folder \in BOOLEAN, F!StartUpload(t, n, folder)
      PROVE  TransfersInv'
  <2> DEFINE rec == [F!Off EXCEPT !.left = n, !.at = IF folder THEN "making" ELSE "reading"]
  <2>1. rec \in TaskType
    BY OffTyped DEF TaskType, F!Upload
  <2>2. /\ rec.at = IF folder THEN "making" ELSE "reading"
        /\ rec.place = None /\ rec.exit = "none" /\ rec.whole = TRUE /\ rec.left = n
    BY OffTyped DEF TaskType, F!Off
  <2>3. /\ task' = [task EXCEPT ![t] = rec] /\ disk' = disk /\ F!At(t, "off")
        /\ ~folder => n = 1
    BY <1>1 DEF F!StartUpload
  <2> HIDE DEF rec
  <2>4. /\ rec.at \in {"making", "reading"}
        /\ rec.at = "reading" => rec.left # 0
    BY <2>2, <2>3
  <2> QED
    BY <2>1, <2>2, <2>3, <2>4, UploadStep DEF F!At, F!Upload
<1>2. CASE F!GivesUp(t) /\ task[t].at \notin F!Download
  BY <1>2, UploadEnds DEF F!GivesUp, F!Ended
<1>3. CASE F!Made(t)
  <2>1. CASE task[t].left = 0
    BY <1>3, <2>1, UploadEnds DEF F!Made, F!At, F!Upload, F!Ended
  <2>2. CASE task[t].left # 0
    <3>1. task' = [task EXCEPT ![t] = [task[t] EXCEPT !.at = "reading",
                     !.command = task[t].command, !.exit = task[t].exit]]
      BY ZenonT(60), <1>0, <1>3, <2>2 DEF F!Made, F!Goes, TaskType
    <3> QED
      BY <1>0, <1>3, <2>2, <3>1, UploadGoes DEF F!Made, F!At, F!Upload, InOrder, TaskType
  <2> QED
    BY <2>1, <2>2
<1>4. CASE F!ReadsEmpty(t)
  BY <1>4, NextFileStep DEF F!ReadsEmpty, F!At
<1>5. CASE F!Reads(t)
  <2>1. task' = [task EXCEPT ![t] = [task[t] EXCEPT !.at = "connecting",
                   !.command = task[t].command, !.exit = task[t].exit]]
    BY <1>0, <1>5 DEF F!Reads, F!Goes, TaskType
  <2> QED
    BY <1>0, <1>5, <2>1, UploadGoes DEF F!Reads, F!At, F!Upload, InOrder, TaskType
<1>6. CASE F!SendOpens(t)
  <2>1. task' = [task EXCEPT ![t] = [task[t] EXCEPT !.at = "sending",
                   !.command = "running", !.exit = task[t].exit]]
    BY <1>0, <1>6 DEF F!SendOpens, TaskType
  <2> QED
    BY <1>0, <1>6, <2>1, UploadGoes DEF F!SendOpens, F!At, F!Upload, InOrder, TaskType
<1>7. CASE F!Sent(t)
  <2>1. task' = [task EXCEPT ![t] = [task[t] EXCEPT !.at = "waiting",
                   !.command = task[t].command, !.exit = task[t].exit]]
    BY <1>0, <1>7 DEF F!Sent, F!Goes, TaskType
  <2> QED
    BY <1>0, <1>7, <2>1, UploadGoes DEF F!Sent, F!At, F!Upload, InOrder, TaskType
<1>8. CASE F!HearStatus(t)
  <2>1. task' = [task EXCEPT ![t] = [task[t] EXCEPT !.at = "waiting",
                   !.command = task[t].command, !.exit = task[t].command]]
    BY <1>0, <1>8 DEF F!HearStatus, F!At, TaskType
  <2> QED
    BY <1>0, <1>8, <2>1, UploadGoes DEF F!HearStatus, F!At, F!Upload, InOrder, TaskType
<1>9. CASE F!StopsWaiting(t)
  <2>1. CASE F!Refused(t)
    BY <1>9, <2>1, UploadEnds DEF F!StopsWaiting, F!At, F!Upload, F!Ended
  <2>2. CASE ~F!Refused(t)
    <3>1. task[t].exit # "none" => task[t].command = "ok"
      BY <1>0, <1>9, <2>2 DEF F!StopsWaiting, F!Refused, InOrder, F!At, F!Upload, TaskType
    <3>2. (task[t].command = "ok") \in BOOLEAN /\ (task[t].exit # "none") \in BOOLEAN
      OBVIOUS
    <3>3. F!NextFile(t, task[t].command = "ok", task[t].exit # "none") /\ F!At(t, "waiting")
      BY <1>9, <2>2 DEF F!StopsWaiting
    <3> QED
      BY <3>1, <3>2, <3>3, NextFileStep DEF F!At
  <2> QED
    BY <2>1, <2>2
<1> QED
  BY <1>1, <1>2, <1>3, <1>4, <1>5, <1>6, <1>7, <1>8, <1>9

\* The command ends before its status is heard.
LEMMA Commanding ==
    ASSUME TransfersInv, NEW t \in Transfer, NEW how \in {"ok", "bad", "killed"},
           F!CommandEnds(t, how)
    PROVE  TransfersInv'
<1> DEFINE rec == [task[t] EXCEPT !.command = how]
<1>0. task[t] \in TaskType /\ InOrder(t) /\ task[t].command = "running" /\ disk' = disk
  BY DEF TransfersInv, TasksTyped, F!CommandEnds
<1>1. rec \in TaskType
  BY <1>0 DEF TaskType
<1>2. /\ rec.at = task[t].at /\ rec.place = task[t].place /\ rec.is = task[t].is
      /\ rec.got = task[t].got /\ rec.eof = task[t].eof /\ rec.exit = task[t].exit
      /\ rec.linked = task[t].linked /\ rec.guessed = task[t].guessed
      /\ rec.left = task[t].left /\ rec.whole = task[t].whole /\ rec.told = task[t].told
  BY <1>0 DEF TaskType
<1>3. task' = [task EXCEPT ![t] = rec]
  BY DEF F!CommandEnds
<1> HIDE DEF rec
<1>4. TasksTyped' /\ Acts(t) /\ task'[t] = rec
  BY <1>0, <1>1, <1>2, <1>3, Acting DEF TransfersInv
<1>5. InOrder(t)'
  <2>1. task[t].at \in F!Upload => task[t].exit = "none"
    BY <1>0 DEF InOrder, TaskType
  <2> QED
    BY <1>0, <1>2, <1>4, <2>1 DEF InOrder, F!At
<1>6. Kept(t) => Kept(t)'
  <2>1. F!Whole(t)' = F!Whole(t) /\ Lines(t, task[t].got)' = Lines(t, task[t].got)
    BY <1>2, <1>4 DEF F!Content, F!Whole, Lines
  <2> QED
    BY <1>0, <1>2, <1>4, <2>1 DEF Kept, F!At
<1> QED
  BY <1>2, <1>4, <1>5, <1>6, OwnKept

\* Every step keeps the invariant.
LEMMA TransfersNext ==
    ASSUME TransfersInv, [F!Next]_F!vars
    PROVE  TransfersInv'
<1>1. ASSUME NEW t \in Transfer, NEW p \in Place, NEW is \in {"full", "empty", "missing"},
             F!StartDownload(t, p, is)
      PROVE  TransfersInv'
  BY <1>1, BeginsDownload DEF F!StartDownload
<1>2. ASSUME NEW t \in Transfer, NEW p \in DragPlace, NEW is \in {"full", "empty", "missing"},
             F!Press(t, p, is)
      PROVE  TransfersInv'
  <2>1. p \in Place
    BY WorkAssumption DEF F!TransfersAssumption
  <2> QED
    BY <1>2, <2>1, BeginsDownload DEF F!Press
<1>3. ASSUME NEW t \in Transfer, F!GivesUp(t) PROVE TransfersInv'
  <2>1. CASE task[t].at \in F!Download
    BY <1>3, <2>1, OpensFile
  <2>2. CASE task[t].at \notin F!Download
    BY <1>3, <2>2, Uploading
  <2> QED
    BY <2>1, <2>2
<1>4. CASE UNCHANGED F!vars
  <2>1. task' = task /\ disk' = disk
    BY <1>4 DEF F!vars
  <2>2. TasksTyped' /\ \A p \in Place : Untouched(p)'
    BY <2>1 DEF TransfersInv, TasksTyped, Untouched
  <2>3. \A t \in Transfer : F!Alone(t)' = F!Alone(t) /\ Kept(t)' = Kept(t) /\ InOrder(t)' = InOrder(t)
    BY <2>1 DEF Kept, InOrder, F!Alone, F!At, F!Content, F!Whole, Lines
  <2> QED
    BY <2>1, <2>2, <2>3 DEF TransfersInv
<1> QED
  BY <1>1, <1>2, <1>3, <1>4, TellsOnly, OpensFile, Hearing, Receiving, Uploading, Commanding
  DEF F!Next

\* The invariant holds in every behaviour.
LEMMA TransfersAlways == F!Spec => []TransfersInv
<1>1. F!Init => TransfersInv
  BY TransfersInit
<1>2. TransfersInv /\ [F!Next]_F!vars => TransfersInv'
  BY TransfersNext
<1> QED
  BY <1>1, <1>2, PTL DEF F!Spec

\* A download that had its place to itself leaves a whole file or none cut
\* short; an upload that is said to be complete is, if a status was heard for
\* each file of it (receive_base64, send_bytes, upload_directory).
THEOREM AlwaysWholeOrNothing == F!Spec => []WholeOrNothing
<1>1. ASSUME TransfersInv PROVE F!WholeOrNothing
  <2>1. task \in [Transfer -> TaskType]
    BY <1>1 DEF TransfersInv, TasksTyped
  <2>2. F!DownloadsWhole
    BY <1>1, <2>1 DEF TransfersInv, F!DownloadsWhole, Kept, TaskType
  <2>3. F!UploadsWhole
    BY <1>1 DEF TransfersInv, F!UploadsWhole, InOrder
  <2> QED
    BY <2>2, <2>3 DEF F!WholeOrNothing
<1> QED
  BY <1>1, TransfersAlways, PTL DEF WholeOrNothing

-----------------------------------------------------------------------------
(* Targets.                                                                *)

Opening == {"connect", "stamp"}
Changing == {"save", "delete"}
Entries == Setting \cup {Gone}
CommandType ==
    {T!Idle} \cup [at : {"connect", "stamp", "save"}, of : Target, entry : Setting]
           \cup [at : {"delete"}, of : Target, entry : {Gone}]

\* What is stored of a target that was not opened and changed at once.
StoredAsWanted(x) ==
    /\ memory[x] \in {wanted[x], Gone} /\ vault[x] \in {wanted[x], Gone}
    /\ x \notin halved =>
          /\ vault[x] = wanted[x]
          /\ loaded[T!Store(x)] => memory[x] = wanted[x]
          /\ x \in vaultRules => vault[x] # Gone

\* What opens it, and what is open of it.
OpenedAsWanted(x) ==
    /\ \A c \in Command : command[c].at \in Opening /\ command[c].of = x =>
          command[c].entry = wanted[x] /\ memory[x] = wanted[x]
    /\ ~(T!Under(x, Opening) /\ T!Under(x, Changing))
    /\ tool[x] = "kubernetes" /\ live[x] # Gone =>
          live[x] = wanted[x] /\ memory[x] = wanted[x] /\ ~T!Under(x, Changing)

UnreadIsGone == \A x \in Target : ~loaded[T!Store(x)] => memory[x] = Gone

TargetsInv ==
    /\ T!TypeOK
    /\ UnreadIsGone
    /\ \A x \in Target \ together : StoredAsWanted(x) /\ OpenedAsWanted(x)

\* The variables one by one.
LEMMA Types ==
    T!TypeOK <=>
    /\ tool \in [Target -> T!Kinds] /\ on \in [T!Kinds -> BOOLEAN] /\ clearing \subseteq T!Kinds
    /\ locked \in BOOLEAN /\ loaded \in [T!Stores -> BOOLEAN]
    /\ memory \in [Target -> Entries] /\ vault \in [Target -> Entries]
    /\ live \in [Target -> Entries] /\ wanted \in [Target -> Entries]
    /\ rules \subseteq Target /\ vaultRules \subseteq Target
    /\ log \in [Target -> {"none", "got", "running"}]
    /\ command \in [Command -> CommandType]
    /\ together \subseteq Target /\ halved \subseteq Target
    /\ late \subseteq Target \X {"connection", "log"}
BY DEF T!TypeOK, Entries, CommandType

\* The same of the next state.
LEMMA TypesNext ==
    ASSUME tool' \in [Target -> T!Kinds], on' \in [T!Kinds -> BOOLEAN], clearing' \subseteq T!Kinds,
           locked' \in BOOLEAN, loaded' \in [T!Stores -> BOOLEAN],
           memory' \in [Target -> Entries], vault' \in [Target -> Entries],
           live' \in [Target -> Entries], wanted' \in [Target -> Entries],
           rules' \subseteq Target, vaultRules' \subseteq Target,
           log' \in [Target -> {"none", "got", "running"}],
           command' \in [Command -> CommandType],
           together' \subseteq Target, halved' \subseteq Target,
           late' \subseteq Target \X {"connection", "log"}
    PROVE  T!TypeOK'
BY DEF T!TypeOK, Entries, CommandType

\* Each target is kept in one of the stores.
LEMMA StoreKinds == ASSUME NEW x \in Target PROVE T!Store(x) \in T!Stores
BY DEF T!Store, T!Stores

\* A command that is at work has a target and its entry.
LEMMA CommandHolds ==
    ASSUME T!TypeOK, NEW c \in Command
    PROVE  /\ command[c].at \in {"connect", "stamp", "save"} =>
                 command[c].of \in Target /\ command[c].entry \in Setting
           /\ command[c].at = "delete" => command[c].of \in Target
BY DEF T!TypeOK, T!Idle

\* What a command's steps make of its record.
LEMMA Holding ==
    ASSUME NEW x \in Target
    PROVE  /\ \A v \in Setting, at \in {"connect", "stamp", "save"} :
                 T!Held(at, x, v) \in CommandType
           /\ T!Held("delete", x, Gone) \in CommandType
           /\ T!Idle \in CommandType /\ T!Idle.at = "free"
BY DEF T!Held, CommandType, T!Idle

\* What a step finds in memory of y: what was there, or what it has loaded.
Reads(y) ==
    \/ loaded'[T!Store(y)] = loaded[T!Store(y)] /\ memory'[y] = memory[y]
    \/ ~loaded[T!Store(y)] /\ loaded'[T!Store(y)] /\ memory'[y] = vault[y]

\* What is read of a store keeps its types.
LEMMA LoadTypes ==
    ASSUME T!TypeOK, NEW s \in T!Stores, T!Load(s)
    PROVE  /\ loaded' \in [T!Stores -> BOOLEAN]
           /\ T!Seen(s) \in [Target -> Entries] /\ T!SeenRules(s) \subseteq Target
<1>1. loaded' \in [T!Stores -> BOOLEAN]
  BY DEF T!TypeOK, T!Load
<1>2. T!Seen(s) \in [Target -> Entries]
  BY Types DEF T!Seen
<1>3. T!SeenRules(s) \subseteq Target
  BY DEF T!TypeOK, T!SeenRules
<1> QED
  BY <1>1, <1>2, <1>3

\* What is seen after a load is what was there, or what the vault has.
LEMMA SeenReads ==
    ASSUME T!TypeOK, NEW s \in T!Stores, T!Load(s), NEW y \in Target, memory'[y] = T!Seen(s)[y]
    PROVE  Reads(y)
<1>1. loaded \in [T!Stores -> BOOLEAN] /\ locked \in BOOLEAN /\ T!Store(y) \in T!Stores
  BY StoreKinds DEF T!TypeOK
<1>2. memory'[y] = IF T!Loading(s) /\ T!Store(y) = s THEN vault[y] ELSE memory[y]
  BY DEF T!Seen
<1>3. loaded'[T!Store(y)] = IF T!Store(y) = s THEN loaded[s] \/ ~locked ELSE loaded[T!Store(y)]
  BY <1>1 DEF T!Load
<1>4. CASE T!Store(y) # s
  BY <1>2, <1>3, <1>4 DEF Reads
<1>5. CASE T!Store(y) = s /\ T!Loading(s)
  BY <1>1, <1>2, <1>3, <1>5 DEF Reads, T!Loading
<1>6. CASE T!Store(y) = s /\ ~T!Loading(s)
  <2>1. loaded[s] \/ locked
    BY <1>1, <1>6 DEF T!Loading
  <2> QED
    BY <1>1, <1>2, <1>3, <1>6, <2>1 DEF Reads
<1> QED
  BY <1>4, <1>5, <1>6

\* A store that was not read before is read, or shows nothing still.
LEMMA StillUnread ==
    ASSUME UnreadIsGone, tool' = tool, \A y \in Target : Reads(y) \/ loaded'[T!Store(y)]
    PROVE  UnreadIsGone'
BY DEF UnreadIsGone, Reads, T!Store

\* What else may befall what is stored of a target.
LEMMA StaysStored ==
    ASSUME TargetsInv, NEW y \in Target \ together, tool' = tool, Reads(y),
           wanted'[y] = wanted[y], vault'[y] \in {vault[y], Gone},
           y \notin halved' => y \notin halved /\ vault'[y] = vault[y],
           y \notin halved' /\ y \in vaultRules' => y \in vaultRules \/ vault'[y] # Gone
    PROVE  StoredAsWanted(y)'
<1>1. StoredAsWanted(y) /\ (~loaded[T!Store(y)] => memory[y] = Gone) /\ T!Store(y)' = T!Store(y)
  BY DEF TargetsInv, UnreadIsGone, T!Store
<1> QED
  BY <1>1 DEF StoredAsWanted, Reads

\* What else may befall what is open of a target.
LEMMA StaysOpened ==
    ASSUME TargetsInv, NEW y \in Target \ together, tool' = tool, Reads(y),
           wanted'[y] = wanted[y], live'[y] \in {live[y], Gone},
           \A c \in Command : \/ command'[c] = command[c]
                              \/ ~(command'[c].at \in Opening \cup Changing
                                   /\ command'[c].of = y)
    PROVE  OpenedAsWanted(y)'
<1>1. OpenedAsWanted(y)
  BY DEF TargetsInv
<1>2. ASSUME memory[y] # Gone PROVE memory'[y] = memory[y]
  BY <1>2 DEF TargetsInv, UnreadIsGone, Reads
<1>3. ASSUME NEW c \in Command, command'[c].at \in Opening, command'[c].of = y
      PROVE  command'[c].entry = wanted'[y] /\ memory'[y] = wanted'[y]
  <2>1. command'[c] = command[c]
    BY <1>3
  <2>2. command[c].entry = wanted[y] /\ memory[y] = wanted[y]
    BY <1>1, <1>3, <2>1 DEF OpenedAsWanted
  <2>3. command[c].entry # Gone
    BY <1>3, <2>1, CommandHolds, WorkAssumption DEF T!TargetsAssumption, TargetsInv, Opening
  <2> QED
    BY <1>2, <2>1, <2>2, <2>3
<1>4. (T!Under(y, Opening)' => T!Under(y, Opening)) /\ (T!Under(y, Changing)' => T!Under(y, Changing))
  BY DEF T!Under, Opening, Changing
<1>5. ASSUME tool'[y] = "kubernetes", live'[y] # Gone
      PROVE  live'[y] = wanted'[y] /\ memory'[y] = wanted'[y] /\ ~T!Under(y, Changing)'
  BY <1>1, <1>2, <1>4, <1>5 DEF OpenedAsWanted
<1> QED
  BY <1>1, <1>3, <1>4, <1>5 DEF OpenedAsWanted

\* The invariant holds at the start.
LEMMA TargetsInit ==
    ASSUME T!Init
    PROVE  TargetsInv
<1>1. T!TypeOK
  BY Types DEF T!Init, Entries, CommandType
<1>2. UnreadIsGone
  BY DEF T!Init, UnreadIsGone
<1>3. ASSUME NEW x \in Target PROVE StoredAsWanted(x) /\ OpenedAsWanted(x)
  BY <1>3 DEF T!Init, StoredAsWanted, OpenedAsWanted, T!Idle, T!Under, Opening, Changing
<1> QED
  BY <1>1, <1>2, <1>3 DEF TargetsInv

\* Switches, the vault's lock, logs, and what closes connections.
LEMMA ClosesOnly ==
    ASSUME TargetsInv,
           \/ \E t \in T!Kinds : T!TurnOn(t) \/ T!TurnOff(t) \/ T!CloseAll(t)
           \/ T!LockVault
           \/ \E x \in Target : T!Close(x) \/ T!GetForLog(x) \/ T!FollowLog(x) \/ T!LogEnds(x)
    PROVE  TargetsInv'
<1>1. /\ UNCHANGED <<tool, T!stored, command, wanted, together>>
      /\ \A y \in Target : live'[y] \in {live[y], Gone}
  BY Types DEF TargetsInv, T!TurnOn, T!TurnOff, T!CloseAll, T!LockVault, T!Close, T!GetForLog, T!FollowLog,
     T!LogEnds, T!switches, T!stored
<1>2. T!TypeOK'
  <2> USE DEF TargetsInv
  <2>1. /\ on' \in [T!Kinds -> BOOLEAN] /\ clearing' \subseteq T!Kinds /\ locked' \in BOOLEAN
    BY Types DEF T!TurnOn, T!TurnOff, T!CloseAll, T!LockVault, T!Close, T!GetForLog, T!FollowLog, T!LogEnds, T!switches
  <2>2. live' \in [Target -> Entries]
    BY Types DEF T!TurnOn, T!TurnOff, T!CloseAll, T!LockVault, T!Close, T!GetForLog, T!FollowLog, T!LogEnds,
       T!switches, Entries
  <2>3. log' \in [Target -> {"none", "got", "running"}]
    BY Types DEF T!TurnOn, T!TurnOff, T!CloseAll, T!LockVault, T!Close, T!GetForLog, T!FollowLog, T!LogEnds,
       T!switches, T!CutLogs
  <2>4. late' \subseteq Target \X {"connection", "log"}
    BY Types DEF T!TurnOn, T!TurnOff, T!CloseAll, T!LockVault, T!Close, T!GetForLog, T!FollowLog, T!LogEnds,
       T!switches, T!Lately
  <2> QED
    BY <1>1, <2>1, <2>2, <2>3, <2>4, Types, TypesNext DEF T!stored, TargetsInv
<1>3. \A y \in Target : Reads(y)
  BY <1>1 DEF Reads, T!stored, T!Store
<1>4. UnreadIsGone'
  BY <1>1, <1>3, StillUnread DEF TargetsInv
<1>5. ASSUME NEW y \in Target \ together' PROVE StoredAsWanted(y)' /\ OpenedAsWanted(y)'
  BY <1>1, <1>3, <1>5, StaysStored, StaysOpened DEF T!stored
<1> QED
  BY <1>2, <1>4, <1>5 DEF TargetsInv

\* A restart forgets what was read, not what is stored.
LEMMA Restarts ==
    ASSUME TargetsInv, T!Restart
    PROVE  TargetsInv'
<1>1. T!TypeOK'
  BY Types, TypesNext DEF TargetsInv, T!Restart, Entries, CommandType
<1>2. UnreadIsGone'
  BY DEF T!Restart, UnreadIsGone
<1>3. ASSUME NEW x \in Target \ together' PROVE StoredAsWanted(x)' /\ OpenedAsWanted(x)'
  <2>1. StoredAsWanted(x) /\ T!Store(x) \in T!Stores /\ T!Store(x)' = T!Store(x)
    BY <1>3, StoreKinds DEF TargetsInv, T!Restart, T!Store
  <2>2. StoredAsWanted(x)'
    BY <2>1, <1>3 DEF StoredAsWanted, T!Restart
  <2>3. OpenedAsWanted(x)'
    BY <1>3 DEF T!Restart, OpenedAsWanted, T!Idle, T!Under, Opening, Changing
  <2> QED
    BY <2>2, <2>3
<1> QED
  BY <1>1, <1>2, <1>3 DEF TargetsInv

\* A vault that was reset or replaced is what is saved now; of a store that was
\* read before, nothing is claimed.
LEMMA Replacing ==
    ASSUME TargetsInv, NEW brought \in [Target -> Setting \cup {Gone}],
           NEW broughtRules \in SUBSET Target, T!Replace(brought, broughtRules)
    PROVE  TargetsInv'
<1>1. /\ UNCHANGED <<tool, on, clearing, loaded, memory, rules, live, log, command, late>>
      /\ vault' = brought /\ wanted' = brought /\ vaultRules' = broughtRules
      /\ halved' = {} /\ locked' = TRUE /\ \A x \in broughtRules : brought[x] # Gone
      /\ together' = together \cup {x \in Target : loaded[T!Store(x)]}
  BY DEF T!Replace, T!switches
<1>2. T!TypeOK'
  BY <1>1, Types, TypesNext DEF TargetsInv, Entries
<1>3. UnreadIsGone'
  BY <1>1 DEF TargetsInv, UnreadIsGone, T!Store
<1>4. ASSUME NEW x \in Target \ together' PROVE StoredAsWanted(x)' /\ OpenedAsWanted(x)'
  <2>1. /\ x \notin together /\ ~loaded[T!Store(x)] /\ memory[x] = Gone
        /\ OpenedAsWanted(x) /\ T!Store(x)' = T!Store(x)
    BY <1>1, <1>4 DEF TargetsInv, UnreadIsGone, T!Store
  <2>2. StoredAsWanted(x)'
    BY <1>1, <2>1 DEF StoredAsWanted
  <2>3. ASSUME NEW c \in Command, command[c].at \in Opening PROVE command[c].of # x
    <3>1. command[c].entry # Gone
      BY <2>3, CommandHolds, WorkAssumption DEF T!TargetsAssumption, TargetsInv, Opening
    <3> QED
      BY <2>1, <2>3, <3>1 DEF OpenedAsWanted
  <2>4. ~T!Under(x, Opening)' /\ ~(tool[x] = "kubernetes" /\ live[x] # Gone)
    BY <1>1, <2>1, <2>3 DEF OpenedAsWanted, T!Under
  <2>5. OpenedAsWanted(x)'
    BY <1>1, <2>3, <2>4 DEF OpenedAsWanted
  <2> QED
    BY <2>2, <2>5
<1> QED
  BY <1>2, <1>3, <1>4 DEF TargetsInv

\* A step that reads the store for s, and changes nothing else of it.
LEMMA LoadsTyped ==
    ASSUME T!TypeOK, NEW s \in T!Stores, T!OnlyLoads(s)
    PROVE  /\ loaded' \in [T!Stores -> BOOLEAN] /\ memory' \in [Target -> Entries]
           /\ rules' \subseteq Target
           /\ UNCHANGED <<vault, vaultRules, halved>>
           /\ \A y \in Target : Reads(y)
<1>1. T!Load(s) /\ memory' = T!Seen(s) /\ rules' = T!SeenRules(s)
  BY DEF T!OnlyLoads
<1> QED
  BY <1>1, LoadTypes, SeenReads DEF T!OnlyLoads

\* Listing a tool reads its store.
LEMMA Listing ==
    ASSUME TargetsInv, NEW t \in T!Kinds, T!List(t)
    PROVE  TargetsInv'
<1>1. PICK s \in T!Stores : T!OnlyLoads(s)
  BY DEF T!List, T!Stores
<1>2. UNCHANGED <<tool, on, clearing, locked, live, log, command, wanted, together, late>>
  BY DEF T!List, T!switches
<1>3. T!TypeOK'
  BY <1>1, <1>2, LoadsTyped, Types, TypesNext DEF TargetsInv
<1>4. \A y \in Target : Reads(y)
  BY <1>1, LoadsTyped DEF TargetsInv
<1>5. UnreadIsGone'
  BY <1>2, <1>4, StillUnread DEF TargetsInv
<1>6. ASSUME NEW y \in Target \ together' PROVE StoredAsWanted(y)' /\ OpenedAsWanted(y)'
  BY <1>1, <1>2, <1>4, <1>6, StaysStored, StaysOpened DEF T!OnlyLoads
<1> QED
  BY <1>3, <1>5, <1>6 DEF TargetsInv

\* A command that is refused has read the store, and nothing more.
LEMMA Refusing ==
    ASSUME TargetsInv, NEW c \in Command, T!Refused(c)
    PROVE  TargetsInv'
<1>1. /\ UNCHANGED <<tool, on, clearing, locked, live, log, wanted, together, late>>
      /\ command' = [command EXCEPT ![c] = T!Idle] /\ command[c].of \in Target
  BY CommandHolds DEF T!Refused, T!switches, T!Done, TargetsInv
<1>2. /\ loaded' \in [T!Stores -> BOOLEAN] /\ memory' \in [Target -> Entries]
      /\ rules' \subseteq Target
      /\ UNCHANGED <<vault, vaultRules, halved>>
      /\ \A y \in Target : Reads(y)
  <2>1. CASE locked
    BY <2>1, Types DEF T!Refused, T!stored, Reads, TargetsInv
  <2>2. CASE ~locked
    BY <1>1, <2>2, LoadsTyped, StoreKinds DEF T!Refused, TargetsInv
  <2> QED
    BY <2>1, <2>2
<1>3. command' \in [Command -> CommandType]
      /\ \A d \in Command : command'[d] = command[d] \/ command'[d].at = "free"
  BY <1>1, Types DEF TargetsInv, CommandType, T!Idle
<1>4. T!TypeOK'
  BY <1>1, <1>2, <1>3, Types, TypesNext DEF TargetsInv
<1>5. UnreadIsGone'
  BY <1>1, <1>2, StillUnread DEF TargetsInv
<1>6. ASSUME NEW y \in Target \ together' PROVE StoredAsWanted(y)' /\ OpenedAsWanted(y)'
  BY <1>1, <1>2, <1>3, <1>6, StaysStored, StaysOpened DEF Opening, Changing
<1> QED
  BY <1>4, <1>5, <1>6 DEF TargetsInv

\* A command that cannot connect changes nothing that is stored or open.
LEMMA FailsToConnect ==
    ASSUME TargetsInv, NEW c \in Command, T!NotConnected(c)
    PROVE  TargetsInv'
<1>1. /\ UNCHANGED <<tool, on, clearing, locked, T!stored, live, log, wanted, together, late>>
      /\ command' = [command EXCEPT ![c] = T!Idle]
  BY DEF T!NotConnected, T!switches, T!Done
<1>3. command' \in [Command -> CommandType]
      /\ \A d \in Command : command'[d] = command[d] \/ command'[d].at = "free"
  BY <1>1, Types DEF TargetsInv, CommandType, T!Idle
<1>4. T!TypeOK'
  BY <1>1, <1>3, Types, TypesNext DEF TargetsInv, T!stored
<1>5. \A y \in Target : Reads(y)
  BY <1>1 DEF Reads, T!stored
<1>6. UnreadIsGone'
  BY <1>1, <1>5, StillUnread DEF TargetsInv
<1>7. ASSUME NEW y \in Target \ together' PROVE StoredAsWanted(y)' /\ OpenedAsWanted(y)'
  BY <1>1, <1>3, <1>5, <1>7, StaysStored, StaysOpened DEF Opening, Changing, T!stored
<1> QED
  BY <1>4, <1>6, <1>7 DEF TargetsInv

\* A change begins: what is open is closed first.
LEMMA ChangeBegins ==
    ASSUME TargetsInv, NEW c \in Command, NEW x \in Target,
           (\E v \in Setting : T!Save(c, x, v)) \/ T!Delete(c, x)
    PROVE  TargetsInv'
<1>1. /\ UNCHANGED <<tool, on, clearing, locked, T!stored, log, wanted>>
      /\ command[c] = T!Idle /\ T!Meets(x, Opening)
  BY DEF T!Save, T!Delete, T!switches, Opening
<1>2. live' \in [Target -> Entries] /\ late' \subseteq Target \X {"connection", "log"}
      /\ (tool[x] = "kubernetes" => live'[x] = Gone)
      /\ \A y \in Target : live'[y] \in {live[y], Gone}
  BY Types DEF TargetsInv, T!Save, T!Delete, T!ClosedForSave, Entries
<1>3. PICK rec \in CommandType :
         /\ command' = [command EXCEPT ![c] = rec]
         /\ rec.at \in Changing /\ rec.of = x
  BY Holding DEF T!Save, T!Delete, T!Go, T!Held, Changing
<1>4. /\ command' \in [Command -> CommandType] /\ command'[c] = rec
      /\ \A d \in Command \ {c} : command'[d] = command[d]
  BY <1>3, Types DEF TargetsInv
<1>5. together \subseteq together' /\ together' \subseteq together \cup {x}
      /\ (x \notin together' => ~T!Under(x, Opening))
  BY <1>1 DEF T!Meets
<1>6. T!TypeOK'
  BY <1>1, <1>2, <1>4, <1>5, Types, TypesNext DEF TargetsInv, T!stored
<1>7. \A y \in Target : Reads(y)
  BY <1>1 DEF Reads, T!stored
<1>8. UnreadIsGone'
  BY <1>1, <1>7, StillUnread DEF TargetsInv
<1>9. ASSUME NEW y \in Target \ together' PROVE StoredAsWanted(y)'
  BY <1>1, <1>5, <1>7, <1>9, StaysStored DEF T!stored
<1>10. ASSUME NEW y \in Target \ together', y # x PROVE OpenedAsWanted(y)'
  BY <1>1, <1>2, <1>3, <1>4, <1>5, <1>7, <1>10, StaysOpened
<1>11. ASSUME x \notin together' PROVE OpenedAsWanted(x)'
  <2>1. ~T!Under(x, Opening)'
    BY <1>3, <1>4, <1>5, <1>11 DEF T!Under, Opening, Changing
  <2> QED
    BY <1>1, <1>2, <2>1 DEF OpenedAsWanted, T!Under
<1> QED
  BY <1>6, <1>8, <1>9, <1>10, <1>11 DEF TargetsInv

\* What writing an entry does, as far as it came.
LEMMA PutDoes ==
    ASSUME T!TypeOK, NEW x \in Target, NEW v \in Setting, NEW how \in T!Outcomes, ~locked,
           T!Put(x, v, how)
    PROVE  /\ loaded' \in [T!Stores -> BOOLEAN] /\ memory' \in [Target -> Entries]
           /\ vault' \in [Target -> Entries] /\ rules' \subseteq Target
           /\ halved' \subseteq Target /\ vaultRules' = vaultRules
           /\ loaded'[T!Store(x)]
           /\ \A y \in Target \ {x} :
                 Reads(y) /\ vault'[y] = vault[y] /\ (y \in halved' <=> y \in halved)
           /\ how = "both" => vault'[x] = v /\ memory'[x] = v /\ x \notin halved'
           /\ how # "both" =>
                 /\ Reads(x) /\ vault'[x] \in {vault[x], Gone}
                 /\ x \notin halved' => x \notin halved /\ vault'[x] = vault[x]
<1> DEFINE s == T!Store(x)
<1>1. s \in T!Stores /\ T!Load(s)
  BY StoreKinds DEF T!Put
<1>2. /\ loaded' \in [T!Stores -> BOOLEAN] /\ T!Seen(s) \in [Target -> Entries]
      /\ rules' \subseteq Target
  BY <1>1, LoadTypes DEF T!Put
<1>3. loaded'[s]
  BY <1>1 DEF T!Load, T!TypeOK
<1>4. memory' = IF how = "both" THEN [T!Seen(s) EXCEPT ![x] = v] ELSE T!Seen(s)
  BY DEF T!Put, T!Remembered
<1> HIDE DEF s
<1>5. vault' = [vault EXCEPT ![x] = IF how = "both" THEN v
                                    ELSE IF how = "half" THEN Gone ELSE vault[x]]
      /\ vault \in [Target -> Entries]
  BY Types DEF T!Put, T!Outcomes
<1>6. halved' = IF how = "both" THEN halved \ {x}
               ELSE IF how = "half" THEN halved \cup {x} ELSE halved
  BY DEF T!Put, T!Outcomes
<1>7. memory' \in [Target -> Entries] /\ vault' \in [Target -> Entries]
      /\ halved' \subseteq Target
  BY <1>2, <1>4, <1>5, <1>6, Types DEF Entries
<1>8. \A y \in Target : memory'[y] = T!Seen(s)[y] \/ (how = "both" /\ y = x)
  BY <1>2, <1>4
<1>9. \A y \in Target : Reads(y) \/ (how = "both" /\ y = x)
  BY <1>1, <1>8, SeenReads
<1>10. \A y \in Target \ {x} : vault'[y] = vault[y] /\ (y \in halved' <=> y \in halved)
  BY <1>5, <1>6
<1>11. how = "both" => vault'[x] = v /\ memory'[x] = v /\ x \notin halved'
  BY <1>2, <1>4, <1>5, <1>6
<1>12. how # "both" => /\ vault'[x] \in {vault[x], Gone}
                       /\ x \notin halved' => x \notin halved /\ vault'[x] = vault[x]
  BY <1>5, <1>6 DEF T!Outcomes
<1> QED
  BY <1>2, <1>3, <1>7, <1>9, <1>10, <1>11, <1>12 DEF T!Put, s

\* An entry that a command on y holds is not gone.
LEMMA OpeningHoldsWanted ==
    ASSUME TargetsInv, NEW c \in Command, command[c].at \in Opening,
           command[c].of \notin together
    PROVE  LET x == command[c].of
           IN  /\ x \in Target /\ command[c].entry \in Setting
               /\ wanted[x] = command[c].entry /\ memory[x] = command[c].entry
               /\ loaded[T!Store(x)] /\ ~T!Under(x, Changing)
<1> DEFINE x == command[c].of
<1>1. x \in Target /\ command[c].entry \in Setting /\ command[c].entry # Gone
  BY CommandHolds, WorkAssumption DEF T!TargetsAssumption, TargetsInv, Opening
<1>2. OpenedAsWanted(x) /\ T!Under(x, Opening) /\ (~loaded[T!Store(x)] => memory[x] = Gone)
  BY <1>1 DEF TargetsInv, T!Under, UnreadIsGone
<1> QED
  BY <1>1, <1>2 DEF OpenedAsWanted

\* A save is over, and what was written is what the user is told, if all was.
LEMMA Saving ==
    ASSUME TargetsInv, NEW c \in Command, NEW how \in T!Outcomes, T!Saved(c, how)
    PROVE  TargetsInv'
<1>1. PICK x \in Target, v \in Setting :
         /\ x = command[c].of /\ v = command[c].entry /\ v # Gone /\ T!Under(x, Changing)
  BY CommandHolds, WorkAssumption DEF T!TargetsAssumption, T!Saved, TargetsInv, T!Under, Changing
<1>2. /\ UNCHANGED <<tool, on, clearing, locked, live, log, late>>
      /\ command' = [command EXCEPT ![c] = T!Idle] /\ T!Put(x, v, how) /\ ~locked
      /\ (how = "both" => wanted' = [wanted EXCEPT ![x] = v] /\ T!Settles(x))
      /\ (how # "both" => UNCHANGED <<wanted, together>>)
  BY <1>1 DEF T!Saved, T!switches, T!Done
<1>3. command' \in [Command -> CommandType]
      /\ \A d \in Command : command'[d] = command[d] \/ command'[d].at = "free"
  BY <1>2, Types DEF TargetsInv, CommandType, T!Idle
<1>4. wanted' \in [Target -> Entries] /\ together' \subseteq together
      /\ \A y \in Target \ {x} : wanted'[y] = wanted[y] /\ (y \in together' <=> y \in together)
  BY <1>1, <1>2, Types DEF TargetsInv, T!Settles, Entries
<1>5. /\ loaded' \in [T!Stores -> BOOLEAN] /\ memory' \in [Target -> Entries]
      /\ vault' \in [Target -> Entries] /\ rules' \subseteq Target
      /\ halved' \subseteq Target /\ vaultRules' = vaultRules
      /\ loaded'[T!Store(x)]
      /\ \A y \in Target \ {x} :
            Reads(y) /\ vault'[y] = vault[y] /\ (y \in halved' <=> y \in halved)
      /\ how = "both" => vault'[x] = v /\ memory'[x] = v /\ x \notin halved'
      /\ how # "both" =>
            /\ Reads(x) /\ vault'[x] \in {vault[x], Gone}
            /\ x \notin halved' => x \notin halved /\ vault'[x] = vault[x]
  BY <1>1, <1>2, PutDoes DEF TargetsInv
<1>6. T!TypeOK'
  BY <1>2, <1>3, <1>4, <1>5, Types, TypesNext DEF TargetsInv
<1>7. UnreadIsGone'
  BY <1>2, <1>5, StillUnread DEF TargetsInv
<1>8. ASSUME NEW y \in Target \ together', y # x PROVE StoredAsWanted(y)' /\ OpenedAsWanted(y)'
  BY <1>2, <1>3, <1>4, <1>5, <1>8, StaysStored, StaysOpened DEF Opening, Changing
<1>9. ASSUME x \notin together', how # "both" PROVE StoredAsWanted(x)' /\ OpenedAsWanted(x)'
  BY <1>1, <1>2, <1>3, <1>5, <1>9, StaysStored, StaysOpened DEF Opening, Changing
<1>10. ASSUME x \notin together', how = "both" PROVE StoredAsWanted(x)' /\ OpenedAsWanted(x)'
  <2>1. wanted'[x] = v /\ vault'[x] = v /\ memory'[x] = v /\ x \notin halved' /\ v # Gone
    BY <1>1, <1>2, <1>5, <1>10, Types DEF TargetsInv
  <2>2. StoredAsWanted(x)'
    BY <2>1 DEF StoredAsWanted
  <2>3. ~T!Under(x, Opening) /\ ~(tool[x] = "kubernetes" /\ live[x] # Gone)
    <3>1. CASE x \notin together
      BY <1>1, <3>1 DEF TargetsInv, OpenedAsWanted
    <3>2. CASE x \in together
      BY <1>2, <1>10, <3>2 DEF T!Settles, Opening
    <3> QED
      BY <3>1, <3>2
  <2>4. ~T!Under(x, Opening)'
    BY <1>3, <2>3 DEF T!Under, Opening
  <2>5. OpenedAsWanted(x)'
    BY <1>2, <2>3, <2>4 DEF OpenedAsWanted, T!Under
  <2> QED
    BY <2>2, <2>5
<1> QED
  BY <1>6, <1>7, <1>8, <1>9, <1>10 DEF TargetsInv

\* A delete removes the entry here and in the vault; what it could not remove
\* of its log files is known to have gone half way.
LEMMA Deleting ==
    ASSUME TargetsInv, NEW c \in Command, NEW rulesGo \in BOOLEAN, T!Deleted(c, rulesGo)
    PROVE  TargetsInv'
<1>1. PICK x \in Target, s \in T!Stores :
         x = command[c].of /\ s = T!Store(x) /\ T!Under(x, Changing)
  BY CommandHolds, StoreKinds DEF T!Deleted, TargetsInv, T!Under, Changing
<1>2. /\ UNCHANGED <<tool, on, clearing, locked, live, log, late>>
      /\ command' = [command EXCEPT ![c] = T!Idle] /\ ~locked /\ T!Load(s)
      /\ vault' = [vault EXCEPT ![x] = Gone] /\ memory' = [T!Seen(s) EXCEPT ![x] = Gone]
      /\ wanted' = [wanted EXCEPT ![x] = Gone] /\ T!Settles(x)
      /\ rules' = T!SeenRules(s) \ {x} /\ vaultRules' \in {vaultRules, vaultRules \ {x}}
      /\ halved' = IF x \in vaultRules' THEN halved \cup {x} ELSE halved \ {x}
  BY <1>1 DEF T!Deleted, T!switches, T!Done
<1>3. command' \in [Command -> CommandType]
      /\ \A d \in Command : command'[d] = command[d] \/ command'[d].at = "free"
  BY <1>2, Types DEF TargetsInv, CommandType, T!Idle
<1>4. /\ together' \subseteq together
      /\ \A y \in Target \ {x} : wanted'[y] = wanted[y] /\ (y \in together' <=> y \in together)
  BY <1>1, <1>2, Types DEF TargetsInv, T!Settles
<1>5. loaded' \in [T!Stores -> BOOLEAN] /\ T!Seen(s) \in [Target -> Entries]
      /\ rules' \subseteq Target
  BY <1>1, <1>2, LoadTypes DEF TargetsInv
<1>6. T!TypeOK'
  <2>1. /\ vault' \in [Target -> Entries] /\ memory' \in [Target -> Entries]
        /\ wanted' \in [Target -> Entries]
    BY <1>2, <1>5, Types DEF TargetsInv, Entries
  <2>2. vaultRules' \subseteq Target /\ halved' \subseteq Target /\ together' \subseteq Target
    BY <1>1, <1>2, <1>4, Types DEF TargetsInv
  <2> QED
    BY <1>2, <1>3, <1>5, <2>1, <2>2, Types, TypesNext DEF TargetsInv
<1>7. \A y \in Target \ {x} : Reads(y)
  <2>1. \A y \in Target \ {x} : memory'[y] = T!Seen(s)[y]
    BY <1>2, <1>5
  <2> QED
    BY <1>1, <1>2, <2>1, SeenReads DEF TargetsInv
<1>8. memory'[x] = Gone /\ vault'[x] = Gone /\ wanted'[x] = Gone
  BY <1>1, <1>2, <1>5, Types DEF TargetsInv
<1>9. UnreadIsGone'
  BY <1>2, <1>7, <1>8 DEF TargetsInv, UnreadIsGone, Reads, T!Store
<1>10. ASSUME NEW y \in Target \ together', y # x
       PROVE  StoredAsWanted(y)' /\ OpenedAsWanted(y)'
  <2>1. vault'[y] = vault[y] /\ (y \in halved' <=> y \in halved)
        /\ (y \in vaultRules' => y \in vaultRules)
    BY <1>2, <1>10, Types DEF TargetsInv
  <2> QED
    BY <1>2, <1>3, <1>4, <1>7, <1>10, <2>1, StaysStored, StaysOpened DEF Opening, Changing
<1>11. ASSUME x \notin together' PROVE StoredAsWanted(x)' /\ OpenedAsWanted(x)'
  <2>1. x \notin halved' => x \notin vaultRules'
    BY <1>2
  <2>2. StoredAsWanted(x)'
    BY <1>8, <2>1 DEF StoredAsWanted
  <2>3. ~T!Under(x, Opening) /\ ~(tool[x] = "kubernetes" /\ live[x] # Gone)
    <3>1. CASE x \notin together
      BY <1>1, <3>1 DEF TargetsInv, OpenedAsWanted
    <3>2. CASE x \in together
      BY <1>2, <1>11, <3>2 DEF T!Settles, Opening
    <3> QED
      BY <3>1, <3>2
  <2>4. ~T!Under(x, Opening)'
    BY <1>3, <2>3 DEF T!Under, Opening
  <2>5. OpenedAsWanted(x)'
    BY <1>2, <2>3, <2>4 DEF OpenedAsWanted, T!Under
  <2> QED
    BY <2>2, <2>5
<1> QED
  BY <1>6, <1>9, <1>10, <1>11 DEF TargetsInv

\* Log files are saved for a target that is.
LEMMA SavingRules ==
    ASSUME TargetsInv, NEW x \in Target, NEW some \in BOOLEAN, NEW how \in T!Outcomes,
           T!SaveRules(x, some, how)
    PROVE  TargetsInv'
<1> DEFINE s == "devops"
<1>1. /\ UNCHANGED <<tool, on, clearing, locked, live, log, command, wanted, together, late>>
      /\ UNCHANGED <<vault, halved>>
      /\ T!Store(x) = s /\ s \in T!Stores /\ T!Load(s) /\ memory' = T!Seen(s) /\ ~locked
  BY DEF T!SaveRules, T!switches, T!Stores
<1>2. /\ loaded' \in [T!Stores -> BOOLEAN] /\ memory' \in [Target -> Entries]
      /\ T!SeenRules(s) \subseteq Target
  BY <1>1, LoadTypes DEF TargetsInv
<1>3. /\ rules' \subseteq Target
      /\ vaultRules' \subseteq vaultRules \cup {x}
      /\ memory'[x] = Gone => vaultRules' = vaultRules
  BY <1>1, <1>2 DEF T!SaveRules, T!Outcomes
<1>4. \A y \in Target : Reads(y)
  BY <1>1, SeenReads DEF TargetsInv
<1>5. vaultRules \subseteq Target
  BY Types DEF TargetsInv
<1>6. T!TypeOK'
  BY <1>1, <1>2, <1>3, <1>5, Types, TypesNext DEF TargetsInv
<1>7. UnreadIsGone'
  BY <1>1, <1>4, StillUnread DEF TargetsInv
<1>8. ASSUME x \notin together, x \notin halved, memory'[x] # Gone PROVE vault[x] # Gone
  BY <1>4, <1>8 DEF TargetsInv, StoredAsWanted, Reads, UnreadIsGone
<1>9. ASSUME NEW y \in Target \ together' PROVE StoredAsWanted(y)' /\ OpenedAsWanted(y)'
  <2>1. y \notin halved' /\ y \in vaultRules' => y \in vaultRules \/ vault'[y] # Gone
    BY <1>1, <1>3, <1>8, <1>9
  <2> QED
    BY <1>1, <1>4, <1>9, <2>1, StaysStored, StaysOpened
<1> QED
  BY <1>6, <1>7, <1>9 DEF TargetsInv

\* What a command finds saved of a target that is not being changed is wanted.
LEMMA EntryIsWanted ==
    ASSUME TargetsInv, NEW x \in Target \ together, T!Entry(x) # Gone
    PROVE  T!Entry(x) = wanted[x] /\ (memory[x] = T!Entry(x) \/ ~loaded[T!Store(x)])
<1>1. T!Entry(x) = IF T!Loading(T!Store(x)) THEN vault[x] ELSE memory[x]
  BY DEF T!Entry, T!Seen
<1> QED
  BY <1>1 DEF TargetsInv, StoredAsWanted, T!Loading

\* An open begins, and holds what it has read.
LEMMA OpeningBegins ==
    ASSUME TargetsInv, NEW c \in Command, NEW x \in Target,
           UNCHANGED <<tool, on, clearing, locked, live, log, wanted, late, vaultRules>>,
           command[c] = T!Idle, T!Meets(x, Changing), T!Go(c, "connect", x, T!Entry(x)),
           T!Entry(x) # Gone, memory'[x] = T!Entry(x),
           loaded' \in [T!Stores -> BOOLEAN], memory' \in [Target -> Entries],
           vault' \in [Target -> Entries], rules' \subseteq Target, halved' \subseteq Target,
           UnreadIsGone',
           \A y \in Target \ {x} :
              Reads(y) /\ vault'[y] = vault[y] /\ (y \in halved' <=> y \in halved),
           x \notin together => StoredAsWanted(x)'
    PROVE  TargetsInv'
<1>1. memory \in [Target -> Entries] /\ vault \in [Target -> Entries]
      /\ T!Entry(x) \in Setting
  <2>1. T!Entry(x) \in {memory[x], vault[x]}
    BY DEF T!Entry, T!Seen
  <2> QED
    BY <2>1, Types DEF TargetsInv, Entries
<1>2. PICK rec \in CommandType :
         /\ command' = [command EXCEPT ![c] = rec]
         /\ rec.at = "connect" /\ rec.of = x /\ rec.entry = T!Entry(x)
  BY <1>1, Holding DEF T!Go, T!Held
<1>3. /\ command' \in [Command -> CommandType] /\ command'[c] = rec
      /\ \A d \in Command \ {c} : command'[d] = command[d]
  BY <1>2, Types DEF TargetsInv
<1>4. together \subseteq together' /\ together' \subseteq together \cup {x}
      /\ (x \notin together' => ~T!Under(x, Changing))
  BY DEF T!Meets
<1>5. T!TypeOK'
  BY <1>3, <1>4, Types, TypesNext DEF TargetsInv
<1>6. ASSUME NEW y \in Target \ together', y # x PROVE StoredAsWanted(y)' /\ OpenedAsWanted(y)'
  BY <1>2, <1>3, <1>4, <1>6, StaysStored, StaysOpened
<1>7. ASSUME x \notin together' PROVE StoredAsWanted(x)' /\ OpenedAsWanted(x)'
  <2>1. x \notin together /\ T!Entry(x) = wanted[x] /\ OpenedAsWanted(x)
    BY <1>4, <1>7, EntryIsWanted DEF TargetsInv
  <2>2. ~T!Under(x, Changing)'
    BY <1>2, <1>3, <1>4, <1>7 DEF T!Under, Changing
  <2>3. \A d \in Command : command'[d].at \in Opening /\ command'[d].of = x =>
           command'[d].entry = wanted'[x] /\ memory'[x] = wanted'[x]
    BY <1>2, <1>3, <2>1 DEF OpenedAsWanted
  <2> QED
    BY <2>1, <2>2, <2>3 DEF OpenedAsWanted
<1> QED
  BY <1>5, <1>6, <1>7 DEF TargetsInv

\* An open reads the entry it goes on with.
LEMMA Connecting ==
    ASSUME TargetsInv, NEW c \in Command, NEW x \in Target, T!Open(c, x)
    PROVE  TargetsInv'
<1>1. /\ UNCHANGED <<tool, on, clearing, locked, live, log, wanted, late>>
      /\ command[c] = T!Idle /\ T!Meets(x, Changing) /\ T!Go(c, "connect", x, T!Entry(x))
      /\ T!Entry(x) # Gone /\ T!OnlyLoads(T!Store(x)) /\ memory'[x] = T!Entry(x)
  BY DEF T!Open, T!switches, Changing, T!StillSaved, T!OnlyLoads, T!Entry
<1>2. /\ loaded' \in [T!Stores -> BOOLEAN] /\ memory' \in [Target -> Entries]
      /\ rules' \subseteq Target /\ UNCHANGED <<vault, vaultRules, halved>>
      /\ \A y \in Target : Reads(y)
  BY <1>1, LoadsTyped, StoreKinds DEF TargetsInv
<1>3. UnreadIsGone'
  BY <1>1, <1>2, StillUnread DEF TargetsInv
<1>4. x \notin together => StoredAsWanted(x)'
  BY <1>1, <1>2, StaysStored
<1>5. vault' \in [Target -> Entries] /\ halved' \subseteq Target
  BY <1>2, Types DEF TargetsInv
<1> QED
  BY <1>1, <1>2, <1>3, <1>4, <1>5, OpeningBegins

\* So does one of a database, which stamps the entry at once.
LEMMA ConnectingDatabase ==
    ASSUME TargetsInv, NEW c \in Command, NEW x \in Target, NEW how \in T!Outcomes,
           T!OpenDatabase(c, x, how)
    PROVE  TargetsInv'
<1>1. /\ UNCHANGED <<tool, on, clearing, locked, live, log, wanted, late>>
      /\ command[c] = T!Idle /\ T!Meets(x, Changing) /\ T!Go(c, "connect", x, T!Entry(x))
      /\ T!Entry(x) # Gone
  BY DEF T!OpenDatabase, T!switches, Changing, T!StillSaved
<1>2. T!Entry(x) \in Setting
  <2>1. T!Entry(x) \in {memory[x], vault[x]}
    BY DEF T!Entry, T!Seen
  <2> QED
    BY <1>1, <2>1, Types DEF TargetsInv, Entries
<1>3. CASE locked
  <2>1. UNCHANGED T!stored /\ memory'[x] = T!Entry(x)
    BY <1>3 DEF T!OpenDatabase, T!Entry, T!Seen, T!Loading, T!stored
  <2>2. \A y \in Target : Reads(y)
    BY <2>1 DEF Reads, T!stored
  <2>3. UnreadIsGone'
    BY <1>1, <2>2, StillUnread DEF TargetsInv
  <2>4. x \notin together => StoredAsWanted(x)'
    BY <1>1, <2>1, <2>2, StaysStored DEF T!stored
  <2>5. /\ loaded' \in [T!Stores -> BOOLEAN] /\ memory' \in [Target -> Entries]
        /\ vault' \in [Target -> Entries] /\ rules' \subseteq Target /\ halved' \subseteq Target
    BY <2>1, Types DEF TargetsInv, T!stored
  <2> QED
    BY <1>1, <2>1, <2>2, <2>3, <2>4, <2>5, OpeningBegins DEF T!stored
<1>4. CASE ~locked
  <2>1. T!Put(x, T!Entry(x), how)
    BY <1>4 DEF T!OpenDatabase
  <2>2. /\ loaded' \in [T!Stores -> BOOLEAN] /\ memory' \in [Target -> Entries]
        /\ vault' \in [Target -> Entries] /\ rules' \subseteq Target
        /\ halved' \subseteq Target /\ vaultRules' = vaultRules
        /\ loaded'[T!Store(x)]
        /\ \A y \in Target \ {x} :
              Reads(y) /\ vault'[y] = vault[y] /\ (y \in halved' <=> y \in halved)
        /\ how = "both" => vault'[x] = T!Entry(x) /\ memory'[x] = T!Entry(x) /\ x \notin halved'
        /\ how # "both" =>
              /\ Reads(x) /\ vault'[x] \in {vault[x], Gone}
              /\ x \notin halved' => x \notin halved /\ vault'[x] = vault[x]
    BY <1>2, <1>4, <2>1, PutDoes DEF TargetsInv
  <2>3. UnreadIsGone'
    BY <1>1, <2>2, StillUnread DEF TargetsInv
  <2>4. memory'[x] = T!Entry(x)
    <3>1. T!Seen(T!Store(x)) \in [Target -> Entries]
      BY <2>1, LoadTypes, StoreKinds DEF T!Put, TargetsInv
    <3> QED
      BY <2>1, <3>1 DEF T!Put, T!Remembered, T!Entry
  <2>5. ASSUME x \notin together PROVE StoredAsWanted(x)'
    <3>1. CASE how = "both"
      BY <1>1, <2>2, <2>5, <3>1, EntryIsWanted DEF StoredAsWanted
    <3>2. CASE how # "both"
      BY <1>1, <2>2, <2>5, <3>2, StaysStored
    <3> QED
      BY <3>1, <3>2
  <2> QED
    BY <1>1, <2>2, <2>3, <2>4, <2>5, OpeningBegins
<1> QED
  BY <1>3, <1>4

\* A connection is open as its command has read the target.
LEMMA Connects ==
    ASSUME TargetsInv, NEW c \in Command, T!Connected(c)
    PROVE  TargetsInv'
<1>1. PICK x \in Target, v \in Setting :
         /\ x = command[c].of /\ v = command[c].entry /\ command[c].at = "connect"
         /\ v # Gone /\ T!Under(x, Opening)
  BY CommandHolds, WorkAssumption DEF T!TargetsAssumption, T!Connected, TargetsInv, T!Under, Opening
<1>2. /\ UNCHANGED <<tool, on, clearing, locked, T!stored, log, wanted, together>>
      /\ live' = [live EXCEPT ![x] = v] /\ late' = T!Lately(x, "connection")
  BY <1>1 DEF T!Connected, T!switches
<1>3. PICK rec \in CommandType :
         /\ command' = [command EXCEPT ![c] = rec]
         /\ rec.at # "free" => rec.at = "stamp" /\ rec.of = x /\ rec.entry = v
  BY <1>1, Holding DEF T!Connected, T!Done, T!Go, T!Held
<1>4. /\ command' \in [Command -> CommandType] /\ command'[c] = rec
      /\ \A d \in Command \ {c} : command'[d] = command[d]
  BY <1>3, Types DEF TargetsInv
<1>5. live' \in [Target -> Entries] /\ late' \subseteq Target \X {"connection", "log"}
      /\ live'[x] = v /\ \A y \in Target \ {x} : live'[y] = live[y]
  BY <1>2, Types DEF TargetsInv, Entries, T!Lately
<1>6. T!TypeOK'
  BY <1>2, <1>4, <1>5, Types, TypesNext DEF TargetsInv, T!stored
<1>7. \A y \in Target : Reads(y)
  BY <1>2 DEF Reads, T!stored
<1>8. UnreadIsGone'
  BY <1>2, <1>7, StillUnread DEF TargetsInv
<1>9. ASSUME NEW y \in Target \ together' PROVE StoredAsWanted(y)'
  BY <1>2, <1>7, <1>9, StaysStored DEF T!stored
<1>10. ASSUME NEW y \in Target \ together', y # x PROVE OpenedAsWanted(y)'
  BY <1>2, <1>3, <1>4, <1>5, <1>7, <1>10, StaysOpened DEF Opening, Changing
<1>11. ASSUME x \notin together' PROVE OpenedAsWanted(x)'
  <2>1. /\ OpenedAsWanted(x) /\ wanted[x] = v /\ memory[x] = v /\ ~T!Under(x, Changing)
        /\ wanted' = wanted /\ memory' = memory
    BY <1>1, <1>2, <1>11, OpeningHoldsWanted DEF TargetsInv, Opening, T!stored
  <2>2. ~T!Under(x, Changing)'
    BY <1>3, <1>4, <2>1 DEF T!Under, Changing
  <2>3. \A d \in Command : command'[d].at \in Opening /\ command'[d].of = x =>
           command'[d].entry = wanted'[x] /\ memory'[x] = wanted'[x]
    BY <1>3, <1>4, <2>1 DEF OpenedAsWanted, Opening
  <2> QED
    BY <1>5, <2>1, <2>2, <2>3 DEF OpenedAsWanted
<1> QED
  BY <1>6, <1>8, <1>9, <1>10, <1>11 DEF TargetsInv

\* What an open writes back is what it had read.
LEMMA Stamping ==
    ASSUME TargetsInv, NEW c \in Command, NEW how \in T!Outcomes, T!Stamped(c, how)
    PROVE  TargetsInv'
<1>1. PICK x \in Target, v \in Setting :
         /\ x = command[c].of /\ v = command[c].entry /\ command[c].at = "stamp"
         /\ v # Gone
  BY CommandHolds, WorkAssumption DEF T!TargetsAssumption, T!Stamped, TargetsInv
<1>2. /\ UNCHANGED <<tool, on, clearing, locked, live, log, wanted, together, late>>
      /\ command' = [command EXCEPT ![c] = T!Idle]
  BY DEF T!Stamped, T!switches, T!Done
<1>3. command' \in [Command -> CommandType]
      /\ \A d \in Command : command'[d] = command[d] \/ command'[d].at = "free"
  BY <1>2, Types DEF TargetsInv, CommandType, T!Idle
<1>4. /\ loaded' \in [T!Stores -> BOOLEAN] /\ memory' \in [Target -> Entries]
      /\ vault' \in [Target -> Entries] /\ rules' \subseteq Target
      /\ halved' \subseteq Target /\ vaultRules' = vaultRules
      /\ \A y \in Target \ {x} :
            Reads(y) /\ vault'[y] = vault[y] /\ (y \in halved' <=> y \in halved)
      /\ \/ vault'[x] = v /\ memory'[x] = v /\ x \notin halved' /\ loaded'[T!Store(x)]
         \/ /\ Reads(x) /\ vault'[x] \in {vault[x], Gone}
            /\ x \notin halved' => x \notin halved /\ vault'[x] = vault[x]
  <2>1. CASE locked
    BY <1>1, <2>1, Types DEF T!Stamped, T!stored, Reads, TargetsInv
  <2>2. CASE ~locked
    BY <1>1, <2>2, PutDoes DEF T!Stamped, TargetsInv
  <2> QED
    BY <2>1, <2>2
<1>5. T!TypeOK'
  BY <1>2, <1>3, <1>4, Types, TypesNext DEF TargetsInv
<1>6. UnreadIsGone'
  BY <1>2, <1>4, StillUnread DEF TargetsInv
<1>7. ASSUME NEW y \in Target \ together', y # x PROVE StoredAsWanted(y)' /\ OpenedAsWanted(y)'
  BY <1>2, <1>3, <1>4, <1>7, StaysStored, StaysOpened DEF Opening, Changing
<1>8. ASSUME x \notin together' PROVE StoredAsWanted(x)' /\ OpenedAsWanted(x)'
  <2>1. x \notin together /\ wanted[x] = v /\ memory[x] = v /\ loaded[T!Store(x)]
    BY <1>1, <1>2, <1>8, OpeningHoldsWanted DEF Opening
  <2>2. StoredAsWanted(x)'
    <3>1. CASE vault'[x] = v /\ memory'[x] = v /\ x \notin halved'
      BY <1>1, <1>2, <2>1, <3>1 DEF StoredAsWanted
    <3>2. CASE ~(vault'[x] = v /\ memory'[x] = v /\ x \notin halved')
      BY <1>2, <1>4, <2>1, <3>2, StaysStored
    <3> QED
      BY <3>1, <3>2
  <2>3. memory'[x] = memory[x] /\ loaded'[T!Store(x)]
    BY <1>4, <2>1 DEF Reads
  <2>4. OpenedAsWanted(x)
    BY <2>1 DEF TargetsInv
  <2>5. (T!Under(x, Opening)' => T!Under(x, Opening)) /\ (T!Under(x, Changing)' => T!Under(x, Changing))
    BY <1>3 DEF T!Under, Opening, Changing
  <2>6. \A d \in Command : command'[d].at \in Opening => command'[d] = command[d]
    BY <1>3 DEF Opening
  <2>7. OpenedAsWanted(x)'
    BY <1>2, <2>3, <2>4, <2>5, <2>6 DEF OpenedAsWanted
  <2> QED
    BY <2>2, <2>7
<1> QED
  BY <1>5, <1>6, <1>7, <1>8 DEF TargetsInv

\* Every step keeps the invariant.
LEMMA TargetsNext ==
    ASSUME TargetsInv, [T!Next]_T!vars
    PROVE  TargetsInv'
<1>1. CASE UNCHANGED T!vars
  <2>1. UNCHANGED <<tool, on, clearing, locked, T!stored, live, log, command, wanted, together, late>>
    BY <1>1 DEF T!vars, T!switches
  <2>2. T!TypeOK' /\ \A y \in Target : Reads(y)
    BY <2>1, Types, TypesNext DEF TargetsInv, T!stored, Reads
  <2>3. UnreadIsGone'
    BY <2>1, <2>2, StillUnread DEF TargetsInv
  <2>4. ASSUME NEW y \in Target \ together' PROVE StoredAsWanted(y)' /\ OpenedAsWanted(y)'
    BY <2>1, <2>2, <2>4, StaysStored, StaysOpened DEF T!stored
  <2> QED
    BY <2>2, <2>3, <2>4 DEF TargetsInv
<1> QED
  BY <1>1, ClosesOnly, Restarts, Replacing, Listing, Refusing, FailsToConnect, ChangeBegins, Saving, Deleting,
     SavingRules, Connecting, ConnectingDatabase, Connects, Stamping DEF T!Next

\* The invariant holds in every behaviour.
LEMMA TargetsAlways == T!Spec => []TargetsInv
<1>1. T!Init => TargetsInv
  BY TargetsInit
<1>2. TargetsInv /\ [T!Next]_T!vars => TargetsInv'
  BY TargetsNext
<1> QED
  BY <1>1, <1>2, PTL DEF T!Spec

\* Every variable of the saved targets keeps its type.
THEOREM TargetsTyped == T!Spec => []T!TypeOK
<1>1. TargetsInv => T!TypeOK
  BY DEF TargetsInv
<1> QED
  BY <1>1, TargetsAlways, PTL

\* What the user was told is saved is what the store shows, and a cluster is open
\* under the settings that are saved, whatever failed on the way: unless a write
\* went half way, an open was under way during a change, or the vault was reset
\* or replaced after the store had been read.
THEOREM SettingsAlwaysKept == T!Spec => []SettingsKept
<1>1. ASSUME TargetsInv PROVE T!SettingsKept
  <2>1. T!SavedIsKept
    BY <1>1 DEF TargetsInv, T!SavedIsKept, StoredAsWanted
  <2>2. T!OpenAsSaved
    BY <1>1 DEF TargetsInv, T!OpenAsSaved, OpenedAsWanted
  <2> QED
    BY <2>1, <2>2 DEF T!SettingsKept
<1> QED
  BY <1>1, TargetsAlways, PTL DEF SettingsKept

\* Whatever is open to a tool that is off was begun before, or is late.
LEMMA OffNext ==
    ASSUME T!TypeOK, T!OffMeansOff, [T!Next]_T!vars
    PROVE  T!OffMeansOff'
<1> USE DEF T!TypeOK
<1>1. ASSUME NEW t \in T!Kinds, T!TurnOn(t) \/ T!TurnOff(t) \/ T!List(t) PROVE T!OffMeansOff'
  BY <1>1 DEF T!OffMeansOff, T!TurnOn, T!TurnOff, T!List, T!switches
<1>2. ASSUME NEW t \in T!Kinds, T!CloseAll(t) PROVE T!OffMeansOff'
  BY <1>2 DEF T!OffMeansOff, T!CloseAll, T!CutLogs
<1>3. CASE \/ T!LockVault \/ T!Restart
           \/ \E brought \in [Target -> Setting \cup {Gone}], broughtRules \in SUBSET Target :
                 T!Replace(brought, broughtRules)
  BY <1>3 DEF T!OffMeansOff, T!LockVault, T!Restart, T!Replace, T!switches
<1>4. ASSUME NEW c \in Command, NEW x \in Target,
             \/ \E v \in Setting : T!Save(c, x, v)
             \/ T!Delete(c, x)
      PROVE  T!OffMeansOff'
  BY <1>4 DEF T!OffMeansOff, T!Save, T!Delete, T!switches, T!Require, T!ClosedForSave
<1>5. ASSUME NEW c \in Command, NEW x \in Target,
             T!Open(c, x) \/ \E how \in T!Outcomes : T!OpenDatabase(c, x, how)
      PROVE  T!OffMeansOff'
  BY <1>5 DEF T!OffMeansOff, T!Open, T!OpenDatabase, T!switches
<1>6. ASSUME NEW c \in Command,
             \/ \E how \in T!Outcomes : T!Saved(c, how) \/ T!Stamped(c, how)
             \/ \E rulesGo \in BOOLEAN : T!Deleted(c, rulesGo)
             \/ T!Refused(c) \/ T!NotConnected(c)
      PROVE  T!OffMeansOff'
  BY <1>6 DEF T!OffMeansOff, T!Saved, T!Stamped, T!Deleted, T!Refused, T!NotConnected, T!switches
<1>7. ASSUME NEW c \in Command, T!Connected(c) PROVE T!OffMeansOff'
  BY <1>7 DEF T!OffMeansOff, T!Connected, T!Lately, T!switches
<1>8. ASSUME NEW x \in Target, \/ \E some \in BOOLEAN, how \in T!Outcomes : T!SaveRules(x, some, how)
                              \/ T!Close(x) \/ T!GetForLog(x)
      PROVE  T!OffMeansOff'
  BY <1>8 DEF T!OffMeansOff, T!SaveRules, T!Close, T!GetForLog, T!switches
<1>9. ASSUME NEW x \in Target, T!FollowLog(x) \/ T!LogEnds(x) PROVE T!OffMeansOff'
  BY <1>9 DEF T!OffMeansOff, T!FollowLog, T!LogEnds, T!Lately, T!switches
<1>10. CASE UNCHANGED T!vars
  BY <1>10 DEF T!OffMeansOff, T!vars, T!switches
<1> QED
  BY <1>1, <1>2, <1>3, <1>4, <1>5, <1>6, <1>7, <1>8, <1>9, <1>10 DEF T!Next

\* A tool that is off keeps no connection open and follows no log, but for one
\* whose open was under way when it was turned off.
THEOREM OffAlwaysMeansOff == T!Spec => []OffMeansOff
<1>1. T!Init => T!OffMeansOff
  BY DEF T!Init, T!OffMeansOff
<1>2. T!TypeOK /\ T!OffMeansOff /\ [T!Next]_T!vars => T!OffMeansOff'
  BY OffNext
<1> QED
  BY <1>1, <1>2, TargetsTyped, PTL DEF OffMeansOff, T!Spec

-----------------------------------------------------------------------------
(* The tunnels of the panel.                                               *)

Stages == {"idle", "start", "started", "stop", "stopping", "stopped"}
CallType == [at : Stages, of : Tunnel \cup {None}]

CallsTyped ==
    /\ N!TypeOK
    /\ \A c \in Caller : call[c].at # "idle" => call[c].of \in Tunnel
    /\ \A c \in Caller : call[c].at = "idle" => call[c].of = None

\* Only what is created is worked on or listens.
Created ==
    /\ \A t \in listens : settings[t] # None
    /\ \A c \in Caller : call[c].at # "idle" => settings[call[c].of] # None

PortsApart == \A t, u \in listens : settings[t].port = settings[u].port => t = u

\* On a tunnel whose commands came one after another there is at most one, and
\* its stage says what runs and what the panel shows.
OneAtATime(t) ==
    /\ \A c, d \in Caller : call[c].of = t /\ call[d].of = t => c = d
    /\ ~N!Working(t) => (flag[t] <=> t \in running)
    /\ \A c \in Caller : call[c].of = t =>
          /\ call[c].at \in {"start", "stop"} => (flag[t] <=> t \in running)
          /\ call[c].at = "started" => t \in running
          /\ call[c].at \in {"stopping", "stopped"} => t \notin running

TunnelsInv ==
    /\ CallsTyped
    /\ Created
    /\ N!Stoppable
    /\ PortsApart
    /\ \A t \in Tunnel \ overlapped : OneAtATime(t)

\* The invariant holds at the start.
LEMMA TunnelsInit == ASSUME N!Init PROVE TunnelsInv
<1>1. CallsTyped
  BY DEF N!Init, CallsTyped, N!TypeOK, N!Idle
<1>2. Created /\ N!Stoppable /\ PortsApart
  BY DEF N!Init, Created, N!Stoppable, PortsApart, N!Idle
<1>3. ASSUME NEW t \in Tunnel PROVE OneAtATime(t)
  BY <1>3, WorkAssumption DEF N!Init, OneAtATime, N!Idle, N!TunnelsAssumption
<1> QED
  BY <1>1, <1>2, <1>3 DEF TunnelsInv

\* A step of a call changes it alone.
LEMMA CallSteps ==
    ASSUME CallsTyped, NEW c \in Caller, NEW rec \in CallType,
           call' = [call EXCEPT ![c] = rec],
           rec.at # "idle" => rec.of \in Tunnel, rec.at = "idle" => rec.of = None,
           settings' = settings, connected' = connected, flag' \in [Tunnel -> BOOLEAN],
           running' \subseteq Tunnel, listens' \subseteq Tunnel, ending' \subseteq Tunnel,
           overlapped' \subseteq Tunnel
    PROVE  /\ CallsTyped'
           /\ call'[c] = rec /\ \A d \in Caller \ {c} : call'[d] = call[d]
BY DEF CallsTyped, N!TypeOK, CallType, Stages

\* A tunnel is created once, and nothing runs of it yet.
LEMMA TunnelMade ==
    ASSUME TunnelsInv, NEW t \in Tunnel, N!Create(t)
    PROVE  TunnelsInv'
<1>1. /\ UNCHANGED <<running, listens, ending, call, overlapped>>
      /\ settings[t] = None /\ flag' = [flag EXCEPT ![t] = FALSE]
      /\ \A u \in Tunnel \ {t} : settings'[u] = settings[u] /\ flag'[u] = flag[u]
      /\ flag'[t] = FALSE /\ connected' = connected
      /\ settings' \in [Tunnel -> [port : Port, type : N!Types] \cup {None}]
  BY DEF N!Create, TunnelsInv, CallsTyped, N!TypeOK
<1>2. t \notin listens /\ t \notin running /\ listens \subseteq Tunnel
  BY <1>1 DEF TunnelsInv, Created, N!Stoppable, CallsTyped, N!TypeOK
<1>3. \A c \in Caller : call[c].of # t
  BY <1>1, WorkAssumption DEF TunnelsInv, Created, CallsTyped, N!TunnelsAssumption
<1>4. CallsTyped'
  BY <1>1 DEF TunnelsInv, CallsTyped, N!TypeOK
<1>5. \A u \in listens : settings'[u] = settings[u]
  BY <1>1, <1>2
<1>6. Created'
  BY <1>1, <1>3, <1>5 DEF TunnelsInv, Created, CallsTyped
<1>7. N!Stoppable' /\ PortsApart'
  BY <1>1, <1>5 DEF TunnelsInv, N!Stoppable, PortsApart
<1>8. ASSUME NEW u \in Tunnel \ overlapped' PROVE OneAtATime(u)'
  BY <1>1, <1>2, <1>3, <1>8 DEF TunnelsInv, OneAtATime, N!Working
<1> QED
  BY <1>4, <1>6, <1>7, <1>8 DEF TunnelsInv

\* A call begins: the tunnel is no longer alone if another is at it.
LEMMA CallBegins ==
    ASSUME TunnelsInv, NEW c \in Caller, NEW t \in Tunnel, NEW at \in {"start", "stop"},
           N!Begin(c, t, at)
    PROVE  TunnelsInv'
<1> DEFINE rec == [at |-> at, of |-> t]
<1>1. /\ UNCHANGED <<settings, flag, running, listens, ending, connected>>
      /\ settings[t] # None /\ call[c] = N!Idle
      /\ call' = [call EXCEPT ![c] = rec]
      /\ overlapped \subseteq overlapped' /\ overlapped' \subseteq overlapped \cup {t}
      /\ t \notin overlapped' => \A d \in Caller : call[d].of # t
  BY DEF N!Begin
<1>2. rec \in CallType /\ rec.at = at /\ rec.of = t
  BY DEF CallType, Stages
<1> HIDE DEF rec
<1>3. /\ CallsTyped' /\ call'[c] = rec
      /\ \A d \in Caller \ {c} : call'[d] = call[d]
  BY <1>1, <1>2, CallSteps DEF TunnelsInv, CallsTyped, N!TypeOK
<1>4. Created'
  BY <1>1, <1>2, <1>3 DEF TunnelsInv, Created
<1>5. N!Stoppable' /\ PortsApart'
  BY <1>1 DEF TunnelsInv, N!Stoppable, PortsApart
<1>6. ASSUME NEW u \in Tunnel \ overlapped', u # t PROVE OneAtATime(u)'
  <2>1. OneAtATime(u) /\ call[c].of # u /\ call'[c].of # u
    BY <1>1, <1>2, <1>3, <1>6, WorkAssumption DEF TunnelsInv, N!Idle, N!TunnelsAssumption
  <2>2. N!Working(u)' <=> N!Working(u)
    BY <1>3, <2>1 DEF N!Working
  <2> QED
    BY <1>1, <1>3, <2>1, <2>2 DEF OneAtATime
<1>7. ASSUME t \notin overlapped' PROVE OneAtATime(t)'
  <2>1. OneAtATime(t) /\ ~N!Working(t)
    BY <1>1, <1>7 DEF TunnelsInv, N!Working
  <2>2. \A d \in Caller : call'[d].of = t => d = c
    BY <1>1, <1>3, <1>7
  <2> QED
    BY <1>1, <1>2, <1>3, <2>1, <2>2 DEF OneAtATime, N!Working
<1> QED
  BY <1>3, <1>4, <1>5, <1>6, <1>7 DEF TunnelsInv

\* What a call does to its own tunnel, the others do not notice.
LEMMA OthersApart ==
    ASSUME TunnelsInv, NEW c \in Caller, NEW t \in Tunnel, call[c].of = t,
           \A d \in Caller \ {c} : call'[d] = call[d],
           call'[c].of \in {None, t}, overlapped' = overlapped,
           \A u \in Tunnel \ {t} : (u \in running' <=> u \in running) /\ flag'[u] = flag[u],
           NEW u \in Tunnel \ overlapped', u # t
    PROVE  OneAtATime(u)'
<1>1. OneAtATime(u) /\ call[c].of # u /\ call'[c].of # u
  BY WorkAssumption DEF TunnelsInv, N!TunnelsAssumption
<1>2. N!Working(u)' <=> N!Working(u)
  BY <1>1 DEF N!Working
<1> QED
  BY <1>1, <1>2 DEF OneAtATime

\* Its own has no other call.
LEMMA NoOther ==
    ASSUME TunnelsInv, NEW c \in Caller, NEW t \in Tunnel \ overlapped, call[c].of = t,
           \A d \in Caller \ {c} : call'[d] = call[d]
    PROVE  /\ OneAtATime(t)
           /\ \A d \in Caller : call'[d].of = t => d = c
BY DEF TunnelsInv, OneAtATime

\* The call is over.
LEMMA CallEnds ==
    ASSUME TunnelsInv, NEW c \in Caller, NEW t \in Tunnel, call[c].of = t,
           call' = [call EXCEPT ![c] = N!Idle],
           UNCHANGED <<settings, running, listens, ending, connected, overlapped>>,
           flag' \in [Tunnel -> BOOLEAN], \A u \in Tunnel \ {t} : flag'[u] = flag[u],
           t \notin overlapped => (flag'[t] <=> t \in running)
    PROVE  TunnelsInv'
<1>1. N!Idle \in CallType /\ N!Idle.at = "idle" /\ N!Idle.of = None
  BY DEF N!Idle, CallType, Stages
<1>2. /\ CallsTyped' /\ call'[c] = N!Idle
      /\ \A d \in Caller \ {c} : call'[d] = call[d]
  BY <1>1, CallSteps DEF TunnelsInv, CallsTyped, N!TypeOK
<1>3. Created' /\ N!Stoppable' /\ PortsApart'
  BY <1>1, <1>2 DEF TunnelsInv, Created, N!Stoppable, PortsApart
<1>4. ASSUME NEW u \in Tunnel \ overlapped', u # t PROVE OneAtATime(u)'
  BY <1>1, <1>2, <1>4, OthersApart
<1>5. ASSUME t \notin overlapped' PROVE OneAtATime(t)'
  <2>1. \A d \in Caller : call'[d].of = t => d = c
    BY <1>2, <1>5, NoOther
  <2>2. \A d \in Caller : call'[d].of # t
    BY <1>1, <1>2, <2>1, WorkAssumption DEF N!TunnelsAssumption
  <2> QED
    BY <1>5, <2>2 DEF OneAtATime
<1> QED
  BY <1>2, <1>3, <1>4, <1>5 DEF TunnelsInv

\* A call goes on to another stage.
LEMMA CallGoesOn ==
    ASSUME TunnelsInv, NEW c \in Caller, NEW t \in Tunnel, call[c].of = t,
           call[c].at # "idle", NEW at \in Stages \ {"idle"}, N!Go(c, at),
           UNCHANGED <<settings, flag, connected, overlapped>>,
           running' \subseteq Tunnel, listens' \subseteq Tunnel, ending' \subseteq Tunnel,
           \A u \in Tunnel \ {t} : u \in running' <=> u \in running,
           listens' \subseteq listens \cup {t}, N!Stoppable', PortsApart',
           t \notin overlapped =>
              /\ at \in {"start", "stop"} => (flag[t] <=> t \in running')
              /\ at = "started" => t \in running'
              /\ at \in {"stopping", "stopped"} => t \notin running'
    PROVE  TunnelsInv'
<1> DEFINE rec == [call[c] EXCEPT !.at = at]
<1>1. call[c] \in CallType
  BY DEF TunnelsInv, CallsTyped, N!TypeOK, CallType, Stages
<1>2. rec \in CallType /\ rec.at = at /\ rec.of = t /\ call' = [call EXCEPT ![c] = rec]
  BY <1>1 DEF CallType, N!Go
<1> HIDE DEF rec
<1>3. /\ CallsTyped' /\ call'[c] = rec
      /\ \A d \in Caller \ {c} : call'[d] = call[d]
  BY <1>2, CallSteps DEF TunnelsInv, CallsTyped, N!TypeOK
<1>4. settings[t] # None
  BY DEF TunnelsInv, Created
<1>5. Created'
  BY <1>2, <1>3, <1>4 DEF TunnelsInv, Created
<1>6. ASSUME NEW u \in Tunnel \ overlapped', u # t PROVE OneAtATime(u)'
  BY <1>2, <1>3, <1>6, OthersApart
<1>7. ASSUME t \notin overlapped' PROVE OneAtATime(t)'
  <2>1. \A d \in Caller : call'[d].of = t => d = c
    BY <1>3, <1>7, NoOther
  <2>2. N!Working(t)'
    BY <1>2, <1>3 DEF N!Working
  <2> QED
    BY <1>2, <1>3, <1>7, <2>1, <2>2 DEF OneAtATime
<1> QED
  BY <1>3, <1>5, <1>6, <1>7 DEF TunnelsInv

\* Every step of a command keeps the invariant.
LEMMA TunnelCommands ==
    ASSUME TunnelsInv, NEW c \in Caller,
           N!StartFails(c) \/ N!StartRuns(c) \/ N!MarkStarted(c) \/ N!StopRuns(c) \/ N!Stopped(c)
              \/ N!MarkStopped(c)
    PROVE  TunnelsInv'
<1>1. PICK t \in Tunnel : call[c].of = t /\ call[c].at # "idle"
  BY DEF TunnelsInv, CallsTyped, N!StartFails, N!StartRuns, N!MarkStarted, N!StopRuns, N!Stopped,
         N!MarkStopped
<1>2. t \notin overlapped => OneAtATime(t)
  BY DEF TunnelsInv
<1>3. /\ running \subseteq Tunnel /\ listens \subseteq Tunnel /\ ending \subseteq Tunnel
      /\ flag \in [Tunnel -> BOOLEAN] /\ N!Stoppable /\ PortsApart
  BY DEF TunnelsInv, CallsTyped, N!TypeOK
<1>4. CASE N!StartFails(c)
  BY <1>1, <1>2, <1>3, <1>4, CallEnds DEF N!StartFails, N!End, OneAtATime
<1>5. CASE N!MarkStarted(c)
  BY <1>1, <1>2, <1>3, <1>5, CallEnds DEF N!MarkStarted, N!End, OneAtATime
<1>6. CASE N!MarkStopped(c)
  BY <1>1, <1>2, <1>3, <1>6, CallEnds DEF N!MarkStopped, N!End, OneAtATime
<1>7. CASE N!StartRuns(c)
  <2>1. /\ UNCHANGED <<settings, flag, ending, connected, overlapped>>
        /\ running' = running \cup {t} /\ listens' = listens \cup {t} /\ N!Go(c, "started")
        /\ t \notin running /\ ~N!PortTaken(t)
    BY <1>1, <1>7 DEF N!StartRuns, N!Refused
  <2>2. t \notin listens
    BY <2>1 DEF N!PortTaken
  <2>3. N!Stoppable'
    BY <1>3, <2>1, <2>2 DEF N!Stoppable
  <2>4. PortsApart'
    BY <1>3, <2>1 DEF PortsApart, N!PortTaken
  <2> QED
    BY <1>1, <1>3, <2>1, <2>3, <2>4, CallGoesOn DEF Stages
<1>8. CASE N!StopRuns(c)
  <2> DEFINE at == IF t \in running THEN "stopping" ELSE "stopped"
  <2>1. /\ UNCHANGED <<settings, flag, listens, connected, overlapped>>
        /\ running' = running \ {t} /\ ending' = ending \cup ({t} \cap running) /\ N!Go(c, at)
    BY <1>1, <1>8 DEF N!StopRuns, N!Told
  <2>2. N!Stoppable'
    BY <1>3, <2>1 DEF N!Stoppable
  <2>3. PortsApart'
    BY <1>3, <2>1 DEF PortsApart
  <2>4. at \in {"stopping", "stopped"}
    OBVIOUS
  <2> HIDE DEF at
  <2> QED
    BY <1>1, <1>3, <2>1, <2>2, <2>3, <2>4, CallGoesOn DEF Stages
<1>9. CASE N!Stopped(c)
  <2>1. N!Stoppable' /\ PortsApart'
    BY <1>3, <1>9 DEF N!Stopped, N!Stoppable, PortsApart
  <2> QED
    BY <1>1, <1>2, <1>3, <1>9, <2>1, CallGoesOn DEF N!Stopped, Stages, OneAtATime
<1> QED
  BY <1>4, <1>5, <1>6, <1>7, <1>8, <1>9

\* A listener that was told to ends, and frees its port.
LEMMA ListenerGoes ==
    ASSUME TunnelsInv, NEW t \in Tunnel, N!ListenerEnds(t)
    PROVE  TunnelsInv'
<1>1. /\ UNCHANGED <<settings, flag, running, connected, call, overlapped>>
      /\ t \in ending /\ listens' = listens \ {t} /\ ending' = ending \ {t}
  BY DEF N!ListenerEnds
<1>2. CallsTyped'
  BY <1>1 DEF TunnelsInv, CallsTyped, N!TypeOK
<1>3. Created' /\ N!Stoppable' /\ PortsApart'
  BY <1>1 DEF TunnelsInv, Created, N!Stoppable, PortsApart
<1>4. ASSUME NEW u \in Tunnel \ overlapped' PROVE OneAtATime(u)'
  BY <1>1, <1>4 DEF TunnelsInv, OneAtATime, N!Working
<1> QED
  BY <1>2, <1>3, <1>4 DEF TunnelsInv

\* Every step keeps the invariant.
LEMMA TunnelsNext ==
    ASSUME TunnelsInv, [N!Next]_N!vars
    PROVE  TunnelsInv'
<1>1. CASE N!Connection \/ UNCHANGED N!vars
  <2>1. /\ UNCHANGED <<settings, flag, running, listens, ending, call, overlapped>>
        /\ connected' \in BOOLEAN
    BY <1>1 DEF N!Connection, N!vars, TunnelsInv, CallsTyped, N!TypeOK
  <2>2. CallsTyped'
    BY <2>1 DEF TunnelsInv, CallsTyped, N!TypeOK
  <2>3. Created' /\ N!Stoppable' /\ PortsApart'
    BY <2>1 DEF TunnelsInv, Created, N!Stoppable, PortsApart
  <2>4. ASSUME NEW u \in Tunnel \ overlapped' PROVE OneAtATime(u)'
    BY <2>1, <2>4 DEF TunnelsInv, OneAtATime, N!Working
  <2> QED
    BY <2>2, <2>3, <2>4 DEF TunnelsInv
<1>2. ASSUME NEW c \in Caller, NEW t \in Tunnel, N!Start(c, t) \/ N!Stop(c, t) PROVE TunnelsInv'
  BY <1>2, CallBegins DEF N!Start, N!Stop
<1> QED
  BY <1>1, <1>2, TunnelMade, ListenerGoes, TunnelCommands DEF N!Next

\* The invariant holds in every behaviour.
LEMMA TunnelsAlways == N!Spec => []TunnelsInv
<1>1. N!Init => TunnelsInv
  BY TunnelsInit
<1>2. TunnelsInv /\ [N!Next]_N!vars => TunnelsInv'
  BY TunnelsNext
<1> QED
  BY <1>1, <1>2, PTL DEF N!Spec

\* Whatever the order of the commands' steps, every port that is open can be
\* closed, no two tunnels share one, and the panel shows what runs.
THEOREM TunnelsAlwaysStand == N!Spec => []TunnelsStand
<1>1. ASSUME TunnelsInv PROVE N!TunnelsStand
  <2>1. N!FlagsFollow
    BY <1>1 DEF TunnelsInv, N!FlagsFollow, OneAtATime
  <2> QED
    BY <1>1, <2>1 DEF TunnelsInv, N!TunnelsStand, PortsApart
<1> QED
  BY <1>1, TunnelsAlways, PTL DEF TunnelsStand
=============================================================================
