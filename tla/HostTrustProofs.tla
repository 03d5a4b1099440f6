--------------------------- MODULE HostTrustProofs ---------------------------
(***************************************************************************)
(* For any number of attempts, hosts and keys, and whatever the settings:  *)
(* nobody is trusted whom no one stood for, a host whose key was recorded  *)
(* is not forgotten but by overlapping writes, and a line of known_hosts   *)
(* goes only by an update of its own host.                                 *)
(***************************************************************************)
EXTENDS HostTrust, TLAPS

Types ==
    /\ stage \in [Attempts -> Stages]
    /\ hop \in [Attempts -> Nat] /\ \A a \in Attempts : hop[a] \in 1..Len(Hops[a])
    /\ key \in [Attempts -> Keys \cup {NoKey}]
    /\ read \in [Attempts -> Known]
    /\ stale \in [Attempts -> BOOLEAN]
    /\ answer \in [Attempts -> {"none", "yes", "no"}]
    /\ copy \in [Attempts -> SUBSET (Hosts \X Keys)]
    /\ lines \subseteq Hosts \X Keys
    /\ keep \in [Attempts -> SUBSET Keys]
    /\ json \in Known /\ remembered \in Known
    /\ torn \in BOOLEAN
    /\ prompts \subseteq Attempts

In == {"login", "question", "shell", "up"}
Accepted == {"accepted", "fill", "over"}

\* What is let in, and what is or will be written: the files, and what was
\* read of them to be written back.
StoodFor(known) == \A h \in Hosts : known[h] # NoKey => <<h, known[h]>> \in vouched

Vouched ==
    /\ \A a \in Attempts :
          stage[a] \in Accepted \cup In => <<Host(a), key[a]>> \in vouched
    /\ lines \subseteq vouched /\ \A a \in Attempts : copy[a] \subseteq vouched
    /\ StoodFor(json) /\ \A a \in Attempts : StoodFor(read[a])

\* An answer and an open question belong to the hop that waits, whose key is
\* there; so an answer is never about the next one.
Questions ==
    \A a \in Attempts :
        /\ stage[a] \notin {"idle", "reach", "failed"} => key[a] \in Keys
        /\ a \in prompts \/ answer[a] # "none" => stage[a] = "asked"
        /\ answer[a] = "yes" => <<Host(a), key[a]>> \in vouched

\* What an attempt read of the store and nobody wrote since is what was
\* remembered then, and it is what the attempt will write back.
Recall ==
    /\ Remembered
    /\ \A a \in Attempts :
          /\ stage[a] \in {"fill", "over"} => ~policy[a].files
          /\ ~policy[a].files /\ stage[a] \in Accepted \cup {"asked"} /\ ~stale[a]
                => \A h \in Hosts \ excused : read[a][h] = remembered[h]

IInv == Types /\ Vouched /\ Questions /\ Recall

-----------------------------------------------------------------------------
LEMMA NobodyKnown == Nobody \in Known /\ StoodFor(Nobody)
    BY DEF Nobody, Known, StoodFor

LEMMA HostIsHost == ASSUME Types, NEW a \in Attempts PROVE Host(a) \in Hosts
    BY HostTrustAssumption DEF Types, Host

LEMMA InitIInv == Init => IInv
<1> SUFFICES ASSUME Init PROVE IInv
    OBVIOUS
<1> USE DEF Init
<1>1. Types
    <2>1. \A a \in Attempts : hop[a] = 1 /\ 1 \in 1..Len(Hops[a])
        BY HostTrustAssumption
    <2>2. stage \in [Attempts -> Stages] /\ hop \in [Attempts -> Nat]
        BY DEF Stages
    <2> QED
        BY <2>1, <2>2, NobodyKnown DEF Types
<1>2. Vouched
    BY NobodyKnown DEF Vouched, Accepted, In, StoodFor, Nobody
<1>3. Questions
    BY DEF Questions
<1>4. Recall
    BY DEF Recall, Remembered, Accepted, Nobody
<1> QED
    BY <1>1, <1>2, <1>3, <1>4 DEF IInv

-----------------------------------------------------------------------------
\* What most steps do: no file, no question and nothing that was read changes,
\* and an attempt goes on, if at all, between places that ask the same of it.
Quiet ==
    /\ stage' \in [Attempts -> Stages]
    /\ \A a \in Attempts :
          \/ stage'[a] = stage[a]
          \/ stage'[a] = "failed" /\ stage[a] # "asked"
          \/ stage[a] \in In /\ stage'[a] \in In
          \/ stage[a] = "idle" /\ stage'[a] = "reach"
    /\ keep' \in [Attempts -> SUBSET Keys]
    /\ UNCHANGED <<policy, hop, key, read, stale, answer, copy, lines, json, torn,
                   prompts, vouched, remembered, excused>>

LEMMA QuietStep == ASSUME IInv, Quiet PROVE IInv'
<1> USE DEF IInv, Quiet
<1>1. Types'
    BY DEF Types
<1>2. Vouched'
    BY DEF Vouched, StoodFor, Host, In, Accepted
<1>3. Questions'
    BY DEF Questions, Host, In
<1>4. Recall'
    BY DEF Recall, Remembered, In, Accepted
<1> QED
    BY <1>1, <1>2, <1>3, <1>4

LEMMA QuietSteps ==
    ASSUME IInv, NEW a \in Attempts,
           \/ Connect(a) \/ LoginAsks(a) \/ QuestionEnds(a) \/ ShellOpens(a) \/ Fails(a)
           \/ Tick(a) \/ Proved(a) \/ NotProved(a) \/ UpdateAccepted(a) \/ UpdateRefused(a)
           \/ \E offered, skipped \in SUBSET Keys : Announced(a, offered, skipped)
    PROVE  Quiet
<1> USE DEF IInv, Types, Quiet, attempt, check, store, history, Stages, In
<1>1. CASE Connect(a) \/ LoginAsks(a) \/ QuestionEnds(a) \/ ShellOpens(a) \/ Fails(a)
    BY <1>1 DEF Connect, LoginAsks, QuestionEnds, ShellOpens, Fails, Go, updates
<1>2. CASE Tick(a)
    BY <1>2 DEF Tick, Go, updates, Checking, Limited
<1>3. CASE Proved(a) \/ NotProved(a) \/ UpdateAccepted(a) \/ UpdateRefused(a)
    BY <1>3 DEF Proved, NotProved, UpdateAccepted, UpdateRefused, GaveUp
<1>4. CASE \E offered, skipped \in SUBSET Keys : Announced(a, offered, skipped)
    <2>1. PICK offered, skipped \in SUBSET Keys : Announced(a, offered, skipped)
        BY <1>4
    <2>2. keep' \in {keep, [keep EXCEPT ![a] = offered \ skipped]}
        BY <2>1 DEF Announced
    <2>3. keep' \in [Attempts -> SUBSET Keys]
        BY <2>2
    <2> QED
        BY <2>1, <2>3 DEF Announced
<1> QED
    BY <1>1, <1>2, <1>3, <1>4

-----------------------------------------------------------------------------
\* The key, and the two lookups.
LEMMA PresentStep ==
    ASSUME IInv, NEW a \in Attempts, NEW k \in Keys, Present(a, k) PROVE IInv'
<1> USE DEF IInv, Present, Go
<1>1. /\ stage' = [stage EXCEPT ![a] = "hostkey"] /\ key' = [key EXCEPT ![a] = k]
      /\ stage[a] = "reach"
      /\ UNCHANGED <<policy, hop, check, store, updates, lines, history>>
    OBVIOUS
<1> USE DEF check, store, updates, history
<1>2. Types'
    BY <1>1 DEF Types, Stages
<1>3. Vouched'
    BY <1>1 DEF Types, Vouched, StoodFor, Host, In, Accepted
<1>4. Questions'
    BY <1>1 DEF Types, Questions, Host
<1>5. Recall'
    BY <1>1 DEF Types, Recall, Remembered, Accepted
<1> QED
    BY <1>2, <1>3, <1>4, <1>5

\* The shape of both lookups: the key is one that was stood for, or the setting
\* now stands for it, or the user is asked, or the attempt fails.
Looked(a, known) ==
    /\ hop' = hop /\ key' = key /\ policy' = policy /\ keep' = keep /\ copy' = copy
    /\ lines' = lines /\ json' = json /\ torn' = torn
    /\ remembered' = remembered /\ excused' = excused
    /\ stage[a] = "hostkey"
    /\ \E s \in {"failed", "asked", "accepted", "login"} :
          /\ stage' = [stage EXCEPT ![a] = s]
          /\ s \in {"accepted", "login"} => <<Host(a), key[a]>> \in vouched'
          /\ IF s = "asked" THEN prompts' = prompts \cup {a} ELSE prompts' = prompts
          /\ answer' \in {answer, [answer EXCEPT ![a] = "none"]}
          /\ s \in {"asked", "accepted"} /\ ~policy[a].files
                => read' = [read EXCEPT ![a] = known] /\ stale' = [stale EXCEPT ![a] = torn]
    /\ read' \in {read, [read EXCEPT ![a] = known]}
    /\ stale' \in {stale, [stale EXCEPT ![a] = torn]}
    /\ vouched' \in {vouched, vouched \cup {<<Host(a), key[a]>>}}

LEMMA LookedStep ==
    ASSUME IInv, NEW a \in Attempts, NEW known \in Known, Looked(a, known),
           StoodFor(known), ~torn => known = json
    PROVE  IInv'
<1> USE DEF IInv
<1>1. PICK s \in {"failed", "asked", "accepted", "login"} :
          /\ stage' = [stage EXCEPT ![a] = s]
          /\ s \in {"accepted", "login"} => <<Host(a), key[a]>> \in vouched'
          /\ IF s = "asked" THEN prompts' = prompts \cup {a} ELSE prompts' = prompts
          /\ answer' \in {answer, [answer EXCEPT ![a] = "none"]}
          /\ s \in {"asked", "accepted"} /\ ~policy[a].files
                => read' = [read EXCEPT ![a] = known] /\ stale' = [stale EXCEPT ![a] = torn]
    BY DEF Looked
<1>2. vouched \subseteq vouched'
    BY DEF Looked
<1>3. /\ stage'[a] = s /\ \A b \in Attempts \ {a} : stage'[b] = stage[b]
      /\ \A b \in Attempts : answer'[b] \in {answer[b], "none"}
      /\ \A b \in Attempts \ {a} : read'[b] = read[b] /\ stale'[b] = stale[b]
      /\ read'[a] \in {read[a], known}
    BY <1>1 DEF Looked, Types
<1>4. \A b \in Attempts : Host(b)' = Host(b) /\ key'[b] = key[b]
    BY DEF Looked, Host
<1>5. Types'
    <2>1. stage' \in [Attempts -> Stages]
        BY <1>1 DEF Types, Stages
    <2>2. read' \in [Attempts -> Known] /\ stale' \in [Attempts -> BOOLEAN]
        <3>1. [read EXCEPT ![a] = known] \in [Attempts -> Known]
            BY DEF Types
        <3>2. [stale EXCEPT ![a] = torn] \in [Attempts -> BOOLEAN]
            BY DEF Types
        <3> QED
            BY <3>1, <3>2 DEF Looked, Types
    <2>3. answer' \in [Attempts -> {"none", "yes", "no"}] /\ prompts' \subseteq Attempts
        BY <1>1 DEF Types
    <2> QED
        BY <2>1, <2>2, <2>3 DEF Looked, Types
<1>6. Vouched'
    <2>1. \A b \in Attempts :
              stage'[b] \in Accepted \cup In => <<Host(b)', key'[b]>> \in vouched'
        BY <1>1, <1>2, <1>3, <1>4 DEF Vouched, Accepted, In
    <2>2. StoodFor(json)'
        BY <1>2 DEF Looked, Vouched, StoodFor
    <2>3. \A b \in Attempts : StoodFor(read[b])'
        BY <1>2, <1>3 DEF Vouched, StoodFor
    <2> QED
        BY <1>2, <2>1, <2>2, <2>3 DEF Vouched, Looked
<1>7. Questions'
    <2>1. \A b \in Attempts : b \in prompts' => b \in prompts \/ (b = a /\ s = "asked")
        BY <1>1
    <2> QED
        BY <1>2, <1>3, <1>4, <2>1 DEF Questions, Looked
<1>8. Recall'
    <2>1. Remembered'
        BY DEF Recall, Remembered, Looked
    <2>2. ASSUME NEW b \in Attempts
          PROVE /\ stage'[b] \in {"fill", "over"} => ~policy'[b].files
                /\ ~policy'[b].files /\ stage'[b] \in Accepted \cup {"asked"} /\ ~stale'[b]
                      => \A h \in Hosts \ excused' : read'[b][h] = remembered'[h]
        <3>1. CASE b # a
            BY <1>3, <3>1 DEF Recall, Looked
        <3>2. CASE b = a
            <4>1. ASSUME ~policy'[a].files, stage'[a] \in Accepted \cup {"asked"}, ~stale'[a]
                  PROVE  read'[a] = json /\ ~torn
                BY <1>1, <1>3, <4>1 DEF Looked, Types, Accepted
            <4> QED
                BY <1>3, <3>2, <4>1 DEF Recall, Remembered, Looked
        <3> QED
            BY <3>1, <3>2
    <2> QED
        BY <2>1, <2>2 DEF Recall
<1> QED
    BY <1>5, <1>6, <1>7, <1>8

LEMMA CheckStoreStep == ASSUME IInv, NEW a \in Attempts, CheckStore(a) PROVE IInv'
<1> DEFINE known == IF torn THEN Nobody ELSE json
<1>1. known \in Known /\ StoodFor(known) /\ (~torn => known = json)
    BY NobodyKnown DEF IInv, Types, Vouched
<1>2. Looked(a, known)
    <2>1. Host(a) \in Hosts /\ key[a] \in Keys /\ key[a] # NoKey
        BY HostIsHost, HostTrustAssumption DEF CheckStore, IInv, Questions
    <2>2. CASE known[Host(a)] = key[a]
        <3>1. <<Host(a), key[a]>> \in vouched
            BY <1>1, <2>1, <2>2 DEF StoodFor
        <3> QED
            BY <2>2, <3>1 DEF CheckStore, Looked, Passed, Go, check, store, updates
    <2>3. CASE known[Host(a)] # key[a] /\ policy[a].strict = "ask"
        BY <2>3 DEF CheckStore, Looked, AskUser, Go, store, updates
    <2>4. CASE known[Host(a)] # key[a] /\ policy[a].strict # "ask"
        BY <2>4 DEF CheckStore, Looked, Decide, Vouch, Go, store, updates
    <2> QED
        BY <2>2, <2>3, <2>4
<1> HIDE DEF known
<1> QED
    BY <1>1, <1>2, LookedStep

LEMMA CheckFilesStep == ASSUME IInv, NEW a \in Attempts, CheckFiles(a) PROVE IInv'
<1>1. json \in Known /\ StoodFor(json)
    BY DEF IInv, Types, Vouched
<1>2. Looked(a, json)
    <2> DEFINE mine == {k \in Keys : <<Host(a), k>> \in lines}
    <2>1. CASE /\ key[a] \in mine \/ (mine # {} /\ policy[a].strict = "no")
               /\ Go(a, Passed(a)) /\ Vouch(a) /\ UNCHANGED <<answer, prompts, dialogs>>
        BY <2>1 DEF CheckFiles, Looked, Passed, Go, Vouch, store
    <2>2. CASE Go(a, "failed") /\ UNCHANGED <<answer, prompts, dialogs, vouched>>
        BY <2>2 DEF CheckFiles, Looked, Go, store
    <2>3. CASE mine = {} /\ AskUser(a)
        BY <2>3 DEF CheckFiles, Looked, AskUser, Go, store
    <2>4. CASE mine = {} /\ Decide(a, FALSE)
        BY <2>4 DEF CheckFiles, Looked, Decide, Vouch, Go, store
    <2> QED
        BY <2>1, <2>2, <2>3, <2>4 DEF CheckFiles
<1> QED
    BY <1>1, <1>2, LookedStep

-----------------------------------------------------------------------------
\* The question.  Whoever answers stands for the key of the hop that asks.
LEMMA AnswerStep ==
    ASSUME IInv, NEW d \in dialogs, NEW yes \in BOOLEAN, Answer(d, yes) PROVE IInv'
<1> USE DEF IInv
<1> DEFINE a == d[1]
<1>1. CASE ~IsOpen(d)
    <2>1. Quiet
        BY <1>1 DEF Answer, Quiet, Types, attempt, store, updates
    <2> QED
        BY <2>1, QuietStep
<1>2. CASE IsOpen(d)
    <2>1. a \in Attempts /\ stage[a] = "asked" /\ Hops[d[1]][d[2]] = Host(a)
        BY <1>2 DEF IsOpen, Types, Questions, Host
    <2>2. /\ prompts' = prompts \ {a}
          /\ answer' = [answer EXCEPT ![a] = IF yes THEN "yes" ELSE "no"]
          /\ vouched' = IF yes THEN vouched \cup {<<Host(a), key[a]>>} ELSE vouched
          /\ UNCHANGED <<attempt, read, stale, store, updates, lines, remembered, excused>>
        BY <1>2, <2>1 DEF Answer
    <2> HIDE DEF a
    <2> USE DEF attempt, store, updates
    <2>3. vouched \subseteq vouched'
        BY <2>2
    <2>4. Types'
        BY <2>1, <2>2 DEF Types
    <2>5. Vouched'
        BY <2>2, <2>3 DEF Vouched, StoodFor, Host
    <2>6. Questions'
        <3>1. answer'[a] = "yes" => <<Host(a), key[a]>> \in vouched'
            BY <2>1, <2>2 DEF Types
        <3>2. \A b \in Attempts \ {a} : answer'[b] = answer[b]
            BY <2>2 DEF Types
        <3>3. \A b \in Attempts : Host(b)' = Host(b) /\ key'[b] = key[b] /\ stage'[b] = stage[b]
            BY <2>2 DEF Host
        <3> QED
            BY <2>1, <2>2, <2>3, <3>1, <3>2, <3>3 DEF Questions
    <2>7. Recall'
        BY <2>2 DEF Recall, Remembered
    <2> QED
        BY <2>4, <2>5, <2>6, <2>7
<1> QED
    BY <1>1, <1>2

LEMMA AnsweredStep == ASSUME IInv, NEW a \in Attempts, Answered(a) PROVE IInv'
<1> USE DEF IInv
<1>1. /\ stage[a] = "asked" /\ answer[a] = "yes" /\ prompts' = prompts \ {a}
      /\ answer' = [answer EXCEPT ![a] = "none"]
      /\ stage' = [stage EXCEPT ![a] = "accepted"]
      /\ UNCHANGED <<policy, hop, key, read, stale, json, torn, keep, copy, lines,
                     vouched, remembered, excused>>
    BY DEF Answered, Accepts, Withdrawn, Go, store, history
<1>2. <<Host(a), key[a]>> \in vouched
    BY <1>1 DEF Questions
<1>3. Types'
    BY <1>1 DEF Types, Stages
<1>4. Vouched'
    BY <1>1, <1>2 DEF Types, Vouched, StoodFor, Host, Accepted, In
<1>5. Questions'
    BY <1>1 DEF Types, Questions, Host
<1>6. Recall'
    BY <1>1 DEF Types, Recall, Remembered, Accepted
<1> QED
    BY <1>3, <1>4, <1>5, <1>6

LEMMA NotAcceptedStep == ASSUME IInv, NEW a \in Attempts, NotAccepted(a) PROVE IInv'
<1> USE DEF IInv
<1>1. /\ stage[a] = "asked" /\ prompts' = prompts \ {a}
      /\ answer' = [answer EXCEPT ![a] = "none"]
      /\ stage' = [stage EXCEPT ![a] = "failed"]
      /\ read' = [read EXCEPT ![a] = Nobody] /\ stale' = [stale EXCEPT ![a] = FALSE]
      /\ UNCHANGED <<policy, hop, key, json, torn, keep, copy, lines,
                     vouched, remembered, excused>>
    BY DEF NotAccepted, Withdrawn, Go, store, updates, history
<1>2. Types'
    BY <1>1, NobodyKnown DEF Types, Stages
<1>3. Vouched'
    <2>1. \A b \in Attempts : read'[b] \in {read[b], Nobody}
        BY <1>1 DEF Types
    <2> QED
        BY <1>1, <2>1, NobodyKnown DEF Types, Vouched, StoodFor, Host, Accepted, In
<1>4. Questions'
    BY <1>1 DEF Types, Questions, Host
<1>5. Recall'
    BY <1>1 DEF Types, Recall, Remembered, Accepted
<1> QED
    BY <1>2, <1>3, <1>4, <1>5

-----------------------------------------------------------------------------
\* The store.
LEMMA CutStep == ASSUME IInv, NEW a \in Attempts, Cut(a) PROVE IInv'
<1> USE DEF IInv
<1>1. /\ stage[a] = "accepted" /\ ~policy[a].files /\ json' = Nobody /\ torn' = TRUE
      /\ stage' = [stage EXCEPT ![a] = "fill"]
      /\ UNCHANGED <<policy, hop, key, read, stale, answer, prompts, keep, copy, lines,
                     vouched, remembered, excused>>
    BY DEF Cut, Go, check, updates, history
<1>2. Types'
    BY <1>1, NobodyKnown DEF Types, Stages
<1>3. Vouched'
    BY <1>1, NobodyKnown DEF Types, Vouched, StoodFor, Host, Accepted, In
<1>4. Questions'
    BY <1>1 DEF Types, Questions, Host
<1>5. Recall'
    BY <1>1 DEF Types, Recall, Remembered, Accepted
<1> QED
    BY <1>2, <1>3, <1>4, <1>5

\* What is written back is what was read, which was stood for, and the new key,
\* which was too.  Who read before it holds something stale from now on.
LEMMA FillStep == ASSUME IInv, NEW a \in Attempts, Fill(a) PROVE IInv'
<1> USE DEF IInv
<1>1. /\ stage[a] \in {"fill", "over"} /\ json' = Recorded(a)
      /\ torn' \in BOOLEAN
      /\ remembered' = [remembered EXCEPT ![Host(a)] = key[a]]
      /\ excused' = IF torn' THEN Hosts
                    ELSE (IF stale[a] THEN Hosts ELSE excused) \ {Host(a)}
      /\ read' = [read EXCEPT ![a] = Nobody]
      /\ stage' = [b \in Attempts |-> IF b = a THEN Passed(a)
                                      ELSE IF stage[b] = "fill" THEN "over" ELSE stage[b]]
      /\ stale' = [b \in Attempts |->
                      b # a /\ (stale[b] \/ stage[b] \in Checking \ {"hostkey"})]
      /\ UNCHANGED <<policy, hop, key, answer, prompts, keep, copy, lines, vouched>>
    BY DEF Fill, updates
<1>2. Host(a) \in Hosts /\ key[a] \in Keys /\ <<Host(a), key[a]>> \in vouched
      /\ ~policy[a].files /\ Passed(a) \in {"failed", "login"}
    BY <1>1, HostIsHost DEF Questions, Vouched, Recall, Accepted, Passed
<1>3. read[a] \in Known /\ Recorded(a) = [read[a] EXCEPT ![Host(a)] = key[a]]
    BY DEF Types, Recorded
<1>4. Recorded(a) \in Known /\ Recorded(a)[Host(a)] = key[a]
      /\ \A h \in Hosts \ {Host(a)} : Recorded(a)[h] = read[a][h]
    BY <1>2, <1>3 DEF Known
<1>5. \A b \in Attempts : read'[b] \in {read[b], Nobody}
    BY <1>1 DEF Types
<1>6. Types'
    <2>1. stage' \in [Attempts -> Stages] /\ stale' \in [Attempts -> BOOLEAN]
        BY <1>1, <1>2 DEF Types, Stages
    <2>2. remembered' \in Known
        BY <1>1, <1>2 DEF Types, Known
    <2> QED
        BY <1>1, <1>4, <2>1, <2>2, NobodyKnown DEF Types
<1>7. Vouched'
    <2>1. StoodFor(json)'
        BY <1>1, <1>2, <1>4 DEF Vouched, StoodFor
    <2>2. \A b \in Attempts : StoodFor(read[b])'
        BY <1>1, <1>5, NobodyKnown DEF Vouched, StoodFor
    <2>3. \A b \in Attempts :
              stage'[b] \in Accepted \cup In => <<Host(b)', key'[b]>> \in vouched'
        BY <1>1, <1>2 DEF Vouched, Host, Accepted, In
    <2> QED
        BY <1>1, <2>1, <2>2, <2>3 DEF Vouched
<1>8. Questions'
    BY <1>1, <1>2 DEF Questions, Host
<1>9. Recall'
    <2>1. Remembered'
        <3> SUFFICES ASSUME ~torn', NEW h \in Hosts \ excused'
                     PROVE  json'[h] = remembered'[h]
            BY DEF Remembered
        <3>1. CASE h = Host(a)
            BY <1>1, <1>4, <3>1 DEF Types, Known
        <3>2. CASE h # Host(a)
            <4>1. ~stale[a] /\ h \in Hosts \ excused
                BY <1>1, <3>2 DEF Types
            <4>2. read[a][h] = remembered[h]
                BY <1>1, <1>2, <4>1 DEF Recall, Accepted
            <4> QED
                BY <1>1, <1>4, <3>2, <4>2 DEF Types, Known
        <3> QED
            BY <3>1, <3>2
    <2>2. \A b \in Attempts : stage'[b] \in Accepted \cup {"asked"} => stale'[b]
        BY <1>1, <1>2 DEF Accepted, Checking
    <2>3. \A b \in Attempts : stage'[b] \in {"fill", "over"} => ~policy'[b].files
        BY <1>1, <1>2 DEF Recall
    <2> QED
        BY <2>1, <2>2, <2>3 DEF Recall
<1> QED
    BY <1>6, <1>7, <1>8, <1>9

LEMMA FillFailsStep == ASSUME IInv, NEW a \in Attempts, FillFails(a) PROVE IInv'
<1> USE DEF IInv
<1>1. /\ stage[a] \in {"fill", "over"} /\ stage' = [stage EXCEPT ![a] = Passed(a)]
      /\ read' = [read EXCEPT ![a] = Nobody] /\ stale' = [stale EXCEPT ![a] = FALSE]
      /\ excused' = Hosts
      /\ UNCHANGED <<policy, hop, key, answer, prompts, json, torn, keep, copy, lines,
                     vouched, remembered>>
    BY DEF FillFails, Go, store, updates
<1>2. Passed(a) \in {"failed", "login"} /\ <<Host(a), key[a]>> \in vouched
    BY <1>1 DEF Passed, Vouched, Accepted
<1>3. Types'
    BY <1>1, <1>2, NobodyKnown DEF Types, Stages
<1>4. Vouched'
    <2>1. \A b \in Attempts : read'[b] \in {read[b], Nobody}
        BY <1>1 DEF Types
    <2> QED
        BY <1>1, <1>2, <2>1, NobodyKnown DEF Types, Vouched, StoodFor, Host, Accepted, In
<1>5. Questions'
    BY <1>1, <1>2 DEF Types, Questions, Host
<1>6. Recall'
    BY <1>1, <1>2 DEF Types, Recall, Remembered, Accepted
<1> QED
    BY <1>3, <1>4, <1>5, <1>6

\* OpenSSH's file, and the next hop.
LEMMA AppendLineStep == ASSUME IInv, NEW a \in Attempts, AppendLine(a) PROVE IInv'
<1> USE DEF IInv
<1>1. /\ stage[a] = "accepted" /\ stage' = [stage EXCEPT ![a] = Passed(a)]
      /\ lines' = lines \cup {<<Host(a), key[a]>>}
      /\ UNCHANGED <<policy, hop, key, read, stale, answer, prompts, json, torn, keep,
                     copy, vouched, remembered, excused>>
    BY DEF AppendLine, Go, check, store, updates, history
<1>2. /\ Passed(a) \in {"failed", "login"} /\ <<Host(a), key[a]>> \in vouched
      /\ <<Host(a), key[a]>> \in Hosts \X Keys
    BY <1>1, HostIsHost DEF Passed, Vouched, Questions, Accepted
<1>3. Types'
    BY <1>1, <1>2 DEF Types, Stages
<1>4. Vouched'
    BY <1>1, <1>2 DEF Types, Vouched, StoodFor, Host, Accepted, In
<1>5. Questions'
    BY <1>1, <1>2 DEF Types, Questions, Host
<1>6. Recall'
    BY <1>1, <1>2 DEF Types, Recall, Remembered, Accepted
<1> QED
    BY <1>3, <1>4, <1>5, <1>6

LEMMA LoggedInStep == ASSUME IInv, NEW a \in Attempts, LoggedIn(a) PROVE IInv'
<1> USE DEF IInv
<1>1. CASE Last(a)
    <2>1. Quiet
        BY <1>1 DEF LoggedIn, Quiet, Types, Go, check, store, history, Stages, In
    <2> QED
        BY <2>1, QuietStep
<1>2. CASE ~Last(a)
    <2>1. /\ stage[a] = "login" /\ stage' = [stage EXCEPT ![a] = "reach"]
          /\ hop' = [hop EXCEPT ![a] = @ + 1] /\ key' = [key EXCEPT ![a] = NoKey]
          /\ UNCHANGED <<policy, read, stale, answer, prompts, json, torn, keep, copy,
                         lines, vouched, remembered, excused>>
        BY <1>2 DEF LoggedIn, Go, check, store, history
    <2>2. Types'
        <3>1. hop[a] + 1 \in 1..Len(Hops[a])
            BY <1>2, HostTrustAssumption DEF Types, Last
        <3> QED
            BY <2>1, <3>1 DEF Types, Stages
    <2>3. Vouched'
        BY <2>1 DEF Types, Vouched, StoodFor, Host, Accepted, In
    <2>4. Questions'
        BY <2>1 DEF Types, Questions, Host
    <2>5. Recall'
        BY <2>1 DEF Types, Recall, Remembered, Accepted
    <2> QED
        BY <2>2, <2>3, <2>4, <2>5
<1> QED
    BY <1>1, <1>2

-----------------------------------------------------------------------------
\* UpdateHostKeys.
LEMMA ReadLinesStep == ASSUME IInv, NEW a \in Attempts, ReadLines(a) PROVE IInv'
<1> USE DEF IInv
<1>1. /\ copy' = [copy EXCEPT ![a] = lines]
      /\ UNCHANGED <<policy, stage, hop, key, read, stale, answer, prompts, json, torn,
                     keep, lines, vouched, remembered, excused>>
    BY DEF ReadLines, attempt, check, store, history
<1>2. Types'
    BY <1>1 DEF Types
<1>3. Vouched'
    BY <1>1 DEF Types, Vouched, StoodFor, Host
<1>4. Questions'
    BY <1>1 DEF Questions, Host
<1>5. Recall'
    BY <1>1 DEF Recall, Remembered
<1> QED
    BY <1>2, <1>3, <1>4, <1>5

LEMMA MoveLinesStep == ASSUME IInv, NEW a \in Attempts, MoveLines(a) PROVE IInv'
<1> USE DEF IInv
<1>1. /\ lines' \in {lines, Replaced(a)}
      /\ vouched' = vouched \cup ({Host(a)} \X keep[a])
      /\ keep' = [keep EXCEPT ![a] = {}] /\ copy' = [copy EXCEPT ![a] = {}]
      /\ UNCHANGED <<policy, stage, hop, key, read, stale, answer, prompts, json, torn,
                     remembered, excused>>
    BY DEF MoveLines, attempt, check, store
<1>2. Replaced(a) \subseteq vouched' /\ Replaced(a) \subseteq Hosts \X Keys
    BY <1>1, HostIsHost DEF Replaced, Types, Vouched
<1>3. vouched \subseteq vouched'
    BY <1>1
<1>4. Types'
    BY <1>1, <1>2 DEF Types
<1>5. Vouched'
    <2>1. lines' \subseteq vouched' /\ \A b \in Attempts : copy'[b] \subseteq vouched'
        BY <1>1, <1>2, <1>3 DEF Types, Vouched
    <2>2. StoodFor(json)' /\ \A b \in Attempts : StoodFor(read[b])'
        BY <1>1, <1>3 DEF Vouched, StoodFor
    <2>3. \A b \in Attempts :
              stage'[b] \in Accepted \cup In => <<Host(b)', key'[b]>> \in vouched'
        BY <1>1, <1>3 DEF Vouched, Host
    <2> QED
        BY <2>1, <2>2, <2>3 DEF Vouched
<1>6. Questions'
    BY <1>1, <1>3 DEF Questions, Host
<1>7. Recall'
    BY <1>1 DEF Recall, Remembered
<1> QED
    BY <1>4, <1>5, <1>6, <1>7

-----------------------------------------------------------------------------
LEMMA NextIInv == ASSUME IInv, [Next]_vars PROVE IInv'
<1>1. ASSUME NEW a \in Attempts,
             \/ Connect(a) \/ LoginAsks(a) \/ QuestionEnds(a) \/ ShellOpens(a) \/ Fails(a)
             \/ Tick(a) \/ Proved(a) \/ NotProved(a) \/ UpdateAccepted(a) \/ UpdateRefused(a)
             \/ \E offered, skipped \in SUBSET Keys : Announced(a, offered, skipped)
      PROVE  IInv'
    BY <1>1, QuietSteps, QuietStep
<1>2. ASSUME NEW a \in Attempts,
             \/ \E k \in Keys : Present(a, k)
             \/ CheckStore(a) \/ CheckFiles(a) \/ Answered(a) \/ NotAccepted(a)
             \/ Cut(a) \/ Fill(a) \/ FillFails(a) \/ AppendLine(a) \/ LoggedIn(a)
             \/ ReadLines(a) \/ MoveLines(a)
      PROVE  IInv'
    BY <1>2, PresentStep, CheckStoreStep, CheckFilesStep, AnsweredStep, NotAcceptedStep,
       CutStep, FillStep, FillFailsStep, AppendLineStep, LoggedInStep, ReadLinesStep,
       MoveLinesStep
<1>3. CASE \E d \in dialogs, yes \in BOOLEAN : Answer(d, yes)
    BY <1>3, AnswerStep
<1>4. CASE (\E d \in dialogs : DialogCloses(d)) \/ UNCHANGED vars
    <2>1. Quiet
        BY <1>4 DEF DialogCloses, vars, Quiet, IInv, Types, attempt, check, store,
           updates, history
    <2> QED
        BY <2>1, QuietStep
<1> QED
    BY <1>1, <1>2, <1>3, <1>4 DEF Next

\* A server is let in only with a key that somebody stood for, for that very
\* host, and the files hold no other (verify_host_identity_with,
\* HostKeyPolicy::verify): with any number of attempts at once.
THEOREM OnlyVouchedAlways == Spec => []OnlyVouched
<1>1. IInv => OnlyVouched
    BY DEF IInv, Vouched, StoodFor, OnlyVouched, Accepted, In
<1> QED
    BY InitIInv, NextIInv, <1>1, PTL DEF Spec

\* known_hosts.json holds the key last recorded of a host, but for those that a
\* write which overlapped another, or which failed, may have lost.
THEOREM AlwaysRemembered == Spec => []Remembered
<1>1. IInv => Remembered
    BY DEF IInv, Recall
<1> QED
    BY InitIInv, NextIInv, <1>1, PTL DEF Spec

\* A line of known_hosts goes only by an update of its own host's keys, or by
\* one that had read the file before the line was there (replace_in_file).
THEOREM LinesAlwaysStay == Spec => LinesStay
<1> DEFINE Stay == \A l \in lines \ lines' :
        \E a \in Attempts : /\ update[a] = "moving"
                            /\ Host(a) = l[1] \/ l \notin copy[a]
<1>1. ASSUME [Next]_vars PROVE [Stay]_vars
    <2>1. CASE \E a \in Attempts : MoveLines(a)
        BY <2>1 DEF MoveLines, Replaced
    <2>2. CASE \E a \in Attempts : AppendLine(a)
        BY <2>2 DEF AppendLine
    <2>3. CASE lines' = lines
        BY <2>3
    <2>4. (\E a \in Attempts : MoveLines(a) \/ AppendLine(a)) \/ lines' = lines
        <3>1. ASSUME NEW a \in Attempts,
                     \/ Connect(a) \/ (\E k \in Keys : Present(a, k))
                     \/ LoginAsks(a) \/ QuestionEnds(a) \/ LoggedIn(a)
                     \/ ShellOpens(a) \/ Fails(a) \/ Tick(a)
              PROVE  lines' = lines
            BY <3>1 DEF Connect, Present, LoginAsks, QuestionEnds, LoggedIn, ShellOpens,
               Fails, Tick
        <3>2. ASSUME NEW a \in Attempts,
                     \/ CheckStore(a) \/ CheckFiles(a) \/ Answered(a) \/ NotAccepted(a)
                     \/ Cut(a) \/ Fill(a) \/ FillFails(a)
              PROVE  lines' = lines
            BY <3>2 DEF CheckStore, CheckFiles, Answered, NotAccepted, Cut, Fill, FillFails
        <3>3. ASSUME NEW a \in Attempts,
                     \/ \E offered, skipped \in SUBSET Keys : Announced(a, offered, skipped)
                     \/ Proved(a) \/ NotProved(a) \/ UpdateAccepted(a) \/ UpdateRefused(a)
                     \/ ReadLines(a)
              PROVE  lines' = lines
            BY <3>3 DEF Announced, Proved, NotProved, GaveUp, UpdateAccepted,
               UpdateRefused, ReadLines
        <3>4. ASSUME NEW d \in dialogs, (\E yes \in BOOLEAN : Answer(d, yes)) \/ DialogCloses(d)
              PROVE  lines' = lines
            BY <3>4 DEF Answer, DialogCloses
        <3> QED
            BY <1>1, <3>1, <3>2, <3>3, <3>4 DEF Next, vars
    <2> QED
        BY <2>1, <2>2, <2>3, <2>4
<1>2. [][Stay]_vars <=> LinesStay
    BY DEF LinesStay
<1> HIDE DEF Stay
<1> QED
    BY <1>1, <1>2, PTL DEF Spec
=============================================================================
