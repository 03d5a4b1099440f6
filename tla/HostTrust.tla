------------------------------ MODULE HostTrust ------------------------------
(***************************************************************************)
(* Who a connection is talking to: the host-key check of every hop, the    *)
(* two places keys are remembered, the questions put to the user, and the  *)
(* connect limit, whose clock stands still while anyone is being asked.    *)
(* Source: ssh/client.rs, ssh/hostkeys.rs, ssh/hostkey_update.rs,          *)
(* ssh/prompt.rs, ssh/knownhosts/hostfile.rs.                              *)
(*                                                                         *)
(* Reach's own store, known_hosts.json, is read before the question and    *)
(* written whole after it, and the write is not atomic: the file is cut    *)
(* to nothing and then filled.  OpenSSH's known_hosts is appended to, and  *)
(* rewritten whole by UpdateHostKeys.  Each of these is a step of its own  *)
(* here, for connections run on several threads.                           *)
(***************************************************************************)
EXTENDS Naturals, Sequences, FiniteSets

CONSTANTS
    Attempts,      \* connections being made; each is made once
    Hosts, Keys,
    Rsa,           \* the RSA keys among them
    NoKey,
    Hops,          \* the hosts an attempt goes through, its target last
    Policies,      \* the settings an attempt may come with
    Limit,         \* connect_limit, in ticks of within_connect_limit
    MaxQuestions   \* login questions per hop

ASSUME HostTrustAssumption ==
    /\ NoKey \notin Keys /\ Rsa \subseteq Keys
    /\ \A a \in Attempts : /\ Len(Hops[a]) \in Nat \ {0}
                           /\ \A i \in 1..Len(Hops[a]) : Hops[a][i] \in Hosts
    /\ Limit \in Nat \ {0} /\ MaxQuestions \in Nat

\* HostKeyPolicy, as far as it decides anything here: StrictHostKeyChecking,
\* OpenSSH's files or Reach's store, UpdateHostKeys.
Policy == [strict : {"yes", "accept-new", "no", "ask"},
           files  : BOOLEAN,
           update : {"no", "yes", "ask"}]

ASSUME PoliciesAssumption == \A a \in Attempts : Policies[a] \subseteq Policy

Known == [Hosts -> Keys \cup {NoKey}]   \* KnownHosts::entries
Nobody == [h \in Hosts |-> NoKey]       \* KnownHosts::default

\* Where an attempt is.  The host key: its check begins at "hostkey", and an
\* accepted key is "accepted", being written ("fill", "over") or appended.
Stages == {"idle", "reach", "hostkey", "asked", "accepted", "fill", "over",
           "login", "question", "shell", "up", "failed"}

Updates == {"off", "trusted", "proving", "asking", "reading", "moving", "done"}

VARIABLES
    policy,   \* each attempt's settings
    stage, hop, spent,
    cut,      \* its connect limit is over, and what awaited it is gone
    key,      \* the key its hop's server presented
    read,     \* what it read of known_hosts.json before asking
    stale,    \* somebody wrote it since
    answer,   \* its oneshot
    asked,    \* login questions this hop has put
    update,   \* UpdateState, and the task that follows the announcement
    keep,     \* the keys that task will leave the host with
    copy,     \* known_hosts as that task read it
    json,     \* known_hosts.json; empty when cut and not filled
    torn,
    lines,    \* known_hosts: the plain lines
    prompts,  \* hostkey_prompts(): the attempts with an open question
    dialogs,  \* host-key dialogs on the screen
    vouched,     \* history: keys someone, or a setting, stood for
    remembered,  \* history: the key last recorded of each host
    excused      \* history: hosts an overlapping write may have lost

attempt == <<policy, stage, hop, spent, cut, key, asked>>
check   == <<read, stale, answer, prompts>>
store   == <<json, torn>>
updates == <<update, keep, copy>>
history == <<vouched, remembered, excused>>
vars    == <<attempt, check, store, updates, lines, dialogs, history>>

TypeOK ==
    /\ policy \in [Attempts -> Policy]
    /\ stage \in [Attempts -> Stages]
    /\ \A a \in Attempts : hop[a] \in 1..Len(Hops[a])
    /\ spent \in [Attempts -> 0..Limit]
    /\ cut \in [Attempts -> BOOLEAN]
    /\ key \in [Attempts -> Keys \cup {NoKey}]
    /\ read \in [Attempts -> Known]
    /\ stale \in [Attempts -> BOOLEAN]
    /\ answer \in [Attempts -> {"none", "yes", "no"}]
    /\ asked \in [Attempts -> 0..MaxQuestions]
    /\ update \in [Attempts -> Updates]
    /\ keep \in [Attempts -> SUBSET Keys]
    /\ copy \in [Attempts -> SUBSET (Hosts \X Keys)]
    /\ json \in Known
    /\ torn \in BOOLEAN
    /\ lines \subseteq Hosts \X Keys
    /\ prompts \subseteq Attempts
    /\ dialogs \subseteq Attempts \X Nat
    /\ vouched \subseteq Hosts \X Keys
    /\ remembered \in Known
    /\ excused \subseteq Hosts

Init ==
    /\ policy \in {p \in [Attempts -> Policy] :
                      \A a \in Attempts : p[a] \in Policies[a]}
    /\ stage = [a \in Attempts |-> "idle"]
    /\ hop = [a \in Attempts |-> 1]
    /\ spent = [a \in Attempts |-> 0]
    /\ cut = [a \in Attempts |-> FALSE]
    /\ key = [a \in Attempts |-> NoKey]
    /\ read = [a \in Attempts |-> Nobody]
    /\ stale = [a \in Attempts |-> FALSE]
    /\ answer = [a \in Attempts |-> "none"]
    /\ asked = [a \in Attempts |-> 0]
    /\ update = [a \in Attempts |-> "off"]
    /\ keep = [a \in Attempts |-> {}]
    /\ copy = [a \in Attempts |-> {}]
    /\ json = Nobody
    /\ torn = FALSE
    /\ lines = {}
    /\ prompts = {}
    /\ dialogs = {}
    /\ vouched = {}
    /\ remembered = Nobody
    /\ excused = {}

Host(a) == Hops[a][hop[a]]
Last(a) == hop[a] = Len(Hops[a])

Checking == {"hostkey", "asked", "accepted", "fill", "over"}

Go(a, s) == stage' = [stage EXCEPT ![a] = s]

\* check_server_key runs in a task of the connection's own: when the limit
\* ends meanwhile it goes on, and nobody is left to log in.
Passed(a) == IF cut[a] THEN "failed" ELSE "login"

Vouch(a) == vouched' = vouched \cup {<<Host(a), key[a]>>}

-----------------------------------------------------------------------------
\* The connection, up to its host key.

Connect(a) ==
    /\ stage[a] = "idle"
    /\ Go(a, "reach")
    /\ UNCHANGED <<policy, hop, spent, cut, key, asked, check, store, updates,
                   lines, dialogs, history>>

\* The key exchange is over: the session's own task has the server's key.
Present(a, k) ==
    /\ stage[a] = "reach"
    /\ Go(a, "hostkey")
    /\ key' = [key EXCEPT ![a] = k]
    /\ UNCHANGED <<policy, hop, spent, cut, asked, check, store, updates,
                   lines, dialogs, history>>

\* prompt_hostkey: the question is open, and the window is told.
AskUser(a) ==
    /\ prompts' = prompts \cup {a}
    /\ answer' = [answer EXCEPT ![a] = "none"]
    /\ dialogs' = dialogs \cup {<<a, hop[a]>>}
    /\ Go(a, "asked")
    /\ UNCHANGED vouched

\* A setting that does not ask decides about a key that is not on record.
Decide(a, changed) ==
    /\ IF policy[a].strict = "no" \/ (~changed /\ policy[a].strict = "accept-new")
       THEN Go(a, "accepted") /\ Vouch(a)
       ELSE Go(a, "failed") /\ UNCHANGED vouched
    /\ UNCHANGED <<prompts, answer, dialogs>>

\* verify_host_identity_with, up to the answer.  A file that cannot be
\* parsed is one with nothing in it.
CheckStore(a) ==
    LET known == IF torn THEN Nobody ELSE json
        old == known[Host(a)]
    IN  /\ stage[a] = "hostkey" /\ ~policy[a].files
        /\ IF old = key[a]
           THEN /\ Go(a, Passed(a))
                /\ UNCHANGED <<check, dialogs, vouched>>
           ELSE /\ read' = [read EXCEPT ![a] = known]
                /\ stale' = [stale EXCEPT ![a] = torn]
                /\ IF policy[a].strict = "ask" THEN AskUser(a)
                   ELSE Decide(a, old # NoKey)
        /\ UNCHANGED <<policy, hop, spent, cut, key, asked, store, updates,
                       lines, remembered, excused>>

\* HostKeyPolicy::verify.  A changed key is never asked about here, and one
\* let through under "no" is not recorded.
CheckFiles(a) ==
    LET mine == {k \in Keys : <<Host(a), k>> \in lines}
        trusts == policy[a].update # "no" /\ key[a] \in mine
    IN  /\ stage[a] = "hostkey" /\ policy[a].files
        /\ \/ /\ key[a] \in mine \/ (mine # {} /\ policy[a].strict = "no")
              /\ Go(a, Passed(a))
              /\ Vouch(a)
              /\ UNCHANGED <<answer, prompts, dialogs>>
           \/ /\ mine # {} /\ key[a] \notin mine /\ policy[a].strict # "no"
              /\ Go(a, "failed")
              /\ UNCHANGED <<answer, prompts, dialogs, vouched>>
           \/ mine = {} /\ policy[a].strict = "ask" /\ AskUser(a)
           \/ mine = {} /\ policy[a].strict # "ask" /\ Decide(a, FALSE)
        /\ update' = [update EXCEPT ![a] = IF trusts THEN "trusted" ELSE "off"]
        /\ UNCHANGED <<policy, hop, spent, cut, key, asked, read, stale, store,
                       keep, copy, lines, remembered, excused>>

-----------------------------------------------------------------------------
\* The question.

\* resolve_hostkey_prompt: a dialog's answer.  One for a question that is
\* no longer open changes nothing but the screen: each has an id of its own.
IsOpen(d) == d[1] \in prompts /\ hop[d[1]] = d[2]

Answer(d, yes) ==
    /\ d \in dialogs
    /\ dialogs' = dialogs \ {d}
    /\ IF IsOpen(d)
       THEN /\ prompts' = prompts \ {d[1]}
            /\ answer' = [answer EXCEPT ![d[1]] = IF yes THEN "yes" ELSE "no"]
            /\ vouched' = IF yes THEN vouched \cup {<<Hops[d[1]][d[2]], key[d[1]]>>}
                          ELSE vouched
       ELSE UNCHANGED <<prompts, answer, vouched>>
    /\ UNCHANGED <<attempt, read, stale, store, updates, lines, remembered,
                   excused>>

\* OpenPrompt::drop
WithdrawnNever(a) == prompts
Withdrawn(a) == prompts \ {a}

\* The wait is over: with the answer, or without one after 120 seconds.
AcceptsUnlessRefused(a) == answer[a] # "no"
Accepts(a) == answer[a] = "yes"

Answered(a) ==
    /\ stage[a] = "asked" /\ Accepts(a)
    /\ prompts' = Withdrawn(a)
    /\ answer' = [answer EXCEPT ![a] = "none"]
    /\ Go(a, "accepted")
    /\ update' = [update EXCEPT ![a] =
          IF policy[a].files /\ policy[a].update # "no" THEN "trusted" ELSE @]
    /\ UNCHANGED <<policy, hop, spent, cut, key, asked, read, stale, store,
                   keep, copy, lines, dialogs, history>>

NotAccepted(a) ==
    /\ stage[a] = "asked" /\ ~Accepts(a)
    /\ prompts' = Withdrawn(a)
    /\ answer' = [answer EXCEPT ![a] = "none"]
    /\ Go(a, "failed")
    /\ read' = [read EXCEPT ![a] = Nobody]
    /\ stale' = [stale EXCEPT ![a] = FALSE]
    /\ UNCHANGED <<policy, hop, spent, cut, key, asked, store, updates, lines,
                   dialogs, history>>

\* ssh-hostkey-prompt-closed reaches the window.
DialogCloses(d) ==
    /\ d \in dialogs
    /\ ~IsOpen(d)
    /\ dialogs' = dialogs \ {d}
    /\ UNCHANGED <<attempt, check, store, updates, lines, history>>

-----------------------------------------------------------------------------
\* Remembering it.

\* std::fs::write of known_hosts.json: the file is cut to nothing ...
Cut(a) ==
    /\ stage[a] = "accepted" /\ ~policy[a].files
    /\ json' = Nobody /\ torn' = TRUE
    /\ Go(a, "fill")
    /\ UNCHANGED <<policy, hop, spent, cut, key, asked, check, updates, lines,
                   dialogs, history>>

RecordedAlone(a) == [Nobody EXCEPT ![Host(a)] = key[a]]
Recorded(a) == [read[a] EXCEPT ![Host(a)] = key[a]]

\* ... and filled with what was read before, and the new key.  Of two at
\* it at once the second writes over the first, which may be longer.
Fill(a) ==
    /\ stage[a] \in {"fill", "over"}
    /\ json' = Recorded(a)
    /\ torn' \in IF stage[a] = "over" THEN BOOLEAN ELSE {FALSE}
    /\ stage' = [b \in Attempts |->
                    IF b = a THEN Passed(a)
                    ELSE IF stage[b] = "fill" THEN "over" ELSE stage[b]]
    /\ read' = [read EXCEPT ![a] = Nobody]
    /\ stale' = [b \in Attempts |->
                    b # a /\ (stale[b] \/ stage[b] \in Checking \ {"hostkey"})]
    /\ remembered' = [remembered EXCEPT ![Host(a)] = key[a]]
    /\ excused' = IF torn' THEN Hosts
                  ELSE (IF stale[a] THEN Hosts ELSE excused) \ {Host(a)}
    /\ UNCHANGED <<policy, hop, spent, cut, key, asked, answer, prompts,
                   updates, lines, dialogs, vouched>>

\* A full disk: nobody looks at the result.
FillFails(a) ==
    /\ stage[a] \in {"fill", "over"}
    /\ Go(a, Passed(a))
    /\ read' = [read EXCEPT ![a] = Nobody]
    /\ stale' = [stale EXCEPT ![a] = FALSE]
    /\ excused' = Hosts
    /\ UNCHANGED <<policy, hop, spent, cut, key, asked, answer, prompts, store,
                   updates, lines, dialogs, vouched, remembered>>

\* HostKeyPolicy::record, knownhosts::append: a line at the file's end.
AppendLine(a) ==
    /\ stage[a] = "accepted" /\ policy[a].files
    /\ lines' = lines \cup {<<Host(a), key[a]>>}
    /\ Go(a, Passed(a))
    /\ UNCHANGED <<policy, hop, spent, cut, key, asked, check, store, updates,
                   dialogs, history>>

-----------------------------------------------------------------------------
\* Logging in, the shell, and the limit.

\* prompt::ask, by the login of one attempt or the update of another.
QuestionOpen ==
    \E a \in Attempts : stage[a] = "question" \/ update[a] = "asking"

LoginAsks(a) ==
    /\ stage[a] = "login" /\ asked[a] < MaxQuestions
    /\ asked' = [asked EXCEPT ![a] = @ + 1]
    /\ Go(a, "question")
    /\ UNCHANGED <<policy, hop, spent, cut, key, check, store, updates, lines,
                   dialogs, history>>

\* Answered, cancelled, or left for ten minutes.
QuestionEnds(a) ==
    /\ stage[a] = "question"
    /\ Go(a, "login")
    /\ UNCHANGED <<policy, hop, spent, cut, key, asked, check, store, updates,
                   lines, dialogs, history>>

\* The next hop, through this one, or the shell.
LoggedIn(a) ==
    /\ stage[a] = "login"
    /\ asked' = [asked EXCEPT ![a] = 0]
    /\ IF Last(a)
       THEN Go(a, "shell") /\ UNCHANGED <<hop, key, update>>
       ELSE /\ Go(a, "reach")
            /\ hop' = [hop EXCEPT ![a] = @ + 1]
            /\ key' = [key EXCEPT ![a] = NoKey]
            /\ update' = [update EXCEPT ![a] = "off"]
    /\ UNCHANGED <<policy, spent, cut, check, store, keep, copy, lines,
                   dialogs, history>>

ShellOpens(a) ==
    /\ stage[a] = "shell"
    /\ Go(a, "up")
    /\ UNCHANGED <<policy, hop, spent, cut, key, asked, check, store, updates,
                   lines, dialogs, history>>

\* Refused, or the connection is lost.
Fails(a) ==
    /\ stage[a] \in {"reach", "login", "shell"}
    /\ Go(a, "failed")
    /\ UNCHANGED <<policy, hop, spent, cut, key, asked, check, store, updates,
                   lines, dialogs, history>>

\* What within_connect_limit is put around: through jump hosts, all but the
\* shell.
Limited(a) ==
    /\ ~cut[a]
    /\ stage[a] \in {"reach", "login", "question"} \cup Checking
                    \cup (IF Len(Hops[a]) = 1 THEN {"shell"} ELSE {})

\* Whether time counts: not while anyone is being asked anything.
Counts == prompts = {} /\ ~QuestionOpen

Tick(a) ==
    /\ Limited(a)
    /\ Counts
    /\ spent' = [spent EXCEPT ![a] = @ + 1]
    /\ IF spent[a] + 1 >= Limit
       THEN /\ cut' = [cut EXCEPT ![a] = TRUE]
            /\ Go(a, IF stage[a] \in Checking THEN stage[a] ELSE "failed")
       ELSE UNCHANGED <<cut, stage>>
    /\ UNCHANGED <<policy, hop, key, asked, check, store, updates, lines,
                   dialogs, history>>

-----------------------------------------------------------------------------
\* UpdateHostKeys, for the target's connection.

\* UpdateState::announced, plan_update.  skipped says which of the new keys
\* the proofs will leave out.
Announced(a, offered, skipped) ==
    LET h == Host(a)
        known == {k \in offered : <<h, k>> \in lines}
        old == {k \in Keys \ offered : <<h, k>> \in lines}
        elsewhere == \E g \in Hosts \ {h}, k \in offered \cup old :
                        <<g, k>> \in lines
    IN  /\ stage[a] \in {"shell", "up"} /\ update[a] = "trusted"
        /\ skipped \subseteq (offered \ known) \cap Rsa
        /\ IF offered = {} \/ (offered = known /\ old = {}) \/ elsewhere
           THEN update' = [update EXCEPT ![a] = "done"] /\ UNCHANGED keep
           ELSE /\ update' = [update EXCEPT ![a] = "proving"]
                /\ keep' = [keep EXCEPT ![a] = offered \ skipped]
        /\ UNCHANGED <<attempt, check, store, copy, lines, dialogs, history>>

\* The server has proven the new keys, when there are any; or has not.
Proved(a) ==
    /\ update[a] = "proving"
    /\ update' = [update EXCEPT ![a] =
                     IF policy[a].update = "ask" THEN "asking" ELSE "reading"]
    /\ UNCHANGED <<attempt, check, store, keep, copy, lines, dialogs, history>>

GaveUp(a) ==
    /\ update' = [update EXCEPT ![a] = "done"]
    /\ keep' = [keep EXCEPT ![a] = {}]
    /\ UNCHANGED <<attempt, check, store, copy, lines, dialogs, history>>

NotProved(a) == update[a] = "proving" /\ GaveUp(a)

\* The question under "ask" is a login question like any other.
UpdateAccepted(a) ==
    /\ update[a] = "asking"
    /\ update' = [update EXCEPT ![a] = "reading"]
    /\ UNCHANGED <<attempt, check, store, keep, copy, lines, dialogs, history>>

UpdateRefused(a) == update[a] = "asking" /\ GaveUp(a)

\* replace_in_file: the file is read, and a new one moved over it.
ReadLines(a) ==
    /\ update[a] = "reading"
    /\ copy' = [copy EXCEPT ![a] = lines]
    /\ update' = [update EXCEPT ![a] = "moving"]
    /\ UNCHANGED <<attempt, check, store, keep, lines, dialogs, history>>

\* replace_with
ReplacedAll(a) == {Host(a)} \X keep[a]
Replaced(a) ==
    {l \in copy[a] : l[1] # Host(a)} \cup ({Host(a)} \X keep[a])

MoveLines(a) ==
    /\ update[a] = "moving"
    /\ lines' = IF Replaced(a) = copy[a] THEN lines ELSE Replaced(a)
    /\ vouched' = vouched \cup ({Host(a)} \X keep[a])
    /\ update' = [update EXCEPT ![a] = "done"]
    /\ keep' = [keep EXCEPT ![a] = {}]
    /\ copy' = [copy EXCEPT ![a] = {}]
    /\ UNCHANGED <<attempt, check, store, dialogs, remembered, excused>>

-----------------------------------------------------------------------------
Next ==
    \/ \E a \in Attempts :
          \/ Connect(a)
          \/ \E k \in Keys : Present(a, k)
          \/ CheckStore(a) \/ CheckFiles(a)
          \/ Answered(a) \/ NotAccepted(a)
          \/ Cut(a) \/ Fill(a) \/ FillFails(a) \/ AppendLine(a)
          \/ LoginAsks(a) \/ QuestionEnds(a) \/ LoggedIn(a)
          \/ ShellOpens(a) \/ Fails(a) \/ Tick(a)
          \/ \E offered, skipped \in SUBSET Keys : Announced(a, offered, skipped)
          \/ Proved(a) \/ NotProved(a)
          \/ UpdateAccepted(a) \/ UpdateRefused(a)
          \/ ReadLines(a) \/ MoveLines(a)
    \/ \E d \in dialogs :
          \/ \E yes \in BOOLEAN : Answer(d, yes)
          \/ DialogCloses(d)

\* Timers fire and tasks run; servers and people need not do anything.
Fairness ==
    \A a \in Attempts :
        /\ WF_vars(CheckStore(a)) /\ WF_vars(CheckFiles(a))
        /\ WF_vars(Answered(a)) /\ WF_vars(NotAccepted(a))
        /\ WF_vars(Cut(a)) /\ WF_vars(Fill(a)) /\ WF_vars(AppendLine(a))
        /\ WF_vars(QuestionEnds(a)) /\ WF_vars(Tick(a))
        /\ WF_vars(UpdateRefused(a))

Spec == Init /\ [][Next]_vars /\ Fairness

-----------------------------------------------------------------------------
\* A server is let in with a key that somebody stood for, for that very
\* host: the user asked about it, a setting that adds or lets through, or a
\* proof by a key that was trusted.  No answer, a late one, one given to
\* another hop's question, or a file read while it is written never does.
OnlyVouched ==
    /\ \A a \in Attempts :
          stage[a] \in {"fill", "over", "login", "question", "shell", "up"} =>
              <<Host(a), key[a]>> \in vouched
    /\ lines \subseteq vouched
    /\ \A h \in Hosts : json[h] # NoKey => <<h, json[h]>> \in vouched

\* known_hosts.json holds the key last recorded of every host, but for those
\* a write that overlapped another, or that failed half way, may have lost.
Remembered ==
    ~torn => \A h \in Hosts \ excused : json[h] = remembered[h]

\* A line of known_hosts goes only when UpdateHostKeys drops a key of its own
\* host, or when it was appended while such an update was rewriting the file.
LinesStay ==
    [][\A l \in lines \ lines' :
          \E a \in Attempts : /\ update[a] = "moving"
                              /\ Host(a) = l[1] \/ l \notin copy[a]]_vars

\* However long people take over their questions, and whatever servers do,
\* a connection attempt comes to an end: it is up, or it has failed.  (One
\* through jump hosts may wait for its shell for ever.)
AttemptsEnd ==
    \A a \in Attempts :
        stage[a] = "reach" ~>
            stage[a] \in {"up", "failed"} \cup
                         (IF Len(Hops[a]) = 1 THEN {} ELSE {"shell"})

\* A question is open only for a connection that is still being made.
AskedForSomeone == \A a \in prompts : ~cut[a]
=============================================================================
