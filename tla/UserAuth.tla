------------------------------ MODULE UserAuth ------------------------------
(***************************************************************************)
(* Logging in on one hop: under ssh_config settings (userauth.rs), or      *)
(* Reach's own cascade (client.rs).  The server takes or refuses what it   *)
(* likes and names whatever methods it likes next; the user answers,       *)
(* mistypes or cancels.  A key is what it is known by; its formats,        *)
(* algorithms and signatures are left out.                                 *)
(***************************************************************************)
EXTENDS Naturals, SequencesExt

CONSTANTS
    Key,
    Logins,     \* the sessions that may be logged in, see Login
    MaxRounds,  \* bound: requests for information in one exchange
    None

Method == {"publickey", "password", "keyboard-interactive", "gssapi-keyex",
           "gssapi-with-mic", "hostbased"}

\* `own` is the session's key, `opens` says that it is stored with a
\* passphrase that opens it; `hidden` keys have no public half without
\* theirs, `barred` identities no accepted algorithm, `locked` files need one.
\* `agent` is what the agent lists, certificates marked, `only` that what it
\* lists besides is left aside, `hostkeys` how often a host key can be tried.
Login == [form : {"config", "own"}, own : Key \cup {None}, opens : BOOLEAN,
          files : Seq(Key), certs : Seq(Key), agent : Seq(Key \X BOOLEAN) \cup {None},
          hidden : SUBSET Key, barred : SUBSET (Key \X BOOLEAN), locked : SUBSET Key,
          only : BOOLEAN, stored : BOOLEAN, methods : Seq(Method),
          hostkeys : Nat, batch : BOOLEAN, prompts : Nat,
          add : {"no", "yes", "ask"}]

UserAuthAssumption ==
    /\ MaxRounds \in Nat
    /\ \A l \in Logins : l \in Login /\ (l.opens => l.own \notin l.hidden)

VARIABLES
    login,      \* what is logged in with
    at,         \* what the login waits for
    methods,    \* those the server takes now
    done,       \* those that are used up
    next,       \* the next identity, or the agent's next key
    stored,     \* the stored password, not used yet
    tried,      \* attempts of password and keyboard-interactive
    hostkeys,   \* host keys not tried yet
    attempt,    \* questions for a passphrase, or rounds of an exchange
    refused,    \* outcome.refused_key
    sent,       \* history: what went out, how often
    asked       \* history: what the user was asked, how often

counts  == <<tried, hostkeys, attempt>>
history == <<sent, asked>>
vars    == <<login, at, methods, done, next, stored, counts, refused, history>>

Sent  == {"request", "stored", "spent on keyboard"}
Asked == {"password", "keyboard", "passphrase", "add", "needless"}

TypeOK ==
    /\ login \in Logins
    /\ at \in {"none", "choose", "offered", "signing", "passphrase", "signed",
               "adds", "typed", "sent", "exchange", "asks", "answers",
               "own key", "own offered", "own agent", "own agent offered",
               "own password", "own sent", "in", "out", "error"}
    /\ methods \subseteq Method /\ done \subseteq Method
    /\ next \in Nat /\ hostkeys \in Nat /\ attempt \in Nat
    /\ tried \in [{"password", "keyboard"} -> Nat]
    /\ {stored, refused} \subseteq BOOLEAN
    /\ sent \in [Sent -> Nat] /\ asked \in [Asked -> Nat]

Init ==
    /\ login \in Logins
    /\ at = IF login.form = "own" THEN "own key" ELSE "none"
    /\ methods = {} /\ done = {} /\ next = 1
    /\ stored = login.stored
    /\ tried = [m \in {"password", "keyboard"} |-> 0]
    /\ hostkeys = login.hostkeys /\ attempt = 0
    /\ refused = FALSE
    /\ sent = [s \in Sent |-> 0] /\ asked = [a \in Asked |-> 0]

Count(f, k) == [f EXCEPT ![k] = @ + 1]
AtLeastOne(n) == IF n = 0 THEN 1 ELSE n

-----------------------------------------------------------------------------
(* prepare: the list of identities.                                        *)

Identity(k, cert, by) == [key |-> k, cert |-> cert, by |-> by]

Known(id) == id.by = "agent" \/ id.key \notin login.hidden

\* The session's key, then the files that are not the same key again.
Named ==
    FoldLeft(LAMBDA list, k :
                IF k \notin login.hidden
                   /\ \E i \in DOMAIN list : Known(list[i]) /\ list[i].key = k
                THEN list ELSE Append(list, Identity(k, FALSE, "file")),
             IF login.own = None THEN <<>>
             ELSE <<Identity(login.own, FALSE, "session")>>,
             login.files)

\* Before each key, its certificates.
Certified ==
    FlattenSeq([i \in DOMAIN Named |->
        LET id == Named[i] IN
        Append([j \in DOMAIN SelectSeq(login.certs, LAMBDA k : Known(id) /\ k = id.key)
                    |-> [id EXCEPT !.cert = TRUE]], id)])

\* The agent signs for a plain key that it holds.  What it holds besides is
\* added, unless only what is named counts.
WithAgent(list, held) ==
    LET same == {i \in DOMAIN list : /\ list[i].key = held[1] /\ Known(list[i])
                                     /\ ~list[i].cert}
    IN  IF same # {}
        THEN [list EXCEPT ![CHOOSE i \in same : \A j \in same : i <= j].by = "agent"]
        ELSE IF login.only THEN list
        ELSE Append(list, Identity(held[1], held[2], "agent"))

Held == IF login.agent = None THEN <<>> ELSE login.agent

Prepared == FoldLeft(WithAgent, Certified, Held)

-----------------------------------------------------------------------------
(* authenticate.                                                           *)

\* The first method, in the order of the settings, that the server takes and
\* that is not used up.
ToTry ==
    LET open == SelectSeq(login.methods, LAMBDA m : m \in methods \ done)
    IN  IF open = <<>> THEN None ELSE open[1]

Tries(m) == at = "choose" /\ ToTry = m

\* The server refuses, or is content so far: it says what it takes next.
\* Methods that the settings do not name make no difference.
Remaining == SUBSET ToSet(login.methods)

Continues(remaining) == at' = "choose" /\ methods' = remaining

LetsIn == at' = "in" /\ UNCHANGED methods

GivesUp(m) ==
    /\ done' = done \cup {m} /\ at' = "choose"
    /\ UNCHANGED <<login, methods, next, refused>>

\* "none" tells what the server takes, or lets the user in.
AnswersNone(remaining) ==
    /\ at = "none"
    /\ Continues(remaining) \/ LetsIn
    /\ UNCHANGED <<login, done, next, stored, counts, refused, history>>

Finish ==
    /\ Tries(None)
    /\ at' = "out"
    /\ UNCHANGED <<login, methods, done, next, stored, counts, refused, history>>

\* Public keys: the next one, if it can be offered.
PublicKey ==
    /\ Tries("publickey") /\ next <= Len(Prepared)
    /\ next' = next + 1
    /\ IF \/ ~Known(Prepared[next])
          \/ <<Prepared[next].key, Prepared[next].cert>> \in login.barred
       THEN UNCHANGED <<at, sent>>
       ELSE at' = "offered" /\ sent' = Count(sent, "request")
    /\ UNCHANGED <<login, methods, done, stored, counts, refused, asked>>

NoKeyLeft ==
    /\ Tries("publickey") /\ next > Len(Prepared)
    /\ GivesUp("publickey")
    /\ UNCHANGED <<stored, counts, history>>

Offered == Prepared[next - 1]

\* The server's answer to an offer or a signature.
Refuses(remaining, partial) ==
    /\ at \in {"offered", "signed"}
    /\ Continues(remaining)
    /\ refused' = (refused \/ (~partial /\ Offered.by = "session"))
    /\ UNCHANGED <<login, done, next, stored, counts, sent, asked>>

WouldTake ==
    /\ at = "offered"
    /\ at' = "signing"
    /\ UNCHANGED <<login, methods, done, next, stored, counts, refused, history>>

Opens(id) == IF id.by = "session" THEN login.opens ELSE id.key \notin login.locked

\* FileSigner: a key that is not open is asked for, now that the server
\* would take it, and passed over if nobody may be asked.  An agent that does
\* not sign ends the login.
Sign ==
    /\ at = "signing"
    /\ attempt' = 0
    /\ \/ Offered.by = "agent" /\ at' \in {"signed", "error"} /\ UNCHANGED asked
       \/ Offered.by # "agent" /\ Opens(Offered) /\ at' = "signed" /\ UNCHANGED asked
       \/ /\ Offered.by # "agent" /\ ~Opens(Offered) /\ login.batch
          /\ at' = "choose" /\ UNCHANGED asked
       \/ /\ Offered.by # "agent" /\ ~Opens(Offered) /\ ~login.batch
          /\ at' = "passphrase"
          /\ asked' = IF \E i \in DOMAIN Held : Held[i][1] = Offered.key
                      THEN Count(Count(asked, "needless"), "passphrase")
                      ELSE Count(asked, "passphrase")
    /\ UNCHANGED <<login, methods, done, next, stored, tried, hostkeys, refused, sent>>

Passphrase(answer) ==
    /\ at = "passphrase"
    /\ attempt' = attempt + 1
    /\ at' = CASE answer = "right" -> "signed"
               [] answer = "wrong" /\ attempt' < AtLeastOne(login.prompts) -> "passphrase"
               [] OTHER -> "choose"
    /\ UNCHANGED <<login, methods, done, next, stored, tried, hostkeys, refused,
                   history>>

\* The key is in.  A file's is given to the agent, once the user agrees if
\* the settings want that.
KeyIn ==
    /\ at = "signed"
    /\ IF Offered.by # "agent" /\ login.agent # None /\ login.add = "ask"
       THEN at' = "adds" /\ asked' = Count(asked, "add")
       ELSE at' = "in" /\ UNCHANGED asked
    /\ UNCHANGED <<login, methods, done, next, stored, counts, refused, sent>>

AnswersAdd ==
    /\ at = "adds"
    /\ at' = "in"
    /\ UNCHANGED <<login, methods, done, next, stored, counts, refused, history>>

\* The password: the stored one, else one that is typed.
Password ==
    /\ Tries("password")
    /\ IF tried.password >= AtLeastOne(login.prompts) + (IF login.stored THEN 1 ELSE 0)
       THEN GivesUp("password") /\ UNCHANGED <<stored, counts, history>>
       ELSE /\ tried' = Count(tried, "password")
            /\ stored' = FALSE
            /\ IF stored
               THEN /\ at' = "sent"
                    /\ sent' = Count(Count(sent, "stored"), "request")
                    /\ UNCHANGED <<done, asked>>
               ELSE IF login.batch
               THEN /\ at' = at /\ done' = done \cup {"password"}
                    /\ UNCHANGED <<sent, asked>>
               ELSE /\ at' = "typed"
                    /\ asked' = Count(asked, "password")
                    /\ UNCHANGED <<done, sent>>
            /\ UNCHANGED <<login, methods, next, hostkeys, attempt, refused>>

TypesPassword ==
    /\ at = "typed"
    /\ at' = "sent" /\ sent' = Count(sent, "request")
    /\ UNCHANGED <<login, methods, done, next, stored, counts, refused, asked>>

CancelsPassword ==
    /\ at = "typed"
    /\ GivesUp("password")
    /\ UNCHANGED <<stored, counts, history>>

\* Keyboard-interactive: an exchange, in which a lone hidden question for a
\* password gets the stored one.
Exchange ==
    /\ Tries("keyboard-interactive")
    /\ IF tried.keyboard >= AtLeastOne(login.prompts)
       THEN GivesUp("keyboard-interactive") /\ UNCHANGED <<stored, counts, history>>
       ELSE /\ tried' = Count(tried, "keyboard") /\ attempt' = 0
            /\ at' = "exchange" /\ sent' = Count(sent, "request")
            /\ UNCHANGED <<login, methods, done, next, stored, hostkeys, refused,
                           asked>>

\* A stored password is taken, so that it goes out once.  Before it one that
\* is only read.
KeepsStored == stored

TakesStored == FALSE

Requests(question) ==
    /\ at = "exchange" /\ attempt < MaxRounds
    /\ attempt' = attempt + 1
    /\ CASE question = "nothing" -> UNCHANGED <<at, done, stored, history>>
         [] question = "password" /\ stored ->
              /\ stored' = TakesStored
              /\ sent' = Count(Count(sent, "stored"), "spent on keyboard")
              /\ UNCHANGED <<at, done, asked>>
         [] OTHER ->
              /\ IF login.batch
                 THEN /\ at' = "choose" /\ done' = done \cup {"keyboard-interactive"}
                      /\ UNCHANGED asked
                 ELSE /\ at' = "answers" /\ asked' = Count(asked, "keyboard")
                      /\ UNCHANGED done
              /\ UNCHANGED <<stored, sent>>
    /\ UNCHANGED <<login, methods, next, tried, hostkeys, refused>>

Answers ==
    /\ at = "answers"
    /\ at' = "exchange"
    /\ UNCHANGED <<login, methods, done, next, stored, counts, refused, history>>

CancelsExchange ==
    /\ at = "answers"
    /\ GivesUp("keyboard-interactive")
    /\ UNCHANGED <<stored, counts, history>>

\* Kerberos, each way once, if there is a ticket or a context of its.
Gssapi(m) ==
    /\ Tries(m)
    /\ done' = done \cup {m}
    /\ \/ at' = "sent" /\ sent' = Count(sent, "request")
       \/ UNCHANGED <<at, sent>>
    /\ UNCHANGED <<login, methods, next, stored, counts, refused, asked>>

\* Each host key once; one that cannot be signed for is passed over.
Hostbased ==
    /\ Tries("hostbased")
    /\ IF hostkeys = 0
       THEN GivesUp("hostbased") /\ UNCHANGED <<hostkeys, sent>>
       ELSE /\ hostkeys' = hostkeys - 1
            /\ \/ at' = "sent" /\ sent' = Count(sent, "request")
               \/ UNCHANGED <<at, sent>>
            /\ UNCHANGED <<login, methods, done, next, refused>>
    /\ UNCHANGED <<stored, tried, attempt, asked>>

\* The server's answer to what needs no more of us.
Decides(remaining) ==
    /\ at \in {"sent", "exchange"}
    /\ Continues(remaining) \/ LetsIn
    /\ UNCHANGED <<login, done, next, stored, counts, refused, history>>

-----------------------------------------------------------------------------
(* cascade_authenticate: the session's key, the agent's keys, the stored   *)
(* password; nobody is asked.                                              *)

\* An own key that does not open ends the login.
OwnKey ==
    /\ at = "own key"
    /\ at' = CASE login.own = None -> "own agent"
               [] login.opens -> "own offered"
               [] OTHER -> "error"
    /\ sent' = IF at' = "own offered" THEN Count(sent, "request") ELSE sent
    /\ UNCHANGED <<login, methods, done, next, stored, counts, refused, asked>>

\* A refusal, or a part of a login that needs more: either counts as refused.
OwnRefused ==
    /\ at = "own offered"
    /\ at' = "own agent"
    /\ refused' = TRUE
    /\ UNCHANGED <<login, methods, done, next, stored, counts, sent, asked>>

OwnAgent ==
    /\ at = "own agent"
    /\ IF next > Len(Held)
       THEN at' = "own password" /\ UNCHANGED <<next, sent>>
       ELSE /\ at' = "own agent offered" /\ next' = next + 1
            /\ sent' = Count(sent, "request")
    /\ UNCHANGED <<login, methods, done, stored, counts, refused, asked>>

OwnAgentRefused ==
    /\ at = "own agent offered"
    /\ at' = "own agent"
    /\ UNCHANGED <<login, methods, done, next, stored, counts, refused, history>>

OwnPassword ==
    /\ at = "own password"
    /\ at' = IF login.stored THEN "own sent" ELSE "out"
    /\ stored' = FALSE
    /\ sent' = IF login.stored THEN Count(Count(sent, "stored"), "request") ELSE sent
    /\ UNCHANGED <<login, methods, done, next, counts, refused, asked>>

OwnIn ==
    /\ at \in {"own offered", "own agent offered", "own sent"}
    /\ at' \in IF at = "own sent" THEN {"in", "out"} ELSE {"in"}
    /\ UNCHANGED <<login, methods, done, next, stored, counts, refused, history>>

-----------------------------------------------------------------------------

\* The connection is lost, or the connect limit ends the wait.
Lost ==
    /\ at \notin {"in", "out", "error"}
    /\ at' = "error"
    /\ UNCHANGED <<login, methods, done, next, stored, counts, refused, history>>

Next ==
    \/ \E remaining \in Remaining :
        \/ AnswersNone(remaining) \/ Decides(remaining)
        \/ \E partial \in BOOLEAN : Refuses(remaining, partial)
    \/ Finish \/ PublicKey \/ NoKeyLeft \/ WouldTake \/ Sign
    \/ \E answer \in {"right", "wrong", "cancel"} : Passphrase(answer)
    \/ KeyIn \/ AnswersAdd
    \/ Password \/ TypesPassword \/ CancelsPassword
    \/ Exchange \/ Answers \/ CancelsExchange
    \/ \E question \in {"nothing", "password", "other"} : Requests(question)
    \/ \E m \in {"gssapi-keyex", "gssapi-with-mic"} : Gssapi(m)
    \/ Hostbased
    \/ OwnKey \/ OwnRefused \/ OwnAgent \/ OwnAgentRefused \/ OwnPassword \/ OwnIn
    \/ Lost

Spec == Init /\ [][Next]_vars

-----------------------------------------------------------------------------
\* However the server mixes its methods, and asks again for what it refused:
\* the stored password goes out once; nobody is asked on a login of Reach's
\* own, nor under BatchMode, except whether a key may be added; and the user
\* types a password no more often than the settings say, and once more if the
\* stored one went out as an answer.
AsksSparingly ==
    /\ sent["stored"] <= 1
    /\ login.form = "own" => \A a \in Asked : asked[a] = 0
    /\ login.batch => \A a \in Asked \ {"add"} : asked[a] = 0
    /\ asked["password"] <= AtLeastOne(login.prompts) + sent["spent on keyboard"]

\* What is said of a login and does not hold of every one.

\* NumberOfPasswordPrompts: a stored password that went out as an answer
\* counts as an attempt all the same.
PromptsLimited == asked["password"] <= AtLeastOne(login.prompts)

\* "The agent holds this key: it signs, no passphrase asked": of a key's
\* certificate too.
NeverNeedless == asked["needless"] = 0

\* "BatchMode refusing to ask anything".
BatchAsksNothing == login.batch => asked["add"] = 0

\* "Then the agent's other keys unless IdentitiesOnly": its certificates too,
\* whatever else it lists.
AllOffered ==
    login.only \/ \A i \in DOMAIN Held :
        \E j \in DOMAIN Prepared : /\ Prepared[j].key = Held[i][1]
                                   /\ Prepared[j].cert = Held[i][2]
=============================================================================
