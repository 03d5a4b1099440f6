------------------------------ MODULE Passphrase ------------------------------
(***************************************************************************)
(* A password manager's passphrase: the question in the window, the        *)
(* operations that ask it or join it, and the passphrase kept for a while. *)
(* Source: pwmanager/unlock.rs, pwmanager/prompt.rs, pwmanager/mod.rs.     *)
(*                                                                         *)
(* Operations run on several threads: what is read under one lock may have *)
(* changed when the next is taken.  Forgetting everything takes two locks, *)
(* first the kept passphrase's, then the open questions'.                  *)
(***************************************************************************)
EXTENDS Naturals, FiniteSets

CONSTANTS
    Operation,   \* one connect, listing or test each
    Account,     \* the accounts they log in to
    None,
    MaxTyped,    \* how often the user types one
    MaxForgets,  \* how often everything is forgotten
    MaxCalls,    \* calls to the manager in an operation
    MaxAttempts  \* MAX_ATTEMPTS

Typed == 1..MaxTyped
Cancelled == 0
Held == [pass : Typed, seen : 0..MaxForgets]

PassphraseAssumption ==
    /\ {MaxTyped, MaxForgets, MaxCalls, MaxAttempts} \subseteq Nat
    /\ None \notin Operation \cup Account \cup Nat /\ None \notin Held

VARIABLES
    remember,   \* the setting keeps a typed passphrase for some time
    typed,      \* how many were typed
    generation, \* CacheState::generation
    kept,       \* CacheState::entries, of the one manager there is
    cancelling, \* forget_passphrase is between its two steps
    flight,     \* PromptHub::flights: each account's question
    oper        \* what each operation is at

vars == <<remember, typed, generation, kept, cancelling, flight, oper>>

Places == {"off", "begin", "look", "ask", "asking", "waiting", "answered", "call", "done"}

TypeOK ==
    /\ remember \in BOOLEAN /\ cancelling \in BOOLEAN
    /\ typed \in 0..MaxTyped
    /\ generation \in 0..MaxForgets
    /\ kept \in [account : Account, pass : Typed, asked : 0..MaxForgets] \cup {None}
    /\ flight \in [Account -> [by : Operation, asked : 0..MaxForgets,
                               answer : Typed \cup {None, Cancelled}] \cup {None}]
    /\ oper \in [Operation ->
          [at : Places, account : Account, seen : 0..MaxForgets,
           got : Typed \cup {None, Cancelled}, asked : 0..MaxForgets,
           held : Held \cup {None},
           rejected : 0..MaxAttempts, calls : 0..MaxCalls,
           questions : Nat, forgotten : 0..MaxForgets]]

Fresh(a) == [at |-> "off", account |-> a, seen |-> 0, got |-> None, asked |-> 0,
             held |-> None, rejected |-> 0, calls |-> 0,
             questions |-> 0, forgotten |-> 0]

Init ==
    /\ remember \in BOOLEAN
    /\ typed = 0
    /\ generation = 0
    /\ kept = None
    /\ cancelling = FALSE
    /\ flight = [a \in Account |-> None]
    /\ oper \in [Operation -> {Fresh(a) : a \in Account}]

Set(o, r) == oper' = [oper EXCEPT ![o] = r]
Of(o) == oper[o].account
Done(o) == Set(o, [oper[o] EXCEPT !.at = "done", !.held = None, !.got = None])

-----------------------------------------------------------------------------
\* with_passphrase and obtain.

Begin(o) ==
    /\ oper[o].at = "off"
    /\ Set(o, [oper[o] EXCEPT !.at = "begin"])
    /\ UNCHANGED <<remember, typed, generation, kept, cancelling, flight>>

ReadsGeneration(o) ==
    /\ oper[o].at = "begin"
    /\ Set(o, [oper[o] EXCEPT !.at = "look", !.seen = generation])
    /\ UNCHANGED <<remember, typed, generation, kept, cancelling, flight>>

\* held(): what was got under another generation is let go.
Holds(o) == oper[o].held # None /\ oper[o].held.seen = oper[o].seen

HeldOne(o) ==
    /\ oper[o].at = "look" /\ Holds(o)
    /\ Set(o, [oper[o] EXCEPT !.at = "call", !.got = oper[o].held.pass])
    /\ UNCHANGED <<remember, typed, generation, kept, cancelling, flight>>

\* The kept one; one of another account is dropped.
KeptOne(o) ==
    /\ oper[o].at = "look" /\ ~Holds(o)
    /\ kept # None /\ kept.account = Of(o)
    /\ Set(o, [oper[o] EXCEPT !.at = "call", !.got = kept.pass,
                              !.held = [pass |-> kept.pass, seen |-> oper[o].seen]])
    /\ UNCHANGED <<remember, typed, generation, kept, cancelling, flight>>

KeptNone(o) ==
    /\ oper[o].at = "look" /\ ~Holds(o)
    /\ ~(kept # None /\ kept.account = Of(o))
    /\ kept' = None
    /\ Set(o, [oper[o] EXCEPT !.at = "ask", !.held = None])
    /\ UNCHANGED <<remember, typed, generation, cancelling, flight>>

\* PromptHub::ask: the first asks, the rest wait for its answer.
Asks(o) ==
    /\ oper[o].at = "ask" /\ flight[Of(o)] = None
    /\ flight' = [flight EXCEPT ![Of(o)] =
           [by |-> o, asked |-> generation, answer |-> None]]
    /\ Set(o, [oper[o] EXCEPT !.at = "asking", !.questions = @ + 1])
    /\ UNCHANGED <<remember, typed, generation, kept, cancelling>>

Joins(o) ==
    /\ oper[o].at = "ask" /\ flight[Of(o)] # None
    /\ Set(o, [oper[o] EXCEPT !.at = "waiting"])
    /\ UNCHANGED <<remember, typed, generation, kept, cancelling, flight>>

\* The user answers, or cancels.  The answer waits for the task that asked.
Answer(a) ==
    /\ flight[a] # None /\ flight[a].answer = None
    /\ \/ typed < MaxTyped /\ typed' = typed + 1
          /\ flight' = [flight EXCEPT ![a].answer = typed + 1]
       \/ flight' = [flight EXCEPT ![a].answer = Cancelled] /\ UNCHANGED typed
    /\ UNCHANGED <<remember, generation, kept, cancelling, oper>>

Waiting(a) == {o \in Operation : oper[o].at = "waiting" /\ Of(o) = a}

\* The question ends with an answer, or with none in time: it is off the
\* list, and everybody who waits has the same answer.
Lands(a) ==
    LET f == flight[a]
    IN  /\ f # None /\ oper[f.by].at = "asking"
        /\ oper' = [o \in Operation |->
              IF o = f.by \/ o \in Waiting(a)
              THEN [oper[o] EXCEPT !.at = "answered", !.asked = f.asked,
                       !.got = IF f.answer = None THEN Cancelled ELSE f.answer]
              ELSE oper[o]]
        /\ flight' = [flight EXCEPT ![a] = None]
        /\ UNCHANGED <<remember, typed, generation, kept, cancelling>>

\* store(): refused when everything was forgotten since.
Kept(o) ==
    IF remember /\ ~(kept # None /\ kept.pass = oper[o].got /\ kept.account = Of(o))
    THEN [account |-> Of(o), pass |-> oper[o].got, asked |-> oper[o].asked]
    ELSE kept

\* An operation that does not hold on to it.
Forgetful(o) == None
HeldNow(o) == [pass |-> oper[o].got, seen |-> oper[o].seen]

Receives(o) ==
    /\ oper[o].at = "answered" /\ oper[o].got # Cancelled
    /\ generation = oper[o].seen
    /\ kept' = Kept(o)
    /\ Set(o, [oper[o] EXCEPT !.at = "call", !.held = HeldNow(o)])
    /\ UNCHANGED <<remember, typed, generation, cancelling, flight>>

Refused(o) ==
    /\ oper[o].at = "answered"
    /\ oper[o].got = Cancelled \/ generation # oper[o].seen
    /\ Done(o)
    /\ UNCHANGED <<remember, typed, generation, kept, cancelling, flight>>

\* The manager takes it, or fails for another reason, or it takes it and the
\* operation has more to do; or the passphrase is wrong.
Ends(o) ==
    /\ oper[o].at = "call"
    /\ Done(o)
    /\ UNCHANGED <<remember, typed, generation, kept, cancelling, flight>>

CallsAgain(o) ==
    /\ oper[o].at = "call" /\ oper[o].calls < MaxCalls
    /\ Set(o, [oper[o] EXCEPT !.at = "begin", !.calls = @ + 1, !.got = None])
    /\ UNCHANGED <<remember, typed, generation, kept, cancelling, flight>>

Rejects(o) ==
    /\ oper[o].at = "call"
    /\ kept' = IF kept # None /\ kept.pass = oper[o].got THEN None ELSE kept
    /\ LET n == oper[o].rejected + 1
       IN  IF n >= MaxAttempts THEN Done(o)
           ELSE Set(o, [oper[o] EXCEPT !.at = "begin", !.rejected = n, !.got = None,
                    !.held = IF @ # None /\ @.pass = oper[o].got THEN None ELSE @])
    /\ UNCHANGED <<remember, typed, generation, cancelling, flight>>

\* The operation is given up, its question with it: those who waited ask
\* anew.
StaysListed(o, a) == flight[a]
Landing(o, a) == IF flight[a] # None /\ flight[a].by = o THEN None ELSE flight[a]

GivenUp(o) ==
    /\ oper[o].at \notin {"off", "done"}
    /\ flight' = [a \in Account |-> Landing(o, a)]
    /\ oper' = [p \in Operation |->
          IF p = o THEN [oper[o] EXCEPT !.at = "done", !.held = None, !.got = None]
          ELSE IF oper[o].at = "asking" /\ p \in Waiting(Of(o))
          THEN [oper[p] EXCEPT !.at = "ask"] ELSE oper[p]]
    /\ UNCHANGED <<remember, typed, generation, kept, cancelling>>

-----------------------------------------------------------------------------
\* A lock, a settings save, Forget now, sleep: first what is kept, then the
\* open questions.
Forget ==
    /\ generation < MaxForgets /\ ~cancelling
    /\ generation' = generation + 1
    /\ kept' = None
    /\ cancelling' = TRUE
    /\ oper' = [o \in Operation |-> [oper[o] EXCEPT !.forgotten = @ + 1]]
    /\ UNCHANGED <<remember, typed, flight>>

CancelAll ==
    /\ cancelling
    /\ cancelling' = FALSE
    /\ flight' = [a \in Account |->
          IF flight[a] # None /\ flight[a].answer = None
          THEN [flight[a] EXCEPT !.answer = Cancelled] ELSE flight[a]]
    /\ UNCHANGED <<remember, typed, generation, kept, oper>>

\* Its time is up.
Expires ==
    /\ kept # None
    /\ kept' = None
    /\ UNCHANGED <<remember, typed, generation, cancelling, flight, oper>>

Obtains(o) ==
    \/ ReadsGeneration(o) \/ HeldOne(o) \/ KeptOne(o) \/ KeptNone(o)
    \/ Asks(o) \/ Joins(o) \/ Receives(o) \/ Refused(o)

Next ==
    \/ \E o \in Operation : Begin(o) \/ Obtains(o)
    \/ \E o \in Operation : Ends(o) \/ CallsAgain(o) \/ Rejects(o) \/ GivenUp(o)
    \/ \E a \in Account : Answer(a) \/ Lands(a)
    \/ Forget \/ CancelAll \/ Expires

\* Tasks run on, and a question ends after PROMPT_TIMEOUT at the latest.
Fairness ==
    /\ \A o \in Operation : WF_vars(Obtains(o))
    /\ \A a \in Account : WF_vars(Lands(a))

Spec == Init /\ [][Next]_vars /\ Fairness

-----------------------------------------------------------------------------
\* An operation asks once, and again only for each passphrase that was
\* rejected and each time everything was forgotten.
AtMostOnce ==
    \A o \in Operation :
        oper[o].questions <= 1 + oper[o].rejected + oper[o].forgotten

Undecided == {"begin", "look", "ask", "asking", "waiting", "answered"}

\* Whoever asks, is given up, or answers too late: no operation asks for the
\* passphrase more often than it must, and none waits for ever.
AskedOnce ==
    /\ []AtMostOnce
    /\ \A o \in Operation : []<>(oper[o].at \notin Undecided)

\* pwmanager/unlock.rs: "Bumped by every [`PassphraseCache::forget`], so an
\* answer to a question asked before is not kept."
NotKeptAcross == kept # None => kept.asked = generation
=============================================================================
