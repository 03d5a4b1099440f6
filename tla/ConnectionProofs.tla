-------------------------- MODULE ConnectionProofs --------------------------
(***************************************************************************)
(* An SSH connection, for any logins, keys, methods, limits and queues,    *)
(* and for any number of sessions and operations that share something:     *)
(* logging in, a forwarded connection's two relays, ControlMaster, and the *)
(* question for a password manager's passphrase.  Each part has its        *)
(* inductive invariant, a lemma for each action or each kind of action,    *)
(* and the theorems.                                                       *)
(***************************************************************************)
EXTENDS MCRelay, FiniteSetTheorems, TLAPS

CONSTANTS
    Path, Server, Conn, Session, Plans,
    Operation, Account, MaxTyped, MaxForgets, MaxCalls, MaxAttempts

VARIABLES
    conn, masters, session, reaper,
    remember, typed, generation, kept, cancelling, flight, oper

M == INSTANCE Masters
P == INSTANCE Passphrase

-----------------------------------------------------------------------------
(* Logging in.  The invariant follows where the stored password is: still  *)
(* kept, gone out as one of the password attempts, or gone out as an       *)
(* answer.                                                                 *)

OwnPlaces ==
    {"own key", "own offered", "own agent", "own agent offered", "own password",
     "own sent"}

Types ==
    /\ login \in Login
    /\ stored \in BOOLEAN
    /\ tried \in [{"password", "keyboard"} -> Nat]
    /\ sent \in [Sent -> Nat] /\ asked \in [Asked -> Nat]

Places ==
    /\ login.form = "own" => at \in OwnPlaces \cup {"in", "out", "error"}
    /\ login.form = "config" => at \notin OwnPlaces

\* The stored password is still kept, or it has gone out once.
Kept ==
    /\ stored => login.stored /\ sent["stored"] = 0
    /\ login.form = "own" /\ at \in OwnPlaces \ {"own sent"} => sent["stored"] = 0
    /\ sent["stored"] <= 1
    /\ login.stored /\ ~stored /\ login.form = "config" => sent["stored"] = 1

\* A password is asked for after it, and each question and each time it went
\* out as a password is an attempt.
Counted ==
    /\ stored => asked["password"] = 0
    /\ login.form = "config" =>
          asked["password"] + sent["stored"] <= tried["password"] + sent["spent on keyboard"]
    /\ tried["password"] <=
          AtLeastOne(login.prompts) + (IF login.stored THEN 1 ELSE 0)
    /\ ~login.stored => sent["stored"] = 0

Silent ==
    /\ login.form = "own" => \A a \in Asked : asked[a] = 0
    /\ login.batch => \A a \in Asked \ {"add"} : asked[a] = 0

IInv == Types /\ Places /\ Kept /\ Counted /\ Silent

LEMMA Sparing ==
    ASSUME NEW p \in Nat, NEW k \in Nat, NEW s \in Nat, NEW t \in Nat, NEW m \in Nat,
           p + s <= t + k, t <= m + 1, s = 1 \/ p = 0 \/ (t <= m /\ s = 0)
    PROVE  p <= m + k
OBVIOUS

LEMMA Enough == IInv => AsksSparingly
<1> SUFFICES ASSUME IInv PROVE AsksSparingly
    OBVIOUS
<1>1. login.prompts \in Nat /\ login.stored \in BOOLEAN /\ login.form \in {"config", "own"}
    BY DEF IInv, Types, Login
<1>2. asked["password"] \in Nat /\ sent["stored"] \in Nat
      /\ sent["spent on keyboard"] \in Nat /\ tried["password"] \in Nat
    BY DEF IInv, Types, Sent, Asked
<1>3. sent["stored"] <= 1
    BY DEF IInv, Kept
<1>4. AtLeastOne(login.prompts) \in Nat
    BY <1>1 DEF AtLeastOne
<1> DEFINE m == AtLeastOne(login.prompts)
           p == asked["password"]
           k == sent["spent on keyboard"]
           s == sent["stored"]
           t == tried["password"]
<1> HIDE DEF m, p, k, s, t
<1>5. m \in Nat /\ p \in Nat /\ k \in Nat /\ s \in Nat /\ t \in Nat
    BY <1>2, <1>4 DEF m, p, k, s, t
<1>6. login.form = "own" => p = 0
    BY DEF IInv, Silent, Asked, p
<1>7. login.form = "config" => p + s <= t + k
    BY DEF IInv, Counted, p, s, t, k
<1>8. login.form = "config" => s = 1 \/ p = 0 \/ (t <= m /\ s = 0)
    <2>1. ~login.stored => t <= m + 0 /\ s = 0
        BY DEF IInv, Counted, t, m, s
    <2>2. login.stored /\ login.form = "config" => s = 1 \/ p = 0
        BY DEF IInv, Counted, Kept, s, p
    <2> QED
        BY <1>5, <2>1, <2>2, <1>1
<1>9. t <= m + 1
    <2>1. t <= m + (IF login.stored THEN 1 ELSE 0)
        BY DEF IInv, Counted, t, m
    <2> QED
        BY <1>1, <1>5, <2>1
<1>10. p <= m + k
    BY <1>1, <1>5, <1>6, <1>7, <1>8, <1>9, Sparing
<1> QED
    BY <1>3, <1>10 DEF IInv, Silent, AsksSparingly, m, p, k

-----------------------------------------------------------------------------
LEMMA InitIInv == UserAuthAssumption /\ Init => IInv
<1> SUFFICES ASSUME UserAuthAssumption, Init PROVE IInv
    OBVIOUS
<1>1. login \in Login
    BY DEF UserAuthAssumption, Init
<1>2. Types
    BY <1>1 DEF Types, Init, Login
<1>3. Places
    BY DEF Places, Init, OwnPlaces
<1>4. Kept
    <2>1. sent["stored"] = 0 /\ stored = login.stored
        BY DEF Init, Sent
    <2> QED
        BY <2>1 DEF Kept
<1>5. Counted
    <2>1. login.prompts \in Nat
        BY <1>1 DEF Login
    <2>2. AtLeastOne(login.prompts) \in Nat
        BY <2>1 DEF AtLeastOne
    <2>3. tried["password"] = 0 /\ asked["password"] = 0 /\ sent["stored"] = 0
          /\ sent["spent on keyboard"] = 0
        BY DEF Init, Asked, Sent
    <2>4. 0 <= AtLeastOne(login.prompts) + (IF login.stored THEN 1 ELSE 0)
        BY <2>2
    <2> QED
        <3>1. /\ stored => asked["password"] = 0
              /\ ~login.stored => sent["stored"] = 0
            BY <2>3
        <3>2. asked["password"] + sent["stored"] <= tried["password"] + sent["spent on keyboard"]
            <4>1. 0 + 0 <= 0 + 0
                OBVIOUS
            <4> QED
                BY <2>3, <4>1, Zenon
        <3>3. tried["password"] <= AtLeastOne(login.prompts) + (IF login.stored THEN 1 ELSE 0)
            BY <2>3, <2>4
        <3> QED
            BY <3>1, <3>2, <3>3 DEF Counted
<1>6. Silent
    BY DEF Silent, Init
<1> QED
    BY <1>2, <1>3, <1>4, <1>5, <1>6 DEF IInv

\* What a step that neither spends the stored password nor asks for anything
\* leaves as it was.
Quiet ==
    /\ login' = login /\ stored' = stored /\ tried' \in [{"password", "keyboard"} -> Nat]
    /\ tried'["password"] = tried["password"]
    /\ sent' \in [Sent -> Nat] /\ asked' = asked
    /\ sent'["stored"] = sent["stored"]
    /\ sent'["spent on keyboard"] = sent["spent on keyboard"]

LEMMA CountTypes ==
    ASSUME NEW S, NEW f \in [S -> Nat], NEW x \in S
    PROVE  /\ Count(f, x) \in [S -> Nat]
           /\ Count(f, x)[x] = f[x] + 1
           /\ \A y \in S \ {x} : Count(f, x)[y] = f[y]
BY DEF Count

LEMMA CountKeeps ==
    ASSUME NEW S, NEW x \in S
    PROVE  \A f \in [S -> Nat] : Count(f, x) \in [S -> Nat]
BY CountTypes

LEMMA CountOther ==
    ASSUME NEW S, NEW f \in [S -> Nat], NEW x \in S, NEW y \in S, y # x
    PROVE  Count(f, x)[y] = f[y]
BY DEF Count

LEMMA QuietKeeps == IInv /\ Quiet /\ Places' /\ Kept' => IInv'
<1> SUFFICES ASSUME IInv, Quiet, Places', Kept' PROVE IInv'
    OBVIOUS
<1>1. Types'
    BY DEF IInv, Quiet, Types
<1>2. Counted'
    BY DEF IInv, Quiet, Counted
<1>3. Silent'
    BY DEF IInv, Quiet, Silent
<1> QED
    BY <1>1, <1>2, <1>3 DEF IInv

LEMMA ConfigQuiet ==
    ASSUME IInv, Quiet, at \notin OwnPlaces \cup {"in", "out", "error"}, at' \notin OwnPlaces
    PROVE  IInv'
<1>1. login.form = "config" /\ login' = login
    BY DEF IInv, Types, Places, Login, Quiet
<1>2. Places'
    BY <1>1 DEF Places
<1>3. Kept'
    BY <1>1 DEF IInv, Kept, Quiet
<1> QED
    BY <1>2, <1>3, QuietKeeps

LEMMA OwnQuiet ==
    ASSUME IInv, Quiet, at \in OwnPlaces \ {"own sent"},
           at' \in OwnPlaces \cup {"in", "out", "error"}
    PROVE  IInv'
<1>1. login.form = "own" /\ login' = login
    BY DEF IInv, Types, Places, Login, Quiet
<1>2. Places'
    BY <1>1 DEF Places
<1>3. Kept'
    BY <1>1 DEF IInv, Kept, Quiet
<1> QED
    BY <1>2, <1>3, QuietKeeps

LEMMA OneRequest ==
    ASSUME IInv, sent' = Count(sent, "request") \/ sent' = sent
    PROVE  /\ sent' \in [Sent -> Nat]
           /\ sent'["stored"] = sent["stored"]
           /\ sent'["spent on keyboard"] = sent["spent on keyboard"]
<1>1. sent \in [Sent -> Nat] /\ "request" \in Sent
    BY DEF IInv, Types, Sent
<1>2. CASE sent' = Count(sent, "request")
    <2>1. /\ sent' \in [Sent -> Nat]
          /\ \A y \in Sent \ {"request"} : sent'[y] = sent[y]
        BY <1>1, <1>2, CountTypes
    <2>2. {"stored", "spent on keyboard"} \subseteq Sent \ {"request"}
        BY DEF Sent
    <2> QED
        BY <2>1, <2>2
<1>3. CASE sent' = sent
    BY <1>1, <1>3
<1> QED
    BY <1>2, <1>3

LEMMA Still ==
    ASSUME IInv, UNCHANGED <<login, stored, tried, asked>>,
           sent' = Count(sent, "request") \/ sent' = sent
    PROVE  Quiet
BY OneRequest DEF IInv, Types, Quiet

-----------------------------------------------------------------------------
\* The steps that ask for nothing.
LEMMA QuietSteps ==
    ASSUME IInv,
           \/ \E remaining \in Remaining :
                 AnswersNone(remaining) \/ Decides(remaining)
                 \/ \E partial \in BOOLEAN : Refuses(remaining, partial)
           \/ Finish \/ PublicKey \/ NoKeyLeft \/ WouldTake \/ AnswersAdd
           \/ TypesPassword \/ CancelsPassword \/ Answers \/ CancelsExchange \/ Hostbased
           \/ \E answer \in {"right", "wrong", "cancel"} : Passphrase(answer)
           \/ \E m \in {"gssapi-keyex", "gssapi-with-mic"} : Gssapi(m)
    PROVE  IInv'
<1> USE DEF counts, history, OwnPlaces
<1>1. ASSUME NEW remaining, AnswersNone(remaining) \/ Decides(remaining) PROVE IInv'
    BY <1>1, Still, ConfigQuiet DEF AnswersNone, Decides, Continues, LetsIn
<1>2. ASSUME NEW remaining, NEW partial, Refuses(remaining, partial) PROVE IInv'
    BY <1>2, Still, ConfigQuiet DEF Refuses, Continues
<1>3. CASE Finish \/ WouldTake \/ AnswersAdd \/ TypesPassword \/ Answers
    BY <1>3, Still, ConfigQuiet
    DEF Finish, Tries, WouldTake, AnswersAdd, TypesPassword, Answers
<1>4. CASE PublicKey
    BY <1>4, Still, ConfigQuiet DEF PublicKey, Tries
<1>5. CASE NoKeyLeft \/ CancelsPassword \/ CancelsExchange
    BY <1>5, Still, ConfigQuiet DEF NoKeyLeft, Tries, GivesUp, CancelsPassword, CancelsExchange
<1>6. CASE Hostbased
    BY <1>6, Still, ConfigQuiet DEF Hostbased, Tries, GivesUp
<1>7. ASSUME NEW answer, Passphrase(answer) PROVE IInv'
    BY <1>7, Still, ConfigQuiet DEF Passphrase
<1>8. ASSUME NEW m, Gssapi(m) PROVE IInv'
    BY <1>8, Still, ConfigQuiet DEF Gssapi, Tries
<1> QED
    BY <1>1, <1>2, <1>3, <1>4, <1>5, <1>6, <1>7, <1>8

LEMMA OwnSteps ==
    ASSUME IInv, OwnKey \/ OwnRefused \/ OwnAgent \/ OwnAgentRefused
    PROVE  IInv'
<1> USE DEF counts, history, OwnPlaces
<1>1. CASE OwnKey
    BY <1>1, Still, OwnQuiet DEF OwnKey
<1>2. CASE OwnRefused \/ OwnAgentRefused
    BY <1>2, Still, OwnQuiet DEF OwnRefused, OwnAgentRefused
<1>3. CASE OwnAgent
    BY <1>3, Still, OwnQuiet DEF OwnAgent
<1> QED
    BY <1>1, <1>2, <1>3

LEMMA EndSteps ==
    ASSUME IInv, OwnIn \/ Lost
    PROVE  IInv'
<1>1. Quiet
    BY Still DEF OwnIn, Lost, counts, history
<1>2. at' \in {"in", "out", "error"} /\ login' = login
    BY DEF OwnIn, Lost
<1>3. Places'
    BY <1>2 DEF Places, OwnPlaces
<1>4. Kept'
    BY <1>1, <1>2 DEF IInv, Kept, Quiet, OwnPlaces
<1> QED
    BY <1>1, <1>3, <1>4, QuietKeeps

-----------------------------------------------------------------------------
\* The steps that ask for something else than a password.
LEMMA AsksElse ==
    ASSUME IInv, UNCHANGED <<login, stored, tried, sent>>,
           at \notin OwnPlaces \cup {"in", "out", "error"}, at' \notin OwnPlaces,
           asked' \in [Asked -> Nat], asked'["password"] = asked["password"],
           login.batch => \A a \in Asked \ {"add"} : asked'[a] = asked[a]
    PROVE  IInv'
<1>1. login.form = "config"
    BY DEF IInv, Types, Places, Login
<1>2. Types' /\ Places'
    BY <1>1 DEF IInv, Types, Places
<1>3. Kept'
    BY <1>1 DEF IInv, Kept
<1>4. Counted'
    BY DEF IInv, Counted
<1>5. Silent'
    BY <1>1 DEF IInv, Silent
<1> QED
    BY <1>2, <1>3, <1>4, <1>5 DEF IInv

LEMMA AskingSteps ==
    ASSUME IInv, Sign \/ KeyIn
    PROVE  IInv'
<1>1. asked \in [Asked -> Nat] /\ {"needless", "passphrase", "add"} \subseteq Asked \ {"password"}
    BY DEF IInv, Types, Asked
<1>2. CASE Sign
    <2>1. CASE asked' = asked
        <3>1. Quiet
            BY <1>2, <2>1, Still DEF Sign
        <3> QED
            BY <1>2, <3>1, ConfigQuiet DEF Sign, OwnPlaces
    <2>2. CASE ~login.batch /\ \/ asked' = Count(asked, "passphrase")
                               \/ asked' = Count(Count(asked, "needless"), "passphrase")
        <3>1. asked' \in [Asked -> Nat] /\ asked'["password"] = asked["password"]
            <4>1. "password" \in Asked \ {"needless", "passphrase"}
                BY DEF Asked
            <4>2. CASE asked' = Count(asked, "passphrase")
                BY <1>1, <4>1, <4>2, CountTypes
            <4>3. CASE asked' = Count(Count(asked, "needless"), "passphrase")
                <5>1. /\ Count(asked, "needless") \in [Asked -> Nat]
                      /\ Count(asked, "needless")["password"] = asked["password"]
                    <6>1. "needless" \in Asked /\ "password" \in Asked /\ "password" # "needless"
                        BY <1>1, <4>1
                    <6> QED
                        BY <1>1, <6>1, CountTypes, CountOther
                <5>2. "passphrase" \in Asked /\ "password" \in Asked /\ "password" # "passphrase"
                    BY <1>1, <4>1
                <5> QED
                    BY <4>3, <5>1, <5>2, CountTypes, CountOther
            <4> QED
                BY <2>2, <4>2, <4>3
        <3> QED
            BY <1>2, <2>2, <3>1, AsksElse DEF Sign, OwnPlaces
    <2> QED
        BY <1>2, <2>1, <2>2 DEF Sign
<1>3. CASE KeyIn
    <2>1. CASE asked' = asked
        <3>1. Quiet
            BY <1>3, <2>1, Still DEF KeyIn, counts
        <3> QED
            BY <1>3, <3>1, ConfigQuiet DEF KeyIn, OwnPlaces
    <2>2. CASE asked' = Count(asked, "add")
        <3>1. asked' \in [Asked -> Nat] /\ \A a \in Asked \ {"add"} : asked'[a] = asked[a]
            BY <1>1, <2>2, CountTypes
        <3>2. asked'["password"] = asked["password"]
            BY <3>1 DEF Asked
        <3> QED
            BY <1>3, <3>1, <3>2, AsksElse DEF KeyIn, OwnPlaces, counts
    <2> QED
        BY <1>3, <2>1, <2>2 DEF KeyIn
<1> QED
    BY <1>2, <1>3

-----------------------------------------------------------------------------
\* The steps that spend the stored password or ask for one.
LEMMA Numbers ==
    IInv => /\ asked["password"] \in Nat /\ sent["stored"] \in Nat
            /\ sent["spent on keyboard"] \in Nat /\ tried["password"] \in Nat
            /\ login.prompts \in Nat /\ AtLeastOne(login.prompts) \in Nat
BY DEF IInv, Types, Login, Sent, Asked, AtLeastOne

LEMMA Less ==
    ASSUME NEW t \in Nat, NEW m \in Nat, NEW e \in Nat, ~(t >= m + e)
    PROVE  t + 1 <= m + e
OBVIOUS

\* p questions, s and k times that the stored password went out and did so as
\* an answer, t attempts.
LEMMA Sums ==
    ASSUME NEW p \in Nat, NEW s \in Nat, NEW t \in Nat, NEW k \in Nat, p + s <= t + k
    PROVE  /\ p + (s + 1) <= (t + 1) + k
           /\ (p + 1) + s <= (t + 1) + k
           /\ p + s <= (t + 1) + k
           /\ p + (s + 1) <= t + (k + 1)
OBVIOUS

LEMMA SpendTypes ==
    ASSUME IInv, NEW x \in Sent, x # "stored",
           sent' = Count(Count(sent, "stored"), x)
    PROVE  /\ sent' \in [Sent -> Nat]
           /\ sent'["stored"] = sent["stored"] + 1
           /\ x = "request" => sent'["spent on keyboard"] = sent["spent on keyboard"]
           /\ x = "spent on keyboard" => sent'[x] = sent[x] + 1
<1>1. /\ sent \in [Sent -> Nat] /\ "stored" \in Sent /\ x \in Sent /\ x # "stored"
      /\ "spent on keyboard" \in Sent /\ "spent on keyboard" # "stored"
    BY DEF IInv, Types, Sent
<1>2. /\ Count(Count(sent, "stored"), x) \in [Sent -> Nat]
      /\ Count(Count(sent, "stored"), x)["stored"] = sent["stored"] + 1
      /\ Count(Count(sent, "stored"), x)[x] = sent[x] + 1
    <2>1. sent["stored"] \in Nat /\ sent[x] \in Nat
        BY <1>1
    <2>2. Count(Count(sent, "stored"), x) \in [Sent -> Nat]
        <3>1. Count(sent, "stored") \in [Sent -> Nat]
            BY <1>1, CountTypes
        <3>2. \A f \in [Sent -> Nat] : Count(f, x) \in [Sent -> Nat]
            BY <1>1, CountKeeps
        <3> QED
            BY <3>1, <3>2
    <2>3. Count(Count(sent, "stored"), x)["stored"] = sent["stored"] + 1
        BY <1>1, <2>1 DEF Count
    <2>4. Count(Count(sent, "stored"), x)[x] = sent[x] + 1
        BY <1>1, <2>1 DEF Count
    <2> QED
        BY <2>2, <2>3, <2>4
<1>3. x = "request" =>
        Count(Count(sent, "stored"), x)["spent on keyboard"] = sent["spent on keyboard"]
    BY <1>1 DEF Count
<1> QED
    BY <1>2, <1>3

LEMMA PasswordStep ==
    ASSUME IInv, Password
    PROVE  IInv'
<1>1. /\ at = "choose" /\ login.form = "config" /\ login' = login
      /\ at' \in {"choose", "sent", "typed"}
    BY DEF Password, Tries, GivesUp, IInv, Types, Places, Login, OwnPlaces
<1>2. CASE tried.password >= AtLeastOne(login.prompts) + (IF login.stored THEN 1 ELSE 0)
    <2>1. UNCHANGED <<login, stored, tried, asked, sent>>
        BY <1>2 DEF Password, GivesUp, counts, history
    <2> QED
        BY <1>1, <2>1, Still, ConfigQuiet DEF OwnPlaces
<1>3. CASE ~(tried.password >= AtLeastOne(login.prompts) + (IF login.stored THEN 1 ELSE 0))
    <2> DEFINE p == asked["password"]
               s == sent["stored"]
               k == sent["spent on keyboard"]
               t == tried["password"]
               m == AtLeastOne(login.prompts)
               e == IF login.stored THEN 1 ELSE 0
    <2>1. tried' = Count(tried, "password") /\ stored' = FALSE
        BY <1>3 DEF Password
    <2>2. tried' \in [{"password", "keyboard"} -> Nat] /\ tried'["password"] = t + 1
        BY <2>1, CountTypes DEF IInv, Types
    <2>3. p \in Nat /\ s \in Nat /\ k \in Nat /\ t \in Nat /\ m \in Nat /\ e \in Nat
        BY Numbers
    <2>4. p + s <= t + k
        BY <1>1 DEF IInv, Counted
    <2>5. ~(t >= m + e)
        BY <1>3
    <2>6. /\ stored => login.stored /\ s = 0 /\ p = 0
          /\ ~stored => s = IF login.stored THEN 1 ELSE 0
        BY <1>1 DEF IInv, Kept, Counted
    <2>7. \/ /\ stored /\ asked' = asked
             /\ sent' = Count(Count(sent, "stored"), "request")
          \/ ~stored /\ sent' = sent /\ asked' = asked
          \/ ~stored /\ ~login.batch /\ sent' = sent /\ asked' = Count(asked, "password")
        BY <1>3 DEF Password
    <2> HIDE DEF p, s, k, t, m, e
    <2>8. tried'["password"] <= m + e
        BY <2>2, <2>3, <2>5, Less
    <2>9. /\ sent' \in [Sent -> Nat] /\ asked' \in [Asked -> Nat]
          /\ login.batch => asked' = asked
          /\ login.stored => sent'["stored"] = 1
          /\ ~login.stored => sent'["stored"] = 0
          /\ asked'["password"] + sent'["stored"] <= (t + 1) + sent'["spent on keyboard"]
        <3>1. CASE stored /\ asked' = asked /\ sent' = Count(Count(sent, "stored"), "request")
            <4>1. /\ sent' \in [Sent -> Nat] /\ sent'["stored"] = s + 1
                  /\ sent'["spent on keyboard"] = k
                BY <3>1, SpendTypes DEF s, k, Sent
            <4>2. asked'["password"] = p
                BY <3>1 DEF p
            <4>3. asked'["password"] + sent'["stored"] <= (t + 1) + sent'["spent on keyboard"]
                BY <2>3, <2>4, <4>1, <4>2, Sums
            <4>4. sent'["stored"] = 1 /\ login.stored
                <5>1. 0 + 1 = 1
                    OBVIOUS
                <5> QED
                    BY <2>6, <3>1, <4>1, <5>1, Zenon
            <4> QED
                BY <3>1, <4>1, <4>3, <4>4 DEF IInv, Types
        <3>2. CASE ~stored /\ sent' = sent /\ asked' = asked
            <4>1. /\ sent'["stored"] = s /\ asked'["password"] = p
                  /\ sent'["spent on keyboard"] = k
                BY <3>2 DEF s, p, k
            <4>2. asked'["password"] + sent'["stored"] <= (t + 1) + sent'["spent on keyboard"]
                BY <2>3, <2>4, <4>1, Sums
            <4> QED
                BY <2>6, <3>2, <4>1, <4>2 DEF IInv, Types
        <3>3. CASE ~stored /\ ~login.batch /\ sent' = sent /\ asked' = Count(asked, "password")
            <4>1. asked' \in [Asked -> Nat] /\ asked'["password"] = p + 1
                BY <3>3, CountTypes DEF IInv, Types, Asked, p
            <4>2. sent'["stored"] = s /\ sent'["spent on keyboard"] = k
                BY <3>3 DEF s, k
            <4>3. asked'["password"] + sent'["stored"] <= (t + 1) + sent'["spent on keyboard"]
                BY <2>3, <2>4, <4>1, <4>2, Sums
            <4> QED
                BY <2>6, <3>3, <4>1, <4>2, <4>3 DEF IInv, Types
        <3> QED
            BY <2>7, <3>1, <3>2, <3>3
    <2>10. Types' /\ Places'
        BY <1>1, <2>1, <2>2, <2>9 DEF IInv, Types, Places, OwnPlaces
    <2>11. Kept'
        <3>1. login.stored \in BOOLEAN
            BY DEF IInv, Types, Login
        <3>2. sent'["stored"] = 1 \/ sent'["stored"] = 0
            BY <2>9, <3>1
        <3>3. sent'["stored"] <= 1
            BY <3>2
        <3> QED
            BY <1>1, <2>1, <2>9, <3>3 DEF Kept
    <2>12. Counted'
        BY <1>1, <2>1, <2>2, <2>8, <2>9 DEF Counted, m, e
    <2>13. Silent'
        BY <1>1, <2>9 DEF IInv, Silent
    <2> QED
        BY <2>10, <2>11, <2>12, <2>13 DEF IInv
<1> QED
    BY <1>2, <1>3

LEMMA ExchangeStep ==
    ASSUME IInv, Exchange
    PROVE  IInv'
<1>1. at = "choose" /\ at' \in {"choose", "exchange"}
    BY DEF Exchange, Tries, GivesUp
<1>2. CASE UNCHANGED <<login, stored, tried, sent, asked>>
    BY <1>1, <1>2, Still, ConfigQuiet DEF OwnPlaces
<1>3. CASE /\ UNCHANGED <<login, stored, asked>>
           /\ tried' = Count(tried, "keyboard") /\ sent' = Count(sent, "request")
    <2>1. /\ tried' \in [{"password", "keyboard"} -> Nat]
          /\ tried'["password"] = tried["password"]
        BY <1>3 DEF Count, IInv, Types
    <2>2. Quiet
        BY <1>3, <2>1, OneRequest DEF Quiet
    <2> QED
        BY <1>1, <2>2, ConfigQuiet DEF OwnPlaces
<1> QED
    BY <1>2, <1>3 DEF Exchange, GivesUp, counts, history

LEMMA RequestsStep ==
    ASSUME IInv, NEW question \in {"nothing", "password", "other"}, Requests(question)
    PROVE  IInv'
<1>1. /\ at = "exchange" /\ at' \in {"exchange", "choose", "answers"}
      /\ login' = login /\ tried' = tried /\ login.form = "config"
    BY DEF Requests, IInv, Types, Places, Login, OwnPlaces
<1>2. CASE UNCHANGED <<stored, sent, asked>>
    BY <1>1, <1>2, Still, ConfigQuiet DEF OwnPlaces
<1>3. CASE ~login.batch /\ UNCHANGED <<stored, sent>> /\ asked' = Count(asked, "keyboard")
    <2>1. asked \in [Asked -> Nat] /\ {"keyboard", "password"} \subseteq Asked
        BY DEF IInv, Types, Asked
    <2>2. asked' \in [Asked -> Nat] /\ asked'["password"] = asked["password"]
        BY <1>3, <2>1, CountTypes, CountOther
    <2> QED
        BY <1>1, <1>3, <2>2, AsksElse DEF OwnPlaces
<1>4. CASE /\ stored /\ stored' = FALSE /\ asked' = asked
           /\ sent' = Count(Count(sent, "stored"), "spent on keyboard")
    <2> DEFINE p == asked["password"]
               s == sent["stored"]
               k == sent["spent on keyboard"]
               t == tried["password"]
    <2>1. p \in Nat /\ s \in Nat /\ k \in Nat /\ t \in Nat
        BY Numbers
    <2>2. p + s <= t + k
        BY <1>1 DEF IInv, Counted
    <2>3. login.stored /\ s = 0
        BY <1>4 DEF IInv, Kept
    <2>4. /\ sent' \in [Sent -> Nat] /\ sent'["stored"] = s + 1
          /\ sent'["spent on keyboard"] = k + 1
        BY <1>4, SpendTypes DEF Sent
    <2>5. asked'["password"] = p /\ tried'["password"] = t
        BY <1>1, <1>4
    <2> HIDE DEF p, s, k, t
    <2>6. sent'["stored"] = 1
        <3>1. 0 + 1 = 1
            OBVIOUS
        <3> QED
            BY <2>3, <2>4, <3>1, Zenon
    <2>7. asked'["password"] + sent'["stored"] <= tried'["password"] + sent'["spent on keyboard"]
        BY <2>1, <2>2, <2>4, <2>5, Sums
    <2>8. Types' /\ Places'
        BY <1>1, <1>4, <2>4 DEF IInv, Types, Places, OwnPlaces
    <2>9. Kept'
        <3>1. sent'["stored"] <= 1
            BY <2>6
        <3> QED
            BY <1>1, <1>4, <2>6, <3>1 DEF Kept
    <2>10. Counted'
        BY <1>1, <1>4, <2>3, <2>7 DEF IInv, Counted
    <2>11. Silent'
        BY <1>1, <1>4 DEF IInv, Silent
    <2> QED
        BY <2>8, <2>9, <2>10, <2>11 DEF IInv
<1> QED
    BY <1>2, <1>3, <1>4 DEF Requests, TakesStored, history

LEMMA OwnPasswordStep ==
    ASSUME IInv, OwnPassword
    PROVE  IInv'
<1>1. /\ login.form = "own" /\ sent["stored"] = 0 /\ login' = login
      /\ at' = (IF login.stored THEN "own sent" ELSE "out")
      /\ stored' = FALSE /\ asked' = asked /\ tried' = tried
    BY DEF OwnPassword, IInv, Types, Places, Login, Kept, OwnPlaces, counts
<1>2. /\ sent' \in [Sent -> Nat]
      /\ sent'["stored"] = IF login.stored THEN 1 ELSE 0
    <2>1. CASE login.stored
        <3>1. sent' = Count(Count(sent, "stored"), "request")
            BY <2>1 DEF OwnPassword
        <3>2. sent' \in [Sent -> Nat] /\ sent'["stored"] = sent["stored"] + 1
            BY <3>1, SpendTypes DEF Sent
        <3>3. 0 + 1 = 1
            OBVIOUS
        <3>4. sent'["stored"] = 1
            BY <1>1, <3>2, <3>3, Zenon
        <3> QED
            BY <2>1, <3>2, <3>4
    <2>2. CASE ~login.stored
        BY <1>1, <2>2 DEF OwnPassword, IInv, Types
    <2> QED
        BY <2>1, <2>2
<1>3. sent'["stored"] = 1 \/ sent'["stored"] = 0
    BY <1>2
<1>4. Types' /\ Places'
    BY <1>1, <1>2 DEF IInv, Types, Places, OwnPlaces
<1>5. Kept'
    <2>1. sent'["stored"] <= 1
        BY <1>3
    <2> QED
        BY <1>1, <1>2, <2>1 DEF Kept, OwnPlaces
<1>6. Counted'
    BY <1>1, <1>2 DEF IInv, Counted
<1>7. Silent'
    BY <1>1 DEF IInv, Silent
<1> QED
    BY <1>4, <1>5, <1>6, <1>7 DEF IInv

-----------------------------------------------------------------------------
LEMMA NextIInv == IInv /\ [Next]_vars => IInv'
<1> SUFFICES ASSUME IInv, [Next]_vars PROVE IInv'
    OBVIOUS
<1>1. CASE UNCHANGED vars
    BY <1>1 DEF vars, counts, history, IInv, Types, Places, Kept, Counted, Silent
<1>2. CASE Next
    BY <1>2, QuietSteps, OwnSteps, EndSteps, AskingSteps, PasswordStep, ExchangeStep,
       RequestsStep, OwnPasswordStep DEF Next
<1> QED
    BY <1>1, <1>2

\* AsksSparingly, for every login, every key and every limit: the stored
\* password goes out once over both methods, nobody is asked who is not to be,
\* and no more passwords are asked for than the settings say.
THEOREM AlwaysSparing ==
    ASSUME UserAuthAssumption
    PROVE  Spec => []AsksSparingly
<1>1. UserAuthAssumption /\ Init => IInv
    BY InitIInv
<1>2. IInv /\ [Next]_vars => IInv'
    BY NextIInv
<1>3. IInv => AsksSparingly
    BY Enough
<1> QED
    BY <1>1, <1>2, <1>3, PTL DEF Spec

-----------------------------------------------------------------------------
(* ControlMaster.                                                          *)

Made(c) == conn[c].is # "unmade"

\* A session has a connection exactly while it is shown one, opens on it or
\* uses it; it goes to the server of its settings, and where its user wants to
\* be asked, he was.
OnItsWay(s) ==
    /\ session[s].at = "off" \/ session[s].plan \in Plans
    /\ session[s].at \in {"off", "look", "connecting"} => session[s].conn = None
    /\ session[s].at \in {"look", "connecting"} => ~session[s].shares
    /\ session[s].at \in {"asked", "opening", "up"} =>
          /\ session[s].conn \in Conn /\ Made(session[s].conn)
          /\ conn[session[s].conn].to = session[s].plan.to
    /\ session[s].at \in {"opening", "up"} /\ session[s].shares
          /\ conn[session[s].conn].asks => session[s].agreed

\* An entry says of its connection what is so, a connection is in one entry
\* only, and a kept one counts as idle only while nobody holds it.
Listed(p) ==
    masters[p] # None =>
        LET e == masters[p]
        IN  /\ Made(e.conn) /\ conn[e.conn].to = e.to /\ conn[e.conn].asks = e.asks
            /\ e.keep /\ e.idle # "no" => M!Holders(e.conn) = {}

OncePerPath ==
    \A p, q \in Path :
        masters[p] # None /\ masters[q] # None /\ masters[p].conn = masters[q].conn
            => p = q

MastersInv ==
    /\ M!TypeOK
    /\ \A s \in Session : OnItsWay(s)
    /\ \A p \in Path : Listed(p)
    /\ OncePerPath

SessionType ==
    [at : {"off", "look", "asked", "opening", "connecting", "up"},
     plan : Plans \cup {None}, conn : Conn \cup {None},
     shares : BOOLEAN, agreed : BOOLEAN]

ConnType ==
    [to : Server, jump : BOOLEAN, asks : BOOLEAN, is : {"open", "closed"}] \cup {M!Unmade}

\* The variables one by one.
LEMMA MastersTypes ==
    M!TypeOK <=>
    /\ conn \in [Conn -> ConnType]
    /\ masters \in [Path -> M!Entry \cup {None}]
    /\ session \in [Session -> SessionType]
    /\ reaper \in BOOLEAN
BY DEF M!TypeOK, ConnType, SessionType

\* The same of the next state.
LEMMA MastersTypesNext ==
    M!TypeOK' <=>
    /\ conn' \in [Conn -> ConnType]
    /\ masters' \in [Path -> M!Entry \cup {None}]
    /\ session' \in [Session -> SessionType]
    /\ reaper' \in BOOLEAN
BY DEF M!TypeOK, ConnType, SessionType

\* What is in the list is an entry, of a connection, under a path's name.
LEMMA EntryParts ==
    ASSUME M!MastersAssumption, MastersInv, NEW p \in Path, masters[p] # None
    PROVE  /\ masters[p] \in M!Entry /\ masters[p].conn \in Conn /\ masters[p].to \in Server
           /\ masters[p].keep \in BOOLEAN /\ masters[p].timed \in BOOLEAN
           /\ masters[p].asks \in BOOLEAN /\ masters[p].idle \in {"no", "young", "old"}
<1>1. masters[p] \in M!Entry
  BY MastersTypes DEF MastersInv
<1> QED
  BY <1>1 DEF M!Entry

\* A session's settings name a path and a server.
LEMMA PlanParts ==
    ASSUME M!MastersAssumption, MastersInv, NEW s \in Session, session[s].at # "off"
    PROVE  /\ session[s].plan \in Plans /\ session[s].plan \in M!Plan
           /\ session[s].plan.path \in Path /\ session[s].plan.to \in Server
           /\ session[s].plan.master \in M!Master /\ session[s].plan.persist \in M!Persist
           /\ session[s].plan.jump \in BOOLEAN
<1>1. session[s].plan \in Plans
  BY DEF MastersInv, OnItsWay
<1>2. session[s].plan \in M!Plan
  BY <1>1 DEF M!MastersAssumption
<1> QED
  BY <1>1, <1>2 DEF M!Plan

\* The invariant holds at the start.
LEMMA MastersInit == ASSUME M!Init PROVE MastersInv
<1>1. M!TypeOK
  BY DEF M!Init, M!TypeOK, M!Off, M!Unmade
<1>2. \A s \in Session : OnItsWay(s)
  BY DEF M!Init, OnItsWay, M!Off
<1>3. \A p \in Path : masters[p] = None
  BY DEF M!Init
<1> QED
  BY <1>1, <1>2, <1>3 DEF MastersInv, Listed, OncePerPath

\* Whoever lets go of a connection, or of an entry, disturbs nobody.
LEMMA LetsGo ==
    ASSUME M!MastersAssumption, MastersInv, NEW s \in Session, NEW r \in SessionType,
           session' = [session EXCEPT ![s] = r], r.conn \in {None, session[s].conn},
           UNCHANGED conn, UNCHANGED reaper,
           masters' \in [Path -> M!Entry \cup {None}],
           \A p \in Path : masters'[p] \in {masters[p], None},
           OnItsWay(s)'
    PROVE  MastersInv'
<1>1. M!TypeOK'
  BY MastersTypes, MastersTypesNext DEF MastersInv
<1>2. session \in [Session -> SessionType] /\ session'[s] = r
      /\ \A t \in Session \ {s} : session'[t] = session[t]
  BY MastersTypes DEF MastersInv
<1>3. ASSUME NEW t \in Session PROVE OnItsWay(t)'
  <2>1. CASE t = s
    BY <2>1
  <2>2. CASE t # s
    BY <1>2, <1>3, <2>2 DEF MastersInv, OnItsWay, Made
  <2> QED
    BY <2>1, <2>2
<1>4. ASSUME NEW p \in Path PROVE Listed(p)'
  <2> SUFFICES ASSUME masters'[p] # None PROVE Listed(p)'
    BY DEF Listed
  <2>1. masters'[p] = masters[p] /\ Listed(p) /\ masters[p].conn \in Conn
    BY EntryParts DEF MastersInv
  <2>2. ASSUME NEW t \in Session, session'[t].conn = masters[p].conn
        PROVE  session[t].conn = masters[p].conn
    BY <1>2, <2>1, <2>2 DEF M!MastersAssumption
  <2> QED
    BY <2>1, <2>2 DEF Listed, M!Holders, Made
<1>5. OncePerPath'
  BY DEF MastersInv, OncePerPath
<1> QED
  BY <1>1, <1>3, <1>4, <1>5 DEF MastersInv

\* A session goes from one place to another, without a new connection.
LEMMA SessionGoes ==
    ASSUME M!MastersAssumption, MastersInv, NEW s \in Session,
           M!Begin(s) \/ M!Close(s) \/ M!FindsNone(s) \/ M!Answered(s) \/ M!Opened(s)
             \/ M!NotOpened(s) \/ M!ConnectFails(s)
    PROVE  MastersInv'
<1>1. session \in [Session -> SessionType] /\ session[s] \in SessionType
  BY MastersTypes DEF MastersInv
<1>2. masters' = masters /\ conn' = conn /\ reaper' = reaper
      /\ masters' \in [Path -> M!Entry \cup {None}]
  BY MastersTypes DEF MastersInv, M!Begin, M!Close, M!FindsNone, M!Answered, M!Opened,
     M!NotOpened,
     M!ConnectFails
<1>3. OnItsWay(s)
  BY DEF MastersInv
<1> SUFFICES ASSUME NEW r \in SessionType, session' = [session EXCEPT ![s] = r],
                    r.conn \in {None, session[s].conn}, OnItsWay(s)'
             PROVE  MastersInv'
  <2>1. CASE M!Begin(s)
    <3>1. PICK plan \in Plans : session' = [session EXCEPT ![s] =
              [M!Off EXCEPT !.at = IF M!May(plan) THEN "look" ELSE "connecting", !.plan = plan]]
      BY <2>1 DEF M!Begin
    <3> DEFINE r == [M!Off EXCEPT !.at = IF M!May(plan) THEN "look" ELSE "connecting", !.plan = plan]
    <3>2. r \in SessionType /\ r.conn = None /\ r.plan \in Plans /\ ~r.shares
          /\ r.at \in {"look", "connecting"}
      BY DEF M!Off, SessionType
    <3>3. session' = [session EXCEPT ![s] = r] /\ session'[s] = r
      BY <1>1, <3>1
    <3> HIDE DEF r
    <3>4. OnItsWay(s)'
      BY <3>2, <3>3 DEF OnItsWay
    <3> QED
      BY <3>2, <3>3, <3>4
  <2>2. CASE M!Close(s) \/ M!ConnectFails(s)
    <3>1. session' = [session EXCEPT ![s] = M!Off] /\ session'[s] = M!Off /\ M!Off \in SessionType
          /\ M!Off.conn = None /\ M!Off.at = "off"
      BY <1>1, <2>2 DEF M!Close, M!ConnectFails, M!Off, SessionType
    <3>2. OnItsWay(s)'
      BY <3>1 DEF OnItsWay
    <3> QED
      BY <3>1, <3>2
  <2>3. CASE M!FindsNone(s) \/ M!Opened(s)
    <3>1. PICK place \in {"connecting", "up"} :
             /\ session' = [session EXCEPT ![s].at = place]
             /\ place = "connecting" => session[s].at = "look"
             /\ place = "up" => session[s].at = "opening"
      BY <2>3 DEF M!FindsNone, M!Opened, M!Is
    <3> DEFINE r == [session[s] EXCEPT !.at = place]
    <3>2. r \in SessionType /\ r.at = place /\ r.conn = session[s].conn
          /\ r.plan = session[s].plan /\ r.shares = session[s].shares
          /\ r.agreed = session[s].agreed
      BY <1>1 DEF SessionType
    <3>3. session' = [session EXCEPT ![s] = r] /\ session'[s] = r
      BY <1>1, <3>1
    <3>4. place = "connecting" => ~session[s].shares
      BY <1>3, <3>1 DEF OnItsWay
    <3> HIDE DEF r
    <3>5. OnItsWay(s)'
      BY <1>2, <1>3, <3>1, <3>2, <3>3, <3>4 DEF OnItsWay, Made
    <3> QED
      BY <3>2, <3>3, <3>5
  <2>4. CASE M!NotOpened(s) \/ (M!Answered(s) /\ M!Alone(s))
    <3> DEFINE r == [session[s] EXCEPT !.at = "connecting", !.conn = None, !.shares = FALSE]
    <3>1. session' = [session EXCEPT ![s] = r] /\ session[s].at \in {"opening", "asked"}
      BY <1>1, <2>4 DEF M!NotOpened, M!Answered, M!Alone
    <3>2. r \in SessionType /\ r.at = "connecting" /\ r.conn = None /\ ~r.shares
          /\ r.plan = session[s].plan /\ session'[s] = r
      BY <1>1, <3>1 DEF SessionType
    <3> HIDE DEF r
    <3>3. OnItsWay(s)'
      BY <1>3, <3>1, <3>2 DEF OnItsWay
    <3> QED
      BY <3>1, <3>2, <3>3
  <2>5. CASE M!Answered(s) /\ ~M!Alone(s)
    <3> DEFINE r == [session[s] EXCEPT !.at = "opening", !.agreed = TRUE]
    <3>1. session' = [session EXCEPT ![s] = r] /\ session[s].at = "asked"
      BY <1>1, <2>5 DEF M!Answered
    <3>2. r \in SessionType /\ r.at = "opening" /\ r.conn = session[s].conn /\ r.agreed
          /\ r.plan = session[s].plan /\ session'[s] = r
      BY <1>1, <3>1 DEF SessionType
    <3> HIDE DEF r
    <3>3. OnItsWay(s)'
      BY <1>2, <1>3, <3>1, <3>2 DEF OnItsWay, Made
    <3> QED
      BY <3>1, <3>2, <3>3
  <2> QED
    BY <2>1, <2>2, <2>3, <2>4, <2>5
<1> QED
  BY <1>2, LetsGo

\* A session that finds a master keeps it from being idle.
LEMMA MasterFound ==
    ASSUME M!MastersAssumption, MastersInv, NEW s \in Session, M!FindsMaster(s) PROVE MastersInv'
<1> DEFINE path == session[s].plan.path
<1>1. session \in [Session -> SessionType] /\ session[s] \in SessionType
      /\ masters \in [Path -> M!Entry \cup {None}] /\ session[s].at = "look"
  BY MastersTypes DEF MastersInv, M!FindsMaster
<1>2. path \in Path /\ session[s].plan \in Plans
  BY <1>1, PlanParts
<1> HIDE DEF path
<1>3. PICK e : e = masters[path]
  OBVIOUS
<1>4. /\ e # None /\ e.to = session[s].plan.to
      /\ masters' = [masters EXCEPT ![path].idle = "no"]
      /\ session' = [session EXCEPT ![s].conn = e.conn, ![s].shares = TRUE,
                                   ![s].at = IF e.asks THEN "asked" ELSE "opening"]
      /\ UNCHANGED <<conn, reaper>>
  BY <1>3 DEF M!FindsMaster, M!SameTarget, path
<1>5. e \in M!Entry /\ e.conn \in Conn /\ e.asks \in BOOLEAN
  BY <1>2, <1>3, <1>4, EntryParts, <1>1
<1>6. Made(e.conn) /\ conn[e.conn].to = e.to /\ conn[e.conn].asks = e.asks
  BY <1>2, <1>3, <1>4 DEF MastersInv, Listed
<1> DEFINE r == [session[s] EXCEPT !.conn = e.conn, !.shares = TRUE,
                                   !.at = IF e.asks THEN "asked" ELSE "opening"]
<1> DEFINE f == [e EXCEPT !.idle = "no"]
<1>7. /\ r \in SessionType /\ r.conn = e.conn /\ r.plan = session[s].plan
      /\ r.at = "asked" \/ (r.at = "opening" /\ ~e.asks)
  BY <1>1, <1>5 DEF SessionType
<1>8. session' = [session EXCEPT ![s] = r] /\ session'[s] = r
      /\ \A t \in Session \ {s} : session'[t] = session[t]
  BY <1>1, <1>4
<1>9. f \in M!Entry /\ f.conn = e.conn /\ f.to = e.to /\ f.asks = e.asks /\ f.keep = e.keep
      /\ f.idle = "no"
  BY <1>5 DEF M!Entry
<1>10. masters' = [masters EXCEPT ![path] = f] /\ masters'[path] = f
       /\ \A q \in Path \ {path} : masters'[q] = masters[q]
  BY <1>1, <1>2, <1>3, <1>4
<1> HIDE DEF r, f
<1>11. M!TypeOK'
  <2>1. session' \in [Session -> SessionType]
    BY <1>1, <1>7, <1>8
  <2>2. masters' \in [Path -> M!Entry \cup {None}]
    BY <1>1, <1>9, <1>10
  <2> QED
    BY <1>4, <2>1, <2>2, MastersTypes, MastersTypesNext DEF MastersInv
<1>12. ASSUME NEW t \in Session PROVE OnItsWay(t)'
  <2>1. CASE t = s
    BY <1>2, <1>4, <1>5, <1>6, <1>7, <1>8, <2>1 DEF OnItsWay, Made
  <2>2. CASE t # s
    BY <1>4, <1>8, <1>12, <2>2 DEF MastersInv, OnItsWay, Made
  <2> QED
    BY <2>1, <2>2
<1>13. ASSUME NEW q \in Path PROVE Listed(q)'
  <2>1. CASE q = path
    BY <1>4, <1>6, <1>9, <1>10, <2>1 DEF Listed, Made
  <2>2. CASE q # path
    <3> SUFFICES ASSUME masters'[q] # None PROVE Listed(q)'
      BY DEF Listed
    <3>1. masters'[q] = masters[q] /\ Listed(q)
      BY <1>10, <1>13, <2>2 DEF MastersInv
    <3>2. masters[q].conn # e.conn
      BY <1>2, <1>3, <1>4, <1>13, <2>2, <3>1 DEF MastersInv, OncePerPath
    <3>3. M!Holders(masters[q].conn)' = M!Holders(masters[q].conn)
      <4>1. session[s].conn = None
        BY <1>1 DEF MastersInv, OnItsWay
      <4>2. masters[q].conn # None
        BY <1>13, <3>1, EntryParts DEF M!MastersAssumption
      <4> QED
        BY <1>7, <1>8, <3>1, <3>2, <4>1, <4>2 DEF M!Holders
    <3> QED
      BY <1>4, <3>1, <3>3 DEF Listed, M!Holders, Made
  <2> QED
    BY <2>1, <2>2
<1>14. OncePerPath'
  <2> SUFFICES ASSUME NEW p \in Path, NEW q \in Path, masters'[p] # None, masters'[q] # None,
                      masters'[p].conn = masters'[q].conn
               PROVE  p = q
    BY DEF OncePerPath
  <2>1. \A x \in {p, q} : masters[x] # None /\ masters'[x].conn = masters[x].conn
    BY <1>3, <1>4, <1>9, <1>10
  <2> QED
    BY <2>1 DEF MastersInv, OncePerPath
<1> QED
  BY <1>11, <1>12, <1>13, <1>14 DEF MastersInv

\* A master that is gone leaves the list.
LEMMA MasterGone ==
    ASSUME M!MastersAssumption, MastersInv, NEW s \in Session, M!FindsGone(s) PROVE MastersInv'
<1> DEFINE path == session[s].plan.path
           r == [session[s] EXCEPT !.at = "connecting"]
<1>1. session \in [Session -> SessionType] /\ session[s] \in SessionType
      /\ masters \in [Path -> M!Entry \cup {None}] /\ session[s].at = "look"
      /\ masters' = [masters EXCEPT ![path] = None] /\ conn' = conn /\ reaper' = reaper
      /\ session' = [session EXCEPT ![s] = r]
  BY MastersTypes DEF MastersInv, M!FindsGone, M!Is
<1>2. r \in SessionType /\ r.at = "connecting" /\ r.plan = session[s].plan
      /\ r.conn = session[s].conn /\ r.shares = session[s].shares /\ session'[s] = r
  BY <1>1 DEF SessionType
<1>3. masters' \in [Path -> M!Entry \cup {None}]
      /\ \A p \in Path : masters'[p] \in {masters[p], None}
  BY <1>1
<1> HIDE DEF r, path
<1>4. OnItsWay(s)'
  BY <1>1, <1>2 DEF MastersInv, OnItsWay
<1> QED
  BY <1>1, <1>2, <1>3, <1>4, LetsGo

\* A new connection is in nobody's entry but, perhaps, its own path's.
LEMMA NewConnection ==
    ASSUME M!MastersAssumption, MastersInv, NEW s \in Session, NEW c \in Conn, M!Connects(s, c)
    PROVE  MastersInv'
<1> DEFINE plan == session[s].plan
           k == [to |-> plan.to, jump |-> plan.jump, asks |-> M!Asks(plan), is |-> "open"]
           e == [conn |-> c, to |-> plan.to, keep |-> plan.persist # "off",
                 timed |-> plan.persist = "timed", idle |-> "no", asks |-> M!Asks(plan)]
           r == [session[s] EXCEPT !.at = "up", !.conn = c]
<1>1. session \in [Session -> SessionType] /\ session[s] \in SessionType
      /\ masters \in [Path -> M!Entry \cup {None}] /\ session[s].at = "connecting"
      /\ conn \in [Conn -> ConnType] /\ reaper \in BOOLEAN
      /\ conn[c].is = "unmade" /\ conn' = [conn EXCEPT ![c] = k]
      /\ session' = [session EXCEPT ![s] = r]
      /\ masters' \in {masters, [masters EXCEPT ![plan.path] = e]}
      /\ reaper' = (reaper \/ (masters' # masters /\ plan.persist # "off"))
  BY MastersTypes DEF MastersInv, M!Connects, M!Registered
<1>2. plan.path \in Path /\ plan.to \in Server /\ plan \in Plans /\ plan.jump \in BOOLEAN
  BY <1>1, PlanParts
<1>3. M!Asks(plan) \in BOOLEAN /\ (plan.persist # "off") \in BOOLEAN
      /\ (plan.persist = "timed") \in BOOLEAN
  BY DEF M!Asks
<1>4. k \in ConnType /\ k.to = plan.to /\ k.asks = M!Asks(plan) /\ k.is = "open"
  BY <1>2, <1>3 DEF ConnType
<1>5. e \in M!Entry /\ e.conn = c /\ e.to = plan.to /\ e.asks = M!Asks(plan) /\ e.idle = "no"
  BY <1>2, <1>3 DEF M!Entry
<1>6. /\ r \in SessionType /\ r.conn = c /\ r.plan = plan /\ r.at = "up"
      /\ r.shares = session[s].shares
  BY <1>1 DEF SessionType
<1>7. /\ session'[s] = r /\ \A t \in Session \ {s} : session'[t] = session[t]
      /\ conn'[c] = k /\ \A d \in Conn \ {c} : conn'[d] = conn[d]
  BY <1>1
<1>8. \A p \in Path : masters'[p] \in {masters[p], e}
      /\ (masters'[p] = masters[p] \/ p = plan.path)
  BY <1>1, <1>2
<1>9. \A p \in Path : masters[p] # None => masters[p].conn \in Conn \ {c}
  BY <1>1, EntryParts DEF MastersInv, Listed, Made
<1>10. session[s].conn = None /\ ~session[s].shares
  BY <1>1 DEF MastersInv, OnItsWay
<1>11. M!TypeOK'
  <2>1. session' \in [Session -> SessionType] /\ conn' \in [Conn -> ConnType]
    BY <1>1, <1>4, <1>6
  <2>2. masters' \in [Path -> M!Entry \cup {None}]
    BY <1>1, <1>2, <1>5
  <2>3. reaper' \in BOOLEAN
    BY <1>1
  <2> QED
    BY <2>1, <2>2, <2>3, MastersTypesNext
<1> HIDE DEF plan, k, e, r
<1>12. ASSUME NEW t \in Session PROVE OnItsWay(t)'
  <2>1. CASE t = s
    BY <1>2, <1>4, <1>6, <1>7, <1>10, <2>1 DEF OnItsWay, Made
  <2>2. CASE t # s
    BY <1>1, <1>7, <1>12, <2>2 DEF MastersInv, OnItsWay, Made
  <2> QED
    BY <2>1, <2>2
<1>13. ASSUME NEW p \in Path PROVE Listed(p)'
  <2> SUFFICES ASSUME masters'[p] # None PROVE Listed(p)'
    BY DEF Listed
  <2>1. CASE masters'[p] = e
    BY <1>4, <1>5, <1>7, <2>1 DEF Listed, Made
  <2>2. CASE masters'[p] = masters[p]
    <3>1. Listed(p) /\ masters[p].conn \in Conn \ {c}
      BY <1>9, <2>2 DEF MastersInv
    <3>2. M!Holders(masters[p].conn)' = M!Holders(masters[p].conn)
      <4>1. masters[p].conn # None /\ masters[p].conn # c
        BY <3>1 DEF M!MastersAssumption
      <4> QED
        BY <1>6, <1>7, <1>10, <2>2, <4>1 DEF M!Holders
    <3> QED
      BY <1>7, <2>2, <3>1, <3>2 DEF Listed, M!Holders, Made
  <2> QED
    BY <1>8, <2>1, <2>2
<1>14. OncePerPath'
  <2> SUFFICES ASSUME NEW p \in Path, NEW q \in Path, masters'[p] # None, masters'[q] # None,
                      masters'[p].conn = masters'[q].conn
               PROVE  p = q
    BY DEF OncePerPath
  <2>1. CASE masters'[p] = masters[p] /\ masters'[q] = masters[q]
    BY <2>1 DEF MastersInv, OncePerPath
  <2> QED
    BY <1>5, <1>8, <1>9, <2>1
<1> QED
  BY <1>11, <1>12, <1>13, <1>14 DEF MastersInv

\* What the reaper makes of an entry.
LEMMA ReapedOr ==
    ASSUME M!MastersAssumption, MastersInv, NEW p \in Path, masters[p] # None
    PROVE  LET e == masters[p]  f == M!Reaped(e)
           IN  \/ f = None \/ f = e
               \/ /\ f \in {[e EXCEPT !.idle = "no"], [e EXCEPT !.idle = "young"]}
                  /\ f \in M!Entry /\ f.conn = e.conn /\ f.to = e.to /\ f.keep = e.keep
                  /\ f.asks = e.asks
                  /\ f.idle = "no" \/ (f.idle = "young" /\ M!Holders(e.conn) = {})
<1>1. masters[p] \in M!Entry
  BY EntryParts
<1> QED
  BY <1>1 DEF M!Reaped, M!OnlyHere, M!Entry

\* The reaper, and time, change how idle an entry counts, or end it.
LEMMA Ages ==
    ASSUME M!MastersAssumption, MastersInv, UNCHANGED <<conn, session, reaper>>,
           masters' \in [Path -> M!Entry \cup {None}],
           \A p \in Path : masters'[p] # None =>
              /\ masters[p] # None
              /\ masters'[p].conn = masters[p].conn /\ masters'[p].to = masters[p].to
              /\ masters'[p].keep = masters[p].keep /\ masters'[p].asks = masters[p].asks
              /\ masters'[p].idle # "no" /\ masters'[p].keep => M!Holders(masters[p].conn) = {}
    PROVE  MastersInv'
<1>1. M!TypeOK'
  BY MastersTypes, MastersTypesNext DEF MastersInv
<1>2. \A s \in Session : OnItsWay(s)'
  BY DEF MastersInv, OnItsWay, Made
<1>3. \A p \in Path : Listed(p)'
  BY DEF MastersInv, Listed, M!Holders, Made
<1>4. OncePerPath'
  BY DEF MastersInv, OncePerPath
<1> QED
  BY <1>1, <1>2, <1>3, <1>4 DEF MastersInv

\* The reaper's tick.
LEMMA Reaps == ASSUME M!MastersAssumption, MastersInv, M!Reap PROVE MastersInv'
<1>1. masters' = [p \in Path |-> M!Reaped(masters[p])] /\ UNCHANGED <<conn, session, reaper>>
  BY DEF M!Reap
<1>2. ASSUME NEW p \in Path
      PROVE  /\ masters'[p] \in M!Entry \cup {None}
             /\ masters'[p] # None =>
                   /\ masters[p] # None
                   /\ masters'[p].conn = masters[p].conn /\ masters'[p].to = masters[p].to
                   /\ masters'[p].keep = masters[p].keep /\ masters'[p].asks = masters[p].asks
                   /\ masters'[p].idle # "no" /\ masters'[p].keep =>
                         M!Holders(masters[p].conn) = {}
  <2>1. masters'[p] = M!Reaped(masters[p])
    BY <1>1, <1>2
  <2>2. CASE masters[p] = None
    BY <2>1, <2>2 DEF M!Reaped
  <2>3. CASE masters[p] # None
    <3>1. masters[p] \in M!Entry /\ Listed(p)
      BY <1>2, <2>3, EntryParts DEF MastersInv
    <3> QED
      BY <1>2, <2>1, <2>3, <3>1, ReapedOr DEF Listed
  <2> QED
    BY <2>2, <2>3
<1>3. masters' \in [Path -> M!Entry \cup {None}]
  BY <1>1, <1>2
<1> QED
  BY <1>1, <1>2, <1>3, Ages

\* An idle entry grows old.
LEMMA GrowsOld ==
    ASSUME M!MastersAssumption, MastersInv, NEW p \in Path, M!TimePasses(p)
    PROVE  MastersInv'
<1>1. /\ masters[p] # None /\ masters[p].idle = "young" /\ UNCHANGED <<conn, session, reaper>>
      /\ masters' = [masters EXCEPT ![p].idle = "old"]
      /\ masters \in [Path -> M!Entry \cup {None}]
  BY MastersTypes DEF MastersInv, M!TimePasses
<1>2. masters[p] \in M!Entry
  BY <1>1, EntryParts
<1> DEFINE f == [masters[p] EXCEPT !.idle = "old"]
<1>3. f \in M!Entry /\ f.conn = masters[p].conn /\ f.to = masters[p].to
      /\ f.keep = masters[p].keep /\ f.asks = masters[p].asks
  BY <1>2 DEF M!Entry
<1>4. masters' = [masters EXCEPT ![p] = f]
  BY <1>1
<1> HIDE DEF f
<1>5. \A q \in Path : masters[q] # None => Listed(q)
  BY DEF MastersInv
<1>6. masters' \in [Path -> M!Entry \cup {None}]
  BY <1>1, <1>3, <1>4
<1>7. \A q \in Path : masters'[q] # None =>
              /\ masters[q] # None
              /\ masters'[q].conn = masters[q].conn /\ masters'[q].to = masters[q].to
              /\ masters'[q].keep = masters[q].keep /\ masters'[q].asks = masters[q].asks
              /\ masters'[q].idle # "no" /\ masters'[q].keep => M!Holders(masters[q].conn) = {}
  BY <1>1, <1>3, <1>4, <1>5 DEF Listed
<1> QED
  BY <1>1, <1>6, <1>7, Ages

\* A connection that ends keeps its name and its server.
LEMMA ConnectionEnds ==
    ASSUME M!MastersAssumption, MastersInv, NEW c \in Conn, M!Ends(c)
    PROVE  MastersInv'
<1>1. conn \in [Conn -> ConnType] /\ conn[c].is = "open"
      /\ conn' = [conn EXCEPT ![c].is = "closed"] /\ UNCHANGED <<masters, session, reaper>>
  BY MastersTypes DEF MastersInv, M!Ends
<1>2. conn[c] \in [to : Server, jump : BOOLEAN, asks : BOOLEAN, is : {"open", "closed"}]
  BY <1>1 DEF ConnType, M!Unmade
<1> DEFINE k == [conn[c] EXCEPT !.is = "closed"]
<1>3. k \in ConnType /\ k.to = conn[c].to /\ k.asks = conn[c].asks /\ k.is = "closed"
  BY <1>2 DEF ConnType
<1>4. conn' = [conn EXCEPT ![c] = k]
  BY <1>1
<1> HIDE DEF k
<1>5. conn' \in [Conn -> ConnType]
  BY <1>1, <1>3, <1>4
<1>6. \A d \in Conn : /\ conn'[d].to = conn[d].to /\ conn'[d].asks = conn[d].asks
                      /\ Made(d) => Made(d)'
  BY <1>1, <1>3, <1>4 DEF Made
<1>7. M!TypeOK'
  BY <1>1, <1>5, MastersTypes, MastersTypesNext DEF MastersInv
<1>8. \A s \in Session : OnItsWay(s)'
  BY <1>1, <1>6 DEF MastersInv, OnItsWay, Made
<1>9. ASSUME NEW p \in Path PROVE Listed(p)'
  <2> SUFFICES ASSUME masters'[p] # None PROVE Listed(p)'
    BY DEF Listed
  <2>1. masters[p] # None /\ masters[p].conn \in Conn /\ Listed(p)
    BY <1>1, <1>9, EntryParts DEF MastersInv
  <2> QED
    BY <1>1, <1>6, <2>1 DEF Listed, M!Holders, Made
<1>10. OncePerPath'
  BY <1>1 DEF MastersInv, OncePerPath
<1> QED
  BY <1>7, <1>8, <1>9, <1>10 DEF MastersInv

\* Every step keeps the invariant.
LEMMA MastersNext == ASSUME M!MastersAssumption, MastersInv, [M!Next]_M!vars PROVE MastersInv'
<1>1. CASE \E s \in Session : M!Begin(s) \/ M!Close(s) \/ M!FindsNone(s) \/ M!Answered(s)
             \/ M!Opened(s) \/ M!NotOpened(s) \/ M!ConnectFails(s)
  BY <1>1, SessionGoes
<1>2. CASE \E s \in Session : M!FindsGone(s)
  BY <1>2, MasterGone
<1>3. CASE \E s \in Session : M!FindsMaster(s)
  BY <1>3, MasterFound
<1>4. CASE \E s \in Session, c \in Conn : M!Connects(s, c)
  BY <1>4, NewConnection
<1>5. CASE \E c \in Conn : M!Ends(c)
  BY <1>5, ConnectionEnds
<1>6. CASE M!Reap
  BY <1>6, Reaps
<1>7. CASE \E p \in Path : M!TimePasses(p)
  BY <1>7, GrowsOld
<1>8. CASE UNCHANGED M!vars
  BY <1>8 DEF MastersInv, M!TypeOK, OnItsWay, Listed, OncePerPath, M!Holders, Made, M!vars
<1> QED
  BY <1>1, <1>2, <1>3, <1>4, <1>5, <1>6, <1>7, <1>8 DEF M!Next

\* The invariant holds in every behaviour.
LEMMA MastersAlways == ASSUME M!MastersAssumption PROVE M!Spec => []MastersInv
<1>1. M!Init => MastersInv
  BY MastersInit
<1>2. MastersInv /\ [M!Next]_M!vars => MastersInv'
  BY MastersNext
<1> QED
  BY <1>1, <1>2, PTL DEF M!Spec

\* A session is only on a connection to the server of its own settings, and on
\* one whose user wants to be asked only after he agreed (existing,
\* shared_session), whatever ControlPaths collide.
THEOREM AlwaysSharesRightly ==
    ASSUME M!MastersAssumption PROVE M!Spec => [](M!SameServer /\ M!Agreed)
<1>1. MastersInv => M!SameServer /\ M!Agreed
  <2> SUFFICES ASSUME MastersInv, NEW s \in Session
               PROVE  /\ session[s].conn # None =>
                            conn[session[s].conn].to = session[s].plan.to
                      /\ session[s].at = "up" /\ session[s].shares
                            /\ conn[session[s].conn].asks => session[s].agreed
    BY DEF M!SameServer, M!Agreed
  <2>1. OnItsWay(s) /\ session[s] \in SessionType
    BY MastersTypes DEF MastersInv
  <2> QED
    BY <2>1 DEF OnItsWay, SessionType
<1> QED
  BY <1>1, MastersAlways, PTL

\* A kept master leaves its list, or grows idle, only when no session holds its
\* connection or the connection is closed (reap, register).
THEOREM MasterNeverTaken ==
    ASSUME M!MastersAssumption PROVE M!Spec => [][\A p \in Path : M!LeavesUnused(p)]_M!vars
<1>1. MastersInv /\ [M!Next]_M!vars => [\A p \in Path : M!LeavesUnused(p)]_M!vars
  <2> SUFFICES ASSUME MastersInv, M!Next, NEW p \in Path, masters[p] # None, masters[p].keep,
                      masters'[p] # masters[p]
               PROVE  \/ M!Holders(masters[p].conn) = {} \/ conn[masters[p].conn].is = "closed"
                      \/ masters'[p] = [masters[p] EXCEPT !.idle = "no"]
    BY DEF M!LeavesUnused
  <2>1. masters \in [Path -> M!Entry \cup {None}] /\ M!Alive(masters[p].conn)
    BY MastersTypes DEF MastersInv, M!Alive, M!Keeps
  <2>2. CASE \E s \in Session : M!FindsGone(s)
    <3>1. PICK s \in Session : M!FindsGone(s)
      BY <2>2
    <3>2. p = session[s].plan.path /\ ~M!JumpsAlive(masters[p].conn)
      BY <2>1, <3>1 DEF M!FindsGone
    <3> QED
      BY <3>2 DEF M!JumpsAlive
  <2>3. CASE \E s \in Session : M!FindsMaster(s)
    BY <2>1, <2>3 DEF M!FindsMaster
  <2>4. CASE \E s \in Session, c \in Conn : M!Connects(s, c)
    BY <2>1, <2>4 DEF M!Connects, M!Registered
  <2>5. CASE M!Reap
    <3>1. masters'[p] = M!Reaped(masters[p])
      BY <2>5 DEF M!Reap
    <3> QED
      BY <3>1 DEF M!Reaped, M!OnlyHere
  <2>6. CASE \E q \in Path : M!TimePasses(q)
    <3>1. PICK q \in Path : M!TimePasses(q)
      BY <2>6
    <3>2. p = q /\ masters[p].idle = "young" /\ Listed(p)
      BY <2>1, <3>1 DEF M!TimePasses, MastersInv
    <3> QED
      BY <3>2 DEF Listed
  <2>7. CASE \/ \E s \in Session : M!Begin(s) \/ M!Close(s) \/ M!FindsNone(s) \/ M!Answered(s)
                  \/ M!Opened(s) \/ M!NotOpened(s) \/ M!ConnectFails(s)
             \/ \E c \in Conn : M!Ends(c)
    BY <2>7 DEF M!Begin, M!Close, M!FindsNone, M!Answered, M!Opened, M!NotOpened,
       M!ConnectFails, M!Ends
  <2> QED
    BY <2>2, <2>3, <2>4, <2>5, <2>6, <2>7 DEF M!Next
<1> QED
  BY <1>1, MastersAlways, PTL DEF M!Spec

-----------------------------------------------------------------------------
(* A password manager's passphrase.                                        *)

\* How many questions an operation x has asked for, where everything was
\* forgotten g times: while it holds a passphrase, one more than were rejected,
\* and than it has seen forgotten; before it asks, none more.
Spent(x, g) ==
    /\ x.forgotten = g /\ x.seen <= g
    /\ x.questions <= 1 + x.rejected + g
    /\ x.held # None =>
          x.held.seen <= x.seen /\ x.questions <= 1 + x.rejected + x.held.seen
    /\ x.at \in {"off", "begin", "look", "ask", "waiting"} /\ x.held = None =>
          x.questions <= x.rejected + x.seen
    /\ x.at \in {"ask", "waiting"} => x.held = None
    /\ x.at \in {"asking", "answered"} => x.questions <= 1 + x.rejected + x.seen
    /\ x.at = "answered" => x.got # None
    /\ x.at = "call" => x.held # None /\ x.held.pass = x.got

PassInv == P!TypeOK /\ \A o \in Operation : Spent(oper[o], generation)

OperType ==
    [at : P!Places, account : Account, seen : 0..MaxForgets,
     got : P!Typed \cup {None, P!Cancelled}, asked : 0..MaxForgets,
     held : P!Held \cup {None},
     rejected : 0..MaxAttempts, calls : 0..MaxCalls,
     questions : Nat, forgotten : 0..MaxForgets]
FlightType ==
    [by : Operation, asked : 0..MaxForgets, answer : P!Typed \cup {None, P!Cancelled}] \cup {None}
KeptType == [account : Account, pass : P!Typed, asked : 0..MaxForgets] \cup {None}

\* The variables one by one.
LEMMA PassTypes ==
    P!TypeOK <=>
    /\ remember \in BOOLEAN /\ cancelling \in BOOLEAN /\ typed \in 0..MaxTyped
    /\ generation \in 0..MaxForgets /\ kept \in KeptType
    /\ flight \in [Account -> FlightType] /\ oper \in [Operation -> OperType]
BY DEF P!TypeOK, OperType, FlightType, KeptType

\* The same of the next state.
LEMMA PassTypesNext ==
    P!TypeOK' <=>
    /\ remember' \in BOOLEAN /\ cancelling' \in BOOLEAN /\ typed' \in 0..MaxTyped
    /\ generation' \in 0..MaxForgets /\ kept' \in KeptType
    /\ flight' \in [Account -> FlightType] /\ oper' \in [Operation -> OperType]
BY DEF P!TypeOK, OperType, FlightType, KeptType

\* What the bounds are, and that no answer is a sentinel.
LEMMA PassConstants ==
    ASSUME P!PassphraseAssumption
    PROVE  /\ MaxTyped \in Nat /\ MaxForgets \in Nat /\ MaxCalls \in Nat /\ MaxAttempts \in Nat
           /\ None \notin P!Typed /\ P!Cancelled \notin P!Typed /\ None # P!Cancelled
BY DEF P!PassphraseAssumption, P!Typed, P!Cancelled

\* The invariant holds at the start.
LEMMA PassInit == ASSUME P!PassphraseAssumption, P!Init PROVE PassInv
<1>1. ASSUME NEW a \in Account
      PROVE  P!Fresh(a) \in OperType /\ Spent(P!Fresh(a), 0)
  BY <1>1, PassConstants, SMT DEF P!Fresh, OperType, P!Places, Spent
<1>2. oper \in [Operation -> OperType] /\ \A o \in Operation : Spent(oper[o], generation)
  BY <1>1 DEF P!Init
<1>3. P!TypeOK
  <2>1. flight \in [Account -> FlightType] /\ kept \in KeptType
    BY DEF P!Init, FlightType, KeptType
  <2>2. typed \in 0..MaxTyped /\ generation \in 0..MaxForgets
    BY PassConstants DEF P!Init
  <2>3. remember \in BOOLEAN /\ cancelling \in BOOLEAN
    BY DEF P!Init
  <2> QED
    BY <1>2, <2>1, <2>2, <2>3, PassTypes
<1> QED
  BY <1>2, <1>3 DEF PassInv

\* One operation goes on, and everything else keeps its type.
LEMMA OneGoes ==
    ASSUME P!PassphraseAssumption, PassInv, NEW o \in Operation, NEW r \in OperType, P!Set(o, r),
           Spent(r, generation), UNCHANGED <<remember, generation, cancelling, typed>>,
           kept' \in KeptType, flight' \in [Account -> FlightType]
    PROVE  PassInv'
<1>1. oper \in [Operation -> OperType] /\ oper' = [oper EXCEPT ![o] = r]
  BY PassTypes DEF PassInv, P!Set
<1>2. oper' \in [Operation -> OperType]
      /\ \A p \in Operation : Spent(oper'[p], generation')
  BY <1>1 DEF PassInv
<1> QED
  BY <1>2, PassTypes, PassTypesNext DEF PassInv

\* An operation that is done has asked for no more than it may.
LEMMA DoneSpends ==
    ASSUME P!PassphraseAssumption, PassInv, NEW o \in Operation
    PROVE  LET r == [oper[o] EXCEPT !.at = "done", !.held = None, !.got = None]
           IN  r \in OperType /\ Spent(r, generation)
<1>1. oper[o] \in OperType /\ Spent(oper[o], generation)
  BY PassTypes DEF PassInv
<1> DEFINE r == [oper[o] EXCEPT !.at = "done", !.held = None, !.got = None]
<1>2. r \in OperType /\ r.at = "done" /\ r.held = None /\ r.forgotten = oper[o].forgotten
      /\ r.seen = oper[o].seen /\ r.questions = oper[o].questions
      /\ r.rejected = oper[o].rejected
  BY <1>1 DEF OperType, P!Places
<1> HIDE DEF r
<1>3. Spent(r, generation)
  BY <1>1, <1>2 DEF Spent
<1> QED
  BY <1>2, <1>3 DEF r

\* What leaves the passphrases and the questions alone.
LEMMA Quietly ==
    ASSUME P!PassphraseAssumption, PassInv, NEW o \in Operation,
           P!Begin(o) \/ P!ReadsGeneration(o) \/ P!HeldOne(o) \/ P!KeptOne(o) \/ P!Joins(o)
             \/ P!CallsAgain(o)
    PROVE  PassInv'
<1> DEFINE x == oper[o]
<1>1. /\ x \in OperType /\ Spent(x, generation) /\ generation \in 0..MaxForgets
      /\ MaxForgets \in Nat /\ kept \in KeptType
  BY PassTypes, PassConstants DEF PassInv
<1>2. kept' \in KeptType /\ flight' \in [Account -> FlightType]
      /\ UNCHANGED <<remember, generation, cancelling, typed>>
  BY PassTypes DEF PassInv, P!Begin, P!ReadsGeneration, P!HeldOne, P!KeptOne, P!Joins,
     P!CallsAgain
<1>3. CASE P!Begin(o)
  <2> DEFINE r == [x EXCEPT !.at = "begin"]
  <2>1. r \in OperType
    BY <1>1 DEF OperType, P!Places
  <2>2. /\ r.at = "begin" /\ r.seen = x.seen /\ r.forgotten = x.forgotten
        /\ r.questions = x.questions /\ r.held = x.held /\ r.rejected = x.rejected
    BY <1>1 DEF OperType
  <2>3. x.at = "off" /\ P!Set(o, r)
    BY <1>3 DEF P!Begin
  <2> HIDE DEF r, x
  <2>4. Spent(r, generation)
    BY <1>1, <2>2, <2>3 DEF Spent
  <2> QED
    BY <1>2, <2>1, <2>3, <2>4, OneGoes
<1>4. CASE P!ReadsGeneration(o)
  <2> DEFINE r == [x EXCEPT !.at = "look", !.seen = generation]
  <2>1. r \in OperType /\ P!Set(o, r) /\ x.at = "begin"
    BY <1>1, <1>4 DEF OperType, P!Places, P!ReadsGeneration
  <2>2. /\ r.at = "look" /\ r.seen = generation /\ r.forgotten = x.forgotten
        /\ r.questions = x.questions /\ r.held = x.held /\ r.rejected = x.rejected
    BY <1>1 DEF OperType
  <2> HIDE DEF r
  <2>3. x.seen \in Nat /\ x.questions \in Nat /\ x.rejected \in Nat /\ generation \in Nat
        /\ (x.held # None => x.held.seen \in Nat)
    BY <1>1, PassConstants DEF OperType, P!Held
  <2> HIDE DEF x
  <2>4. Spent(r, generation)
    BY <1>1, <2>1, <2>2, <2>3 DEF Spent
  <2> QED
    BY <1>2, <2>1, <2>4, OneGoes
<1>5. CASE P!HeldOne(o)
  <2> DEFINE r == [x EXCEPT !.at = "call", !.got = x.held.pass]
  <2>1. x.held # None /\ x.at = "look" /\ P!Set(o, r)
    BY <1>5 DEF P!HeldOne, P!Holds
  <2>2. r \in OperType
    BY <1>1, <2>1 DEF OperType, P!Places, P!Held
  <2>3. /\ r.at = "call" /\ r.seen = x.seen /\ r.forgotten = x.forgotten
        /\ r.questions = x.questions /\ r.held = x.held /\ r.rejected = x.rejected
        /\ r.got = x.held.pass
    BY <1>1 DEF OperType
  <2> HIDE DEF r
  <2>4. Spent(r, generation)
    BY <1>1, <2>1, <2>3 DEF Spent
  <2> QED
    BY <1>2, <2>1, <2>2, <2>4, OneGoes
<1>6. CASE P!KeptOne(o)
  <2> DEFINE h == [pass |-> kept.pass, seen |-> x.seen]
             r == [x EXCEPT !.at = "call", !.got = kept.pass, !.held = h]
  <2>1. kept # None /\ x.at = "look" /\ P!Set(o, r) /\ ~(x.held # None /\ x.held.seen = x.seen)
    BY <1>6 DEF P!KeptOne, P!Holds
  <2>2. h \in P!Held /\ h.seen = x.seen /\ h.pass = kept.pass
        /\ kept.pass \in P!Typed
    BY <1>1, <2>1 DEF OperType, KeptType, P!Held
  <2>3. h # None
    BY <2>2 DEF P!PassphraseAssumption
  <2> HIDE DEF h
  <2>4. r \in OperType
    BY <1>1, <2>2 DEF OperType, P!Places
  <2>5. /\ r.at = "call" /\ r.seen = x.seen /\ r.forgotten = x.forgotten
        /\ r.questions = x.questions /\ r.held = h /\ r.rejected = x.rejected
        /\ r.got = kept.pass
    BY <1>1 DEF OperType
  <2>6. x.seen \in Nat /\ x.questions \in Nat /\ x.rejected \in Nat /\ generation \in Nat
        /\ (x.held # None => x.held.seen \in Nat)
    BY <1>1, PassConstants DEF OperType, P!Held
  <2> HIDE DEF r, x
  <2>7. Spent(r, generation)
    BY <1>1, <2>1, <2>2, <2>3, <2>5, <2>6 DEF Spent
  <2> QED
    BY <1>2, <2>1, <2>4, <2>7, OneGoes
<1>7. CASE P!Joins(o)
  <2> DEFINE r == [x EXCEPT !.at = "waiting"]
  <2>1. r \in OperType
    BY <1>1 DEF OperType, P!Places
  <2>2. /\ r.at = "waiting" /\ r.seen = x.seen /\ r.forgotten = x.forgotten
        /\ r.questions = x.questions /\ r.held = x.held /\ r.rejected = x.rejected
    BY <1>1 DEF OperType
  <2>3. x.at = "ask" /\ P!Set(o, r)
    BY <1>7 DEF P!Joins
  <2> HIDE DEF r
  <2>4. Spent(r, generation)
    BY <1>1, <2>2, <2>3 DEF Spent
  <2> QED
    BY <1>2, <2>1, <2>3, <2>4, OneGoes
<1>8. CASE P!CallsAgain(o)
  <2> DEFINE r == [x EXCEPT !.at = "begin", !.calls = @ + 1, !.got = None]
  <2>1. x.at = "call" /\ P!Set(o, r) /\ x.calls + 1 \in 0..MaxCalls
    BY <1>1, <1>8, PassConstants DEF P!CallsAgain, OperType
  <2>2. r \in OperType
    BY <1>1, <2>1 DEF OperType, P!Places
  <2>3. /\ r.at = "begin" /\ r.seen = x.seen /\ r.forgotten = x.forgotten
        /\ r.questions = x.questions /\ r.held = x.held /\ r.rejected = x.rejected
    BY <1>1 DEF OperType
  <2> HIDE DEF r
  <2>4. Spent(r, generation)
    BY <1>1, <2>1, <2>3 DEF Spent
  <2> QED
    BY <1>2, <2>1, <2>2, <2>4, OneGoes
<1> QED
  BY <1>3, <1>4, <1>5, <1>6, <1>7, <1>8

\* Nothing is kept: what was held is of before a forgetting, and may be asked
\* for again.
LEMMA HasNone ==
    ASSUME P!PassphraseAssumption, PassInv, NEW o \in Operation, P!KeptNone(o)
    PROVE  PassInv'
<1> DEFINE x == oper[o]
           r == [x EXCEPT !.at = "ask", !.held = None]
<1>1. /\ x \in OperType /\ Spent(x, generation) /\ flight \in [Account -> FlightType]
  BY PassTypes DEF PassInv
<1>2. /\ x.at = "look" /\ P!Set(o, r) /\ ~(x.held # None /\ x.held.seen = x.seen)
      /\ UNCHANGED <<remember, generation, cancelling, typed, flight>> /\ kept' = None
  BY DEF P!KeptNone, P!Holds
<1>3. r \in OperType
  BY <1>1 DEF OperType, P!Places
<1>4. /\ r.at = "ask" /\ r.seen = x.seen /\ r.forgotten = x.forgotten
      /\ r.questions = x.questions /\ r.held = None /\ r.rejected = x.rejected
  BY <1>1 DEF OperType
<1>5. x.seen \in Nat /\ x.questions \in Nat /\ x.rejected \in Nat
      /\ (x.held # None => x.held.seen \in Nat)
  BY <1>1, PassConstants DEF OperType, P!Held
<1> HIDE DEF r, x
<1>6. Spent(r, generation)
  BY <1>1, <1>2, <1>4, <1>5 DEF Spent
<1>7. kept' \in KeptType /\ flight' \in [Account -> FlightType]
  BY <1>1, <1>2 DEF KeptType
<1> QED
  BY <1>2, <1>3, <1>6, <1>7, OneGoes

\* A question.
LEMMA AsksOne ==
    ASSUME P!PassphraseAssumption, PassInv, NEW o \in Operation, P!Asks(o)
    PROVE  PassInv'
<1> DEFINE x == oper[o]
           r == [x EXCEPT !.at = "asking", !.questions = @ + 1]
           f == [by |-> o, asked |-> generation, answer |-> None]
<1>1. /\ x \in OperType /\ Spent(x, generation) /\ flight \in [Account -> FlightType]
      /\ generation \in 0..MaxForgets /\ kept \in KeptType
  BY PassTypes DEF PassInv
<1>2. /\ x.at = "ask" /\ P!Set(o, r) /\ flight' = [flight EXCEPT ![P!Of(o)] = f]
      /\ UNCHANGED <<remember, generation, cancelling, typed, kept>>
  BY DEF P!Asks
<1>3. r \in OperType /\ f \in FlightType /\ P!Of(o) \in Account
  <2>1. x.questions + 1 \in Nat /\ x.account \in Account
    BY <1>1 DEF OperType
  <2> QED
    BY <1>1, <2>1 DEF OperType, P!Places, FlightType, P!Of
<1>4. /\ r.at = "asking" /\ r.seen = x.seen /\ r.forgotten = x.forgotten
      /\ r.questions = x.questions + 1 /\ r.held = x.held /\ r.rejected = x.rejected
  BY <1>1 DEF OperType
<1>5. x.seen \in Nat /\ x.questions \in Nat /\ x.rejected \in Nat /\ generation \in Nat
  BY <1>1, PassConstants DEF OperType
<1>6. flight' \in [Account -> FlightType]
  BY <1>1, <1>2, <1>3
<1> HIDE DEF r, x, f
<1>7. Spent(r, generation)
  BY <1>1, <1>2, <1>4, <1>5 DEF Spent
<1> QED
  BY <1>1, <1>2, <1>3, <1>6, <1>7, OneGoes

\* The answer comes in time.
LEMMA ReceivesOne ==
    ASSUME P!PassphraseAssumption, PassInv, NEW o \in Operation, P!Receives(o)
    PROVE  PassInv'
<1> DEFINE x == oper[o]
           h == [pass |-> x.got, seen |-> x.seen]
           r == [x EXCEPT !.at = "call", !.held = h]
           k == [account |-> P!Of(o), pass |-> x.got, asked |-> x.asked]
<1>1. /\ x \in OperType /\ Spent(x, generation) /\ flight \in [Account -> FlightType]
      /\ generation \in 0..MaxForgets /\ kept \in KeptType
  BY PassTypes DEF PassInv
<1>2. /\ x.at = "answered" /\ x.got # P!Cancelled /\ P!Set(o, r) /\ kept' \in {kept, k}
      /\ UNCHANGED <<remember, generation, cancelling, typed, flight>>
      /\ generation = x.seen
  BY DEF P!Receives, P!HeldNow, P!Kept, P!Of
<1>3. x.got \in P!Typed
  BY <1>1, <1>2 DEF Spent, OperType
<1>4. h \in P!Held /\ h.seen = x.seen /\ h.pass = x.got
  BY <1>1, <1>3 DEF OperType, P!Held
<1>5. h # None
  BY <1>4 DEF P!PassphraseAssumption
<1>6. k \in KeptType
  BY <1>1, <1>3 DEF OperType, KeptType, P!Of
<1> HIDE DEF h, k
<1>7. r \in OperType
  BY <1>1, <1>4 DEF OperType, P!Places
<1>8. /\ r.at = "call" /\ r.seen = x.seen /\ r.forgotten = x.forgotten
      /\ r.questions = x.questions /\ r.held = h /\ r.rejected = x.rejected
      /\ r.got = x.got
  BY <1>1 DEF OperType
<1>9. x.seen \in Nat /\ x.questions \in Nat /\ x.rejected \in Nat
  BY <1>1, PassConstants DEF OperType
<1>10. kept' \in KeptType
  BY <1>1, <1>2, <1>6
<1> HIDE DEF r, x
<1>11. Spent(r, generation)
  BY <1>1, <1>2, <1>4, <1>5, <1>8, <1>9 DEF Spent
<1> QED
  BY <1>1, <1>2, <1>7, <1>10, <1>11, OneGoes

\* The passphrase was wrong: one more may be asked for.
LEMMA RejectsOne ==
    ASSUME P!PassphraseAssumption, PassInv, NEW o \in Operation, P!Rejects(o)
    PROVE  PassInv'
<1> DEFINE x == oper[o]
           n == x.rejected + 1
           r == [x EXCEPT !.at = "begin", !.rejected = n, !.got = None, !.held = None]
<1>1. /\ x \in OperType /\ Spent(x, generation) /\ flight \in [Account -> FlightType]
      /\ kept \in KeptType /\ x.at = "call"
  BY PassTypes DEF PassInv, P!Rejects
<1>2. x.held # None /\ x.held.pass = x.got
  BY <1>1 DEF Spent
<1>3. kept' \in KeptType /\ flight' \in [Account -> FlightType]
      /\ UNCHANGED <<remember, generation, cancelling, typed>>
  BY <1>1 DEF P!Rejects, KeptType
<1>4. CASE P!Done(o)
  BY <1>3, <1>4, DoneSpends, OneGoes DEF P!Done
<1>5. CASE ~P!Done(o)
  <2>1. n < MaxAttempts /\ P!Set(o, [x EXCEPT !.at = "begin", !.rejected = n, !.got = None,
                       !.held = IF @ # None /\ @.pass = x.got THEN None ELSE @])
    BY <1>1, <1>5, PassConstants DEF P!Rejects, OperType
  <2>2. P!Set(o, r)
    BY <1>1, <1>2, <2>1 DEF OperType
  <2>3. n \in 0..MaxAttempts
    BY <1>1, <2>1, PassConstants DEF OperType
  <2>4. r \in OperType
    BY <1>1, <2>3 DEF OperType, P!Places
  <2>5. /\ r.at = "begin" /\ r.seen = x.seen /\ r.forgotten = x.forgotten
        /\ r.questions = x.questions /\ r.held = None /\ r.rejected = x.rejected + 1
    BY <1>1 DEF OperType
  <2>6. x.seen \in Nat /\ x.questions \in Nat /\ x.rejected \in Nat /\ generation \in Nat
        /\ x.held.seen \in Nat
    BY <1>1, <1>2, PassTypes, PassConstants DEF OperType, PassInv, P!Held
  <2> HIDE DEF r, x
  <2>7. Spent(r, generation)
    BY <1>1, <1>2, <2>5, <2>6 DEF Spent
  <2> QED
    BY <1>3, <2>2, <2>4, <2>7, OneGoes
<1> QED
  BY <1>4, <1>5

\* An operation that ends.
LEMMA EndsOne ==
    ASSUME P!PassphraseAssumption, PassInv, NEW o \in Operation, P!Ends(o) \/ P!Refused(o)
    PROVE  PassInv'
<1>1. P!Done(o) /\ UNCHANGED <<remember, generation, cancelling, typed, kept, flight>>
  BY DEF P!Ends, P!Refused
<1>2. kept' \in KeptType /\ flight' \in [Account -> FlightType]
  BY <1>1, PassTypes DEF PassInv
<1> QED
  BY <1>1, <1>2, DoneSpends, OneGoes DEF P!Done

\* The operations each keep to what they may ask for, whatever becomes of the
\* rest.
LEMMA AllKeep ==
    ASSUME P!PassphraseAssumption, PassInv, UNCHANGED <<remember, generation, cancelling>>,
           typed' \in 0..MaxTyped, kept' \in KeptType, flight' \in [Account -> FlightType],
           oper' \in [Operation -> OperType],
           \A o \in Operation : Spent(oper'[o], generation)
    PROVE  PassInv'
BY PassTypes, PassTypesNext DEF PassInv

\* The user answers.
LEMMA UserAnswers ==
    ASSUME P!PassphraseAssumption, PassInv, NEW a \in Account, P!Answer(a)
    PROVE  PassInv'
<1>1. flight \in [Account -> FlightType] /\ typed \in 0..MaxTyped /\ kept \in KeptType
      /\ oper \in [Operation -> OperType]
  BY PassTypes DEF PassInv
<1>2. UNCHANGED <<remember, generation, cancelling, kept, oper>> /\ flight[a] # None
  BY DEF P!Answer
<1>3. PICK v \in P!Typed \cup {P!Cancelled} :
         flight' = [flight EXCEPT ![a].answer = v] /\ typed' \in 0..MaxTyped
  <2>1. CASE typed < MaxTyped /\ typed' = typed + 1
             /\ flight' = [flight EXCEPT ![a].answer = typed + 1]
    <3>1. typed + 1 \in P!Typed /\ typed + 1 \in 0..MaxTyped
      BY <1>1, <2>1, PassConstants DEF P!Typed
    <3> QED
      BY <2>1, <3>1
  <2>2. CASE flight' = [flight EXCEPT ![a].answer = P!Cancelled] /\ UNCHANGED typed
    BY <1>1, <2>2
  <2> QED
    BY <2>1, <2>2 DEF P!Answer
<1> DEFINE f == [flight[a] EXCEPT !.answer = v]
<1>4. f \in FlightType
  BY <1>1, <1>2 DEF FlightType
<1>5. flight' = [flight EXCEPT ![a] = f]
  BY <1>3
<1> HIDE DEF f
<1>6. flight' \in [Account -> FlightType]
  BY <1>1, <1>4, <1>5
<1> QED
  BY <1>1, <1>2, <1>3, <1>6, AllKeep DEF PassInv

\* Everybody who waits has the answer.
LEMMA QuestionLands ==
    ASSUME P!PassphraseAssumption, PassInv, NEW a \in Account, P!Lands(a)
    PROVE  PassInv'
<1>1. flight \in [Account -> FlightType] /\ kept \in KeptType /\ typed \in 0..MaxTyped
      /\ oper \in [Operation -> OperType]
  BY PassTypes DEF PassInv
<1>2. PICK f : f = flight[a]
  OBVIOUS
<1> DEFINE said == IF f.answer = None THEN P!Cancelled ELSE f.answer
           AfterIt(o) == [oper[o] EXCEPT !.at = "answered", !.asked = f.asked, !.got = said]
<1>3. /\ f # None /\ oper[f.by].at = "asking"
      /\ oper' = [o \in Operation |->
              IF o = f.by \/ o \in P!Waiting(a) THEN AfterIt(o) ELSE oper[o]]
      /\ flight' = [flight EXCEPT ![a] = None]
      /\ UNCHANGED <<remember, typed, generation, kept, cancelling>>
  BY <1>2 DEF P!Lands
<1>4. f.asked \in 0..MaxForgets /\ said \in P!Typed \cup {P!Cancelled} /\ said # None
  <2>1. f \in FlightType
    BY <1>1, <1>2
  <2>2. f.asked \in 0..MaxForgets /\ f.answer \in P!Typed \cup {None, P!Cancelled}
    BY <1>3, <2>1 DEF FlightType
  <2> QED
    BY <2>2, PassConstants
<1> HIDE DEF said
<1>5. ASSUME NEW o \in Operation, o = f.by \/ o \in P!Waiting(a)
      PROVE  AfterIt(o) \in OperType /\ Spent(AfterIt(o), generation)
  <2>1. oper[o] \in OperType /\ Spent(oper[o], generation) /\ oper[o].at \in {"asking", "waiting"}
    BY <1>1, <1>3, <1>5 DEF P!Waiting, PassInv
  <2>2. AfterIt(o) \in OperType
    BY <1>4, <2>1 DEF OperType, P!Places
  <2> DEFINE r == AfterIt(o)
             x == oper[o]
  <2>3. /\ r.at = "answered" /\ r.seen = x.seen /\ r.forgotten = x.forgotten
        /\ r.questions = x.questions /\ r.held = x.held /\ r.rejected = x.rejected
        /\ r.got = said
    BY <2>1 DEF OperType
  <2>4. x.seen \in Nat /\ x.questions \in Nat /\ x.rejected \in Nat
    BY <2>1, PassConstants DEF OperType
  <2> HIDE DEF r, x
  <2>5. x.questions <= 1 + x.rejected + x.seen /\ Spent(x, generation)
    BY <2>1, <2>4 DEF Spent, x
  <2>6. Spent(r, generation)
    BY <1>4, <2>3, <2>4, <2>5 DEF Spent
  <2> QED
    BY <2>2, <2>6 DEF r
<1> HIDE DEF AfterIt
<1>6. oper' \in [Operation -> OperType] /\ \A o \in Operation : Spent(oper'[o], generation)
  BY <1>1, <1>3, <1>5 DEF PassInv
<1>7. flight' \in [Account -> FlightType]
  BY <1>1, <1>3 DEF FlightType
<1> QED
  BY <1>1, <1>3, <1>6, <1>7, AllKeep

\* An operation is given up, and those who waited for its question ask anew.
LEMMA OperationGivesUp ==
    ASSUME P!PassphraseAssumption, PassInv, NEW o \in Operation, P!GivenUp(o)
    PROVE  PassInv'
<1>1. flight \in [Account -> FlightType] /\ kept \in KeptType /\ typed \in 0..MaxTyped
      /\ oper \in [Operation -> OperType]
  BY PassTypes DEF PassInv
<1> DEFINE r == [oper[o] EXCEPT !.at = "done", !.held = None, !.got = None]
           AfterIt(p) == [oper[p] EXCEPT !.at = "ask"]
           Asker(p) == oper[o].at = "asking" /\ p \in P!Waiting(P!Of(o))
<1>2. /\ flight' = [a \in Account |-> P!Landing(o, a)]
      /\ oper' = [p \in Operation |->
            IF p = o THEN r ELSE IF Asker(p) THEN AfterIt(p) ELSE oper[p]]
      /\ UNCHANGED <<remember, typed, generation, kept, cancelling>>
  BY DEF P!GivenUp
<1>3. r \in OperType /\ Spent(r, generation)
  BY DoneSpends
<1> HIDE DEF r
<1>4. ASSUME NEW p \in Operation, Asker(p)
      PROVE  AfterIt(p) \in OperType /\ Spent(AfterIt(p), generation)
  <2>1. oper[p] \in OperType /\ Spent(oper[p], generation) /\ oper[p].at = "waiting"
    BY <1>1, <1>4 DEF P!Waiting, PassInv
  <2>2. AfterIt(p) \in OperType
    BY <2>1 DEF OperType, P!Places
  <2> DEFINE y == AfterIt(p)
             x == oper[p]
  <2>3. /\ y.at = "ask" /\ y.seen = x.seen /\ y.forgotten = x.forgotten
        /\ y.questions = x.questions /\ y.held = x.held /\ y.rejected = x.rejected
    BY <2>1 DEF OperType
  <2> HIDE DEF y
  <2>4. Spent(y, generation)
    BY <2>1, <2>3 DEF Spent
  <2> QED
    BY <2>2, <2>4 DEF y
<1> HIDE DEF AfterIt, Asker
<1>5. oper' \in [Operation -> OperType] /\ \A p \in Operation : Spent(oper'[p], generation)
  BY <1>1, <1>2, <1>3, <1>4 DEF PassInv
<1>6. flight' \in [Account -> FlightType]
  BY <1>1, <1>2 DEF FlightType, P!Landing
<1> QED
  BY <1>1, <1>2, <1>5, <1>6, AllKeep

\* Everything is forgotten, its first half: every operation may ask once more.
LEMMA Forgets == ASSUME P!PassphraseAssumption, PassInv, P!Forget PROVE PassInv'
<1>1. flight \in [Account -> FlightType] /\ typed \in 0..MaxTyped
      /\ oper \in [Operation -> OperType] /\ generation \in 0..MaxForgets
      /\ remember \in BOOLEAN
  BY PassTypes DEF PassInv
<1> DEFINE AfterIt(o) == [oper[o] EXCEPT !.forgotten = @ + 1]
<1>2. /\ generation < MaxForgets /\ generation' = generation + 1
      /\ kept' = None /\ cancelling' = TRUE /\ oper' = [o \in Operation |-> AfterIt(o)]
      /\ UNCHANGED <<remember, typed, flight>>
  BY DEF P!Forget
<1>3. generation + 1 \in 0..MaxForgets
  BY <1>1, <1>2, PassConstants
<1>4. ASSUME NEW o \in Operation PROVE AfterIt(o) \in OperType /\ Spent(AfterIt(o), generation + 1)
  <2>1. oper[o] \in OperType /\ Spent(oper[o], generation)
    BY <1>1 DEF PassInv
  <2>2. oper[o].forgotten + 1 \in 0..MaxForgets
    BY <1>3, <2>1 DEF Spent
  <2>3. AfterIt(o) \in OperType
    BY <2>1, <2>2 DEF OperType
  <2> DEFINE y == AfterIt(o)
             x == oper[o]
  <2>4. /\ y.at = x.at /\ y.seen = x.seen /\ y.forgotten = x.forgotten + 1
        /\ y.questions = x.questions /\ y.held = x.held /\ y.rejected = x.rejected
        /\ y.got = x.got
    BY <2>1 DEF OperType
  <2>5. x.seen \in Nat /\ x.questions \in Nat /\ x.rejected \in Nat /\ generation \in Nat
        /\ Spent(x, generation)
    BY <1>1, <2>1, PassConstants DEF OperType
  <2> HIDE DEF y, x
  <2>6. Spent(y, generation + 1)
    BY <2>4, <2>5 DEF Spent
  <2> QED
    BY <2>3, <2>6 DEF y
<1> HIDE DEF AfterIt
<1>5. oper' \in [Operation -> OperType] /\ \A o \in Operation : Spent(oper'[o], generation')
  BY <1>2, <1>4
<1>6. P!TypeOK'
  BY <1>1, <1>2, <1>3, <1>5, PassTypesNext DEF KeptType
<1> QED
  BY <1>5, <1>6 DEF PassInv

\* Its second half, and the end of what is kept.
LEMMA CancelsOrExpires ==
    ASSUME P!PassphraseAssumption, PassInv, P!CancelAll \/ P!Expires
    PROVE  PassInv'
<1>1. flight \in [Account -> FlightType] /\ typed \in 0..MaxTyped /\ kept \in KeptType
      /\ oper \in [Operation -> OperType] /\ generation \in 0..MaxForgets
      /\ remember \in BOOLEAN /\ cancelling \in BOOLEAN
  BY PassTypes DEF PassInv
<1>2. oper' = oper /\ generation' = generation /\ typed' = typed /\ remember' = remember
      /\ cancelling' \in BOOLEAN /\ kept' \in KeptType
  BY <1>1 DEF P!CancelAll, P!Expires, KeptType
<1>3. flight' \in [Account -> FlightType]
  <2>1. CASE P!Expires
    BY <1>1, <2>1 DEF P!Expires
  <2>2. CASE P!CancelAll
    <3>1. ASSUME NEW a \in Account PROVE flight'[a] \in FlightType
      <4>1. flight[a] \in FlightType
        BY <1>1
      <4>2. flight[a] # None => [flight[a] EXCEPT !.answer = P!Cancelled] \in FlightType
        BY <4>1 DEF FlightType
      <4> QED
        BY <2>2, <4>1, <4>2 DEF P!CancelAll
    <3> QED
      BY <2>2, <3>1 DEF P!CancelAll
  <2> QED
    BY <2>1, <2>2
<1>4. P!TypeOK'
  BY <1>1, <1>2, <1>3, PassTypesNext
<1> QED
  BY <1>2, <1>4 DEF PassInv

\* Every step keeps the invariant.
LEMMA PassNext == ASSUME P!PassphraseAssumption, PassInv, [P!Next]_P!vars PROVE PassInv'
<1>1. CASE \E o \in Operation : P!Begin(o) \/ P!ReadsGeneration(o) \/ P!HeldOne(o) \/ P!KeptOne(o)
             \/ P!Joins(o) \/ P!CallsAgain(o)
  BY <1>1, Quietly
<1>2. CASE \E o \in Operation : P!KeptNone(o)
  BY <1>2, HasNone
<1>3. CASE \E o \in Operation : P!Asks(o)
  BY <1>3, AsksOne
<1>4. CASE \E o \in Operation : P!Receives(o)
  BY <1>4, ReceivesOne
<1>5. CASE \E o \in Operation : P!Rejects(o)
  BY <1>5, RejectsOne
<1>6. CASE \E o \in Operation : P!Ends(o) \/ P!Refused(o)
  BY <1>6, EndsOne
<1>7. CASE \E o \in Operation : P!GivenUp(o)
  BY <1>7, OperationGivesUp
<1>8. CASE \E a \in Account : P!Answer(a) \/ P!Lands(a)
  BY <1>8, UserAnswers, QuestionLands
<1>9. CASE P!Forget
  BY <1>9, Forgets
<1>10. CASE P!CancelAll \/ P!Expires
  BY <1>10, CancelsOrExpires
<1>11. CASE UNCHANGED P!vars
  BY <1>11 DEF PassInv, P!TypeOK, P!vars
<1> QED
  BY <1>1, <1>2, <1>3, <1>4, <1>5, <1>6, <1>7, <1>8, <1>9, <1>10, <1>11 DEF P!Next, P!Obtains

\* However many operations ask, join, are rejected or given up, and whenever
\* everything is forgotten: an operation asks for the passphrase once, and once
\* more for each that was rejected and each forgetting (obtain, PromptHub::ask).
THEOREM AlwaysAskedOnce == ASSUME P!PassphraseAssumption PROVE P!Spec => []P!AtMostOnce
<1>1. PassInv => P!AtMostOnce
  <2> SUFFICES ASSUME PassInv, NEW o \in Operation
               PROVE  oper[o].questions <= 1 + oper[o].rejected + oper[o].forgotten
    BY DEF P!AtMostOnce
  <2>1. Spent(oper[o], generation)
    BY DEF PassInv
  <2> QED
    BY <2>1 DEF Spent
<1>2. P!Init => PassInv
  BY PassInit
<1>3. PassInv /\ [P!Next]_P!vars => PassInv'
  BY PassNext
<1> QED
  BY <1>1, <1>2, <1>3, PTL DEF P!Spec

-----------------------------------------------------------------------------
(* A forwarded connection.                                                 *)

\* How often a message is in a queue.
Times(v, s) == Cardinality({i \in 1..Len(s) : s[i] = v})

\* It is counted among finitely many.
LEMMA TimesNat == ASSUME NEW X, NEW s \in Seq(X), NEW v
                  PROVE  /\ IsFiniteSet({i \in 1..Len(s) : s[i] = v})
                         /\ Times(v, s) \in Nat
<1>1. IsFiniteSet(1..Len(s))
  BY FS_Interval
<1>2. IsFiniteSet({i \in 1..Len(s) : s[i] = v})
  BY <1>1, FS_Subset
<1> QED
  BY <1>2, FS_CardinalityType DEF Times

\* None is in a queue without it.
LEMMA TimesZero ==
    ASSUME NEW X, NEW s \in Seq(X), NEW v, \A i \in 1..Len(s) : s[i] # v
    PROVE  Times(v, s) = 0
<1>1. {i \in 1..Len(s) : s[i] = v} = {}
  OBVIOUS
<1> QED
  BY <1>1, FS_EmptySet DEF Times

\* A queue's last message counts once more.
LEMMA TimesAppend ==
    ASSUME NEW X, NEW s \in Seq(X), NEW v, NEW x \in X
    PROVE  /\ x = v => Times(v, Append(s, x)) = Times(v, s) + 1
           /\ x # v => Times(v, Append(s, x)) = Times(v, s)
<1> DEFINE t == Append(s, x)
           A == {i \in 1..Len(s) : s[i] = v}
           B == {i \in 1..Len(t) : t[i] = v}
<1>1. Len(t) = Len(s) + 1 /\ Len(s) \in Nat /\ t[Len(s) + 1] = x
      /\ \A i \in 1..Len(s) : t[i] = s[i]
  OBVIOUS
<1> HIDE DEF t
<1>2. B = A \cup (IF x = v THEN {Len(s) + 1} ELSE {})
  BY <1>1
<1>3. IsFiniteSet(A) /\ Len(s) + 1 \notin A /\ Cardinality(A) \in Nat
  <2>1. IsFiniteSet(A)
    BY TimesNat
  <2>2. Cardinality(A) \in Nat
    BY <2>1, FS_CardinalityType
  <2>3. Len(s) + 1 \notin A
    BY <1>1
  <2> QED
    BY <2>1, <2>2, <2>3
<1>4. Cardinality(A \cup {Len(s) + 1}) = Cardinality(A) + 1
  BY <1>3, FS_AddElement
<1>5. CASE x = v
  BY <1>2, <1>4, <1>5 DEF Times, t
<1>6. CASE x # v
  <2>1. B = A
    BY <1>2, <1>6
  <2>2. Times(v, Append(s, x)) = Cardinality(B) /\ Times(v, s) = Cardinality(A)
    BY DEF Times, t
  <2> HIDE DEF A, B
  <2> QED
    BY <1>3, <1>6, <2>1, <2>2
<1> QED
  BY <1>5, <1>6

\* Its first one counts once less.
LEMMA TimesTail ==
    ASSUME NEW X, NEW s \in Seq(X), NEW v, s # <<>>
    PROVE  /\ Head(s) = v => Times(v, s) = Times(v, Tail(s)) + 1
           /\ Head(s) # v => Times(v, s) = Times(v, Tail(s))
<1> DEFINE t == Tail(s)
           A == {i \in 1..Len(t) : t[i] = v}
           B == {i \in 1..Len(s) : s[i] = v}
           C == B \ {1}
           f == [i \in A |-> i + 1]
<1>1. Len(s) \in Nat /\ Len(s) # 0 /\ Len(t) = Len(s) - 1 /\ Head(s) = s[1]
      /\ \A i \in 1..Len(t) : t[i] = s[i + 1]
  OBVIOUS
<1>2. t \in Seq(X)
  OBVIOUS
<1> HIDE DEF t
<1>3. IsFiniteSet(A) /\ IsFiniteSet(B) /\ Cardinality(A) \in Nat /\ Cardinality(B) \in Nat
  BY <1>2, TimesNat, FS_CardinalityType
<1>4. f \in Bijection(A, C)
  <2>1. \A i \in A : i + 1 \in C
    BY <1>1
  <2>2. \A j \in C : j - 1 \in A /\ j = (j - 1) + 1
    BY <1>1
  <2>3. f \in [A -> C] /\ \A i \in A : f[i] = i + 1
    BY <2>1
  <2>4. \A j \in C : \E i \in A : f[i] = j
    BY <2>2, <2>3
  <2>5. \A i, j \in A : f[i] = f[j] => i = j
    BY <2>3
  <2> HIDE DEF f, A, C
  <2> QED
    BY <2>3, <2>4, <2>5 DEF Bijection, Injection, Surjection, IsInjective
<1>5. Cardinality(C) = Cardinality(A)
  BY <1>3, <1>4, FS_Bijection DEF ExistsBijection
<1>6. Cardinality(C) = IF 1 \in B THEN Cardinality(B) - 1 ELSE Cardinality(B)
  BY <1>3, FS_RemoveElement
<1>7. 1 \in B <=> Head(s) = v
  BY <1>1
<1>8. Times(v, s) = Cardinality(B) /\ Times(v, Tail(s)) = Cardinality(A)
  BY DEF Times, t
<1> HIDE DEF A, B, C
<1> QED
  BY <1>3, <1>5, <1>6, <1>7, <1>8

Data == [to |-> "forward", is |-> "data"]
Eof == [to |-> "forward", is |-> "eof"]
EitherSent == {Data, Eof}

\* What the application sent is somewhere on its way, and once it has ended
\* nothing follows its end of file.
UpWhole ==
    /\ ended["app"] => left["app"] = 0
    /\ up \in {"eof", "done"} => left["app"] = 0 /\ toRelay = 0
    /\ \A i \in 1..Len(queue) : queue[i] = "eof" => up = "done" /\ i = Len(queue)
    /\ told["remote"] => up = "done" /\ queue = <<>>
    /\ sends["app"] =
          left["app"] + toRelay + (IF up = "write" THEN 1 ELSE 0) + Times("data", queue)
            + received + got["remote"]

\* Nothing of the forward is in the queue w.
Without(w) == \A i \in 1..Len(w) : w[i] \notin EitherSent

\* In the queue w the forward's messages are in order, its end of file last; it
\* has one only when the remote end has ended.
Ordered(w, over) ==
    \A i \in 1..Len(w) :
        /\ w[i].to = "forward" /\ w[i].is # "adjust" => w[i] \in EitherSent
        /\ w[i] = Eof => over /\ \A j \in 1..Len(w) : w[j] \in EitherSent => j <= i

\* An end of file is the last in the buffer b.
EndsLast(b) ==
    \A i \in 1..Len(b) : b[i] \in {"data", "eof"} /\ (b[i] = "eof" => i = Len(b))

\* From the wire w, by the message h in hand, to the buffer b the forward's
\* messages keep their order: no data follows the end; l is what the remote end has
\* left, e whether it ended, t whether the application was told, d the relay.
Turn(l, e, w, h, b, t, d) ==
    /\ e => l = 0
    /\ Ordered(w, e)
    /\ h.to = "forward" => h \in EitherSent
    /\ h = Eof => e /\ Without(w)
    /\ EndsLast(b)
    /\ \A i \in 1..Len(b) : b[i] = "eof" => e /\ h \notin EitherSent /\ Without(w)
    /\ t => e /\ b = <<>> /\ h \notin EitherSent /\ Without(w)
    /\ t <=> d = "done"

InTurn ==
    Turn(left["remote"], ended["remote"], wire, hand, buffer["forward"], told["app"], down)

\* What the remote end sent is somewhere on its way.
Along(l, w, h, b, d, a, g) ==
    l + Times(Data, w) + (IF h = Data THEN 1 ELSE 0) + Times("data", b)
      + (IF d = "write" THEN 1 ELSE 0) + a + g

DownSum ==
    sends["remote"] =
        Along(left["remote"], wire, hand, buffer["forward"], down, toApp, got["app"])

RelayInv ==
    /\ R!TypeOK
    /\ hand # R!Nothing => hand.is # "adjust"
    /\ ~R!Early => UpWhole /\ InTurn /\ DownSum

\* Taking the first message off keeps the order of the rest.
LEMMA TailOrdered ==
    ASSUME NEW w \in Seq(R!Message), NEW over \in BOOLEAN, w # <<>>, Ordered(w, over)
    PROVE  /\ Ordered(Tail(w), over) /\ Head(w) \in R!Message
           /\ Without(w) => Without(Tail(w)) /\ Head(w) \notin EitherSent
           /\ Head(w) = Eof => over /\ Without(Tail(w))
           /\ Head(w).to = "forward" /\ Head(w).is # "adjust" => Head(w) \in EitherSent
<1> DEFINE t == Tail(w)
<1>1. Len(w) \in Nat /\ Len(w) # 0 /\ Len(t) = Len(w) - 1 /\ Head(w) = w[1]
      /\ 1 \in 1..Len(w) /\ w[1] \in R!Message
      /\ \A i \in 1..Len(t) : t[i] = w[i + 1] /\ i + 1 \in 1..Len(w)
  OBVIOUS
<1> HIDE DEF t
<1>2. Ordered(t, over)
  <2> SUFFICES ASSUME NEW i \in 1..Len(t)
               PROVE  /\ t[i].to = "forward" /\ t[i].is # "adjust" => t[i] \in EitherSent
                      /\ t[i] = Eof => over /\ \A j \in 1..Len(t) : t[j] \in EitherSent => j <= i
    BY DEF Ordered
  <2>1. t[i] = w[i + 1] /\ i + 1 \in 1..Len(w)
    BY <1>1
  <2>2. ASSUME t[i] = Eof, NEW j \in 1..Len(t), t[j] \in EitherSent PROVE j <= i
    <3>1. j + 1 <= i + 1
      BY <1>1, <2>1, <2>2 DEF Ordered
    <3> QED
      BY <1>1, <3>1
  <2> QED
    BY <2>1, <2>2 DEF Ordered
<1>3. Without(w) => Without(t) /\ w[1] \notin EitherSent
  BY <1>1 DEF Without
<1>4. w[1] = Eof => over /\ Without(t)
  <2> SUFFICES ASSUME w[1] = Eof, NEW i \in 1..Len(t), t[i] \in EitherSent PROVE over /\ FALSE
    BY <1>1 DEF Without, Ordered
  <2>1. i + 1 <= 1
    BY <1>1 DEF Ordered
  <2> QED
    BY <1>1, <2>1
<1> QED
  BY <1>1, <1>2, <1>3, <1>4 DEF t, Ordered

\* So does adding one that is none of the forward's, or its next before the end.
LEMMA AppendOrdered ==
    ASSUME NEW w \in Seq(R!Message), NEW over \in BOOLEAN, NEW x \in R!Message, Ordered(w, over)
    PROVE  /\ x.to = "shell" \/ x.is = "adjust" =>
                 /\ Ordered(Append(w, x), over)
                 /\ Without(w) => Without(Append(w, x))
           /\ ~over /\ x = Data => Ordered(Append(w, x), FALSE)
           /\ ~over /\ x = Eof => Ordered(Append(w, x), TRUE)
<1> DEFINE t == Append(w, x)
<1>1. Len(w) \in Nat /\ Len(t) = Len(w) + 1 /\ t[Len(w) + 1] = x
      /\ \A i \in 1..Len(w) : t[i] = w[i]
  OBVIOUS
<1> HIDE DEF t
<1>2. ASSUME x.to = "shell" \/ x.is = "adjust"
      PROVE  Ordered(t, over) /\ (Without(w) => Without(t))
  <2>1. x \notin EitherSent
    BY <1>2 DEF EitherSent, Data, Eof
  <2>2. ASSUME NEW i \in 1..Len(t)
        PROVE  /\ t[i].to = "forward" /\ t[i].is # "adjust" => t[i] \in EitherSent
               /\ t[i] = Eof => over /\ \A j \in 1..Len(t) : t[j] \in EitherSent => j <= i
    <3>1. CASE i = Len(w) + 1
      BY <1>1, <1>2, <2>1, <3>1 DEF EitherSent
    <3>2. CASE i \in 1..Len(w)
      <4>1. \A j \in 1..Len(t) : t[j] \in EitherSent => j \in 1..Len(w) /\ w[j] \in EitherSent
        BY <1>1, <2>1
      <4> QED
        BY <1>1, <3>2, <4>1 DEF Ordered
    <3> QED
      BY <1>1, <3>1, <3>2
  <2>3. Without(w) => Without(t)
    BY <1>1, <2>1 DEF Without
  <2> QED
    BY <2>2, <2>3 DEF Ordered
<1>3. ASSUME ~over, x \in EitherSent PROVE Ordered(t, x = Eof)
  <2>1. \A i \in 1..Len(w) : w[i] # Eof
    BY <1>3 DEF Ordered
  <2>2. ASSUME NEW i \in 1..Len(t)
        PROVE  /\ t[i].to = "forward" /\ t[i].is # "adjust" => t[i] \in EitherSent
               /\ t[i] = Eof => (x = Eof) /\ \A j \in 1..Len(t) : t[j] \in EitherSent => j <= i
    <3>1. CASE i = Len(w) + 1
      BY <1>1, <1>3, <3>1
    <3>2. CASE i \in 1..Len(w)
      BY <1>1, <2>1, <3>2 DEF Ordered
    <3> QED
      BY <1>1, <3>1, <3>2
  <2> QED
    BY <2>2 DEF Ordered
<1>4. Data # Eof /\ Data \in EitherSent /\ Eof \in EitherSent
  BY DEF Data, Eof, EitherSent
<1>5. ~over /\ x = Data => Ordered(t, FALSE)
  <2> SUFFICES ASSUME ~over, x = Data PROVE Ordered(t, FALSE)
    OBVIOUS
  <2>1. Ordered(t, x = Eof) /\ (x = Eof) = FALSE
    BY <1>3, <1>4
  <2> QED
    BY <2>1
<1>6. ~over /\ x = Eof => Ordered(t, TRUE)
  <2> SUFFICES ASSUME ~over, x = Eof PROVE Ordered(t, TRUE)
    OBVIOUS
  <2>1. Ordered(t, x = Eof) /\ (x = Eof) = TRUE
    BY <1>3, <1>4
  <2> QED
    BY <2>1
<1> QED
  BY <1>2, <1>5, <1>6 DEF t

Pieces == {"data", "eof", "close"}

\* The variables one by one.
LEMMA RelayTypes ==
    ASSUME R!TypeOK
    PROVE  /\ sends \in [R!Ends -> Nat] /\ left \in [R!Ends -> Nat] /\ got \in [R!Ends -> Nat]
           /\ ended \in [R!Ends -> BOOLEAN] /\ told \in [R!Ends -> BOOLEAN]
           /\ gone \in [R!Ends -> BOOLEAN]
           /\ toRelay \in Nat /\ toApp \in Nat /\ received \in Nat
           /\ queue \in Seq({"data", "eof"}) /\ wire \in Seq(R!Message)
           /\ hand \in R!Message \cup {R!Nothing} /\ buffer \in [R!Channels -> Seq(Pieces)]
           /\ buffer["forward"] \in Seq(Pieces)
           /\ "app" \in R!Ends /\ "remote" \in R!Ends /\ "shell" \in R!Ends
<1>1. toRelay \in Nat /\ toApp \in Nat
  BY ConnectionAssumption DEF R!TypeOK, R!RelayAssumption
<1> QED
  BY <1>1 DEF R!TypeOK, R!Ends, Pieces, R!Channels

\* The invariant holds at the start.
LEMMA RelayInit == ASSUME R!Init PROVE RelayInv
<1>1. R!TypeOK
  <2>1. sends \in [R!Ends -> Nat]
    <3>1. PICK a \in 0..MaxChunks, r \in 0..MaxChunks :
            sends = [e \in R!Ends |-> CASE e = "app" -> a [] e = "remote" -> r
                                      [] OTHER -> ShellChunks]
      BY DEF R!Init
    <3>2. a \in Nat /\ r \in Nat /\ ShellChunks \in Nat
      BY ConnectionAssumption DEF R!RelayAssumption
    <3> QED
      BY <3>1, <3>2
  <2>2. Window \in Nat /\ Socket \in Nat /\ Queue \in Nat /\ Buffer \in Nat
    BY ConnectionAssumption DEF R!RelayAssumption
  <2> QED
    BY <2>1, <2>2 DEF R!Init, R!TypeOK
<1>2. R!Nothing \notin EitherSent /\ R!Nothing.to # "forward" /\ R!Nothing # Data
  BY DEF R!Nothing, EitherSent, Data, Eof
<1>3. Times("data", <<>>) = 0 /\ Times(Data, <<>>) = 0
  <2>1. <<>> \in Seq({"data"}) /\ \A v : \A i \in 1..Len(<<>>) : <<>>[i] # v
    OBVIOUS
  <2> QED
    BY <2>1, TimesZero
<1>4. UpWhole
  BY <1>1, <1>3, RelayTypes DEF R!Init, UpWhole
<1>5. InTurn
  <2>1. /\ wire = <<>> /\ hand = R!Nothing /\ down = "read"
        /\ buffer["forward"] = <<>> /\ ~ended["remote"] /\ ~told["app"]
    BY DEF R!Init, R!Channels, R!Ends
  <2>2. Ordered(<<>>, ended["remote"]) /\ EndsLast(<<>>)
    BY DEF Ordered, EndsLast
  <2>3. hand.to # "forward" /\ hand # Eof
    BY <1>2, <2>1 DEF EitherSent
  <2> QED
    BY <2>1, <2>2, <2>3 DEF InTurn, Turn
<1>6. DownSum
  BY <1>1, <1>2, <1>3, RelayTypes DEF R!Init, DownSum, Along, R!Channels, R!Ends
<1> QED
  BY <1>1, <1>4, <1>5, <1>6 DEF RelayInv, R!Init

\* What a step away from the application's data leaves of it.
LEMMA UpStays ==
    ASSUME UpWhole, UNCHANGED <<sends, toRelay, up, queue, received>>,
           left'["app"] = left["app"], got'["remote"] = got["remote"],
           ended'["app"] = ended["app"], told'["remote"] = told["remote"]
    PROVE  UpWhole'
BY DEF UpWhole, Times

\* And one away from the remote end's.
LEMMA DownStays ==
    ASSUME InTurn, DownSum, UNCHANGED <<sends, toApp, wire, hand>>, down' = down,
           buffer'["forward"] = buffer["forward"],
           left'["remote"] = left["remote"], got'["app"] = got["app"],
           ended'["remote"] = ended["remote"], told'["app"] = told["app"]
    PROVE  InTurn' /\ DownSum'
BY DEF InTurn, DownSum, Turn, Along, Times, Ordered, Without, EndsLast

\* A relay that got nothing from the end has not ended.
LEMMA NotOver ==
    ASSUME RelayInv, ~R!Early, hand \in EitherSent \/ ~Without(wire)
    PROVE  down # "done" /\ ~told["app"] /\ ~R!Dropped("forward")
           /\ \A i \in 1..Len(buffer["forward"]) : buffer["forward"][i] = "data"
BY DEF RelayInv, InTurn, Turn, R!Dropped, R!Over, EndsLast

\* What the session loop hands over.
LEMMA PutTyped ==
    ASSUME R!TypeOK, NEW m \in R!Message, m.is # "adjust", R!Put(m), R!Room(m.to)
    PROVE  buffer' \in [R!Channels -> Seq(Pieces)] /\ \A c \in R!Channels : Len(buffer'[c]) <= Buffer
<1>1. m.to \in R!Channels /\ m.is \in Pieces
  BY DEF R!Message, Pieces
<1>2. /\ buffer \in [R!Channels -> Seq(Pieces)] /\ Buffer \in Nat
      /\ \A c \in R!Channels : Len(buffer[c]) <= Buffer
  BY ConnectionAssumption, RelayTypes DEF R!TypeOK, R!RelayAssumption
<1>3. CASE R!Dropped(m.to)
  BY <1>2, <1>3 DEF R!Put
<1>4. CASE ~R!Dropped(m.to)
  <2>1. /\ buffer' = [buffer EXCEPT ![m.to] = Append(@, m.is)]
        /\ Len(buffer[m.to]) < Buffer
    BY <1>4 DEF R!Put, R!Room
  <2>2. /\ Append(buffer[m.to], m.is) \in Seq(Pieces)
        /\ Len(Append(buffer[m.to], m.is)) = Len(buffer[m.to]) + 1
        /\ Len(buffer[m.to]) \in Nat
    BY <1>1, <1>2
  <2> QED
    BY <1>1, <1>2, <2>1, <2>2
<1> QED
  BY <1>3, <1>4

\* A count of one end goes up or down by one.
LEMMA Counting ==
    ASSUME NEW f \in [R!Ends -> Nat], NEW e \in R!Ends
    PROVE  /\ [f EXCEPT ![e] = @ + 1] \in [R!Ends -> Nat]
           /\ f[e] > 0 => [f EXCEPT ![e] = @ - 1] \in [R!Ends -> Nat]
<1>1. f[e] \in Nat
  OBVIOUS
<1>2. f[e] + 1 \in Nat /\ (f[e] > 0 => f[e] - 1 \in Nat)
  BY <1>1
<1> QED
  BY <1>2

\* A place in a local socket is filled or freed.
LEMMA Socketed ==
    ASSUME NEW n \in 0..Socket
    PROVE  /\ n < Socket => n + 1 \in 0..Socket
           /\ n > 0 => n - 1 \in 0..Socket
<1>1. Socket \in Nat
  BY ConnectionAssumption DEF R!RelayAssumption
<1> QED
  BY <1>1

\* Every step keeps the types.
LEMMA RelayTyped ==
    ASSUME RelayInv, R!Next
    PROVE  R!TypeOK' /\ (hand' # R!Nothing => hand'.is # "adjust")
<1> USE RelayTypes DEF RelayInv
<1>0. /\ Window \in Nat /\ Socket \in Nat /\ Queue \in Nat /\ Buffer \in Nat
  BY ConnectionAssumption DEF R!RelayAssumption
<1>1. CASE R!AppStep \/ R!AppGoes
  <2>1. UNCHANGED <<form, sends, up, down, window, queue, wire, hand, buffer, received, told>>
    BY <1>1 DEF R!AppStep, R!AppWrites, R!AppEnds, R!AppReads, R!AppGoes, R!loop, R!relay
  <2>2. toRelay' \in 0..Socket /\ toApp' \in 0..Socket
    BY <1>1, Socketed DEF R!AppStep, R!AppWrites, R!AppEnds, R!AppReads, R!AppGoes, R!local,
       R!TypeOK
  <2>3. left' \in [R!Ends -> Nat]
    <3>1. \/ left' = left
          \/ left["app"] > 0 /\ left' = [left EXCEPT !["app"] = @ - 1]
      BY <1>1 DEF R!AppStep, R!AppWrites, R!AppEnds, R!AppReads, R!AppGoes
    <3>2. left["app"] > 0 => [left EXCEPT !["app"] = @ - 1] \in [R!Ends -> Nat]
      BY Counting
    <3> QED
      BY <3>1, <3>2
  <2>4. got' \in [R!Ends -> Nat]
    <3>1. got' = got \/ got' = [got EXCEPT !["app"] = @ + 1]
      BY <1>1 DEF R!AppStep, R!AppWrites, R!AppEnds, R!AppReads, R!AppGoes
    <3>2. [got EXCEPT !["app"] = @ + 1] \in [R!Ends -> Nat]
      BY Counting
    <3> QED
      BY <3>1, <3>2
  <2>5. ended' \in [R!Ends -> BOOLEAN] /\ gone' \in [R!Ends -> BOOLEAN]
    BY <1>1 DEF R!AppStep, R!AppWrites, R!AppEnds, R!AppReads, R!AppGoes
  <2> QED
    BY <2>1, <2>2, <2>3, <2>4, <2>5 DEF R!TypeOK
<1>2. CASE R!UpReads \/ R!UpEnds \/ R!DownWrites \/ R!DownFails
  <2>1. UNCHANGED <<form, sends, left, got, ended, told, gone, window, queue, wire, hand, buffer,
                    received>>
    BY <1>2 DEF R!UpReads, R!UpEnds, R!DownWrites, R!DownFails, R!loop, R!ends
  <2>2. toRelay' \in 0..Socket /\ toApp' \in 0..Socket
    BY <1>2, Socketed DEF R!UpReads, R!UpEnds, R!DownWrites, R!DownFails, R!local, R!TypeOK
  <2>3. up' \in {"read", "write", "eof", "done"} /\ down' \in {"read", "write", "done"}
    BY <1>2 DEF R!UpReads, R!UpEnds, R!DownWrites, R!DownFails, R!TypeOK
  <2> QED
    BY <2>1, <2>2, <2>3 DEF R!TypeOK
<1>3. CASE R!UpWrites \/ R!UpSaysEnd
  <2>1. PICK x \in {"data", "eof"} : queue' = Append(queue, x)
    BY <1>3 DEF R!UpWrites, R!UpSaysEnd
  <2>2. queue' \in Seq({"data", "eof"}) /\ Len(queue') = Len(queue) + 1 /\ Len(queue) \in Nat
    BY <2>1
  <2>3. Len(queue') <= Queue
    BY <1>0, <1>3, <2>2 DEF R!UpWrites, R!UpSaysEnd
  <2>4. window' \in Nat
    BY <1>3 DEF R!UpWrites, R!UpSaysEnd, R!TypeOK
  <2>5. UNCHANGED <<form, sends, left, got, ended, told, gone, toRelay, toApp, down, wire, hand,
                    buffer, received>> /\ up' \in {"read", "done"}
    BY <1>3 DEF R!UpWrites, R!UpSaysEnd, R!ends, R!local
  <2> QED
    BY <2>2, <2>3, <2>4, <2>5 DEF R!TypeOK
<1>4. CASE R!DownReads \/ R!DownEnds \/ R!ShellReads
  <2>1. PICK c \in R!Channels : buffer' = [buffer EXCEPT ![c] = Tail(@)] /\ buffer[c] # <<>>
    BY <1>4 DEF R!DownReads, R!DownEnds, R!ShellReads, R!Taken, R!Channels
  <2>2. /\ Tail(buffer[c]) \in Seq(Pieces) /\ Len(buffer[c]) \in Nat
        /\ Len(Tail(buffer[c])) = Len(buffer[c]) - 1
    BY <2>1
  <2>3. buffer' \in [R!Channels -> Seq(Pieces)] /\ \A d \in R!Channels : Len(buffer'[d]) <= Buffer
    <3>1. \A d \in R!Channels : Len(buffer[d]) <= Buffer
      BY DEF R!TypeOK
    <3>2. Len(Tail(buffer[c])) <= Buffer
      BY <1>0, <2>1, <2>2, <3>1
    <3>3. \A d \in R!Channels : buffer'[d] = IF d = c THEN Tail(buffer[c]) ELSE buffer[d]
      BY <2>1
    <3>4. buffer' \in [R!Channels -> Seq(Pieces)]
      BY <2>1, <2>2
    <3> QED
      BY <3>1, <3>2, <3>3, <3>4
  <2>4. /\ UNCHANGED <<form, sends, left, ended, gone, toRelay, toApp, up, window, queue, wire,
                       hand, received>>
        /\ down' \in {"read", "write", "done"}
    BY <1>4 DEF R!TypeOK, R!DownReads, R!DownEnds, R!ShellReads, R!ends, R!local, R!relay
  <2>5. told' \in [R!Ends -> BOOLEAN]
    BY <1>4 DEF R!DownReads, R!DownEnds, R!ShellReads, R!ends
  <2>6. got' \in [R!Ends -> Nat]
    <3>1. got' = got \/ got' = [got EXCEPT !["shell"] = @ + 1]
      BY <1>4 DEF R!DownReads, R!DownEnds, R!ShellReads, R!ends
    <3>2. [got EXCEPT !["shell"] = @ + 1] \in [R!Ends -> Nat]
      BY Counting
    <3> QED
      BY <3>1, <3>2
  <2> QED
    BY <2>3, <2>4, <2>5, <2>6 DEF R!TypeOK, Pieces
<1>5. CASE R!LoopSends
  <2>1. queue' \in Seq({"data", "eof"}) /\ Len(queue') <= Queue
    <3>1. queue # <<>> /\ queue' = Tail(queue)
      BY <1>5 DEF R!LoopSends
    <3>2. Tail(queue) \in Seq({"data", "eof"}) /\ Len(Tail(queue)) = Len(queue) - 1
          /\ Len(queue) \in Nat
      BY <3>1
    <3> QED
      BY <1>0, <3>1, <3>2 DEF R!TypeOK
  <2>2. UNCHANGED <<form, sends, left, got, ended, gone, toRelay, toApp, up, down, window, wire,
                    hand, buffer>>
    BY <1>5 DEF R!LoopSends, R!local, R!relay
  <2>3. received' \in {received, received + 1} /\ told' \in {told, [told EXCEPT !["remote"] = TRUE]}
    BY <1>5 DEF R!LoopSends
  <2>4. received' \in Nat
    BY <2>3
  <2>5. told' \in [R!Ends -> BOOLEAN]
    BY <2>3
  <2> QED
    BY <2>1, <2>2, <2>4, <2>5 DEF R!TypeOK
<1>6. CASE R!LoopAdjusts
  <2>1. UNCHANGED <<form, sends, left, got, ended, told, gone, toRelay, toApp, up, down, queue,
                    hand, buffer, received>>
    BY <1>6 DEF R!LoopAdjusts, R!ends, R!local, R!relay
  <2>2. window' \in Nat /\ wire' \in Seq(R!Message)
    BY <1>6 DEF R!LoopAdjusts, R!TypeOK
  <2> QED
    BY <2>1, <2>2 DEF R!TypeOK
<1>7. CASE R!LoopReceives
  <2>1. PICK m : m = Head(wire)
    OBVIOUS
  <2>2. m \in R!Message /\ wire' = Tail(wire) /\ Tail(wire) \in Seq(R!Message) /\ m.is # "adjust"
        /\ R!Offer(m)
    BY <1>7, <2>1 DEF R!LoopReceives
  <2>3. /\ hand' \in R!Message \cup {R!Nothing} /\ (hand' # R!Nothing => hand'.is # "adjust")
        /\ buffer' \in [R!Channels -> Seq(Pieces)]
        /\ \A c \in R!Channels : Len(buffer'[c]) <= Buffer
    <3>1. CASE R!Room(m.to)
      BY <1>7, <2>2, <3>1, PutTyped DEF R!Offer
    <3>2. CASE ~R!Room(m.to)
      BY <1>7, <2>2, <3>2 DEF R!Offer, R!TypeOK
    <3> QED
      BY <3>1, <3>2
  <2>4. UNCHANGED <<form, sends, left, got, ended, told, gone, toRelay, toApp, up, down, window,
                    queue, received>>
    BY <1>7 DEF R!LoopReceives, R!ends, R!local, R!relay
  <2> QED
    BY <2>2, <2>3, <2>4 DEF R!TypeOK, Pieces
<1>8. CASE R!LoopDelivers
  <2>1. hand \in R!Message /\ hand.is # "adjust" /\ R!Put(hand) /\ R!Room(hand.to) /\ hand' = R!Nothing
    BY <1>8 DEF R!LoopDelivers
  <2>2. buffer' \in [R!Channels -> Seq(Pieces)] /\ \A c \in R!Channels : Len(buffer'[c]) <= Buffer
    BY <2>1, PutTyped
  <2>3. UNCHANGED <<form, sends, left, got, ended, told, gone, toRelay, toApp, up, down, window,
                    queue, wire, received>>
    BY <1>8 DEF R!LoopDelivers, R!ends, R!local, R!relay
  <2> QED
    BY <2>1, <2>2, <2>3 DEF R!TypeOK, Pieces
<1>9. CASE R!ServerStep \/ R!RemoteReads \/ R!RemoteGoes \/ R!ServerSends("shell", "shell")
  <2>1. PICK x \in R!Message : wire' = Append(wire, x)
    BY <1>9 DEF R!ServerStep, R!ServerSends, R!RemoteEnds, R!RemoteReads, R!RemoteGoes, R!Says,
       R!Message,
       R!Channels
  <2>2. wire' \in Seq(R!Message)
    BY <2>1
  <2>3. UNCHANGED <<form, sends, told, toRelay, toApp, up, down, window, queue, hand, buffer>>
    BY <1>9 DEF R!ServerStep, R!ServerSends, R!RemoteEnds, R!RemoteReads, R!RemoteGoes, R!local,
       R!relay
  <2>4. left' \in [R!Ends -> Nat]
    <3>1. \/ left' = left
          \/ left["remote"] > 0 /\ left' = [left EXCEPT !["remote"] = @ - 1]
          \/ left["shell"] > 0 /\ left' = [left EXCEPT !["shell"] = @ - 1]
      BY <1>9 DEF R!ServerStep, R!ServerSends, R!RemoteEnds, R!RemoteReads, R!RemoteGoes
    <3>2. left["remote"] > 0 => [left EXCEPT !["remote"] = @ - 1] \in [R!Ends -> Nat]
      BY Counting
    <3>3. left["shell"] > 0 => [left EXCEPT !["shell"] = @ - 1] \in [R!Ends -> Nat]
      BY Counting
    <3> QED
      BY <3>1, <3>2, <3>3
  <2>5. got' \in [R!Ends -> Nat]
    <3>1. got' = got \/ got' = [got EXCEPT !["remote"] = @ + 1]
      BY <1>9 DEF R!ServerStep, R!ServerSends, R!RemoteEnds, R!RemoteReads, R!RemoteGoes
    <3>2. [got EXCEPT !["remote"] = @ + 1] \in [R!Ends -> Nat]
      BY Counting
    <3> QED
      BY <3>1, <3>2
  <2>7. received' \in Nat
    BY <1>9 DEF R!ServerStep, R!ServerSends, R!RemoteEnds, R!RemoteReads, R!RemoteGoes
  <2>6. ended' \in [R!Ends -> BOOLEAN] /\ gone' \in [R!Ends -> BOOLEAN]
    BY <1>9 DEF R!ServerStep, R!ServerSends, R!RemoteEnds, R!RemoteReads, R!RemoteGoes
  <2> QED
    BY <2>2, <2>3, <2>4, <2>5, <2>6, <2>7 DEF R!TypeOK
<1> QED
  BY <1>1, <1>2, <1>3, <1>4, <1>5, <1>6, <1>7, <1>8, <1>9
  DEF R!Next, R!UpStep, R!DownStep, R!LoopIn

\* A queue without its first message, and with one more.
LEMMA QueueAt ==
    ASSUME NEW X, NEW s \in Seq(X)
    PROVE  /\ Len(s) \in Nat
           /\ s # <<>> => /\ Head(s) = s[1] /\ Head(s) \in X /\ Tail(s) \in Seq(X)
                          /\ 1 \in 1..Len(s) /\ Len(Tail(s)) = Len(s) - 1
                          /\ \A i \in 1..Len(Tail(s)) : Tail(s)[i] = s[i + 1] /\ i + 1 \in 1..Len(s)
           /\ \A x \in X : /\ Append(s, x) \in Seq(X) /\ Len(Append(s, x)) = Len(s) + 1
                           /\ Append(s, x)[Len(s) + 1] = x
                           /\ \A i \in 1..Len(s) : Append(s, x)[i] = s[i]
OBVIOUS

\* The counts are numbers.
LEMMA TimesTyped ==
    ASSUME R!TypeOK
    PROVE  /\ Times("data", queue) \in Nat /\ Times(Data, wire) \in Nat
           /\ Times("data", buffer["forward"]) \in Nat
           /\ left["app"] \in Nat /\ left["remote"] \in Nat /\ sends["app"] \in Nat
           /\ sends["remote"] \in Nat /\ got["app"] \in Nat /\ got["remote"] \in Nat
<1>1. /\ queue \in Seq({"data", "eof"}) /\ wire \in Seq(R!Message)
      /\ buffer["forward"] \in Seq(Pieces)
  BY RelayTypes
<1>2. Times("data", queue) \in Nat
  BY <1>1, TimesNat
<1>3. Times(Data, wire) \in Nat
  BY <1>1, TimesNat
<1>4. Times("data", buffer["forward"]) \in Nat
  BY <1>1, TimesNat
<1> QED
  BY <1>2, <1>3, <1>4, RelayTypes

\* The application's data stays whole.
LEMMA UpNext == ASSUME RelayInv, ~R!Early, R!Next, ~R!Early' PROVE UpWhole'
<1>1. R!TypeOK /\ UpWhole
  BY DEF RelayInv
<1>2. /\ left \in [R!Ends -> Nat] /\ got \in [R!Ends -> Nat] /\ ended \in [R!Ends -> BOOLEAN]
      /\ told \in [R!Ends -> BOOLEAN] /\ "app" \in R!Ends /\ "remote" \in R!Ends /\ "shell" \in R!Ends
      /\ toRelay \in Nat /\ received \in Nat /\ queue \in Seq({"data", "eof"})
  BY <1>1, RelayTypes
<1>3. /\ Times("data", queue) \in Nat /\ left["app"] \in Nat /\ sends["app"] \in Nat
      /\ got["remote"] \in Nat
  BY <1>1, TimesTyped
<1>4. ~gone["app"] /\ ~gone["remote"] /\ ~gone'["app"] /\ ~gone'["remote"]
  BY DEF R!Early
<1>5. CASE R!AppWrites
  <2>1. /\ left["app"] > 0 /\ left'["app"] = left["app"] - 1 /\ toRelay' = toRelay + 1
        /\ UNCHANGED <<sends, ended, told, got, up, queue, received>>
    BY <1>2, <1>5 DEF R!AppWrites, R!relay, R!loop
  <2> QED
    BY <1>1, <1>2, <1>3, <2>1 DEF UpWhole, Times
<1>6. CASE R!AppEnds
  <2>1. /\ left["app"] = 0
        /\ UNCHANGED <<sends, left, toRelay, told, got, up, queue, received>>
    BY <1>2, <1>6 DEF R!AppEnds, R!relay, R!loop, R!local
  <2> QED
    BY <1>1, <1>2, <1>3, <2>1 DEF UpWhole, Times
<1>7. CASE R!UpReads
  <2>1. /\ toRelay > 0 /\ toRelay' = toRelay - 1 /\ up = "read" /\ up' = "write"
        /\ UNCHANGED <<sends, left, ended, told, got, queue, received>>
    BY <1>7 DEF R!UpReads, R!ends, R!loop
  <2> QED
    BY <1>1, <1>2, <1>3, <2>1 DEF UpWhole, Times
<1>8. CASE R!UpEnds
  <2>1. /\ toRelay = 0 /\ ended["app"] /\ up = "read" /\ up' = "eof"
        /\ UNCHANGED <<sends, left, toRelay, ended, told, got, queue, received>>
    BY <1>8 DEF R!UpEnds, R!ends, R!loop, R!local
  <2> QED
    BY <1>1, <1>2, <1>3, <2>1 DEF UpWhole, Times
<1>9. CASE R!UpWrites
  <2>1. /\ up = "write" /\ up' = "read" /\ queue' = Append(queue, "data")
        /\ UNCHANGED <<sends, left, toRelay, ended, told, got, received>>
    BY <1>9 DEF R!UpWrites, R!ends, R!local
  <2>2. Times("data", queue') = Times("data", queue) + 1
    BY <1>2, <2>1, TimesAppend
  <2>3. \A i \in 1..Len(queue) : queue[i] # "eof"
    BY <1>1, <2>1 DEF UpWhole
  <2>4. \A i \in 1..Len(queue') : queue'[i] # "eof"
    BY <1>2, <2>1, <2>3
  <2>5. ~told["remote"]
    BY <1>1, <2>1 DEF UpWhole
  <2>6. /\ sends'["app"] = left'["app"] + toRelay' + 0 + Times("data", queue')
                             + received' + got'["remote"]
    BY <1>1, <1>2, <1>3, <2>1, <2>2 DEF UpWhole
  <2>7. ended'["app"] => left'["app"] = 0
    BY <1>1, <2>1 DEF UpWhole
  <2> QED
    BY <2>1, <2>4, <2>5, <2>6, <2>7 DEF UpWhole, Times
<1>10. CASE R!UpSaysEnd
  <2>1. /\ up = "eof" /\ up' = "done" /\ queue' = Append(queue, "eof")
        /\ UNCHANGED <<sends, left, toRelay, ended, told, got, received>>
    BY <1>10 DEF R!UpSaysEnd, R!ends, R!local
  <2>2. Times("data", queue') = Times("data", queue)
    <3>1. "eof" # "data" /\ "eof" \in {"data", "eof"}
      OBVIOUS
    <3>2. queue \in Seq({"data", "eof"})
      BY <1>2
    <3>3. Times("data", Append(queue, "eof")) = Times("data", queue)
      BY <3>1, <3>2, TimesAppend
    <3> QED
      BY <2>1, <3>3
  <2>3. \A i \in 1..Len(queue) : queue[i] # "eof"
    BY <1>1, <2>1 DEF UpWhole
  <2>4. \A i \in 1..Len(queue') : queue'[i] = "eof" => i = Len(queue')
    BY <1>2, <2>1, <2>3
  <2>5. ~told["remote"]
    BY <1>1, <2>1 DEF UpWhole
  <2>6. /\ sends'["app"] = left'["app"] + toRelay' + 0 + Times("data", queue')
                             + received' + got'["remote"]
    BY <1>1, <1>2, <1>3, <2>1, <2>2 DEF UpWhole
  <2>7. left'["app"] = 0 /\ toRelay' = 0
    BY <1>1, <2>1 DEF UpWhole
  <2> QED
    BY <2>1, <2>4, <2>5, <2>6, <2>7 DEF UpWhole, Times
<1>11. CASE R!LoopSends
  <2>1. /\ queue # <<>> /\ queue' = Tail(queue)
        /\ UNCHANGED <<sends, left, toRelay, ended, got, up>>
    BY <1>11 DEF R!LoopSends, R!relay, R!local
  <2>2. /\ Head(queue) = "data" => Times("data", queue) = Times("data", queue') + 1
        /\ Head(queue) # "data" => Times("data", queue) = Times("data", queue')
    BY <1>2, <2>1, TimesTail
  <2>3. /\ Len(queue) \in Nat /\ Head(queue) = queue[1] /\ queue[1] \in {"data", "eof"}
        /\ 1 \in 1..Len(queue) /\ Len(queue') = Len(queue) - 1
        /\ \A i \in 1..Len(queue') : queue'[i] = queue[i + 1] /\ i + 1 \in 1..Len(queue)
    BY <1>2, <2>1, QueueAt
  <2>4. Times("data", queue') \in Nat
    BY <1>2, <2>1, QueueAt, TimesNat
  <2>5. ASSUME NEW i \in 1..Len(queue'), queue'[i] = "eof"
        PROVE  up' = "done" /\ i = Len(queue')
    <3>1. queue[i + 1] = "eof" /\ i + 1 \in 1..Len(queue)
      BY <2>3, <2>5
    <3>2. up = "done" /\ i + 1 = Len(queue)
      BY <1>1, <3>1 DEF UpWhole
    <3>3. i \in Nat /\ Len(queue) \in Nat /\ Len(queue') = Len(queue) - 1
      BY <2>3
    <3>4. i = Len(queue')
      BY <3>2, <3>3
    <3> QED
      BY <2>1, <3>2, <3>4
  <2>6. /\ up' \in {"eof", "done"} => left'["app"] = 0 /\ toRelay' = 0
        /\ ended'["app"] => left'["app"] = 0
    BY <1>1, <2>1 DEF UpWhole
  <2>7. /\ up' = up
        /\ sends["app"] = left["app"] + toRelay + (IF up = "write" THEN 1 ELSE 0)
                            + Times("data", queue) + received + got["remote"]
    BY <1>1, <2>1 DEF UpWhole
  <2>8. ~told["remote"]
    BY <1>1, <2>1 DEF UpWhole
  <2>9. CASE queue[1] = "data"
    <3>1. received' = received + 1 /\ told' = told
      BY <1>4, <1>11, <2>3, <2>9 DEF R!LoopSends
    <3>2. sends'["app"] = left'["app"] + toRelay' + (IF up' = "write" THEN 1 ELSE 0)
                            + Times("data", queue') + received' + got'["remote"]
      <4>1. Times("data", queue) = Times("data", queue') + 1
        BY <2>2, <2>3, <2>9
      <4>2. PICK w \in Nat : w = IF up = "write" THEN 1 ELSE 0
        OBVIOUS
      <4>3. sends["app"] = left["app"] + toRelay + w + Times("data", queue) + received
                             + got["remote"]
        BY <2>7, <4>2
      <4>4. toRelay \in Nat /\ received \in Nat
        BY <1>2
      <4>5. sends["app"] = left["app"] + toRelay + w + Times("data", queue') + (received + 1)
                             + got["remote"]
        BY <1>3, <2>4, <4>1, <4>3, <4>4
      <4> QED
        BY <2>1, <3>1, <4>2, <4>5
    <3> QED
      BY <2>5, <2>6, <2>8, <3>1, <3>2 DEF UpWhole, Times
  <2>10. CASE queue[1] = "eof"
    <3>1. received' = received
      BY <1>4, <1>11, <2>3, <2>10 DEF R!LoopSends
    <3>2. up = "done" /\ Len(queue) = 1
      BY <1>1, <2>3, <2>10 DEF UpWhole
    <3>3. queue' = <<>>
      BY <1>2, <2>1, <2>3, <3>2
    <3>4. sends'["app"] = left'["app"] + toRelay' + (IF up' = "write" THEN 1 ELSE 0)
                            + Times("data", queue') + received' + got'["remote"]
      BY <1>2, <1>3, <2>1, <2>2, <2>3, <2>4, <2>7, <2>10, <3>1
    <3> QED
      BY <2>1, <2>5, <2>6, <3>2, <3>3, <3>4 DEF UpWhole, Times
  <2> QED
    BY <2>3, <2>9, <2>10
<1>12. CASE R!RemoteReads
  <2>1. /\ received > 0 /\ received' = received - 1 /\ got'["remote"] = got["remote"] + 1
        /\ UNCHANGED <<sends, left, toRelay, ended, told, up, queue>>
    BY <1>2, <1>12 DEF R!RemoteReads, R!relay, R!local
  <2>2. PICK w \in Nat : w = IF up = "write" THEN 1 ELSE 0
    OBVIOUS
  <2>3. sends["app"] = left["app"] + toRelay + w + Times("data", queue) + received + got["remote"]
    BY <1>1, <2>2 DEF UpWhole
  <2>4. sends["app"] = left["app"] + toRelay + w + Times("data", queue) + (received - 1)
                         + (got["remote"] + 1)
    <3>1. toRelay \in Nat /\ received \in Nat /\ received > 0
      BY <1>2, <2>1
    <3> QED
      BY <1>3, <2>3, <3>1
  <2>5. sends'["app"] = left'["app"] + toRelay' + (IF up' = "write" THEN 1 ELSE 0)
                          + Times("data", queue') + received' + got'["remote"]
    BY <2>1, <2>2, <2>4
  <2> QED
    BY <1>1, <2>1, <2>5 DEF UpWhole, Times
<1>13. CASE R!AppReads \/ R!DownStep \/ R!LoopIn \/ R!ServerStep \/ R!ServerSends("shell", "shell")
            \/ R!ShellReads
  <2>1. /\ UNCHANGED <<sends, toRelay, up, queue, received>>
        /\ left'["app"] = left["app"] /\ got'["remote"] = got["remote"]
        /\ ended'["app"] = ended["app"] /\ told'["remote"] = told["remote"]
    BY <1>2, <1>13 DEF R!AppReads, R!DownStep, R!DownReads, R!DownEnds, R!DownWrites,
       R!DownFails, R!LoopIn,
       R!LoopAdjusts, R!LoopReceives, R!LoopDelivers, R!ServerStep, R!ServerSends, R!RemoteEnds,
       R!ShellReads,
       R!ends, R!local, R!relay, R!loop
  <2> QED
    BY <1>1, <2>1, UpStays
<1>14. ~R!AppGoes /\ ~R!RemoteGoes
  <2>1. R!AppGoes => gone'["app"]
    BY <1>1, RelayTypes DEF R!AppGoes
  <2>2. R!RemoteGoes => gone'["remote"]
    BY <1>1, RelayTypes DEF R!RemoteGoes
  <2> QED
    BY <1>4, <2>1, <2>2
<1> QED
  BY <1>5, <1>6, <1>7, <1>8, <1>9, <1>10, <1>11, <1>12, <1>13, <1>14
  DEF R!Next, R!AppStep, R!UpStep

\* After a step that leaves everything in turn and in number.
LEMMA DownLater ==
    ASSUME Turn(left'["remote"], ended'["remote"], wire', hand', buffer'["forward"],
                told'["app"], down'),
           sends'["remote"] = Along(left'["remote"], wire', hand', buffer'["forward"], down',
                                    toApp', got'["app"])
    PROVE  InTurn' /\ DownSum'
BY DEF InTurn, DownSum, Turn, Along, Times, Ordered, Without, EndsLast

\* What the way down is known to be.
LEMMA DownKnown ==
    ASSUME RelayInv, ~R!Early
    PROVE  /\ Turn(left["remote"], ended["remote"], wire, hand, buffer["forward"], told["app"],
                   down)
           /\ sends["remote"] = Along(left["remote"], wire, hand, buffer["forward"], down, toApp,
                                      got["app"])
           /\ left \in [R!Ends -> Nat] /\ got \in [R!Ends -> Nat] /\ ended \in [R!Ends -> BOOLEAN]
           /\ told \in [R!Ends -> BOOLEAN] /\ "app" \in R!Ends /\ "remote" \in R!Ends
           /\ "shell" \in R!Ends /\ wire \in Seq(R!Message) /\ buffer \in [R!Channels -> Seq(Pieces)]
           /\ "forward" \in R!Channels /\ "shell" \in R!Channels
           /\ Times(Data, wire) \in Nat /\ Times("data", buffer["forward"]) \in Nat
           /\ left["remote"] \in Nat /\ got["app"] \in Nat /\ toApp \in Nat
           /\ buffer["forward"] \in Seq(Pieces)
BY RelayTypes, TimesTyped DEF RelayInv, InTurn, DownSum, R!Channels

\* The relay and the application take what comes in turn.
LEMMA DownRelay ==
    ASSUME RelayInv, ~R!Early, R!AppReads \/ R!DownReads \/ R!DownEnds \/ R!DownWrites
    PROVE  InTurn' /\ DownSum'
<1> DEFINE b == buffer["forward"]
<1>a. /\ Turn(left["remote"], ended["remote"], wire, hand, b, told["app"], down)
      /\ sends["remote"] = Along(left["remote"], wire, hand, b, down, toApp, got["app"])
  BY DownKnown
<1>b. /\ left \in [R!Ends -> Nat] /\ got \in [R!Ends -> Nat] /\ ended \in [R!Ends -> BOOLEAN]
      /\ told \in [R!Ends -> BOOLEAN] /\ "app" \in R!Ends /\ "remote" \in R!Ends
      /\ buffer \in [R!Channels -> Seq(Pieces)] /\ "forward" \in R!Channels
      /\ wire \in Seq(R!Message) /\ b \in Seq(Pieces)
  BY DownKnown
<1>c. /\ Times(Data, wire) \in Nat /\ Times("data", b) \in Nat /\ left["remote"] \in Nat
      /\ got["app"] \in Nat /\ toApp \in Nat
  BY DownKnown
<1>1. PICK h \in Nat : h = IF hand = Data THEN 1 ELSE 0
  OBVIOUS
<1>2. CASE R!AppReads
  <2>1. /\ toApp > 0 /\ toApp' = toApp - 1 /\ got'["app"] = got["app"] + 1
        /\ UNCHANGED <<sends, left, ended, told, wire, hand, buffer, down>>
    BY <1>b, <1>2 DEF R!AppReads, R!relay, R!loop
  <2>2. PICK d \in Nat : d = IF down = "write" THEN 1 ELSE 0
    OBVIOUS
  <2>3. /\ sends["remote"] = left["remote"] + Times(Data, wire) + h + Times("data", b) + d + toApp
                              + got["app"]
    BY <1>a, <1>1, <2>2 DEF Along
  <2>4. sends["remote"] = left["remote"] + Times(Data, wire) + h + Times("data", b) + d
                            + (toApp - 1) + (got["app"] + 1)
    <3>1. toApp > 0
      BY <2>1
    <3> QED
      BY <1>c, <2>3, <3>1
  <2> QED
    BY <1>a, <1>1, <2>1, <2>2, <2>4, DownLater DEF Along
<1>3. CASE R!DownWrites
  <2>1. /\ down = "write" /\ down' = "read" /\ toApp' = toApp + 1
        /\ UNCHANGED <<sends, left, got, ended, told, wire, hand, buffer>>
    BY <1>b, <1>3 DEF R!DownWrites, R!ends, R!loop
  <2>2. Turn(left["remote"], ended["remote"], wire, hand, b, told["app"], "read")
    BY <1>a, <2>1 DEF Turn
  <2>3. sends["remote"] = left["remote"] + Times(Data, wire) + h + Times("data", b) + 1 + toApp
                            + got["app"]
    BY <1>a, <1>1, <2>1 DEF Along
  <2>4. sends["remote"] = left["remote"] + Times(Data, wire) + h + Times("data", b) + 0
                            + (toApp + 1) + got["app"]
    BY <1>c, <2>3
  <2>5. sends["remote"] = Along(left["remote"], wire, hand, b, "read", toApp + 1, got["app"])
    BY <1>a, <1>1, <2>4 DEF Along
  <2> QED
    BY <2>1, <2>2, <2>5, DownLater
<1>4. CASE R!DownReads
  <2>1. /\ down = "read" /\ down' = "write" /\ b # <<>> /\ Head(b) = "data"
        /\ buffer' = [buffer EXCEPT !["forward"] = Tail(@)]
        /\ UNCHANGED <<sends, left, got, ended, told, toApp, wire, hand>>
    BY <1>b, <1>4 DEF R!DownReads, R!Taken, R!ends, R!local
  <2>2. PICK t : t = Tail(b)
    OBVIOUS
  <2>3. buffer'["forward"] = t
    BY <1>b, <2>1, <2>2
  <2>4. /\ Len(b) \in Nat /\ Len(t) = Len(b) - 1 /\ t \in Seq(Pieces)
        /\ \A i \in 1..Len(t) : t[i] = b[i + 1] /\ i + 1 \in 1..Len(b)
    BY <1>b, <2>1, <2>2, QueueAt
  <2>5. Times("data", b) = Times("data", t) + 1 /\ Times("data", t) \in Nat
    BY <1>b, <2>1, <2>2, <2>4, TimesTail, TimesNat
  <2>6. EndsLast(t)
    <3> SUFFICES ASSUME NEW i \in 1..Len(t)
                 PROVE  t[i] \in {"data", "eof"} /\ (t[i] = "eof" => i = Len(t))
      BY DEF EndsLast
    <3>1. t[i] = b[i + 1] /\ i + 1 \in 1..Len(b) /\ i \in Nat /\ Len(t) = Len(b) - 1
      BY <2>4
    <3>2. b[i + 1] \in {"data", "eof"} /\ (b[i + 1] = "eof" => i + 1 = Len(b))
      BY <1>a, <3>1 DEF Turn, EndsLast
    <3> QED
      BY <2>4, <3>1, <3>2
  <2>7. Turn(left["remote"], ended["remote"], wire, hand, t, told["app"], "write")
    <3>1. \A i \in 1..Len(t) : t[i] = "eof" =>
              ended["remote"] /\ hand \notin EitherSent /\ Without(wire)
      BY <1>a, <2>4 DEF Turn
    <3>2. ~told["app"]
      BY <1>a, <2>1 DEF Turn
    <3> QED
      BY <1>a, <2>6, <3>1, <3>2 DEF Turn
  <2>8. sends["remote"] = left["remote"] + Times(Data, wire) + h + Times("data", b) + 0 + toApp
                            + got["app"]
    BY <1>a, <1>1, <2>1 DEF Along
  <2>9. sends["remote"] = left["remote"] + Times(Data, wire) + h + Times("data", t) + 1 + toApp
                            + got["app"]
    BY <1>c, <2>5, <2>8
  <2>10. sends["remote"] = Along(left["remote"], wire, hand, t, "write", toApp, got["app"])
    BY <1>a, <1>1, <2>9 DEF Along
  <2> QED
    BY <2>1, <2>3, <2>7, <2>10, DownLater
<1>5. CASE R!DownEnds
  <2>1. /\ down = "read" /\ down' = "done" /\ b # <<>> /\ Head(b) # "data"
        /\ buffer' = [buffer EXCEPT !["forward"] = Tail(@)]
        /\ told' = [told EXCEPT !["app"] = TRUE]
        /\ UNCHANGED <<sends, left, got, ended, toApp, wire, hand>>
    BY <1>b, <1>5 DEF R!DownEnds, R!Taken, R!local
  <2>2. Head(b) = b[1] /\ 1 \in 1..Len(b) /\ Tail(b) \in Seq(Pieces) /\ Len(Tail(b)) = Len(b) - 1
    BY <1>b, <2>1, QueueAt
  <2>3. b[1] = "eof" /\ Len(b) = 1
    BY <1>a, <2>1, <2>2 DEF Turn, EndsLast
  <2>4. Tail(b) = <<>>
    <3>1. Len(Tail(b)) = 0
      BY <2>2, <2>3
    <3>2. Tail(b) \in Seq(Pieces)
      BY <2>2
    <3>3. \A s \in Seq(Pieces) : Len(s) = 0 => s = <<>>
      OBVIOUS
    <3> QED
      BY <3>1, <3>2, <3>3
  <2>5. buffer'["forward"] = <<>> /\ told'["app"]
    BY <1>b, <2>1, <2>4
  <2>6. ended["remote"] /\ hand \notin EitherSent /\ Without(wire)
    BY <1>a, <2>2, <2>3 DEF Turn
  <2>7. Turn(left["remote"], ended["remote"], wire, hand, <<>>, TRUE, "done")
    <3>1. hand # Eof
      BY <2>6 DEF EitherSent
    <3> QED
      BY <3>1, <1>a, <2>6 DEF Turn, EndsLast
  <2>8. Times("data", b) = Times("data", <<>>)
    BY <1>b, <2>1, <2>4, TimesTail
  <2>9. sends["remote"] = Along(left["remote"], wire, hand, <<>>, "done", toApp, got["app"])
    BY <1>a, <2>1, <2>8 DEF Along
  <2>10. told'["app"] = TRUE
    BY <1>b, <2>1
  <2> QED
    BY <2>1, <2>5, <2>7, <2>9, <2>10, DownLater
<1> QED
  BY <1>2, <1>3, <1>4, <1>5

\* Of a message of the forward's put in its buffer, one in hand or just taken off the wire.
LEMMA PutInTurn ==
    ASSUME RelayInv, ~R!Early, NEW m \in EitherSent, NEW w, R!Put(m), down # "done",
           Turn(left["remote"], ended["remote"], w, m, buffer["forward"], told["app"], down)
    PROVE  /\ Turn(left["remote"], ended["remote"], w, R!Nothing, buffer'["forward"], told["app"],
                   down)
           /\ Times("data", buffer'["forward"]) =
                 Times("data", buffer["forward"]) + IF m = Data THEN 1 ELSE 0
<1> DEFINE b == buffer["forward"]
<1>1. b \in Seq(Pieces) /\ buffer \in [R!Channels -> Seq(Pieces)] /\ "forward" \in R!Channels
  BY DownKnown
<1>2. m.to = "forward" /\ m.is \in Pieces /\ (m = Data <=> m.is = "data")
      /\ (m = Eof <=> m.is = "eof") /\ m.is \in {"data", "eof"}
  <2>1. Data.to = "forward" /\ Data.is = "data" /\ Eof.to = "forward" /\ Eof.is = "eof"
    BY DEF Data, Eof
  <2>2. m = Data \/ m = Eof
    BY DEF EitherSent
  <2> QED
    BY <2>1, <2>2 DEF Pieces
<1>3. R!Nothing.to # "forward" /\ R!Nothing \notin EitherSent /\ R!Nothing # Eof
  BY DEF R!Nothing, EitherSent, Data, Eof
<1>4. PICK t : t = Append(b, m.is)
  OBVIOUS
<1>5. ~R!Dropped(m.to)
  BY DEF R!Dropped, R!Over
<1>6. buffer' = [buffer EXCEPT !["forward"] = Append(@, m.is)]
  BY <1>2, <1>5 DEF R!Put
<1>7. buffer'["forward"] = t
  BY <1>1, <1>4, <1>6
<1>8. /\ Len(b) \in Nat /\ Len(t) = Len(b) + 1 /\ t[Len(b) + 1] = m.is
      /\ \A i \in 1..Len(b) : t[i] = b[i]
  BY <1>1, <1>2, <1>4, QueueAt
<1>9. \A i \in 1..Len(b) : b[i] = "data"
  BY DEF Turn, EndsLast
<1>10. EndsLast(t)
  <2> SUFFICES ASSUME NEW i \in 1..Len(t)
               PROVE  t[i] \in {"data", "eof"} /\ (t[i] = "eof" => i = Len(t))
    BY DEF EndsLast
  <2>1. CASE i = Len(b) + 1
    BY <1>2, <1>8, <2>1
  <2>2. CASE i \in 1..Len(b)
    BY <1>8, <1>9, <2>2
  <2> QED
    BY <1>8, <2>1, <2>2
<1>11. \A i \in 1..Len(t) : t[i] = "eof" => ended["remote"] /\ Without(w)
  <2> SUFFICES ASSUME NEW i \in 1..Len(t), t[i] = "eof" PROVE ended["remote"] /\ Without(w)
    OBVIOUS
  <2>1. i = Len(b) + 1
    BY <1>8, <1>9
  <2>2. m = Eof
    BY <1>2, <1>8, <2>1
  <2> QED
    BY <2>2 DEF Turn
<1>12. ~told["app"]
  BY DEF Turn
<1>13. Turn(left["remote"], ended["remote"], w, R!Nothing, t, told["app"], down)
  BY <1>3, <1>10, <1>11, <1>12 DEF Turn
<1>14. /\ m.is = "data" => Times("data", t) = Times("data", b) + 1
       /\ m.is # "data" => Times("data", t) = Times("data", b)
  BY <1>1, <1>2, <1>4, TimesAppend
<1>15. Times("data", b) \in Nat
  BY DownKnown
<1> QED
  BY <1>2, <1>7, <1>13, <1>14, <1>15

\* The session loop hands over in turn.
LEMMA DownLoop ==
    ASSUME RelayInv, ~R!Early, R!LoopIn
    PROVE  InTurn' /\ DownSum'
<1> DEFINE b == buffer["forward"]
<1>a. /\ Turn(left["remote"], ended["remote"], wire, hand, b, told["app"], down)
      /\ sends["remote"] = Along(left["remote"], wire, hand, b, down, toApp, got["app"])
  BY DownKnown
<1>b. /\ left \in [R!Ends -> Nat] /\ got \in [R!Ends -> Nat] /\ ended \in [R!Ends -> BOOLEAN]
      /\ told \in [R!Ends -> BOOLEAN] /\ "app" \in R!Ends /\ "remote" \in R!Ends
      /\ "shell" \in R!Ends /\ buffer \in [R!Channels -> Seq(Pieces)] /\ "forward" \in R!Channels
      /\ "shell" \in R!Channels /\ wire \in Seq(R!Message) /\ b \in Seq(Pieces)
  BY DownKnown
<1>c. /\ Times(Data, wire) \in Nat /\ Times("data", b) \in Nat /\ left["remote"] \in Nat
      /\ got["app"] \in Nat /\ toApp \in Nat
  BY DownKnown
<1>d. R!Nothing.to # "forward" /\ R!Nothing \notin EitherSent /\ R!Nothing # Data /\ R!Nothing # Eof
  BY DEF R!Nothing, EitherSent, Data, Eof
<1>e. PICK d \in Nat : d = IF down = "write" THEN 1 ELSE 0
  OBVIOUS
<1>1. ASSUME wire # <<>>
      PROVE  /\ Head(wire) \in R!Message /\ Tail(wire) \in Seq(R!Message)
             /\ Times(Data, Tail(wire)) \in Nat
             /\ Head(wire) = Data => Times(Data, wire) = Times(Data, Tail(wire)) + 1
             /\ Head(wire) # Data => Times(Data, wire) = Times(Data, Tail(wire))
             /\ Ordered(Tail(wire), ended["remote"])
             /\ Without(wire) => Without(Tail(wire)) /\ Head(wire) \notin EitherSent
             /\ Head(wire) = Eof => ended["remote"] /\ Without(Tail(wire))
             /\ Head(wire).to = "forward" /\ Head(wire).is # "adjust" => Head(wire) \in EitherSent
  <2>1. Ordered(wire, ended["remote"]) /\ ended["remote"] \in BOOLEAN
    BY <1>a, <1>b DEF Turn
  <2>2. Tail(wire) \in Seq(R!Message)
    BY <1>b, <1>1, QueueAt
  <2>3. Times(Data, Tail(wire)) \in Nat
    BY <2>2, TimesNat
  <2>4. /\ Head(wire) = Data => Times(Data, wire) = Times(Data, Tail(wire)) + 1
        /\ Head(wire) # Data => Times(Data, wire) = Times(Data, Tail(wire))
    BY <1>b, <1>1, TimesTail
  <2> QED
    BY <1>b, <1>1, <2>1, <2>2, <2>3, <2>4, TailOrdered
<1>2. CASE R!LoopAdjusts
  <2>1. /\ wire # <<>> /\ Head(wire).is = "adjust" /\ wire' = Tail(wire)
        /\ UNCHANGED <<sends, left, got, ended, told, toApp, hand, buffer, down>>
    BY <1>2 DEF R!LoopAdjusts, R!ends, R!local, R!relay
  <2>2. Head(wire) # Data
    BY <2>1 DEF Data
  <2>3. Times(Data, wire) = Times(Data, wire')
    BY <1>1, <2>1, <2>2
  <2>4. Ordered(wire', ended["remote"]) /\ (Without(wire) => Without(wire'))
    BY <1>1, <2>1
  <2>5. Turn(left["remote"], ended["remote"], wire', hand, b, told["app"], down)
    BY <1>a, <2>4 DEF Turn
  <2>6. sends["remote"] = Along(left["remote"], wire', hand, b, down, toApp, got["app"])
    BY <1>a, <2>3 DEF Along
  <2> QED
    BY <2>1, <2>5, <2>6, DownLater
<1>3. CASE R!LoopReceives
  <2>1. /\ hand = R!Nothing /\ wire # <<>> /\ Head(wire).is # "adjust" /\ wire' = Tail(wire)
        /\ R!Offer(Head(wire)) /\ UNCHANGED <<sends, left, got, ended, told, toApp, down>>
    BY <1>3 DEF R!LoopReceives, R!ends, R!local, R!relay
  <2>2. PICK m : m = Head(wire)
    OBVIOUS
  <2>3. PICK w : w = Tail(wire)
    OBVIOUS
  <2>4. /\ m \in R!Message /\ m.is # "adjust" /\ wire' = w /\ Ordered(w, ended["remote"])
        /\ Without(wire) => Without(w) /\ m \notin EitherSent
        /\ m = Eof => ended["remote"] /\ Without(w)
        /\ m.to = "forward" => m \in EitherSent
        /\ R!Offer(m)
    BY <1>1, <2>1, <2>2, <2>3
  <2>5. Times(Data, w) \in Nat /\ (m = Data => Times(Data, wire) = Times(Data, w) + 1)
        /\ (m # Data => Times(Data, wire) = Times(Data, w))
    BY <1>1, <2>1, <2>2, <2>3
  <2>6. sends["remote"] = left["remote"] + Times(Data, wire) + 0 + Times("data", b) + d + toApp
                            + got["app"]
    BY <1>a, <1>d, <1>e, <2>1 DEF Along
  <2>7. ASSUME m \in EitherSent
        PROVE  /\ down # "done" /\ ~told["app"]
               /\ Turn(left["remote"], ended["remote"], w, m, b, told["app"], down)
    <3>1. ~Without(wire)
      BY <2>4, <2>7
    <3>2. down # "done" /\ ~told["app"] /\ \A i \in 1..Len(b) : b[i] = "data"
      BY <3>1, NotOver
    <3> QED
      BY <1>a, <2>4, <2>7, <3>2 DEF Turn
  <2>8. CASE m.to = "shell"
    <3>1. m \notin EitherSent /\ m # Data /\ m # Eof
      BY <2>8 DEF EitherSent, Data, Eof
    <3>2. buffer'["forward"] = b
      BY <1>b, <2>4, <2>8 DEF R!Offer, R!Put
    <3>3. hand' \in {R!Nothing, m}
      BY <2>1, <2>4 DEF R!Offer
    <3>4. hand'.to # "forward" /\ hand' \notin EitherSent /\ hand' # Eof /\ hand' # Data
      BY <1>d, <2>8, <3>1, <3>3
    <3>5. Turn(left["remote"], ended["remote"], w, hand', b, told["app"], down)
      BY <1>a, <2>4, <3>4 DEF Turn
    <3>6. Times(Data, wire) = Times(Data, w)
      BY <2>5, <3>1
    <3>7. sends["remote"] = Along(left["remote"], w, hand', b, down, toApp, got["app"])
      BY <1>e, <2>6, <3>4, <3>6 DEF Along
    <3> QED
      BY <2>1, <2>4, <3>2, <3>5, <3>7, DownLater
  <2>9. CASE m.to = "forward" /\ R!Room(m.to)
    <3>1. m \in EitherSent /\ R!Put(m) /\ hand' = R!Nothing
      BY <2>1, <2>4, <2>9 DEF R!Offer
    <3>2. PICK t : t = buffer'["forward"]
      OBVIOUS
    <3>3. /\ Turn(left["remote"], ended["remote"], w, R!Nothing, t, told["app"], down)
          /\ Times("data", t) = Times("data", b) + IF m = Data THEN 1 ELSE 0
      BY <2>7, <3>1, <3>2, PutInTurn
    <3>4. sends["remote"] = left["remote"] + Times(Data, w) + 0 + Times("data", t) + d + toApp
                              + got["app"]
      <4>1. CASE m = Data
        <5>1. Times("data", t) = Times("data", b) + 1 /\ Times(Data, wire) = Times(Data, w) + 1
          BY <2>5, <3>3, <4>1
        <5> QED
          BY <1>c, <2>5, <2>6, <5>1
      <4>2. CASE m # Data
        <5>1. Times("data", t) = Times("data", b) /\ Times(Data, wire) = Times(Data, w)
          BY <1>c, <2>5, <3>3, <4>2
        <5> QED
          BY <2>6, <5>1
      <4> QED
        BY <4>1, <4>2
    <3>5. sends["remote"] = Along(left["remote"], w, R!Nothing, t, down, toApp, got["app"])
      BY <1>d, <1>e, <3>4 DEF Along
    <3> QED
      BY <2>1, <2>4, <3>1, <3>2, <3>3, <3>5, DownLater
  <2>10. CASE m.to = "forward" /\ ~R!Room(m.to)
    <3>1. m \in EitherSent /\ hand' = m /\ buffer' = buffer
      BY <2>4, <2>10 DEF R!Offer
    <3>2. sends["remote"] = left["remote"] + Times(Data, w) + (IF m = Data THEN 1 ELSE 0)
                              + Times("data", b) + d + toApp + got["app"]
      <4>1. CASE m = Data
        <5>1. Times(Data, wire) = Times(Data, w) + 1
          BY <2>5, <4>1
        <5>2. sends["remote"] = left["remote"] + Times(Data, w) + 1 + Times("data", b) + d
                                  + toApp + got["app"]
          BY <1>c, <2>5, <2>6, <5>1
        <5> QED
          BY <4>1, <5>2
      <4>2. CASE m # Data
        BY <2>5, <2>6, <4>2
      <4> QED
        BY <4>1, <4>2
    <3>3. sends["remote"] = Along(left["remote"], w, m, b, down, toApp, got["app"])
      BY <1>e, <3>2 DEF Along
    <3> QED
      BY <2>1, <2>4, <2>7, <3>1, <3>3, DownLater
  <2> QED
    BY <2>4, <2>8, <2>9, <2>10 DEF R!Message, R!Channels
<1>4. CASE R!LoopDelivers
  <2>1. /\ hand # R!Nothing /\ R!Put(hand) /\ hand' = R!Nothing
        /\ UNCHANGED <<sends, left, got, ended, told, toApp, wire, down>>
    BY <1>4 DEF R!LoopDelivers, R!ends, R!local, R!relay
  <2>2. hand \in R!Message
    BY <2>1 DEF RelayInv, R!TypeOK
  <2>3. CASE hand.to = "shell"
    <3>1. hand # Data /\ hand \notin EitherSent
      BY <2>3 DEF EitherSent, Data, Eof
    <3>2. buffer'["forward"] = b
      BY <1>b, <2>1, <2>3 DEF R!Put
    <3>3. Turn(left["remote"], ended["remote"], wire, R!Nothing, b, told["app"], down)
      BY <1>a, <1>d, <3>1 DEF Turn
    <3>4. sends["remote"] = Along(left["remote"], wire, R!Nothing, b, down, toApp, got["app"])
      BY <1>a, <1>d, <3>1 DEF Along
    <3> QED
      BY <2>1, <3>2, <3>3, <3>4, DownLater
  <2>4. CASE hand.to = "forward"
    <3>1. hand \in EitherSent
      BY <1>a, <2>4 DEF Turn
    <3>2. down # "done"
      BY <3>1, NotOver
    <3>3. PICK t : t = buffer'["forward"]
      OBVIOUS
    <3>4. PICK h \in Nat : h = IF hand = Data THEN 1 ELSE 0
      OBVIOUS
    <3>5. /\ Turn(left["remote"], ended["remote"], wire, R!Nothing, t, told["app"], down)
          /\ Times("data", t) = Times("data", b) + h
      BY <1>a, <2>1, <3>1, <3>2, <3>3, <3>4, PutInTurn
    <3>6. sends["remote"] = left["remote"] + Times(Data, wire) + h + Times("data", b) + d + toApp
                              + got["app"]
      BY <1>a, <1>e, <3>4 DEF Along
    <3>7. sends["remote"] = left["remote"] + Times(Data, wire) + 0 + Times("data", t) + d + toApp
                              + got["app"]
      <4>1. Times("data", t) = Times("data", b) + h
        BY <3>5
      <4> QED
        BY <1>c, <3>6, <4>1
    <3>8. sends["remote"] = Along(left["remote"], wire, R!Nothing, t, down, toApp, got["app"])
      BY <1>d, <1>e, <3>7 DEF Along
    <3> QED
      BY <2>1, <3>3, <3>5, <3>8, DownLater
  <2> QED
    BY <2>2, <2>3, <2>4 DEF R!Message, R!Channels
<1> QED
  BY <1>2, <1>3, <1>4 DEF R!LoopIn

\* The server sends in turn.
LEMMA DownServer ==
    ASSUME RelayInv, ~R!Early,
           R!ServerStep \/ R!RemoteReads \/ R!ServerSends("shell", "shell")
    PROVE  InTurn' /\ DownSum'
<1> DEFINE b == buffer["forward"]
<1>a. /\ Turn(left["remote"], ended["remote"], wire, hand, b, told["app"], down)
      /\ sends["remote"] = Along(left["remote"], wire, hand, b, down, toApp, got["app"])
  BY DownKnown
<1>b. /\ left \in [R!Ends -> Nat] /\ got \in [R!Ends -> Nat] /\ ended \in [R!Ends -> BOOLEAN]
      /\ told \in [R!Ends -> BOOLEAN] /\ "app" \in R!Ends /\ "remote" \in R!Ends
      /\ "shell" \in R!Ends /\ buffer \in [R!Channels -> Seq(Pieces)] /\ "forward" \in R!Channels
      /\ "shell" \in R!Channels /\ wire \in Seq(R!Message) /\ b \in Seq(Pieces)
  BY DownKnown
<1>c. /\ Times(Data, wire) \in Nat /\ Times("data", b) \in Nat /\ left["remote"] \in Nat
      /\ got["app"] \in Nat /\ toApp \in Nat
  BY DownKnown
<1>d. Ordered(wire, ended["remote"])
  BY <1>a DEF Turn
<1>e. PICK h \in Nat : h = IF hand = Data THEN 1 ELSE 0
  OBVIOUS
<1>f. PICK d \in Nat : d = IF down = "write" THEN 1 ELSE 0
  OBVIOUS
<1>1. CASE R!ServerSends("forward", "remote") \/ R!RemoteEnds
  <2>1. /\ ~ended["remote"]
        /\ UNCHANGED <<sends, got, told, toApp, hand, buffer, down>>
    BY <1>a, <1>1 DEF R!ServerSends, R!RemoteEnds, R!local, R!relay, Turn
  <2>2. hand # Eof /\ ~told["app"] /\ \A i \in 1..Len(b) : b[i] # "eof"
    BY <1>a, <2>1 DEF Turn
  <2>3. CASE R!ServerSends("forward", "remote")
    <3>1. /\ left["remote"] > 0 /\ left'["remote"] = left["remote"] - 1
          /\ wire' = Append(wire, Data) /\ ended' = ended
      BY <1>b, <2>3 DEF R!ServerSends, R!Says, Data
    <3>2. Data \in R!Message
      BY DEF Data, R!Message, R!Channels
    <3>3. Ordered(wire', FALSE)
      BY <1>b, <1>d, <2>1, <3>1, <3>2, AppendOrdered
    <3>4. ended["remote"] = FALSE
      BY <1>b, <2>1
    <3>5. Turn(left'["remote"], ended["remote"], wire', hand, b, told["app"], down)
      BY <1>a, <2>2, <3>3, <3>4 DEF Turn
    <3>6. Times(Data, wire') = Times(Data, wire) + 1
      BY <1>b, <3>1, <3>2, TimesAppend
    <3>7. sends["remote"] = left["remote"] + Times(Data, wire) + h + Times("data", b) + d + toApp
                              + got["app"]
      BY <1>a, <1>e, <1>f DEF Along
    <3>8. sends["remote"] = (left["remote"] - 1) + (Times(Data, wire) + 1) + h
                              + Times("data", b) + d + toApp + got["app"]
      BY <1>c, <3>7
    <3>9. sends["remote"] = Along(left'["remote"], wire', hand, b, down, toApp, got["app"])
      BY <1>e, <1>f, <3>1, <3>6, <3>8 DEF Along
    <3> QED
      BY <2>1, <3>1, <3>5, <3>9, DownLater
  <2>4. CASE R!RemoteEnds
    <3>1. /\ left["remote"] = 0 /\ left' = left
          /\ wire' = Append(wire, Eof) /\ ended'["remote"] = TRUE
      BY <1>b, <2>4 DEF R!RemoteEnds, R!Says, Eof
    <3>2. Eof \in R!Message /\ Eof # Data
      BY DEF Eof, Data, R!Message, R!Channels
    <3>3. Ordered(wire', TRUE)
      BY <1>b, <1>d, <2>1, <3>1, <3>2, AppendOrdered
    <3>4. Turn(left["remote"], TRUE, wire', hand, b, told["app"], down)
      BY <1>a, <2>2, <3>1, <3>3 DEF Turn
    <3>5. Times(Data, wire') = Times(Data, wire)
      BY <1>b, <3>1, <3>2, TimesAppend
    <3>6. sends["remote"] = Along(left["remote"], wire', hand, b, down, toApp, got["app"])
      BY <1>a, <3>5 DEF Along
    <3> QED
      BY <2>1, <3>1, <3>4, <3>6, DownLater
  <2> QED
    BY <1>1, <2>3, <2>4
<1>2. CASE R!RemoteReads \/ R!ServerSends("shell", "shell")
  <2>1. PICK x \in R!Message : /\ wire' = Append(wire, x)
                             /\ (x.to = "shell" \/ x.is = "adjust")
    BY <1>2 DEF R!RemoteReads, R!ServerSends, R!Says, R!Message, R!Channels
  <2>2. /\ left'["remote"] = left["remote"] /\ got'["app"] = got["app"]
        /\ UNCHANGED <<sends, ended, told, toApp, hand, buffer, down>>
    BY <1>b, <1>2 DEF R!RemoteReads, R!ServerSends, R!local, R!relay
  <2>3. Ordered(wire', ended["remote"]) /\ (Without(wire) => Without(wire'))
    BY <1>b, <1>d, <2>1, AppendOrdered
  <2>4. Turn(left["remote"], ended["remote"], wire', hand, b, told["app"], down)
    BY <1>a, <2>3 DEF Turn
  <2>5. x # Data
    BY <2>1 DEF Data
  <2>6. Times(Data, wire') = Times(Data, wire)
    BY <1>b, <2>1, <2>5, TimesAppend
  <2>7. sends["remote"] = Along(left["remote"], wire', hand, b, down, toApp, got["app"])
    BY <1>a, <2>6 DEF Along
  <2> QED
    BY <2>2, <2>4, <2>7, DownLater
<1> QED
  BY <1>1, <1>2 DEF R!ServerStep

\* What the remote end sent stays in turn.
LEMMA DownNext == ASSUME RelayInv, ~R!Early, R!Next, ~R!Early' PROVE InTurn' /\ DownSum'
<1>1. CASE R!AppReads \/ R!DownReads \/ R!DownEnds \/ R!DownWrites
  BY <1>1, DownRelay
<1>2. CASE R!LoopIn
  BY <1>2, DownLoop
<1>3. CASE R!ServerStep \/ R!RemoteReads \/ R!ServerSends("shell", "shell")
  BY <1>3, DownServer
<1>4. R!TypeOK /\ InTurn /\ DownSum
  BY DEF RelayInv
<1>5. /\ left \in [R!Ends -> Nat] /\ got \in [R!Ends -> Nat] /\ ended \in [R!Ends -> BOOLEAN]
      /\ told \in [R!Ends -> BOOLEAN] /\ "app" \in R!Ends /\ "remote" \in R!Ends /\ "shell" \in R!Ends
      /\ buffer \in [R!Channels -> Seq(Pieces)] /\ gone \in [R!Ends -> BOOLEAN]
  BY <1>4, RelayTypes
<1>6. "forward" \in R!Channels /\ "shell" \in R!Channels
  BY DEF R!Channels
<1>7. CASE R!AppWrites \/ R!AppEnds \/ R!UpStep \/ R!LoopSends \/ R!ShellReads
  <2>1. UNCHANGED <<sends, toApp, wire, hand, down>>
    BY <1>7 DEF R!AppWrites, R!AppEnds, R!UpStep, R!UpReads, R!UpEnds, R!UpWrites, R!UpSaysEnd,
       R!LoopSends,
       R!ShellReads, R!ends, R!local, R!relay, R!loop
  <2>2. buffer'["forward"] = buffer["forward"] /\ left'["remote"] = left["remote"]
    BY <1>5, <1>6, <1>7 DEF R!AppWrites, R!AppEnds, R!UpStep, R!UpReads, R!UpEnds, R!UpWrites,
       R!UpSaysEnd,
       R!LoopSends, R!ShellReads, R!ends, R!loop
  <2>3. /\ got'["app"] = got["app"] /\ ended'["remote"] = ended["remote"]
        /\ told'["app"] = told["app"]
    BY <1>5, <1>6, <1>7 DEF R!AppWrites, R!AppEnds, R!UpStep, R!UpReads, R!UpEnds, R!UpWrites,
       R!UpSaysEnd,
       R!LoopSends, R!ShellReads, R!ends, R!loop
  <2> QED
    BY <1>4, <2>1, <2>2, <2>3, DownStays
<1>8. ~R!AppGoes /\ ~R!RemoteGoes /\ ~R!DownFails
  BY <1>5 DEF R!AppGoes, R!RemoteGoes, R!DownFails, R!Early
<1> QED
  BY <1>1, <1>2, <1>3, <1>7, <1>8 DEF R!Next, R!AppStep, R!DownStep

\* The invariant is inductive.
LEMMA RelayNext == ASSUME RelayInv, [R!Next]_R!vars PROVE RelayInv'
<1>1. CASE R!Next
  <2>1. R!TypeOK' /\ (hand' # R!Nothing => hand'.is # "adjust")
    BY <1>1, RelayTyped
  <2>2. R!Early => R!Early'
    BY <1>1, RelayTypes DEF RelayInv, R!Early, R!Next, R!AppStep, R!UpStep, R!DownStep,
       R!LoopIn, R!ServerStep,
       R!AppWrites, R!AppEnds, R!AppReads, R!AppGoes, R!UpReads, R!UpEnds, R!UpWrites,
       R!UpSaysEnd, R!DownReads,
       R!DownEnds, R!DownWrites, R!DownFails, R!LoopSends, R!LoopAdjusts, R!LoopReceives,
       R!LoopDelivers,
       R!ServerSends, R!RemoteEnds, R!RemoteReads, R!RemoteGoes, R!ShellReads, R!ends
  <2>3. ~R!Early' => UpWhole' /\ InTurn' /\ DownSum'
    BY <1>1, <2>2, UpNext, DownNext
  <2> QED
    BY <2>1, <2>3 DEF RelayInv
<1>2. CASE UNCHANGED R!vars
  <2>1. UNCHANGED <<form, sends, left, got, ended, told, gone, toRelay, toApp, up, down, window,
                    queue, wire, hand, buffer, received>>
    BY <1>2 DEF R!vars, R!ends, R!local, R!relay, R!loop
  <2>2. R!TypeOK' /\ (hand' # R!Nothing => hand'.is # "adjust")
    BY <2>1 DEF RelayInv, R!TypeOK
  <2>3. UpWhole => UpWhole'
    BY <2>1, UpStays
  <2>4. InTurn /\ DownSum => InTurn' /\ DownSum'
    BY <2>1, DownStays
  <2>5. ASSUME ~R!Early' PROVE UpWhole' /\ InTurn' /\ DownSum'
    <3>1. ~R!Early
      BY <2>1, <2>5 DEF R!Early
    <3>2. UpWhole /\ InTurn /\ DownSum
      BY <3>1 DEF RelayInv
    <3> QED
      BY <2>3, <2>4, <3>2
  <2> QED
    BY <2>2, <2>5 DEF RelayInv
<1> QED
  BY <1>1, <1>2

\* A direction that is over has got everything across.
LEMMA RelayLast == ASSUME RelayInv PROVE R!EndIsLast
<1> SUFFICES ASSUME ~R!Early PROVE R!EndIsLast
  BY DEF R!Early, R!EndIsLast
<1>1. ASSUME told["app"] PROVE got["app"] + toApp = sends["remote"]
  <2>1. /\ Turn(left["remote"], ended["remote"], wire, hand, buffer["forward"], told["app"], down)
        /\ sends["remote"] = Along(left["remote"], wire, hand, buffer["forward"], down, toApp,
                                   got["app"])
        /\ got["app"] \in Nat /\ toApp \in Nat /\ wire \in Seq(R!Message)
    BY DownKnown
  <2>2. /\ left["remote"] = 0 /\ buffer["forward"] = <<>> /\ hand \notin EitherSent /\ Without(wire)
        /\ down = "done"
    BY <1>1, <2>1 DEF Turn
  <2>3. hand # Data /\ Data \in EitherSent
    BY <2>2 DEF EitherSent
  <2>4. Times(Data, wire) = 0
    <3>1. \A i \in 1..Len(wire) : wire[i] # Data
      BY <2>2, <2>3 DEF Without
    <3> QED
      BY <2>1, <3>1, TimesZero
  <2>5. Times("data", <<>>) = 0
    <3>1. <<>> \in Seq({"data"}) /\ \A i \in 1..Len(<<>>) : <<>>[i] # "data"
      OBVIOUS
    <3> QED
      BY <3>1, TimesZero
  <2>6. sends["remote"] = 0 + 0 + 0 + 0 + 0 + toApp + got["app"]
    BY <2>1, <2>2, <2>3, <2>4, <2>5 DEF Along
  <2> QED
    BY <2>1, <2>6
<1>2. ASSUME told["remote"] PROVE got["remote"] + received = sends["app"]
  <2>1. UpWhole /\ R!TypeOK
    BY DEF RelayInv
  <2>2. received \in Nat /\ got["remote"] \in Nat
    BY <2>1, RelayTypes, TimesTyped
  <2>3. up = "done" /\ queue = <<>> /\ left["app"] = 0 /\ toRelay = 0
    BY <1>2, <2>1 DEF UpWhole
  <2>4. Times("data", <<>>) = 0
    <3>1. <<>> \in Seq({"data"}) /\ \A i \in 1..Len(<<>>) : <<>>[i] # "data"
      OBVIOUS
    <3> QED
      BY <3>1, TimesZero
  <2>5. sends["app"] = 0 + 0 + 0 + 0 + received + got["remote"]
    BY <2>1, <2>3, <2>4 DEF UpWhole
  <2> QED
    BY <2>2, <2>5
<1> QED
  BY <1>1, <1>2 DEF R!EndIsLast

\* An end that is told there is no more has been given everything.
THEOREM EndAlwaysLast == R!Spec => []R!EndIsLast
<1>1. R!Init => RelayInv
  BY RelayInit
<1>2. RelayInv /\ [R!Next]_R!vars => RelayInv'
  BY RelayNext
<1>3. RelayInv => R!EndIsLast
  BY RelayLast
<1> QED
  BY <1>1, <1>2, <1>3, PTL DEF R!Spec
=============================================================================
