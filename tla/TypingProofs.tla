---------------------------- MODULE TypingProofs ----------------------------
(***************************************************************************)
(* Typing into a terminal that is somebody else's.  An agent, through the  *)
(* write gate: for any terminals, calls, agents and modes.  Another        *)
(* person, through a share: for any shares, tabs and choices.  Each part   *)
(* has its inductive invariant, a lemma for each action or each kind of    *)
(* action, and the theorems, in the words of MCMcpWrites.                  *)
(***************************************************************************)
EXTENDS MCMcpWrites, Sequences, TLAPS

-----------------------------------------------------------------------------
(* The write gate.                                                         *)

\* An unshare under way has its session out already, and no share of it runs
\* beside it.
UnsharesApart ==
    /\ sharing \cap unsharing = {}
    /\ \A s \in unsharing : ~IsShared(s)

\* What the client met belongs to the present sharing.
MetHere ==
    \A s \in Sessions :
        IsShared(s) /\ s \notin overlapped =>
            /\ s \in described => s \in met
            /\ readSeq[s] # Never => readSeq[s] <= shared[s].seq
            /\ readSeq[s] = shared[s].seq => s \in fresh

\* A call the present modes would let run has been open to it.
OpenKept ==
    \A c \in Calls :
        calls[c] # NoCall /\ AutoApproves(ModeFor(calls[c].mode), calls[c].danger)
            => c \in open

Kept == UnsharesApart /\ ForgottenWithSharing /\ MetHere

MInv == TypeOK /\ Kept /\ OpenKept

LEMMA InitMInv == Init => MInv
<1> SUFFICES ASSUME Init PROVE MInv
  OBVIOUS
<1> USE McpSentinels DEF Init
<1>1. TypeOK
  <2>1. /\ readSeq \in [Sessions -> 0..MaxSeq \cup {Never}]
        /\ shared \in [Sessions -> Session \cup {Unshared}]
        /\ calls \in [Calls -> Call \cup {NoCall}]
    OBVIOUS
  <2>2. chunks \in [Sessions -> [BOOLEAN -> Nat]]
    OBVIOUS
  <2> QED
    BY <2>1, <2>2 DEF TypeOK, Stops
<1>2. UnsharesApart /\ ForgottenWithSharing
  BY DEF UnsharesApart, ForgottenWithSharing
<1>3. MetHere
  BY DEF MetHere, IsShared
<1>4. OpenKept
  BY DEF OpenKept
<1> QED
  BY <1>1, <1>2, <1>3, <1>4 DEF MInv, Kept

-----------------------------------------------------------------------------
\* Typing.

LEMMA GoesType ==
    ASSUME TypeOK, NEW c \in Calls, calls[c] # NoCall, NEW place \in Places,
           Goes(c, place)
    PROVE  calls' \in [Calls -> Call \cup {NoCall}]
<1>1. calls[c] \in Call
  BY DEF TypeOK
<1>2. [calls[c] EXCEPT !.at = place] \in Call
  BY <1>1 DEF Call
<1> QED
  BY <1>2 DEF TypeOK, Goes

LEMMA EndsType ==
    ASSUME TypeOK, NEW c \in Calls, Ends(c)
    PROVE  calls' \in [Calls -> Call \cup {NoCall}]
BY DEF TypeOK, Ends

\* The steps of a call after its gate change the call and nothing else.
After(c) ==
    \/ Decide(c) \/ Prompt(c) \/ TakeSender(c) \/ Reply(c)
    \/ \E yes \in BOOLEAN : Answer(c, yes)
    \/ \E ok \in BOOLEAN : Type(c, ok)

LEMMA AfterMoves ==
    ASSUME NEW c \in Calls, After(c)
    PROVE  /\ calls[c] # NoCall
           /\ (\E place \in Places : Goes(c, place)) \/ Ends(c)
           /\ UNCHANGED <<chunks, shared, client, choices, server, shares, seen,
                          open>>
BY DEF After, Decide, Ask, Prompt, Answer, TakeSender, Type, Reply, Beside, Places

LEMMA TypeStep == TypeOK /\ [Next]_vars => TypeOK'
<1> SUFFICES ASSUME TypeOK, [Next]_vars PROVE TypeOK'
  OBVIOUS
<1> USE McpSentinels
<1>1. ASSUME NEW s \in Sessions, NEW p \in BOOLEAN, Emit(s, p) PROVE TypeOK'
  <2>1. chunks' \in [Sessions -> [BOOLEAN -> Nat]]
    BY <1>1 DEF TypeOK, Emit
  <2> QED
    BY <1>1, <2>1 DEF TypeOK, Emit, client, choices, server, shares, seen
<1>2. ASSUME NEW s \in Sessions, NEW p \in BOOLEAN, Push(s, p) PROVE TypeOK'
  <2>1. chunks' \in [Sessions -> [BOOLEAN -> Nat]]
    <3>1. chunks[s][p] \in Nat /\ chunks[s][p] - 1 \in Nat
      BY <1>2 DEF TypeOK, Push
    <3> QED
      BY <1>2, <3>1 DEF TypeOK, Push
  <2>2. shared' \in [Sessions -> Session \cup {Unshared}]
    <3>1. CASE IsShared(s)
      <4>1. shared[s] \in Session /\ shared[s].seq + 1 \in 0..MaxSeq
        BY <1>2, <3>1 DEF TypeOK, Push, IsShared, Session
      <4>2. [shared[s] EXCEPT !.seq = @ + 1, !.prompt = p] \in Session
        BY <4>1 DEF Session
      <4> QED
        BY <1>2, <3>1, <4>2 DEF TypeOK, Push
    <3> QED
      BY <1>2, <3>1 DEF TypeOK, Push
  <2> QED
    BY <1>2, <2>1, <2>2 DEF TypeOK, Push, client, choices, server, shares
<1>3. ASSUME NEW s \in Sessions, Share(s) PROVE TypeOK'
  <2>1. NewShare \in Session
    BY DEF NewShare, Session
  <2> QED
    BY <1>3, <2>1 DEF TypeOK, Share, client, choices, server, seen
<1>4. ASSUME NEW s \in Sessions, Unshare(s) PROVE TypeOK'
  BY <1>4 DEF TypeOK, Unshare, UnsharePair, client, choices, server, seen
<1>5. ASSUME NEW s \in Sessions, NEW a \in Agents \cup {Follow},
             SetSessionAgent(s, a)
      PROVE TypeOK'
  <2>1. [shared[s] EXCEPT !.agent = a] \in Session
    BY <1>5 DEF TypeOK, SetSessionAgent, IsShared, Session
  <2>2. shared' \in [Sessions -> Session \cup {Unshared}]
    BY <1>5, <2>1 DEF TypeOK, SetSessionAgent
  <2> QED
    BY <1>5, <2>2 DEF TypeOK, SetSessionAgent, client, choices, server, shares,
                      seen
<1>6. ASSUME NEW s \in Sessions, NEW m \in UsedModes \cup {Follow},
             SetSessionMode(s, m)
      PROVE TypeOK'
  <2>1. [shared[s] EXCEPT !.mode = m] \in Session
    BY <1>6 DEF TypeOK, SetSessionMode, IsShared, Session
  <2>2. shared' \in [Sessions -> Session \cup {Unshared}]
    BY <1>6, <2>1 DEF TypeOK, SetSessionMode
  <2>3. open' \subseteq Calls
    BY <1>6 DEF TypeOK, SetSessionMode, Opened
  <2> QED
    BY <1>6, <2>2, <2>3 DEF TypeOK, SetSessionMode, client, choices, server,
                            shares, seen
<1>7. ASSUME NEW a \in Agents, SetAgent(a) PROVE TypeOK'
  BY <1>7 DEF TypeOK, SetAgent, client, server, shares, seen
<1>8. ASSUME NEW m \in UsedModes, SetMode(m) PROVE TypeOK'
  BY <1>8 DEF TypeOK, SetMode, Opened, client, server, shares, seen
<1>9. ASSUME NEW bound \in BOOLEAN, Start(bound) PROVE TypeOK'
  BY <1>9 DEF TypeOK, Start, client, choices, shares, seen
<1>10. CASE Stop
  BY <1>10 DEF TypeOK, Stop, Stops, client, choices, shares, seen
<1>11. CASE StopGoesOn
  <2>1. CASE StopUnwires /\ UNCHANGED <<shared, client, calls, seen>>
    BY <1>11, <2>1 DEF TypeOK, StopGoesOn, StopUnwires, Stops, client, choices,
                       shares, seen
  <2>2. CASE StopClears /\ UNCHANGED <<confirmer, sender, calls>>
    BY <1>11, <2>2 DEF TypeOK, StopGoesOn, StopClears, Stops, client, choices,
                       shares, seen
  <2>3. CASE /\ StopDropsPrompts
             /\ UNCHANGED <<confirmer, sender, shared, client, seen>>
    BY <1>11, <2>3 DEF TypeOK, StopGoesOn, StopDropsPrompts, Stops, client,
                       choices, shares, seen
  <2> QED
    BY <1>11, <2>1, <2>2, <2>3 DEF StopGoesOn
<1>12. ASSUME NEW s \in Sessions, Describe(s) PROVE TypeOK'
  <2>1. readSeq' \in [Sessions -> 0..MaxSeq \cup {Never}]
    BY <1>12 DEF TypeOK, Describe, IsShared, Session
  <2> QED
    BY <1>12, <2>1 DEF TypeOK, Describe, choices, server, shares
<1>13. ASSUME NEW s \in Sessions, ReadOutput(s) PROVE TypeOK'
  <2>1. readSeq' \in [Sessions -> 0..MaxSeq \cup {Never}]
    BY <1>13 DEF TypeOK, ReadOutput, IsShared, Session
  <2> QED
    BY <1>13, <2>1 DEF TypeOK, ReadOutput, choices, server, shares
<1>14. ASSUME NEW c \in Calls, NEW s \in Sessions, NEW d \in UsedDangers,
              Send(c, s, d)
       PROVE TypeOK'
  <2>1. Override(s) \in UsedModes \cup {Follow}
    BY DEF TypeOK, Override, IsShared, Session
  <2>2. [at |-> "resolved", s |-> s, danger |-> d, mode |-> Override(s)] \in Call
    BY <2>1 DEF Call, Places
  <2>3. calls' \in [Calls -> Call \cup {NoCall}]
    BY <1>14, <2>2 DEF TypeOK, Send
  <2> QED
    BY <1>14, <2>3 DEF TypeOK, Send, Beside, client, choices, server, shares,
                       seen
<1>15. ASSUME NEW c \in Calls, Gate(c) PROVE TypeOK'
  <2>1. calls' \in [Calls -> Call \cup {NoCall}]
    BY <1>15, GoesType, EndsType DEF Gate, StaleRefused, Places
  <2>2. /\ readSeq' \in [Sessions -> 0..MaxSeq \cup {Never}]
        /\ fresh' \subseteq Sessions
    <3>1. calls[c].s \in Sessions
      BY <1>15 DEF TypeOK, Gate, Call
    <3> QED
      BY <1>15, <3>1 DEF TypeOK, Gate, StaleRefused, IsShared, Session
  <2> QED
    BY <1>15, <2>1, <2>2 DEF TypeOK, Gate, Beside, choices, server, shares
<1>16. ASSUME NEW c \in Calls, After(c) PROVE TypeOK'
  <2>1. calls' \in [Calls -> Call \cup {NoCall}]
    BY <1>16, AfterMoves, GoesType, EndsType
  <2> QED
    BY <1>16, <2>1, AfterMoves DEF TypeOK, client, choices, server, shares, seen
<1>17. CASE UNCHANGED vars
  BY <1>17 DEF TypeOK, vars, client, choices, server, shares, seen
<1> QED
  BY <1>1, <1>2, <1>3, <1>4, <1>5, <1>6, <1>7, <1>8, <1>9, <1>10, <1>11, <1>12,
     <1>13, <1>14, <1>15, <1>16, <1>17
  DEF Next, Terminal, User, Client, Proceed, After

-----------------------------------------------------------------------------
\* What the client met.

\* A step that leaves the sharings, the client's bookkeeping and the stop alone.
LEMMA CalmKeeps ==
    ASSUME Kept, UNCHANGED <<shared, client, shares, stopping, seen>>
    PROVE  Kept'
BY DEF Kept, UnsharesApart, ForgottenWithSharing, MetHere, IsShared, client, shares, seen

\* The same when only the overrides of a session change.
LEMMA OverrideKeeps ==
    ASSUME TypeOK, Kept, NEW s \in Sessions, IsShared(s),
           NEW r \in Session, r.seq = shared[s].seq,
           shared' = [shared EXCEPT ![s] = r],
           UNCHANGED <<client, shares, stopping, seen>>
    PROVE  Kept'
<1>1. \A x \in Sessions : IsShared(x)' <=> IsShared(x)
  BY McpSentinels DEF TypeOK, IsShared
<1>2. \A x \in Sessions : IsShared(x) => shared'[x].seq = shared[x].seq
  BY DEF TypeOK
<1>3. UnsharesApart'
  BY <1>1 DEF Kept, UnsharesApart, shares, TypeOK
<1>4. ForgottenWithSharing'
  BY <1>1 DEF Kept, ForgottenWithSharing, client, shares
<1>5. MetHere'
  BY <1>1, <1>2 DEF Kept, MetHere, client, seen
<1> QED
  BY <1>3, <1>4, <1>5 DEF Kept

\* A read of a shared session, which a description may come with.
LEMMA ReadKeeps ==
    ASSUME TypeOK, Kept, NEW s \in Sessions, IsShared(s),
           readSeq' = [readSeq EXCEPT ![s] = shared[s].seq],
           fresh' = fresh \cup {s},
           \/ UNCHANGED <<described, met>>
           \/ described' = described \cup {s} /\ met' = met \cup {s},
           UNCHANGED <<shared, shares, stopping, overlapped>>
    PROVE  Kept'
<1>1. shared[s].seq \in Nat
  BY McpSentinels DEF TypeOK, IsShared, Session
<1>2. UnsharesApart'
  BY DEF Kept, UnsharesApart, shares, IsShared
<1>3. ForgottenWithSharing'
  BY DEF Kept, ForgottenWithSharing, shares, IsShared, TypeOK
<1>4. MetHere'
  BY <1>1 DEF Kept, MetHere, IsShared, TypeOK
<1> QED
  BY <1>2, <1>3, <1>4 DEF Kept

LEMMA ShareKeeps ==
    ASSUME TypeOK, Kept, NEW s \in Sessions, Share(s)
    PROVE  Kept'
<1> USE McpSentinels
<1>1. CASE s \notin sharing
  <2>1. /\ s \notin unsharing
        /\ sharing' = sharing \cup {s}
        /\ UNCHANGED <<shared, described, readSeq, unsharing, stopping, met,
                       fresh, overlapped>>
    BY <1>1 DEF Share, client, server, seen
  <2> QED
    BY <2>1 DEF Kept, UnsharesApart, ForgottenWithSharing, MetHere, IsShared
<1>2. CASE s \in sharing
  <2>1. /\ sharing' = sharing \ {s} /\ unsharing' = unsharing
        /\ shared' = [shared EXCEPT ![s] = NewShare]
        /\ met' = met \ {s} /\ fresh' = fresh \ {s}
        /\ overlapped' = IF IsShared(s) \/ stopping = "clients"
                         THEN overlapped \cup {s} ELSE overlapped
        /\ UNCHANGED <<described, readSeq, stopping>>
    BY <1>2 DEF Share, client, server
  <2>2. s \notin unsharing
    BY <1>2 DEF Kept, UnsharesApart
  <2>3. \A x \in Sessions \ {s} : IsShared(x)' <=> IsShared(x)
    BY <2>1 DEF IsShared, TypeOK
  <2>4. IsShared(s)'
    <3>1. NewShare \in Session
      BY DEF NewShare, Session
    <3>2. shared'[s] = NewShare
      BY <2>1 DEF TypeOK
    <3> QED
      BY <3>1, <3>2 DEF IsShared
  <2>5. UnsharesApart'
    BY <2>1, <2>2, <2>3 DEF Kept, UnsharesApart, TypeOK
  <2>6. ForgottenWithSharing'
    BY <2>1, <2>3, <2>4 DEF Kept, ForgottenWithSharing
  <2>7. ~IsShared(s) /\ stopping # "clients" =>
            s \notin described /\ readSeq[s] = Never
    BY <2>2 DEF Kept, ForgottenWithSharing
  <2>8. NewShare.seq = 0 /\ shared'[s] = NewShare
    BY <2>1 DEF NewShare, TypeOK
  <2>9. MetHere'
    <3> SUFFICES ASSUME NEW x \in Sessions, IsShared(x)', x \notin overlapped'
                 PROVE  /\ x \in described' => x \in met'
                        /\ readSeq'[x] # Never => readSeq'[x] <= shared'[x].seq
                        /\ readSeq'[x] = shared'[x].seq => x \in fresh'
      BY DEF MetHere
    <3>1. CASE x = s
      <4>1. s \notin described /\ readSeq[s] = Never
        BY <2>1, <2>7, <3>1
      <4> QED
        BY <2>1, <2>8, <3>1, <4>1
    <3>2. CASE x # s
      BY <2>1, <2>3, <3>2 DEF Kept, MetHere, TypeOK
    <3> QED
      BY <3>1, <3>2
  <2> QED
    BY <2>5, <2>6, <2>9 DEF Kept
<1> QED
  BY <1>1, <1>2

LEMMA UnshareKeeps ==
    ASSUME TypeOK, Kept, NEW s \in Sessions, Unshare(s)
    PROVE  Kept'
<1>0. s \notin sharing /\ UNCHANGED <<sharing, stopping>>
  BY DEF Unshare, server
<1>1. CASE s \notin unsharing
  <2>1. /\ unsharing' = unsharing \cup {s}
        /\ shared' = [shared EXCEPT ![s] = Unshared]
        /\ met' = met \ {s} /\ fresh' = fresh \ {s}
        /\ UNCHANGED <<described, readSeq, overlapped>>
    BY <1>1 DEF Unshare, UnsharePair, client
  <2> QED
    BY <1>0, <2>1 DEF Kept, UnsharesApart, ForgottenWithSharing, MetHere, IsShared, TypeOK
<1>2. CASE s \in unsharing
  <2>1. /\ unsharing' = unsharing \ {s}
        /\ described' = described \ {s}
        /\ readSeq' = [readSeq EXCEPT ![s] = Never]
        /\ overlapped' = overlapped \ {s}
        /\ UNCHANGED <<shared, met, fresh>>
    BY <1>2 DEF Unshare, UnsharePair
  <2> QED
    BY <1>0, <1>2, <2>1 DEF Kept, UnsharesApart, ForgottenWithSharing, MetHere, IsShared,
                            TypeOK
<1> QED
  BY <1>1, <1>2

LEMMA StopKeeps ==
    ASSUME TypeOK, Kept, Stop \/ StopGoesOn
    PROVE  Kept'
<1>1. CASE stopping' \in {"confirmer", "sender", "sessions"} \/ stopping = "prompts"
  <2>1. UNCHANGED <<shared, client, shares, seen>> /\ stopping # "clients"
    BY <1>1 DEF Stop, StopGoesOn, StopUnwires, StopClears, StopDropsPrompts
  <2> QED
    BY <2>1 DEF Kept, UnsharesApart, ForgottenWithSharing, MetHere, IsShared, client,
                shares, seen
<1>2. CASE stopping = "sessions"
  <2>1. /\ shared' = [s \in Sessions |-> Unshared]
        /\ stopping' = "clients"
        /\ UNCHANGED <<shares, client, overlapped>>
    BY <1>2 DEF Stop, StopGoesOn, StopUnwires, StopClears, StopDropsPrompts
  <2> QED
    BY <2>1 DEF Kept, UnsharesApart, ForgottenWithSharing, MetHere, IsShared, client,
                shares, TypeOK
<1>3. CASE stopping = "clients"
  <2>1. /\ described' = {}
        /\ readSeq' = [s \in Sessions |-> Never]
        /\ UNCHANGED <<shared, shares, met, fresh>>
    BY <1>3 DEF Stop, StopGoesOn, StopUnwires, StopClears, StopDropsPrompts
  <2>2. \A s \in Sessions : IsShared(s) => shared[s].seq # Never
    BY McpSentinels DEF TypeOK, IsShared, Session
  <2> QED
    BY <2>1, <2>2 DEF Kept, UnsharesApart, ForgottenWithSharing, MetHere, IsShared, shares
<1> QED
  BY <1>1, <1>2, <1>3 DEF Stop, StopGoesOn, StopUnwires, StopClears,
                          StopDropsPrompts

LEMMA PushKeeps ==
    ASSUME TypeOK, Kept, NEW s \in Sessions, NEW p \in BOOLEAN, Push(s, p)
    PROVE  Kept'
<1> USE McpSentinels
<1>1. CASE ~IsShared(s)
  <2>1. UNCHANGED <<shared, client, shares, stopping, seen>>
    BY <1>1 DEF Push, client, server, seen
  <2> QED
    BY <2>1, CalmKeeps
<1>2. CASE IsShared(s)
  <2>1. /\ shared' = [shared EXCEPT ![s].seq = @ + 1, ![s].prompt = p]
        /\ fresh' = fresh \ {s}
        /\ UNCHANGED <<described, readSeq, shares, stopping, met, overlapped>>
    BY <1>2 DEF Push, client, server, shares
  <2>2. shared[s] \in Session /\ shared[s].seq \in Nat
    BY <1>2 DEF TypeOK, IsShared, Session
  <2>3. shared'[s].seq = shared[s].seq + 1
    BY <2>1, <2>2 DEF TypeOK, Session
  <2>4. \A x \in Sessions \ {s} : shared'[x] = shared[x]
    BY <2>1 DEF TypeOK
  <2>5. \A x \in Sessions : IsShared(x)' => IsShared(x)
    BY <1>2, <2>4 DEF IsShared
  <2>6. IsShared(s)'
    <3>1. [shared[s] EXCEPT !.seq = @ + 1, !.prompt = p] \in Session
      <4>1. shared[s].seq + 1 \in 0..MaxSeq
        BY <1>2, <2>2 DEF Push
      <4> QED
        BY <2>2, <4>1 DEF Session
    <3>2. shared'[s] \in Session
      BY <2>1, <3>1 DEF TypeOK
    <3> QED
      BY <3>2 DEF IsShared
  <2>7. UnsharesApart'
    BY <2>1, <2>5 DEF Kept, UnsharesApart, shares, TypeOK
  <2>8. ForgottenWithSharing'
    BY <2>1, <2>4, <2>6 DEF Kept, ForgottenWithSharing, shares, IsShared
  <2>9. MetHere'
    <3> SUFFICES ASSUME NEW x \in Sessions, IsShared(x)', x \notin overlapped'
                 PROVE  /\ x \in described' => x \in met'
                        /\ readSeq'[x] # Never => readSeq'[x] <= shared'[x].seq
                        /\ readSeq'[x] = shared'[x].seq => x \in fresh'
      BY DEF MetHere
    <3>1. CASE x = s
      <4>1. /\ s \in described => s \in met
            /\ readSeq[s] # Never => readSeq[s] <= shared[s].seq
        BY <1>2, <2>1, <3>1 DEF Kept, MetHere
      <4>2. readSeq[s] = Never \/ readSeq[s] \in Nat
        BY DEF TypeOK
      <4>3. shared'[s].seq # Never
        BY <1>2, <2>2, <2>3 DEF Push
      <4>4. /\ s \in described' => s \in met'
            /\ readSeq'[s] = readSeq[s]
        BY <2>1, <4>1
      <4>5. readSeq[s] # Never => readSeq[s] < shared'[s].seq
        BY <2>2, <2>3, <4>1, <4>2
      <4>6. readSeq[s] # shared'[s].seq
        BY <2>2, <2>3, <4>2, <4>3, <4>5
      <4>7. readSeq[s] # Never => readSeq[s] <= shared'[s].seq
        BY <2>2, <2>3, <4>2, <4>5
      <4> QED
        BY <3>1, <4>4, <4>6, <4>7
    <3>2. CASE x # s
      BY <2>1, <2>4, <3>2 DEF Kept, MetHere, IsShared
    <3> QED
      BY <3>1, <3>2
  <2> QED
    BY <2>7, <2>8, <2>9 DEF Kept
<1> QED
  BY <1>1, <1>2

LEMMA GateKeeps ==
    ASSUME TypeOK, Kept, NEW c \in Calls, Gate(c)
    PROVE  Kept'
<1> DEFINE s == calls[c].s
<1>1. s \in Sessions
  BY DEF TypeOK, Gate, Call
<1>2. UNCHANGED <<shared, described, shares, stopping, met, overlapped>>
  BY DEF Gate, Beside, server
<1>3. \/ UNCHANGED <<readSeq, fresh>>
      \/ /\ IsShared(s)
         /\ readSeq' = [readSeq EXCEPT ![s] = shared[s].seq]
         /\ fresh' = fresh \cup {s}
  BY DEF Gate, StaleRefused
<1>4. CASE UNCHANGED <<readSeq, fresh>>
  BY <1>2, <1>4, CalmKeeps DEF client, seen
<1>5. CASE /\ IsShared(s)
           /\ readSeq' = [readSeq EXCEPT ![s] = shared[s].seq]
           /\ fresh' = fresh \cup {s}
  <2> HIDE DEF s
  <2> QED
    BY <1>1, <1>2, <1>5, ReadKeeps
<1> QED
  BY <1>3, <1>4, <1>5

LEMMA KeptStep == TypeOK /\ Kept /\ [Next]_vars => Kept'
<1> SUFFICES ASSUME TypeOK, Kept, [Next]_vars PROVE Kept'
  OBVIOUS
<1>1. ASSUME UNCHANGED <<shared, client, shares, stopping, seen>> PROVE Kept'
  BY <1>1, CalmKeeps
<1>2. ASSUME NEW s \in Sessions, NEW p \in BOOLEAN, Emit(s, p) PROVE Kept'
  BY <1>1, <1>2 DEF Emit, server
<1>3. ASSUME NEW s \in Sessions, NEW a \in Agents \cup {Follow},
             SetSessionAgent(s, a)
      PROVE Kept'
  <2>1. [shared[s] EXCEPT !.agent = a] \in Session
        /\ [shared[s] EXCEPT !.agent = a].seq = shared[s].seq
    BY <1>3 DEF TypeOK, SetSessionAgent, IsShared, Session
  <2>2. shared' = [shared EXCEPT ![s] = [shared[s] EXCEPT !.agent = a]]
    BY <1>3 DEF SetSessionAgent
  <2> QED
    BY <1>3, <2>1, <2>2, OverrideKeeps DEF SetSessionAgent, server
<1>4. ASSUME NEW s \in Sessions, NEW m \in UsedModes \cup {Follow},
             SetSessionMode(s, m)
      PROVE Kept'
  <2>1. [shared[s] EXCEPT !.mode = m] \in Session
        /\ [shared[s] EXCEPT !.mode = m].seq = shared[s].seq
    BY <1>4 DEF TypeOK, SetSessionMode, IsShared, Session
  <2>2. shared' = [shared EXCEPT ![s] = [shared[s] EXCEPT !.mode = m]]
    BY <1>4 DEF SetSessionMode
  <2> QED
    BY <1>4, <2>1, <2>2, OverrideKeeps DEF SetSessionMode, server
<1>5. ASSUME NEW a \in Agents, SetAgent(a) PROVE Kept'
  BY <1>1, <1>5 DEF SetAgent, server
<1>6. ASSUME NEW m \in UsedModes, SetMode(m) PROVE Kept'
  BY <1>1, <1>6 DEF SetMode, server
<1>7. ASSUME NEW bound \in BOOLEAN, Start(bound) PROVE Kept'
  BY <1>1, <1>7 DEF Start
<1>8. ASSUME NEW s \in Sessions, Describe(s) PROVE Kept'
  BY <1>8, ReadKeeps DEF Describe, server
<1>9. ASSUME NEW s \in Sessions, ReadOutput(s) PROVE Kept'
  BY <1>9, ReadKeeps DEF ReadOutput, server
<1>10. ASSUME NEW c \in Calls, NEW s \in Sessions, NEW d \in UsedDangers,
              Send(c, s, d)
       PROVE Kept'
  BY <1>1, <1>10 DEF Send, Beside, server
<1>11. ASSUME NEW c \in Calls, After(c) PROVE Kept'
  BY <1>1, <1>11, AfterMoves DEF server
<1>12. CASE UNCHANGED vars
  BY <1>1, <1>12 DEF vars, server
<1> QED
  BY <1>2, <1>3, <1>4, <1>5, <1>6, <1>7, <1>8, <1>9, <1>10, <1>11, <1>12,
     ShareKeeps, UnshareKeeps, StopKeeps, PushKeeps, GateKeeps
  DEF Next, Terminal, User, Client, Proceed, After

-----------------------------------------------------------------------------
\* What runs unasked.

\* A step that keeps the global mode, and a call's danger and override.
LEMMA SameCallKeepsOpen ==
    ASSUME TypeOK, OpenKept, mode' = mode, open \subseteq open',
           \A c \in Calls : calls'[c] # NoCall =>
               /\ calls[c] # NoCall
               /\ calls'[c].danger = calls[c].danger
               /\ calls'[c].mode = calls[c].mode
    PROVE  OpenKept'
BY DEF OpenKept, ModeFor, AutoApproves

LEMMA MovedCall ==
    ASSUME TypeOK, NEW c \in Calls, calls[c] # NoCall,
           (\E place \in Places : Goes(c, place)) \/ Ends(c)
    PROVE  \A x \in Calls : calls'[x] # NoCall =>
               /\ calls[x] # NoCall
               /\ calls'[x].danger = calls[x].danger
               /\ calls'[x].mode = calls[x].mode
<1>1. calls[c] \in Call
  BY DEF TypeOK
<1>2. CASE Ends(c)
  BY <1>2 DEF TypeOK, Ends
<1>3. ASSUME NEW place \in Places, Goes(c, place)
      PROVE \A x \in Calls : calls'[x] # NoCall =>
               /\ calls[x] # NoCall
               /\ calls'[x].danger = calls[x].danger
               /\ calls'[x].mode = calls[x].mode
  <2>1. calls' = [calls EXCEPT ![c] = [calls[c] EXCEPT !.at = place]]
    BY <1>3 DEF Goes
  <2>2. /\ [calls[c] EXCEPT !.at = place].danger = calls[c].danger
        /\ [calls[c] EXCEPT !.at = place].mode = calls[c].mode
    BY <1>1 DEF Call
  <2> QED
    BY <2>1, <2>2 DEF TypeOK
<1> QED
  BY <1>2, <1>3

LEMMA OpenStep == TypeOK /\ OpenKept /\ [Next]_vars => OpenKept'
<1> SUFFICES ASSUME TypeOK, OpenKept, [Next]_vars PROVE OpenKept'
  OBVIOUS
<1>1. ASSUME UNCHANGED <<calls, mode, open>> PROVE OpenKept'
  BY <1>1 DEF OpenKept, ModeFor, AutoApproves
<1>2. ASSUME NEW s \in Sessions, NEW p \in BOOLEAN, Emit(s, p) \/ Push(s, p)
      PROVE OpenKept'
  BY <1>1, <1>2 DEF Emit, Push, choices
<1>3. ASSUME NEW s \in Sessions, Share(s) \/ Unshare(s) PROVE OpenKept'
  BY <1>1, <1>3 DEF Share, Unshare, choices
<1>4. ASSUME NEW s \in Sessions, NEW a \in Agents \cup {Follow},
             SetSessionAgent(s, a)
      PROVE OpenKept'
  BY <1>1, <1>4 DEF SetSessionAgent, choices
<1>5. ASSUME NEW s \in Sessions, NEW m \in UsedModes \cup {Follow},
             SetSessionMode(s, m)
      PROVE OpenKept'
  BY <1>5, SameCallKeepsOpen DEF SetSessionMode, choices
<1>6. ASSUME NEW a \in Agents, SetAgent(a) PROVE OpenKept'
  BY <1>1, <1>6 DEF SetAgent
<1>7. ASSUME NEW m \in UsedModes, SetMode(m) PROVE OpenKept'
  <2> SUFFICES ASSUME NEW c \in Calls, calls'[c] # NoCall,
                      AutoApproves(ModeFor(calls[c].mode)', calls'[c].danger)
               PROVE  c \in open'
    BY DEF OpenKept, AutoApproves, ModeFor
  <2>1. calls' = calls /\ mode' = m /\ open' = open \cup Opened(m, Calls)
    BY <1>7 DEF SetMode
  <2>2. CASE calls[c].mode = Follow
    BY <2>1, <2>2 DEF Opened, ModeFor
  <2>3. CASE calls[c].mode # Follow
    BY <2>1, <2>3 DEF OpenKept, ModeFor
  <2> QED
    BY <2>2, <2>3
<1>8. ASSUME NEW bound \in BOOLEAN, Start(bound) PROVE OpenKept'
  BY <1>1, <1>8 DEF Start, choices
<1>9. CASE Stop
  BY <1>1, <1>9 DEF Stop, choices
<1>10. CASE StopGoesOn
  <2>1. mode' = mode /\ open' = open
    BY <1>10 DEF StopGoesOn, choices
  <2>2. \A c \in Calls : calls'[c] # NoCall => calls'[c] = calls[c]
    BY <1>10 DEF StopGoesOn, StopDropsPrompts, TypeOK
  <2> QED
    BY <2>1, <2>2, SameCallKeepsOpen
<1>11. ASSUME NEW s \in Sessions, Describe(s) \/ ReadOutput(s) PROVE OpenKept'
  BY <1>1, <1>11 DEF Describe, ReadOutput, choices
<1>12. ASSUME NEW c \in Calls, NEW s \in Sessions, NEW d \in UsedDangers,
              Send(c, s, d)
       PROVE OpenKept'
  <2> SUFFICES ASSUME NEW x \in Calls, calls'[x] # NoCall,
                      AutoApproves(ModeFor(calls[x].mode)', calls'[x].danger)
               PROVE  x \in open'
    BY DEF OpenKept, AutoApproves, ModeFor
  <2>1. /\ mode' = mode
        /\ open' = IF \/ AutoApproves(mode, d)
                      \/ AutoApproves(ModeFor(Override(s)), d)
                   THEN open \cup {c} ELSE open \ {c}
        /\ calls' = [calls EXCEPT ![c] = [at |-> "resolved", s |-> s,
                                          danger |-> d, mode |-> Override(s)]]
    BY <1>12 DEF Send, Beside, choices
  <2>2. CASE x = c
    <3>1. calls'[c].mode = Override(s) /\ calls'[c].danger = d
      BY <2>1 DEF TypeOK
    <3>2. ModeFor(calls[c].mode)' = ModeFor(Override(s))
      BY <2>1, <3>1 DEF ModeFor
    <3> QED
      BY <2>1, <2>2, <3>1, <3>2
  <2>3. CASE x # c
    <3>1. calls'[x] = calls[x]
      BY <2>1, <2>3 DEF TypeOK
    <3>2. ModeFor(calls[x].mode)' = ModeFor(calls[x].mode)
      BY <2>1, <3>1 DEF ModeFor
    <3> QED
      BY <2>1, <2>3, <3>1, <3>2 DEF OpenKept
  <2> QED
    BY <2>2, <2>3
<1>13. ASSUME NEW c \in Calls, Gate(c) PROVE OpenKept'
  <2>1. (\E place \in Places : Goes(c, place)) \/ Ends(c)
    BY <1>13 DEF Gate, StaleRefused, Places
  <2>2. calls[c] # NoCall /\ mode' = mode /\ open' = open
    BY <1>13 DEF Gate, Beside, choices
  <2> QED
    BY <2>1, <2>2, MovedCall, SameCallKeepsOpen
<1>14. ASSUME NEW c \in Calls, After(c) PROVE OpenKept'
  <2>1. mode' = mode /\ open' = open
    BY <1>14, AfterMoves DEF choices
  <2> QED
    BY <1>14, <2>1, AfterMoves, MovedCall, SameCallKeepsOpen
<1>15. CASE UNCHANGED vars
  BY <1>1, <1>15 DEF vars, choices
<1> QED
  BY <1>2, <1>3, <1>4, <1>5, <1>6, <1>7, <1>8, <1>9, <1>10, <1>11, <1>12, <1>13,
     <1>14, <1>15
  DEF Next, Terminal, User, Client, Proceed, After

-----------------------------------------------------------------------------
\* The theorems.

LEMMA MInvStep == MInv /\ [Next]_vars => MInv'
BY TypeStep, KeptStep, OpenStep DEF MInv

\* MInv holds in every behaviour of the terminals, the user and the client.
THEOREM MInvAlways == Spec => []MInv
BY InitMInv, MInvStep, PTL DEF Spec

\* Every variable of the sharing and its calls keeps its type.
THEOREM McpTypeCorrect == Spec => []TypeOK
<1>1. MInv => TypeOK
  BY DEF MInv
<1> QED
  BY <1>1, MInvAlways, PTL

\* The client's preconditions never outlive the sharing they were met in.
THEOREM AlwaysForgotten == Spec => []ForgottenWithSharing
<1>1. MInv => ForgottenWithSharing
  BY DEF MInv, Kept
<1> QED
  BY <1>1, MInvAlways, PTL

\* Only its own steps take a call from one place to another.
LEMMA OwnSteps ==
    ASSUME TypeOK, Next, NEW c \in Calls, NEW from, NEW to, from # to,
           Moves(c, from, to)
    PROVE  Gate(c) \/ After(c)
<1>1. calls'[c] # calls[c] /\ calls'[c] # NoCall /\ calls[c] # NoCall
  BY DEF Moves
<1>2. ASSUME NEW x \in Calls, x # c, Gate(x) \/ After(x)
      PROVE calls'[c] = calls[c]
  BY <1>2, AfterMoves DEF Gate, StaleRefused, Goes, Ends, TypeOK
<1>3. ASSUME NEW x \in Calls, NEW s \in Sessions, NEW d \in UsedDangers,
             Send(x, s, d)
      PROVE calls'[c] = calls[c] \/ calls[c] = NoCall
  BY <1>3 DEF Send, TypeOK
<1>4. StopGoesOn => calls'[c] \in {calls[c], NoCall}
  BY DEF StopGoesOn, StopDropsPrompts, TypeOK
<1>5. ASSUME NEW s \in Sessions, Describe(s) \/ ReadOutput(s)
      PROVE calls' = calls
  BY <1>5 DEF Describe, ReadOutput
<1>6. Terminal => calls' = calls
  BY DEF Terminal, Emit, Push
<1>7. User /\ ~StopGoesOn => calls' = calls
  BY DEF User, Share, Unshare, SetSessionAgent, SetSessionMode, SetAgent, SetMode,
         Start, Stop
<1> QED
  BY <1>1, <1>2, <1>3, <1>4, <1>5, <1>6, <1>7 DEF Next, Client, Proceed, After

\* A call that passes the gate was prepared in the sharing it writes into.
THEOREM GateAlwaysSeesSharing == Spec => GateSeesSharing
<1> DEFINE Seen ==
        \A c \in Calls :
            Moves(c, "resolved", "passed") /\ calls[c].s \notin overlapped
                => calls[c].s \in met \cap fresh
<1>1. MInv /\ [Next]_vars => [Seen]_vars
  <2> SUFFICES ASSUME MInv, Next, NEW c \in Calls,
                      Moves(c, "resolved", "passed"),
                      calls[c].s \notin overlapped
               PROVE  calls[c].s \in met \cap fresh
    OBVIOUS
  <2>1. calls[c].s \in Sessions
    BY DEF MInv, TypeOK, Moves, Call
  <2>2. Gate(c)
    <3>1. ~After(c)
      BY DEF After, Decide, Ask, Prompt, Answer, TakeSender, Type, Reply, Moves
    <3> QED
      BY <3>1, OwnSteps DEF MInv
  <2>3. /\ IsShared(calls[c].s) /\ calls[c].s \in described
        /\ readSeq[calls[c].s] = shared[calls[c].s].seq
    BY <2>2 DEF Gate, StaleRefused, Ends, Moves, MInv, TypeOK
  <2> QED
    BY <2>1, <2>3 DEF MInv, Kept, MetHere
<1> QED
  BY <1>1, MInvAlways, PTL DEF Spec, GateSeesSharing

\* A command runs unasked only if some mode was open to it during the call.
THEOREM UnaskedAlwaysOpen == Spec => UnaskedOnlyIfOpen
<1> DEFINE Open == \A c \in Calls : Moves(c, "passed", "allowed") => c \in open
<1>1. MInv /\ [Next]_vars => [Open]_vars
  <2> SUFFICES ASSUME MInv, Next, NEW c \in Calls, Moves(c, "passed", "allowed")
               PROVE  c \in open
    OBVIOUS
  <2>1. Gate(c) \/ After(c)
    BY OwnSteps DEF MInv
  <2>2. Decide(c)
    BY <2>1 DEF After, Gate, Prompt, Answer, TakeSender, Type, Reply, Moves
  <2>3. ~Ask(c)
    <3>1. calls[c] \in Call
      BY DEF MInv, TypeOK, Moves
    <3> QED
      BY <3>1 DEF Ask, Goes, Ends, Moves, MInv, TypeOK, Call
  <2>4. AutoApproves(ModeFor(calls[c].mode), calls[c].danger) /\ calls[c] # NoCall
    BY <2>2, <2>3 DEF Decide, Moves
  <2> QED
    BY <2>4 DEF MInv, OpenKept
<1> QED
  BY <1>1, MInvAlways, PTL DEF Spec, UnaskedOnlyIfOpen

-----------------------------------------------------------------------------
(* A terminal shared with another person.                                  *)

\* What only a connection that was made gets to.
Reached == {"awaiting-answer", "connecting", "connected"}

\* A share that is over, or has not begun: nothing of it is shown, nothing
\* hears it, and nothing will come of it.
Dormant(s) ==
    /\ ~S!UnderWay(s)
    /\ peer # s /\ listens[s] = None
    /\ session # None => session.of # s
    /\ ~rtc[s].channel
    /\ rtc[s].pc = "open" => rtc[s].state \notin Reached /\ inbox[s] = <<>>

\* The screen is c's, and what it says of the connection is so.
OnScreen(c) ==
    /\ session # None =>
          /\ session.of = c /\ session.tab = rtc[c].tab /\ session.code \in {None, c}
    /\ session # None /\ session.phase = "connected" =>
          /\ peer = c /\ rtc[c].state = "connected" /\ rtc[c].pc = "open"
    /\ rtc[c].state = "connected" /\ rtc[c].pc = "open" =>
          session # None /\ session.phase = "connected"

\* How far c's connection is.
Connects(c) ==
    /\ start[c] \in {"importing", "gathering"} =>
          rtc[c].state \notin Reached /\ ~rtc[c].made
    /\ start[c] = "importing" => peer # c /\ rtc[c].pc = "open"
    /\ start[c] = "gathering" /\ rtc[c].pc = "open" => peer = c
    /\ rtc[c].pc = "open" /\ rtc[c].state \in Reached =>
          peer = c /\ (rtc[c].made => session # None)
    /\ rtc[c].applied => rtc[c].made
    /\ rtc[c].state = "connected" => rtc[c].made
    /\ rtc[c].channel => rtc[c].pc # "closed"
    /\ rtc[c].channel /\ rtc[c].pc = "open" => rtc[c].state = "connected"
    /\ peer = c => rtc[c].pc # "closing"

\* What goes out of c's terminal, and what comes in.
Carries(c) ==
    /\ rtc[c].pc = "open" /\ (inbox[c] # <<>> \/ opening[c] # None) => rtc[c].channel
    /\ start[c] \in {"importing", "gathering"} => attaching[c] = None /\ listens[c] = None
    /\ attaching[c] \in {None, rtc[c].tab}
    /\ listens[c] # None => listener = c /\ peer = c /\ listens[c] = rtc[c].tab

\* c is the latest share, and the others are over or have not begun.
Latest(c) ==
    /\ \A s \in S!Share : start[s] # "off" <=> s <= c
    /\ \A s \in S!Share : s # c => Dormant(s)
    /\ \A s \in S!Share : s > c => inbox[s] = <<>>
    /\ c = 0 => session = None
    /\ c # 0 => OnScreen(c) /\ Connects(c) /\ Carries(c)

ShareInv == S!TypeOK /\ (~together => ~astray /\ \E c \in 0..Shares : Latest(c))

States == {"idle", "gathering", "awaiting-answer", "connecting", "connected", "closed",
           "failed"}

\* What the screen shows of a peer is a share.
LEMMA ShowsTyped ==
    ASSUME session \in S!Shown \cup {None}, NEW state \in States \ {"idle"}
    PROVE  S!Shows(state) \in S!Shown \cup {None}
<1>1. CASE session = None
  BY <1>1 DEF S!Shows
<1>2. CASE session \in S!Shown
  <2>1. S!Phase(state) \in {"idle", "preparing", "exchanging", "connecting", "connected",
                          "ended", "failed"}
    BY DEF S!Phase, States
  <2>2. [session EXCEPT !.phase = S!Phase(state)] \in S!Shown
    BY <1>2, <2>1 DEF S!Shown
  <2> QED
    BY <2>2 DEF S!Shows
<1> QED
  BY <1>1, <1>2

\* A peer that closes is a peer.
LEMMA ClosedTyped == ASSUME NEW p \in S!Peer PROVE S!Closed(p) \in S!Peer
<1>1. /\ [p EXCEPT !.pc = "closing", !.timer = FALSE] \in S!Peer
      /\ [p EXCEPT !.pc = "closed", !.timer = FALSE, !.state = "closed"] \in S!Peer
  BY DEF S!Peer
<1> QED
  BY <1>1 DEF S!Closed

\* So are all of them when the one there is closes.
LEMMA CloseOursTyped == ASSUME S!TypeOK PROVE S!CloseOurs \in [S!Share -> S!Peer]
<1>1. CASE peer = None
  BY <1>1 DEF S!CloseOurs, S!TypeOK
<1>2. CASE peer # None
  <2>1. rtc[peer] \in S!Peer /\ peer \in S!Share
    BY <1>2 DEF S!TypeOK
  <2>2. S!Closed(rtc[peer]) \in S!Peer
    BY <2>1, ClosedTyped
  <2> QED
    BY <1>2, <2>1, <2>2 DEF S!CloseOurs, S!TypeOK
<1> QED
  BY <1>1, <1>2

\* A teardown keeps the types of what it lets go of.
LEMMA TeardownTyped ==
    ASSUME S!TypeOK, S!Teardown
    PROVE  {peer', listener'} \subseteq S!Share \cup {None} /\ listens' \in [S!Share -> Tabs \cup {None}]
BY DEF S!Teardown, S!TypeOK

\* So does a failure,
LEMMA FailedTyped ==
    ASSUME S!TypeOK, NEW s \in S!Share, S!Failed(s)
    PROVE  /\ session' \in S!Shown \cup {None} /\ rtc' \in [S!Share -> S!Peer]
           /\ {peer', listener'} \subseteq S!Share \cup {None}
           /\ listens' \in [S!Share -> Tabs \cup {None}]
<1>1. CASE rtc[s].state \in {"failed", "closed"}
  BY <1>1 DEF S!Failed, S!TypeOK
<1>2. CASE rtc[s].state \notin {"failed", "closed"}
  <2> DEFINE p == [rtc[s] EXCEPT !.state = "failed", !.channel = FALSE, !.timer = FALSE,
                                 !.pc = IF @ = "open" THEN "closed" ELSE @]
  <2>1. p \in S!Peer
    <3>1. rtc[s] \in S!Peer
      BY DEF S!TypeOK
    <3>2. (IF rtc[s].pc = "open" THEN "closed" ELSE rtc[s].pc) \in {"open", "closing", "closed"}
      BY <3>1 DEF S!Peer
    <3> QED
      BY <3>1, <3>2 DEF S!Peer
  <2>2. rtc' = [rtc EXCEPT ![s] = p]
    BY <1>2 DEF S!Failed, S!TypeOK, S!Peer
  <2>3. rtc' \in [S!Share -> S!Peer]
    BY <2>1, <2>2 DEF S!TypeOK
  <2>4. session # None =>
          [session EXCEPT !.phase = "failed", !.failure = "other"] \in S!Shown
    BY DEF S!TypeOK, S!Shown
  <2>5. session' \in S!Shown \cup {None}
    BY <1>2, <2>4 DEF S!Failed
  <2>6. {peer', listener'} \subseteq S!Share \cup {None} /\ listens' \in [S!Share -> Tabs \cup {None}]
    BY <1>2, TeardownTyped DEF S!Failed, S!TypeOK
  <2> QED
    BY <2>3, <2>5, <2>6
<1> QED
  BY <1>1, <1>2

\* and a peer that says it is over.
LEMMA ComesDownTyped ==
    ASSUME S!TypeOK, NEW state \in States \ {"idle"}, S!ComesDown(state)
    PROVE  /\ session' \in S!Shown \cup {None}
           /\ {peer', listener'} \subseteq S!Share \cup {None}
           /\ listens' \in [S!Share -> Tabs \cup {None}]
<1>1. session' \in S!Shown \cup {None}
  BY ShowsTyped DEF S!ComesDown, S!TypeOK
<1>2. {peer', listener'} \subseteq S!Share \cup {None} /\ listens' \in [S!Share -> Tabs \cup {None}]
  BY TeardownTyped DEF S!ComesDown, S!TypeOK
<1> QED
  BY <1>1, <1>2

\* A start keeps every type,
LEMMA StartTyped ==
    ASSUME S!TypeOK, NEW s \in S!Share, NEW choice \in Choices, S!Start(s, choice)
    PROVE  S!TypeOK'
<1>1. choice \in S!Choice
  BY TypingAssumption DEF S!TerminalShareAssumption
<1>2. session' \in S!Shown
  BY <1>1 DEF S!Start, S!Shown, S!Choice
<1>3. S!NewPeer(choice.role, choice.tab) \in S!Peer
  BY <1>1 DEF S!NewPeer, S!Peer, S!Choice
<1>4. rtc' \in [S!Share -> S!Peer]
  BY <1>3, CloseOursTyped DEF S!Start
<1>5. {peer', listener'} \subseteq S!Share \cup {None} /\ listens' \in [S!Share -> Tabs \cup {None}]
  BY TeardownTyped DEF S!Start, S!TypeOK
<1>6. /\ enabled' \in BOOLEAN /\ busy' \in S!Share /\ attaching' = attaching
      /\ inbox' = inbox /\ opening' = opening
  BY DEF S!Start, S!TypeOK, S!input
<1>7. start' \in [S!Share -> {"off", "importing", "gathering", "over"}]
  BY DEF S!Start, S!TypeOK
<1>8. together' \in BOOLEAN /\ astray' \in BOOLEAN
  BY DEF S!Start, S!TypeOK
<1> QED
  BY <1>2, <1>4, <1>5, <1>6, <1>7, <1>8 DEF S!TypeOK

\* and its further steps, up to the reply,
LEMMA StepsTyped ==
    ASSUME S!TypeOK, NEW s \in S!Share,
           \/ S!Imported(s) \/ S!StartFails(s) \/ S!Gathered(s) \/ S!AcceptAnswer(s)
           \/ S!OtherAccepts(s)
    PROVE  S!TypeOK'
<1>0. rtc[s] \in S!Peer
  BY DEF S!TypeOK
<1>1. CASE S!Imported(s)
  <2>1. [rtc[s] EXCEPT !.state = "gathering"] \in S!Peer
    BY <1>0 DEF S!Peer
  <2>2. rtc' \in [S!Share -> S!Peer]
    BY <1>1, <2>1 DEF S!Imported, S!TypeOK
  <2>3. session' \in S!Shown \cup {None}
    BY <1>1, ShowsTyped DEF S!Imported, S!TypeOK, States
  <2> QED
    BY <1>1, <2>2, <2>3 DEF S!Imported, S!TypeOK, S!output, S!input, S!history
<1>2. CASE S!StartFails(s)
  <2>1. session' \in S!Shown \cup {None}
    <3>1. CASE session = None
      BY <1>2, <3>1 DEF S!StartFails
    <3>2. CASE session # None
      <4>1. session \in S!Shown
        BY <3>2 DEF S!TypeOK
      <4>2. session.failure \in {"none", "bad-code", "other"}
        BY <4>1 DEF S!Shown
      <4>3. [session EXCEPT
              !.phase = IF session.failure = "other" THEN "failed" ELSE "idle",
              !.failure = IF @ = "none" THEN "bad-code" ELSE @] \in S!Shown
        BY <4>1, <4>2 DEF S!Shown
      <4> QED
        BY <1>2, <3>2, <4>3 DEF S!StartFails
    <3> QED
      BY <3>1, <3>2
  <2>2. {peer', listener'} \subseteq S!Share \cup {None} /\ listens' \in [S!Share -> Tabs \cup {None}]
    BY <1>2, TeardownTyped DEF S!StartFails, S!TypeOK
  <2> QED
    BY <1>2, <2>1, <2>2 DEF S!StartFails, S!Returns, S!TypeOK, S!input, S!history
<1>3. CASE S!Gathered(s)
  <2>1. session' \in S!Shown \cup {None}
    <3>1. session # None => [session EXCEPT !.phase = "exchanging", !.code = s] \in S!Shown
      BY DEF S!TypeOK, S!Shown
    <3> QED
      BY <1>3, <3>1 DEF S!Gathered
  <2> DEFINE p == [rtc[s] EXCEPT
        !.state = IF rtc[s].role = "host" THEN "awaiting-answer" ELSE "connecting",
        !.timer = (rtc[s].role = "guest"), !.made = (session # None)]
  <2>2. /\ (IF rtc[s].role = "host" THEN "awaiting-answer" ELSE "connecting") \in States
        /\ (rtc[s].role = "guest") \in BOOLEAN
        /\ (session # None) \in BOOLEAN
    BY DEF States
  <2>3. p \in S!Peer
    BY <1>0, <2>2 DEF S!Peer, States
  <2>4. rtc' = [rtc EXCEPT ![s] = p]
    BY <1>3 DEF S!Gathered, S!TypeOK
  <2>5. rtc' \in [S!Share -> S!Peer]
    BY <2>3, <2>4 DEF S!TypeOK
  <2> QED
    BY <1>3, <2>1, <2>5 DEF S!Gathered, S!Returns, S!TypeOK, S!output, S!input, S!history
<1>4. CASE S!AcceptAnswer(s)
  <2>1. session \in S!Shown
    BY <1>4 DEF S!AcceptAnswer, S!TypeOK
  <2>2. /\ [session EXCEPT !.phase = "connecting", !.failure = "none"] \in S!Shown
        /\ [session EXCEPT !.failure = "bad-code"] \in S!Shown
    BY <2>1 DEF S!Shown
  <2>3. [rtc[s] EXCEPT !.state = "connecting", !.timer = TRUE, !.applied = TRUE] \in S!Peer
    BY <1>0 DEF S!Peer
  <2>4. rtc' \in [S!Share -> S!Peer]
    BY <1>4, <2>3 DEF S!AcceptAnswer, S!TypeOK
  <2> QED
    BY <1>4, <2>2, <2>4 DEF S!AcceptAnswer, S!TypeOK, S!output, S!input, S!history
<1>5. CASE S!OtherAccepts(s)
  <2>1. [rtc[s] EXCEPT !.applied = TRUE] \in S!Peer
    BY <1>0 DEF S!Peer
  <2>2. rtc' \in [S!Share -> S!Peer]
    BY <1>5, <2>1 DEF S!OtherAccepts, S!TypeOK
  <2> QED
    BY <1>5, <2>2 DEF S!OtherAccepts, S!TypeOK, S!screen, S!output, S!input, S!history
<1> QED
  BY <1>1, <1>2, <1>3, <1>4, <1>5

\* and what happens to the connection,
LEMMA ConnectionsTyped ==
    ASSUME S!TypeOK, NEW s \in S!Share,
           \/ S!Opens(s) \/ S!TimesOut(s) \/ S!Breaks(s) \/ S!HearsBye(s) \/ S!Finish(s)
    PROVE  S!TypeOK'
<1>0. rtc[s] \in S!Peer
  BY DEF S!TypeOK
<1>1. CASE S!Opens(s)
  <2>1. [rtc[s] EXCEPT !.state = "connected", !.channel = TRUE, !.timer = FALSE] \in S!Peer
    BY <1>0 DEF S!Peer
  <2>2. rtc' \in [S!Share -> S!Peer]
    BY <1>1, <2>1 DEF S!Opens, S!TypeOK
  <2>3. session' \in S!Shown \cup {None}
    BY <1>1, ShowsTyped DEF S!Opens, S!TypeOK, States
  <2>4. session # None => session.tab \in Tabs \cup {None}
    BY DEF S!TypeOK, S!Shown
  <2>5. attaching' \in [S!Share -> Tabs \cup {None}]
    BY <1>1, <2>4 DEF S!Opens, S!TypeOK
  <2> QED
    BY <1>1, <2>2, <2>3, <2>5 DEF S!Opens, S!TypeOK, S!input, S!history
<1>2. CASE S!TimesOut(s)
  <2>1. CASE rtc[s].state = "connecting"
    <3>1. S!Failed(s)
      BY <1>2, <2>1 DEF S!TimesOut
    <3> QED
      BY <1>2, <3>1, FailedTyped DEF S!TimesOut, S!TypeOK, S!input, S!history
  <2>2. CASE rtc[s].state # "connecting"
    <3>1. [rtc[s] EXCEPT !.timer = FALSE] \in S!Peer
      BY <1>0 DEF S!Peer
    <3>2. rtc' \in [S!Share -> S!Peer]
      BY <1>2, <2>2, <3>1 DEF S!TimesOut, S!TypeOK
    <3> QED
      BY <1>2, <2>2, <3>2 DEF S!TimesOut, S!TypeOK, S!input, S!history
  <2> QED
    BY <2>1, <2>2
<1>3. CASE S!Breaks(s)
  BY <1>3, FailedTyped DEF S!Breaks, S!TypeOK, S!input, S!history
<1>4. CASE S!HearsBye(s)
  <2>1. S!Closed(rtc[s]) \in S!Peer
    BY <1>0, ClosedTyped
  <2>2. [S!Closed(rtc[s]) EXCEPT !.state = "closed"] \in S!Peer
    BY <2>1 DEF S!Peer
  <2>3. rtc' \in [S!Share -> S!Peer]
    BY <1>4, <2>2 DEF S!HearsBye, S!TypeOK
  <2>4. opening' \in [S!Share -> S!Frame \cup {None}]
    BY <1>4 DEF S!HearsBye, S!TypeOK
  <2>5. /\ session' \in S!Shown \cup {None}
        /\ {peer', listener'} \subseteq S!Share \cup {None}
        /\ listens' \in [S!Share -> Tabs \cup {None}]
    BY <1>4, ComesDownTyped DEF S!HearsBye, S!TypeOK, States
  <2> QED
    BY <1>4, <2>3, <2>4, <2>5 DEF S!HearsBye, S!TypeOK, S!history
<1>5. CASE S!Finish(s)
  <2>1. [rtc[s] EXCEPT !.pc = "closed", !.channel = FALSE, !.state = "closed"] \in S!Peer
    BY <1>0 DEF S!Peer
  <2>2. rtc' \in [S!Share -> S!Peer]
    BY <1>5, <2>1 DEF S!Finish, S!TypeOK
  <2>3. /\ session' \in S!Shown \cup {None}
        /\ {peer', listener'} \subseteq S!Share \cup {None}
        /\ listens' \in [S!Share -> Tabs \cup {None}]
    BY <1>5, ComesDownTyped DEF S!Finish, S!TypeOK, States
  <2> QED
    BY <1>5, <2>2, <2>3 DEF S!Finish, S!TypeOK, S!input, S!history
<1> QED
  BY <1>1, <1>2, <1>3, <1>4, <1>5

\* and to the frames on it,
LEMMA FramesTyped ==
    ASSUME S!TypeOK, NEW s \in S!Share, NEW frame \in S!Frame,
           S!Attached(s) \/ S!OpenFrame(s) \/ S!TypesIn(s) \/ S!Arrives(s, frame)
    PROVE  S!TypeOK'
<1>1. CASE S!Attached(s)
  BY <1>1 DEF S!Attached, S!TypeOK, S!screen, S!input
<1>2. CASE S!OpenFrame(s)
  <2>1. inbox[s] \in Seq(S!Frame) /\ inbox[s] # <<>>
    BY <1>2 DEF S!OpenFrame, S!TypeOK
  <2>2. Tail(inbox[s]) \in Seq(S!Frame) /\ Head(inbox[s]) \in S!Frame
    BY <2>1
  <2> QED
    BY <1>2, <2>2 DEF S!OpenFrame, S!TypeOK, S!screen, S!output, S!history
<1>3. CASE S!TypesIn(s)
  BY <1>3 DEF S!TypesIn, S!TypeOK, S!screen, S!output
<1>4. CASE S!Arrives(s, frame)
  <2>1. Append(inbox[s], frame) \in Seq(S!Frame)
    BY DEF S!TypeOK
  <2> QED
    BY <1>4, <2>1 DEF S!Arrives, S!TypeOK, S!screen, S!output, S!history
<1> QED
  BY <1>1, <1>2, <1>3, <1>4

\* and every step there is.
LEMMA ShareTyped == S!TypeOK /\ [S!Next]_S!vars => S!TypeOK'
<1> SUFFICES ASSUME S!TypeOK, [S!Next]_S!vars PROVE S!TypeOK'
  OBVIOUS
<1>1. ASSUME S!End PROVE /\ rtc' \in [S!Share -> S!Peer]
                       /\ {peer', listener'} \subseteq S!Share \cup {None}
                       /\ listens' \in [S!Share -> Tabs \cup {None}]
  BY <1>1, CloseOursTyped, TeardownTyped DEF S!End
<1>2. S!Shows("closed") \in S!Shown \cup {None}
  BY ShowsTyped DEF S!TypeOK, States
<1>3. ASSUME NEW t \in Tabs, S!Prints(t) PROVE S!TypeOK'
  BY <1>3 DEF S!Prints, S!TypeOK, S!screen, S!output, S!input
<1>4. ASSUME NEW m \in {"read-only", "read-write"}, S!SetMode(m) PROVE S!TypeOK'
  <2>1. [session EXCEPT !.mode = m] \in S!Shown
    BY <1>4 DEF S!SetMode, S!TypeOK, S!Shown
  <2> QED
    BY <1>4, <2>1 DEF S!SetMode, S!TypeOK, S!output, S!input, S!history
<1>5. CASE S!EndShare
  BY <1>1, <1>2, <1>5 DEF S!EndShare, S!End, S!TypeOK, S!input, S!history
<1>6. CASE S!Dismiss
  BY <1>1, <1>6 DEF S!Dismiss, S!End, S!TypeOK, S!output, S!input, S!history
<1>7. CASE S!OtherDialog
  BY <1>7 DEF S!OtherDialog, S!TypeOK, S!output, S!input, S!history
<1>8. ASSUME NEW turned \in BOOLEAN, S!Enable(turned) PROVE S!TypeOK'
  BY <1>1, <1>2, <1>8 DEF S!Enable, S!End, S!TypeOK, S!output, S!input, S!history
<1>9. CASE UNCHANGED S!vars
  BY <1>9 DEF S!vars, S!TypeOK, S!screen, S!output, S!input, S!history
<1>10. ASSUME NEW s \in S!Share, S!Attached(s) \/ S!OpenFrame(s) \/ S!TypesIn(s) PROVE S!TypeOK'
  <2>1. "in" \in S!Frame
    BY DEF S!Frame
  <2> QED
    BY <1>10, <2>1, FramesTyped
<1>11. ASSUME NEW s \in S!Share,
              \/ \E choice \in Choices : S!Start(s, choice)
              \/ \E frame \in S!Frame : S!Arrives(s, frame)
       PROVE  S!TypeOK'
  BY <1>11, StartTyped, FramesTyped
<1>12. ASSUME NEW s \in S!Share,
              \/ S!Imported(s) \/ S!StartFails(s) \/ S!Gathered(s)
              \/ S!AcceptAnswer(s) \/ S!OtherAccepts(s)
       PROVE  S!TypeOK'
  BY <1>12, StepsTyped
<1>13. ASSUME NEW s \in S!Share,
              S!Opens(s) \/ S!TimesOut(s) \/ S!Breaks(s) \/ S!HearsBye(s) \/ S!Finish(s)
       PROVE  S!TypeOK'
  BY <1>13, ConnectionsTyped
<1> QED
  BY <1>3, <1>4, <1>5, <1>6, <1>7, <1>8, <1>9, <1>10, <1>11, <1>12, <1>13 DEF S!Next
-----------------------------------------------------------------------------
\* The invariant holds at the start, before any share.
LEMMA ShareInit == S!Init => ShareInv
<1> SUFFICES ASSUME S!Init PROVE ShareInv
  OBVIOUS
<1>1. S!TypeOK
  <2>1. S!NewPeer("host", None) \in S!Peer
    BY DEF S!NewPeer, S!Peer
  <2>2. <<>> \in Seq(S!Frame)
    OBVIOUS
  <2> QED
    BY <2>1, <2>2 DEF S!Init, S!TypeOK
<1>2. \A s \in S!Share : Dormant(s)
  BY TypingAssumption DEF S!Init, Dormant, S!UnderWay, S!NewPeer, Reached, S!TerminalShareAssumption
<1>3. Latest(0)
  BY <1>2 DEF S!Init, Latest, S!Share
<1>4. 0 \in 0..Shares
  BY TypingAssumption DEF S!TerminalShareAssumption
<1> QED
  BY <1>1, <1>3, <1>4 DEF S!Init, ShareInv

\* Only the latest share has steps to take.
LEMMA Whose ==
    ASSUME NEW c \in 0..Shares, Latest(c), NEW s \in S!Share,
           \/ S!UnderWay(s) \/ rtc[s].channel
           \/ rtc[s].pc = "open" /\ rtc[s].state \in Reached
           \/ session # None /\ session.of = s
           \/ listens[s] # None \/ peer = s
    PROVE  s = c /\ c # 0 /\ OnScreen(c) /\ Connects(c) /\ Carries(c)
<1>1. s = c
  BY DEF Latest, Dormant
<1>2. c # 0
  BY <1>1 DEF S!Share
<1> QED
  BY <1>1, <1>2 DEF Latest

\* The others stay over, or not begun, while it takes one.
LEMMA OthersKeep ==
    ASSUME S!TypeOK, NEW c \in 0..Shares, Latest(c),
           \A x \in S!Share : x # c =>
              /\ start'[x] = start[x] /\ attaching'[x] = attaching[x]
              /\ opening'[x] \in {opening[x], None} /\ listens'[x] \in {listens[x], None}
              /\ inbox[x] = <<>> => inbox'[x] = <<>>
              /\ rtc'[x].pc = rtc[x].pc /\ rtc'[x].state = rtc[x].state
              /\ rtc'[x].channel = rtc[x].channel /\ rtc'[x].timer = rtc[x].timer,
           c # 0 => start'[c] # "off",
           peer' \in {peer, None, c},
           session' # None => session # None /\ session'.of = session.of,
           c # 0 => OnScreen(c)' /\ Connects(c)' /\ Carries(c)'
    PROVE  Latest(c)'
<1>1. \A x \in S!Share : x # c => Dormant(x)'
  <2> SUFFICES ASSUME NEW x \in S!Share, x # c PROVE Dormant(x)'
    OBVIOUS
  <2>1. Dormant(x)
    BY DEF Latest
  <2>2. ~S!UnderWay(x)'
    BY <2>1 DEF Dormant, S!UnderWay
  <2>3. peer' # x
    BY <2>1, TypingAssumption DEF Dormant, S!TerminalShareAssumption
  <2> QED
    BY <2>1, <2>2, <2>3 DEF Dormant
<1>2. \A s \in S!Share : start'[s] # "off" <=> s <= c
  <2> SUFFICES ASSUME NEW s \in S!Share PROVE start'[s] # "off" <=> s <= c
    OBVIOUS
  <2>1. CASE s = c
    BY <2>1 DEF S!Share
  <2>2. CASE s # c
    BY <2>2 DEF Latest
  <2> QED
    BY <2>1, <2>2
<1>3. \A s \in S!Share : s > c => inbox'[s] = <<>>
  BY DEF Latest, S!Share
<1>4. c = 0 => session' = None
  BY DEF Latest
<1> QED
  BY <1>1, <1>2, <1>3, <1>4 DEF Latest

\* A teardown leaves nobody listening.
LEMMA TornDown ==
    ASSUME S!TypeOK, NEW c \in 0..Shares, Latest(c), S!Teardown
    PROVE  peer' = None /\ \A x \in S!Share : listens'[x] = None
<1>1. peer' = None
  BY DEF S!Teardown
<1>2. ASSUME NEW x \in S!Share PROVE listens'[x] = None
  <2>1. CASE listens[x] = None
    BY <2>1 DEF S!Teardown, S!TypeOK
  <2>2. CASE listens[x] # None
    <3>1. listener = x
      BY <2>2, Whose DEF Carries
    <3> QED
      BY <3>1, TypingAssumption DEF S!Teardown, S!TypeOK, S!TerminalShareAssumption
  <2> QED
    BY <2>1, <2>2
<1> QED
  BY <1>1, <1>2
\* A start that finds the last share over begins one of its own.
LEMMA Starts ==
    ASSUME S!TypeOK, NEW c \in 0..Shares, Latest(c), NEW s \in S!Share, NEW choice \in Choices,
           S!Start(s, choice), ~together'
    PROVE  s = c + 1 /\ Latest(s)'
<1>0. choice \in S!Choice /\ Shares \in Nat
  BY TypingAssumption DEF S!TerminalShareAssumption
<1>1. s = c + 1
  <2>1. s > c /\ c \in Nat /\ s \in Nat
    BY <1>0 DEF Latest, S!Start, S!Share
  <2>2. s - 1 > c => s - 1 \in S!Share /\ s - 1 \in 1..s - 1
    BY <2>1, <1>0 DEF S!Share
  <2>3. ~(s - 1 > c)
    BY <2>1, <2>2 DEF Latest, S!Start
  <2> QED
    BY <2>1, <2>3
<1>2. \A x \in S!Share : ~S!UnderWay(x)
  BY DEF S!Start
<1>3. peer' = None /\ \A x \in S!Share : listens'[x] = None
  <2>1. CASE peer # None
    BY <2>1, TornDown DEF S!Start
  <2>2. CASE peer = None
    <3>1. \A x \in S!Share : listens[x] = None
      BY <2>2, Whose, TypingAssumption DEF Carries, S!TerminalShareAssumption
    <3> QED
      BY <2>2, <3>1 DEF S!Start
  <2> QED
    BY <2>1, <2>2
<1>4. session' = [of |-> s, role |-> choice.role, phase |-> "preparing", tab |-> choice.tab,
                  mode |-> choice.mode, code |-> None, failure |-> "none"]
  BY DEF S!Start
<1>5. ASSUME NEW x \in S!Share, x # s PROVE rtc'[x] = S!CloseOurs[x]
  BY <1>5, CloseOursTyped DEF S!Start
<1>6. rtc'[s] = S!NewPeer(choice.role, choice.tab)
  BY CloseOursTyped DEF S!Start
<1>7. /\ \A x \in S!Share : start'[x] = IF x = s THEN "importing" ELSE start[x]
      /\ attaching' = attaching /\ opening' = opening /\ inbox' = inbox
  BY DEF S!Start, S!TypeOK, S!input
<1>8. \A x \in S!Share : peer # x => S!CloseOurs[x] = rtc[x]
  BY TypingAssumption DEF S!CloseOurs, S!TypeOK, S!TerminalShareAssumption
<1>9. ASSUME NEW x \in S!Share, x # s PROVE Dormant(x)'
  <2>1. CASE x # c
    <3>1. Dormant(x)
      BY <2>1 DEF Latest
    <3>2. rtc'[x] = rtc[x]
      BY <1>5, <1>8, <1>9, <3>1 DEF Dormant
    <3> QED
      BY <1>3, <1>4, <1>7, <1>9, <3>1, <3>2, TypingAssumption DEF Dormant, S!UnderWay, S!TerminalShareAssumption
  <2>2. CASE x = c
    <3>1. c # 0 /\ OnScreen(c) /\ Connects(c) /\ Carries(c)
      BY <2>2 DEF Latest, S!Share
    <3>2. session # None => session.phase # "connected"
      BY DEF S!Start
    <3>3. /\ rtc[c].pc # "closing" /\ ~rtc[c].timer /\ start[c] \notin {"importing", "gathering"}
          /\ attaching[c] = None /\ opening[c] = None
      BY <1>2, <2>2 DEF S!UnderWay
    <3>4. rtc[c] \in S!Peer
      BY <2>2 DEF S!TypeOK
    <3>5. ~rtc[c].channel
      BY <3>1, <3>2, <3>3, <3>4 DEF OnScreen, Connects, S!Peer
    <3>6. rtc[c].pc = "open" => inbox[c] = <<>>
      BY <3>1, <3>5 DEF Carries
    <3>7. CASE peer = c
      <4>1. rtc'[c] = S!Closed(rtc[c])
        BY <1>5, <1>9, <2>2, <3>7, TypingAssumption DEF S!CloseOurs, S!TypeOK, S!TerminalShareAssumption
      <4>2. ~rtc'[c].channel /\ ~rtc'[c].timer /\ rtc'[c].pc = "closed"
        BY <4>1, <3>3, <3>4, <3>5 DEF S!Closed, S!Peer
      <4> QED
        BY <1>3, <1>4, <1>7, <1>9, <2>2, <3>3, <4>2, TypingAssumption
           DEF Dormant, S!UnderWay, S!TerminalShareAssumption
    <3>8. CASE peer # c
      <4>1. rtc'[c] = rtc[c]
        BY <1>5, <1>8, <1>9, <2>2, <3>8
      <4>2. rtc[c].pc = "open" => rtc[c].state \notin Reached
        BY <3>1, <3>8 DEF Connects
      <4> QED
        BY <1>3, <1>4, <1>7, <1>9, <2>2, <3>3, <3>5, <3>6, <4>1, <4>2, TypingAssumption
           DEF Dormant, S!UnderWay, S!TerminalShareAssumption
    <3> QED
      BY <3>7, <3>8
  <2> QED
    BY <2>1, <2>2
<1>10. /\ Dormant(s) /\ inbox[s] = <<>>
  BY <1>1, <1>0 DEF Latest, S!Share
<1>11. OnScreen(s)'
  BY <1>4, <1>6 DEF OnScreen, S!NewPeer
<1>12. Connects(s)'
  BY <1>3, <1>6, <1>7, TypingAssumption DEF Connects, S!NewPeer, Reached, S!TerminalShareAssumption
<1>13. Carries(s)'
  BY <1>3, <1>7, <1>10 DEF Carries, Dormant, S!UnderWay
<1>14. \A x \in S!Share : start'[x] # "off" <=> x <= s
  <2> SUFFICES ASSUME NEW x \in S!Share PROVE start'[x] # "off" <=> x <= s
    OBVIOUS
  <2>1. start[x] # "off" <=> x <= c
    BY DEF Latest
  <2> QED
    BY <1>0, <1>1, <1>7, <2>1 DEF S!Share
<1>15. \A x \in S!Share : x > s => inbox'[x] = <<>>
  BY <1>0, <1>1, <1>7 DEF Latest, S!Share
<1>16. s # 0
  BY DEF S!Share
<1> QED
  BY <1>1, <1>9, <1>11, <1>12, <1>13, <1>14, <1>15, <1>16 DEF Latest
\* The further steps of the latest share's start, on whatever screen is there.
LEMMA StartGoesOn ==
    ASSUME S!TypeOK, NEW c \in 0..Shares, Latest(c), NEW s \in S!Share,
           S!Imported(s) \/ S!StartFails(s) \/ S!Gathered(s)
    PROVE  Latest(c)'
<1>1. S!UnderWay(s)
  BY DEF S!Imported, S!StartFails, S!Gathered, S!UnderWay
<1>2. s = c /\ c # 0 /\ OnScreen(c) /\ Connects(c) /\ Carries(c)
  BY <1>1, Whose
<1>3. c \in S!Share /\ rtc[c] \in S!Peer /\ (session # None => session \in S!Shown)
  BY <1>2 DEF S!TypeOK
<1>4. peer \in {None, c}
  BY Whose DEF S!TypeOK
<1>5. rtc[c].state \notin Reached /\ ~rtc[c].made /\ start[c] \in {"importing", "gathering"}
  BY <1>2 DEF Connects, S!Imported, S!StartFails, S!Gathered
<1>6. ~rtc[c].applied /\ rtc[c].state # "connected"
  BY <1>2, <1>5 DEF Connects, Reached
<1>7. session # None => session.phase # "connected"
  BY <1>2, <1>6 DEF OnScreen
<1>8. CASE S!Imported(s)
  <2>1. /\ \A x \in S!Share : start'[x] = IF x = c THEN "gathering" ELSE start[x]
        /\ \A x \in S!Share : x # c => rtc'[x] = rtc[x]
        /\ peer' = c /\ UNCHANGED <<listener, listens, attaching, inbox, opening>>
    BY <1>2, <1>3, <1>8 DEF S!Imported, S!TypeOK, S!output, S!input
  <2>2. start[c] = "importing"
    BY <1>2, <1>8 DEF S!Imported
  <2>3. rtc'[c] = [rtc[c] EXCEPT !.state = "gathering"]
    BY <1>2, <1>3, <1>8 DEF S!Imported, S!TypeOK
  <2>4. /\ rtc'[c].pc = rtc[c].pc /\ rtc'[c].state = "gathering" /\ rtc'[c].channel = rtc[c].channel
        /\ rtc'[c].made = rtc[c].made /\ rtc'[c].applied = rtc[c].applied
        /\ rtc'[c].tab = rtc[c].tab
    BY <1>3, <2>3 DEF S!Peer
  <2>5. session' # None =>
          /\ session # None /\ session'.of = session.of /\ session'.tab = session.tab
          /\ session'.code = session.code /\ session'.phase = "preparing"
    BY <1>3, <1>8 DEF S!Imported, S!Shows, S!Phase, S!Shown
  <2>6. OnScreen(c)'
    BY <1>2, <2>4, <2>5 DEF OnScreen
  <2>7. rtc[c].pc # "closing"
    BY <1>2, <2>2 DEF Connects
  <2>8. Connects(c)'
    BY <1>2, <1>5, <1>6, <2>1, <2>2, <2>4, <2>7 DEF Connects, Reached
  <2>9. Carries(c)'
    BY <1>2, <2>1, <2>2, <2>4 DEF Carries, Connects
  <2> QED
    BY <1>2, <1>3, <2>1, <2>5, <2>6, <2>8, <2>9, OthersKeep
<1>9. CASE S!StartFails(s)
  <2>1. /\ \A x \in S!Share : start'[x] = IF x = c THEN "over" ELSE start[x]
        /\ UNCHANGED <<rtc, attaching, inbox, opening>>
    BY <1>2, <1>9 DEF S!StartFails, S!Returns, S!TypeOK, S!input
  <2>2. session' # None =>
          /\ session # None /\ session'.of = session.of /\ session'.tab = session.tab
          /\ session'.code = session.code /\ session'.phase # "connected"
    BY <1>3, <1>9 DEF S!StartFails, S!Shown
  <2>3. \A x \in S!Share : listens'[x] \in {listens[x], None}
    BY <1>9, TornDown DEF S!StartFails
  <2>4. /\ peer' \in {peer, None, c}
        /\ listens'[c] = None
        /\ peer' = c => rtc[c].pc # "closing"
    <3>1. CASE session = None
      <4>1. UNCHANGED listens /\ peer' = IF start[s] = "importing" THEN s ELSE peer
        BY <1>9, <3>1 DEF S!StartFails
      <4>2. listens[c] = None
        BY <1>2, <1>5 DEF Carries
      <4> QED
        BY <1>2, <4>1, <4>2 DEF Connects
    <3>2. CASE session # None
      BY <1>3, <1>9, <3>2, TornDown, TypingAssumption DEF S!StartFails, S!TerminalShareAssumption
    <3> QED
      BY <3>1, <3>2
  <2>5. OnScreen(c)'
    BY <1>2, <1>6, <2>1, <2>2 DEF OnScreen
  <2>6. Connects(c)'
    BY <1>2, <1>3, <1>5, <1>6, <2>1, <2>4 DEF Connects
  <2>7. Carries(c)'
    BY <1>2, <2>1, <2>4 DEF Carries
  <2> QED
    BY <1>2, <1>3, <2>1, <2>2, <2>3, <2>4, <2>5, <2>6, <2>7, OthersKeep
<1>10. CASE S!Gathered(s)
  <2>1. /\ \A x \in S!Share : start'[x] = IF x = c THEN "over" ELSE start[x]
        /\ \A x \in S!Share : x # c => rtc'[x] = rtc[x]
        /\ UNCHANGED <<peer, listener, listens, attaching, inbox, opening>>
    BY <1>2, <1>10 DEF S!Gathered, S!Returns, S!TypeOK, S!output, S!input
  <2>2. rtc'[c] = [rtc[c] EXCEPT
          !.state = IF rtc[c].role = "host" THEN "awaiting-answer" ELSE "connecting",
          !.timer = (rtc[c].role = "guest"), !.made = (session # None)]
    BY <1>2, <1>3, <1>10 DEF S!Gathered, S!TypeOK
  <2>3. /\ rtc'[c].pc = rtc[c].pc /\ rtc'[c].state \in {"awaiting-answer", "connecting"}
        /\ rtc'[c].channel = rtc[c].channel /\ rtc'[c].made = (session # None)
        /\ rtc'[c].applied = rtc[c].applied /\ rtc'[c].tab = rtc[c].tab
    BY <1>3, <2>2 DEF S!Peer
  <2>4. /\ session = None <=> session' = None
        /\ session' # None =>
          /\ session'.of = session.of /\ session'.tab = session.tab
          /\ session'.code = c /\ session'.phase = "exchanging"
    <3>1. session # None => [session EXCEPT !.phase = "exchanging", !.code = s] \in S!Shown
      BY <1>3 DEF S!Shown
    <3> QED
      BY <1>2, <1>3, <1>10, <3>1, TypingAssumption DEF S!Gathered, S!Shown, S!TerminalShareAssumption
  <2>5. OnScreen(c)'
    BY <1>2, <2>3, <2>4 DEF OnScreen
  <2>6. rtc[c].pc = "open" => peer = c
    BY <1>2, <1>10 DEF Connects, S!Gathered
  <2>7. Connects(c)'
    BY <1>2, <1>3, <1>6, <2>1, <2>3, <2>4, <2>6 DEF Connects
  <2>8. Carries(c)'
    BY <1>2, <2>1, <2>3 DEF Carries, Connects
  <2> QED
    BY <1>2, <1>3, <2>1, <2>4, <2>5, <2>7, <2>8, OthersKeep
<1> QED
  BY <1>8, <1>9, <1>10
\* The host takes a reply, or the other side does: to whichever code.
LEMMA Replies ==
    ASSUME S!TypeOK, NEW c \in 0..Shares, Latest(c), NEW s \in S!Share,
           S!AcceptAnswer(s) \/ S!OtherAccepts(s)
    PROVE  Latest(c)'
<1>0. rtc[s] \in S!Peer /\ (session # None => session \in S!Shown)
  BY DEF S!TypeOK
<1>1. CASE S!OtherAccepts(s)
  <2>1. /\ \A x \in S!Share : x # s => rtc'[x] = rtc[x]
        /\ rtc'[s] = [rtc[s] EXCEPT !.applied = TRUE]
        /\ UNCHANGED <<enabled, session, peer, listener, listens, start, attaching, inbox, opening>>
    BY <1>1 DEF S!OtherAccepts, S!TypeOK, S!screen, S!output, S!input
  <2>2. /\ rtc'[s].pc = rtc[s].pc /\ rtc'[s].state = rtc[s].state
        /\ rtc'[s].channel = rtc[s].channel /\ rtc'[s].made = rtc[s].made
        /\ rtc'[s].timer = rtc[s].timer /\ rtc'[s].tab = rtc[s].tab
    BY <1>0, <2>1 DEF S!Peer
  <2>3. rtc[s].made
    BY <1>1 DEF S!OtherAccepts
  <2>4. ASSUME c # 0 PROVE OnScreen(c)' /\ Connects(c)' /\ Carries(c)' /\ start'[c] # "off"
    <3>1. c \in S!Share /\ OnScreen(c) /\ Connects(c) /\ Carries(c) /\ start[c] # "off"
      BY <2>4 DEF Latest, S!Share
    <3>2. /\ rtc'[c].pc = rtc[c].pc /\ rtc'[c].state = rtc[c].state
          /\ rtc'[c].channel = rtc[c].channel /\ rtc'[c].made = rtc[c].made
          /\ rtc'[c].tab = rtc[c].tab /\ (rtc'[c].applied => rtc[c].made)
      BY <2>1, <2>2, <2>3, <3>1 DEF Connects
    <3>3. OnScreen(c)'
      BY <2>1, <3>1, <3>2 DEF OnScreen
    <3>4. Connects(c)'
      BY <2>1, <3>1, <3>2 DEF Connects
    <3>5. Carries(c)'
      BY <2>1, <3>1, <3>2 DEF Carries
    <3> QED
      BY <2>1, <3>1, <3>3, <3>4, <3>5
  <2>5. \A x \in S!Share :
        /\ rtc'[x].pc = rtc[x].pc /\ rtc'[x].state = rtc[x].state
        /\ rtc'[x].channel = rtc[x].channel /\ rtc'[x].timer = rtc[x].timer
    BY <2>1, <2>2
  <2> QED
    BY <2>1, <2>4, <2>5, OthersKeep
<1>2. CASE S!AcceptAnswer(s)
  <2>1. session # None /\ peer # None /\ peer \in S!Share
    BY <1>2 DEF S!AcceptAnswer, S!TypeOK
  <2>2. c = peer /\ c # 0 /\ c \in S!Share /\ OnScreen(c) /\ Connects(c) /\ Carries(c)
    BY <2>1, Whose
  <2>3. /\ session.phase = "exchanging" /\ rtc[c].state = "awaiting-answer"
        /\ UNCHANGED <<peer, listener, listens, start, attaching, inbox, opening>>
    BY <1>2, <2>2 DEF S!AcceptAnswer, S!output, S!input
  <2>4. start[c] \notin {"importing", "gathering", "off"}
    BY <2>2, <2>3 DEF Connects, Reached, Latest, S!Share
  <2>5. /\ session'.of = session.of /\ session'.tab = session.tab /\ session'.code = session.code
        /\ session'.phase \in {"exchanging", "connecting"} /\ session' # None
    <3>1. session' \in S!Shown /\ session \in S!Shown
      <4>1. /\ [session EXCEPT !.phase = "connecting", !.failure = "none"] \in S!Shown
            /\ [session EXCEPT !.failure = "bad-code"] \in S!Shown
        BY <1>0, <2>1 DEF S!Shown
      <4> QED
        BY <1>0, <1>2, <2>1, <4>1 DEF S!AcceptAnswer
    <3> QED
      BY <1>2, <2>3, <3>1, TypingAssumption DEF S!AcceptAnswer, S!Shown, S!TerminalShareAssumption
  <2>6. /\ rtc'[c].pc = rtc[c].pc /\ rtc'[c].state \in {"awaiting-answer", "connecting"}
        /\ rtc'[c].channel = rtc[c].channel /\ rtc'[c].made = rtc[c].made
        /\ rtc'[c].tab = rtc[c].tab /\ (rtc'[c].applied => rtc[c].made)
        /\ \A x \in S!Share : x # c => rtc'[x] = rtc[x]
    <3>1. CASE s = peer
      <4>1. /\ rtc'[c] = [rtc[c] EXCEPT !.state = "connecting", !.timer = TRUE, !.applied = TRUE]
            /\ \A x \in S!Share : x # c => rtc'[x] = rtc[x]
            /\ rtc[c].made
        BY <1>2, <2>2, <3>1 DEF S!AcceptAnswer, S!TypeOK
      <4> QED
        BY <1>0, <2>2, <3>1, <4>1 DEF S!Peer
    <3>2. CASE s # peer
      BY <1>2, <2>2, <2>3, <3>2 DEF S!AcceptAnswer, Connects
    <3> QED
      BY <3>1, <3>2
  <2>7. OnScreen(c)'
    BY <2>1, <2>2, <2>5, <2>6 DEF OnScreen
  <2>8. Connects(c)'
    BY <2>2, <2>3, <2>4, <2>5, <2>6 DEF Connects
  <2>9. Carries(c)'
    BY <2>2, <2>3, <2>6 DEF Carries
  <2> QED
    BY <2>1, <2>2, <2>3, <2>4, <2>5, <2>6, <2>7, <2>8, <2>9, OthersKeep
<1> QED
  BY <1>1, <1>2

\* Only the latest share has a channel that can open, and the screen is its own.
LEMMA ChannelOpens ==
    ASSUME S!TypeOK, NEW c \in 0..Shares, Latest(c), NEW s \in S!Share, S!Opens(s)
    PROVE  Latest(c)'
<1>1. rtc[s].pc = "open" /\ rtc[s].state = "connecting" /\ rtc[s].applied
  BY DEF S!Opens
<1>2. s = c /\ c # 0 /\ OnScreen(c) /\ Connects(c) /\ Carries(c)
  BY <1>1, Whose DEF Reached
<1>3. c \in S!Share /\ rtc[c] \in S!Peer
  BY <1>2 DEF S!TypeOK
<1>4. peer = c /\ rtc[c].made /\ session # None
  BY <1>1, <1>2 DEF Connects, Reached
<1>5. session \in S!Shown /\ session.of = c /\ session.tab = rtc[c].tab
      /\ session.code \in {None, c}
  BY <1>2, <1>4 DEF S!TypeOK, OnScreen
<1>6. start[c] \notin {"importing", "gathering", "off"}
  BY <1>1, <1>2, <1>3 DEF Connects, Reached, Latest
<1>7. session' = [session EXCEPT !.phase = "connected"]
  BY <1>4 DEF S!Opens, S!Shows, S!Phase
<1>8. /\ session' \in S!Shown /\ session'.of = c /\ session'.tab = rtc[c].tab
      /\ session'.code = session.code /\ session'.phase = "connected"
  BY <1>5, <1>7 DEF S!Shown
<1>9. rtc'[c] = [rtc[c] EXCEPT !.state = "connected", !.channel = TRUE, !.timer = FALSE]
  BY <1>2, <1>3 DEF S!Opens, S!TypeOK
<1>10. /\ rtc'[c].pc = "open" /\ rtc'[c].state = "connected" /\ rtc'[c].channel
       /\ rtc'[c].made /\ rtc'[c].tab = rtc[c].tab
  BY <1>1, <1>2, <1>3, <1>4, <1>9 DEF S!Peer
<1>11. /\ \A x \in S!Share : x # c => rtc'[x] = rtc[x] /\ attaching'[x] = attaching[x]
       /\ attaching'[c] = rtc[c].tab
       /\ UNCHANGED <<peer, start, listener, listens, inbox, opening>>
  BY <1>2, <1>3, <1>4, <1>5, TypingAssumption DEF S!Opens, S!TypeOK, S!input, S!TerminalShareAssumption
<1>12. session' # None
  BY <1>8, TypingAssumption DEF S!TerminalShareAssumption
<1>13. OnScreen(c)'
  BY <1>4, <1>5, <1>8, <1>10, <1>11, <1>12 DEF OnScreen
<1>14. Connects(c)'
  BY <1>4, <1>6, <1>10, <1>11, <1>12 DEF Connects
<1>15. Carries(c)'
  BY <1>2, <1>6, <1>10, <1>11 DEF Carries
<1> QED
  BY <1>2, <1>3, <1>4, <1>5, <1>6, <1>8, <1>11, <1>13, <1>14, <1>15, OthersKeep

\* The latest share's connection closes, or it has none; the screen says no
\* more that it is connected.
LEMMA GoesDown ==
    ASSUME S!TypeOK, NEW c \in 0..Shares, Latest(c), c # 0,
           \A x \in S!Share : x # c => rtc'[x] = rtc[x] /\ opening'[x] = opening[x],
           UNCHANGED <<start, attaching, inbox>>,
           opening'[c] \in {opening[c], None},
           \/ /\ rtc'[c].pc # "open" /\ start[c] # "importing"
              /\ rtc'[c].tab = rtc[c].tab /\ rtc'[c].made = rtc[c].made
              /\ rtc'[c].applied = rtc[c].applied
              /\ rtc'[c].channel => rtc'[c].pc # "closed"
              /\ rtc'[c].state \in {rtc[c].state, "closed", "failed"}
           \/ rtc'[c] = rtc[c] /\ peer # c,
           peer' \in {peer, None},
           peer' = c => rtc'[c].pc # "closing",
           \A x \in S!Share : listens'[x] \in {listens[x], None},
           listens'[c] # None => peer' = peer /\ listener' = listener,
           \/ session' = None
           \/ /\ session # None /\ session'.of = session.of /\ session'.tab = session.tab
              /\ session'.code = session.code /\ session'.phase # "connected"
    PROVE  Latest(c)'
<1>1. c \in S!Share /\ OnScreen(c) /\ Connects(c) /\ Carries(c) /\ start[c] # "off"
  BY DEF Latest, S!Share
<1>2. rtc[c].pc = "open" /\ rtc'[c] = rtc[c] /\ peer # c => rtc[c].state \notin Reached
  BY <1>1 DEF Connects
<1>3. peer # c => peer' # c
  BY <1>1, TypingAssumption DEF S!TerminalShareAssumption
<1>4. rtc'[c].pc = "open" => rtc'[c] = rtc[c] /\ rtc[c].state \notin Reached /\ peer # c
  BY <1>2
<1>5. OnScreen(c)'
  BY <1>1, <1>4 DEF OnScreen, Reached
<1>6. Connects(c)'
  BY <1>1, <1>3, <1>4 DEF Connects, Reached
<1>7. Carries(c)'
  BY <1>1, <1>4 DEF Carries
<1> QED
  BY <1>1, <1>5, <1>6, <1>7, OthersKeep
\* What a peer is once close was called.
LEMMA ClosesDown ==
    ASSUME NEW p \in S!Peer, NEW q, q = S!Closed(p)
    PROVE  /\ q.pc # "open" /\ q.tab = p.tab /\ q.made = p.made
           /\ q.applied = p.applied /\ q.state \in {p.state, "closed"}
           /\ q.channel = p.channel
           /\ q.pc = IF p.pc # "open" THEN p.pc ELSE IF p.channel THEN "closing" ELSE "closed"
<1>1. CASE p.pc # "open"
  BY <1>1 DEF S!Closed
<1>2. CASE p.pc = "open" /\ p.channel
  <2>1. q = [p EXCEPT !.pc = "closing", !.timer = FALSE]
    BY <1>2 DEF S!Closed
  <2> QED
    BY <1>2, <2>1 DEF S!Peer
<1>3. CASE p.pc = "open" /\ ~p.channel
  <2>1. q = [p EXCEPT !.pc = "closed", !.timer = FALSE, !.state = "closed"]
    BY <1>3 DEF S!Closed
  <2> QED
    BY <1>3, <2>1 DEF S!Peer
<1> QED
  BY <1>1, <1>2, <1>3

\* What the screen shows of a peer that is over.
LEMMA ShowsOver ==
    ASSUME S!TypeOK, session' = S!Shows("closed")
    PROVE  \/ session' = None
           \/ /\ session # None /\ session'.of = session.of /\ session'.tab = session.tab
              /\ session'.code = session.code /\ session'.phase # "connected"
<1>1. session = None \/ session \in S!Shown
  BY DEF S!TypeOK
<1> QED
  BY <1>1 DEF S!Shows, S!Phase, S!Shown

\* #fail of the latest share.
LEMMA Fails ==
    ASSUME S!TypeOK, NEW c \in 0..Shares, Latest(c), c # 0, S!Failed(c),
           rtc[c].state \in {"connecting", "connected"},
           UNCHANGED <<start, attaching, inbox, opening>>
    PROVE  Latest(c)'
<1>1. c \in S!Share /\ OnScreen(c) /\ Connects(c) /\ rtc[c] \in S!Peer
  BY DEF Latest, S!Share, S!TypeOK
<1>2. /\ rtc'[c] = [rtc[c] EXCEPT !.state = "failed", !.channel = FALSE, !.timer = FALSE,
                          !.pc = IF rtc[c].pc = "open" THEN "closed" ELSE rtc[c].pc]
      /\ \A x \in S!Share : x # c => rtc'[x] = rtc[x]
  BY <1>1 DEF S!Failed, S!TypeOK, S!Peer
<1>3. /\ rtc'[c].pc = (IF rtc[c].pc = "open" THEN "closed" ELSE rtc[c].pc)
      /\ rtc'[c].state = "failed" /\ ~rtc'[c].channel /\ rtc'[c].made = rtc[c].made
      /\ rtc'[c].applied = rtc[c].applied /\ rtc'[c].tab = rtc[c].tab
  BY <1>1, <1>2 DEF S!Peer
<1>4. start[c] # "importing"
  BY <1>1 DEF Connects, Reached
<1>5. CASE session = None
  <2>1. session' = None /\ UNCHANGED <<peer, listener, listens>>
    BY <1>5 DEF S!Failed
  <2>2. peer' = c => rtc'[c].pc # "closing"
    BY <1>1, <1>3, <2>1 DEF Connects
  <2> QED
    BY <1>1, <1>2, <1>3, <1>4, <2>1, <2>2, GoesDown
<1>6. CASE session # None
  <2>1. session' = [session EXCEPT !.phase = "failed", !.failure = "other"]
    BY <1>6 DEF S!Failed
  <2>2. /\ session'.of = session.of /\ session'.tab = session.tab
        /\ session'.code = session.code /\ session'.phase # "connected"
    BY <1>6, <2>1 DEF S!TypeOK, S!Shown
  <2>3. peer' = None /\ \A x \in S!Share : listens'[x] = None
    BY <1>6, TornDown DEF S!Failed
  <2>4. peer' # c
    BY <1>1, <2>3, TypingAssumption DEF S!TerminalShareAssumption
  <2> QED
    BY <1>1, <1>2, <1>3, <1>4, <1>6, <2>2, <2>3, <2>4, GoesDown
<1> QED
  BY <1>5, <1>6

\* The connect limit, and the end of the route.
LEMMA Broken ==
    ASSUME S!TypeOK, NEW c \in 0..Shares, Latest(c), NEW s \in S!Share,
           S!TimesOut(s) \/ S!Breaks(s)
    PROVE  Latest(c)'
<1>1. rtc[s] \in S!Peer
  BY DEF S!TypeOK
<1>2. S!UnderWay(s) \/ (rtc[s].pc = "open" /\ rtc[s].state \in Reached)
  <2>1. CASE S!TimesOut(s)
    <3>1. rtc[s].timer = TRUE
      BY <1>1, <2>1 DEF S!TimesOut, S!Peer
    <3> QED
      BY <3>1 DEF S!UnderWay
  <2>2. CASE S!Breaks(s)
    <3>1. rtc[s].pc \in {"open", "closing"} /\ rtc[s].state \in Reached
      BY <1>1, <2>2 DEF S!Breaks, S!Peer, Reached
    <3> QED
      BY <3>1 DEF S!UnderWay
  <2> QED
    BY <2>1, <2>2
<1>3. s = c /\ c # 0 /\ OnScreen(c) /\ Connects(c) /\ Carries(c)
  BY <1>2, Whose
<1>4. CASE S!Failed(s) /\ rtc[s].state \in {"connecting", "connected"}
  BY <1>3, <1>4, Fails DEF S!TimesOut, S!Breaks, S!input
<1>5. CASE S!TimesOut(s) /\ rtc[s].state # "connecting"
  <2>1. /\ rtc'[c] = [rtc[c] EXCEPT !.timer = FALSE]
        /\ \A x \in S!Share : x # c => rtc'[x] = rtc[x]
        /\ UNCHANGED <<session, peer, listener, listens, start, attaching, inbox, opening>>
    BY <1>3, <1>5 DEF S!TimesOut, S!TypeOK, S!input
  <2>2. /\ rtc'[c].pc = rtc[c].pc /\ rtc'[c].state = rtc[c].state
        /\ rtc'[c].channel = rtc[c].channel /\ rtc'[c].made = rtc[c].made
        /\ rtc'[c].applied = rtc[c].applied /\ rtc'[c].tab = rtc[c].tab
    BY <1>1, <1>3, <2>1 DEF S!Peer
  <2>3. OnScreen(c)' /\ Connects(c)' /\ Carries(c)' /\ start'[c] # "off"
    BY <1>3, <2>1, <2>2 DEF OnScreen, Connects, Carries, Latest
  <2> QED
    BY <1>3, <2>1, <2>3, OthersKeep
<1> QED
  BY <1>4, <1>5 DEF S!TimesOut, S!Breaks

\* The other side says bye.
LEMMA ByeHeard ==
    ASSUME S!TypeOK, NEW c \in 0..Shares, Latest(c), NEW s \in S!Share, S!HearsBye(s)
    PROVE  Latest(c)'
<1>1. S!UnderWay(s)
  BY TypingAssumption DEF S!HearsBye, S!UnderWay, S!TerminalShareAssumption, S!Frame
<1>2. s = c /\ c # 0 /\ OnScreen(c) /\ Connects(c) /\ Carries(c)
  BY <1>1, Whose
<1>3. c \in S!Share /\ rtc[c] \in S!Peer /\ opening[c] # None
  BY <1>2, TypingAssumption DEF S!TypeOK, S!HearsBye, S!TerminalShareAssumption, S!Frame
<1>4. rtc[c].pc = "open" =>
        /\ rtc[c].channel /\ rtc[c].state = "connected" /\ start[c] # "importing"
        /\ session # None
  BY <1>2, <1>3 DEF Carries, Connects, OnScreen, Reached
<1>5. start[c] # "importing"
  BY <1>2, <1>4 DEF Connects
<1>6. /\ rtc'[c] = [S!Closed(rtc[c]) EXCEPT !.state = "closed"]
      /\ \A x \in S!Share : x # c => rtc'[x] = rtc[x] /\ opening'[x] = opening[x]
      /\ opening'[c] = None /\ UNCHANGED <<start, attaching, inbox>>
  BY <1>2, <1>3 DEF S!HearsBye, S!TypeOK
<1>7. S!Closed(rtc[c]) \in S!Peer
  BY <1>3, ClosedTyped
<1>8. /\ rtc'[c].pc = IF rtc[c].pc # "open" THEN rtc[c].pc ELSE "closing"
      /\ rtc'[c].state = "closed" /\ rtc'[c].channel = rtc[c].channel
      /\ rtc'[c].made = rtc[c].made /\ rtc'[c].applied = rtc[c].applied
      /\ rtc'[c].tab = rtc[c].tab
  BY <1>3, <1>4, <1>6, <1>7, ClosesDown DEF S!Peer
<1>9. rtc'[c].pc # "open" /\ (rtc'[c].channel => rtc'[c].pc # "closed")
  BY <1>2, <1>8 DEF Connects
<1>10. CASE rtc[c].state = "closed" \/ session = None
  <2>1. UNCHANGED <<peer, listener, listens>>
    BY <1>2, <1>10 DEF S!HearsBye, S!ComesDown
  <2>2. session' = session /\ (session # None => session.phase # "connected")
    BY <1>2, <1>10 DEF S!HearsBye, S!ComesDown, S!Shows, OnScreen
  <2>3. peer' = c => rtc'[c].pc # "closing"
    BY <1>2, <1>4, <1>8, <1>10, <2>1 DEF Connects
  <2> QED
    BY <1>2, <1>5, <1>6, <1>8, <1>9, <2>1, <2>2, <2>3, GoesDown
<1>11. CASE rtc[c].state # "closed" /\ session # None
  <2>1. session' = S!Shows("closed") /\ S!Teardown
    BY <1>2, <1>11 DEF S!HearsBye, S!ComesDown
  <2>2. peer' = None /\ peer' # c /\ \A x \in S!Share : listens'[x] = None
    BY <1>3, <2>1, TornDown, TypingAssumption DEF S!TerminalShareAssumption
  <2> QED
    BY <1>2, <1>5, <1>6, <1>8, <1>9, <2>1, <2>2, ShowsOver, GoesDown
<1> QED
  BY <1>10, <1>11

\* The bye has left, or its time is over.
LEMMA ConnectionFinishes ==
    ASSUME S!TypeOK, NEW c \in 0..Shares, Latest(c), NEW s \in S!Share, S!Finish(s)
    PROVE  Latest(c)'
<1>1. S!UnderWay(s) /\ rtc[s].pc = "closing"
  BY DEF S!Finish, S!UnderWay
<1>2. s = c /\ c # 0 /\ OnScreen(c) /\ Connects(c) /\ Carries(c)
  BY <1>1, Whose
<1>3. c \in S!Share /\ rtc[c] \in S!Peer /\ start[c] # "importing" /\ peer # c
  BY <1>1, <1>2 DEF S!TypeOK, Connects
<1>4. /\ rtc'[c] = [rtc[c] EXCEPT !.pc = "closed", !.channel = FALSE, !.state = "closed"]
      /\ \A x \in S!Share : x # c => rtc'[x] = rtc[x]
      /\ UNCHANGED <<start, attaching, inbox, opening>>
  BY <1>2, <1>3 DEF S!Finish, S!TypeOK, S!input
<1>5. /\ rtc'[c].pc = "closed" /\ rtc'[c].state = "closed" /\ ~rtc'[c].channel
      /\ rtc'[c].made = rtc[c].made /\ rtc'[c].applied = rtc[c].applied
      /\ rtc'[c].tab = rtc[c].tab
  BY <1>3, <1>4 DEF S!Peer
<1>6. session # None => session.phase # "connected"
  BY <1>1, <1>2 DEF OnScreen
<1>7. CASE rtc[c].state = "closed" \/ session = None
  <2>1. UNCHANGED <<peer, listener, listens>> /\ session' = session
    BY <1>2, <1>7 DEF S!Finish, S!ComesDown, S!Shows
  <2> QED
    BY <1>2, <1>3, <1>4, <1>5, <1>6, <2>1, GoesDown
<1>8. CASE rtc[c].state # "closed" /\ session # None
  <2>1. session' = S!Shows("closed") /\ S!Teardown
    BY <1>2, <1>8 DEF S!Finish, S!ComesDown
  <2>2. peer' = None /\ peer' # c /\ \A x \in S!Share : listens'[x] = None
    BY <1>3, <2>1, TornDown, TypingAssumption DEF S!TerminalShareAssumption
  <2> QED
    BY <1>2, <1>3, <1>4, <1>5, <2>1, <2>2, ShowsOver, GoesDown
<1> QED
  BY <1>7, <1>8

\* The share is ended here.
LEMMA EndsDown ==
    ASSUME S!TypeOK, NEW c \in 0..Shares, Latest(c), session # None, S!End,
           session' = None \/ session' = S!Shows("closed")
    PROVE  Latest(c)'
<1>1. session \in S!Shown
  BY DEF S!TypeOK
<1>2. session.of \in S!Share
  BY <1>1 DEF S!Shown
<1>3. c # 0 /\ c \in S!Share /\ Connects(c)
  BY <1>2, Whose
<1>4. rtc' = S!CloseOurs /\ UNCHANGED <<start, attaching, inbox, opening>>
  BY DEF S!End, S!input
<1>5. peer' = None /\ peer' # c /\ \A x \in S!Share : listens'[x] = None
  BY <1>3, TornDown, TypingAssumption DEF S!End, S!TerminalShareAssumption
<1>6. CASE peer = c
  <2>1. rtc'[c] = S!Closed(rtc[c]) /\ \A x \in S!Share : x # c => rtc'[x] = rtc[x]
    BY <1>3, <1>4, <1>6, TypingAssumption DEF S!CloseOurs, S!TypeOK, S!TerminalShareAssumption
  <2>2. start[c] # "importing" /\ (rtc[c].channel => rtc[c].pc # "closed")
    BY <1>3, <1>6 DEF Connects
  <2>3. rtc[c] \in S!Peer
    BY <1>3 DEF S!TypeOK
  <2>4. /\ rtc'[c].pc # "open" /\ rtc'[c].tab = rtc[c].tab /\ rtc'[c].made = rtc[c].made
        /\ rtc'[c].applied = rtc[c].applied /\ rtc'[c].state \in {rtc[c].state, "closed"}
        /\ rtc'[c].channel => rtc'[c].pc # "closed"
    BY <1>3, <2>1, <2>2, <2>3, ClosesDown
  <2> QED
    BY <1>3, <1>4, <1>5, <2>1, <2>2, <2>4, ShowsOver, GoesDown
<1>7. CASE peer # c
  <2>1. peer = None
    BY <1>7, Whose DEF S!TypeOK
  <2>2. rtc' = rtc
    BY <1>4, <2>1 DEF S!CloseOurs
  <2> QED
    BY <1>3, <1>4, <1>5, <1>7, <2>2, ShowsOver, GoesDown
<1> QED
  BY <1>6, <1>7

\* What changes nothing of the share.
LEMMA StaysAsItIs ==
    ASSUME NEW c \in 0..Shares, Latest(c),
           UNCHANGED <<session, peer, listener, listens, start, rtc, attaching, inbox, opening>>
    PROVE  Latest(c)'
BY DEF Latest, Dormant, S!UnderWay, OnScreen, Connects, Carries
\* The listener stands while the share is connected, and is its own.
LEMMA Follows ==
    ASSUME S!TypeOK, NEW c \in 0..Shares, Latest(c), NEW s \in S!Share, S!Attached(s), ~together'
    PROVE  Latest(c)'
<1>1. S!UnderWay(s)
  BY DEF S!Attached, S!UnderWay
<1>2. s = c /\ c # 0 /\ OnScreen(c) /\ Connects(c) /\ Carries(c)
  BY <1>1, Whose
<1>3. c \in S!Share /\ start[c] # "off"
  BY <1>2 DEF Latest
<1>4. session # None /\ session.phase = "connected"
  BY <1>2 DEF S!Attached
<1>5. /\ peer = c /\ rtc[c].state = "connected"
      /\ start[c] \notin {"importing", "gathering"}
  BY <1>2, <1>4 DEF OnScreen, Connects, Reached
<1>6. /\ \A x \in S!Share : x # c => listens'[x] = listens[x] /\ attaching'[x] = attaching[x]
      /\ listens'[c] = attaching[c] /\ attaching'[c] = None /\ listener' = c
      /\ UNCHANGED <<session, peer, start, rtc, inbox, opening>>
  BY <1>2, <1>3 DEF S!Attached, S!TypeOK, S!screen, S!input
<1>7. attaching[c] = rtc[c].tab
  BY <1>2 DEF S!Attached, Carries
<1>8. OnScreen(c)' /\ Connects(c)'
  BY <1>2, <1>6 DEF OnScreen, Connects
<1>9. Carries(c)'
  BY <1>2, <1>5, <1>6, <1>7 DEF Carries
<1> QED
  BY <1>2, <1>3, <1>6, <1>8, <1>9, OthersKeep

\* The frames of the other side, from the channel to the terminal.
LEMMA FrameMoves ==
    ASSUME S!TypeOK, NEW c \in 0..Shares, Latest(c), NEW s \in S!Share, NEW frame \in S!Frame,
           S!Arrives(s, frame) \/ S!OpenFrame(s) \/ S!TypesIn(s)
    PROVE  Latest(c)' /\ (astray' => astray)
<1>1. CASE S!Arrives(s, frame)
  <2>1. s = c /\ c # 0 /\ OnScreen(c) /\ Connects(c) /\ Carries(c) /\ rtc[c].channel
    BY <1>1, Whose DEF S!Arrives
  <2>2. /\ \A x \in S!Share : x # c => inbox'[x] = inbox[x]
        /\ UNCHANGED <<session, peer, listener, listens, start, rtc, attaching, opening, astray>>
    BY <1>1, <2>1 DEF S!Arrives, S!TypeOK, S!screen, S!output, S!history
  <2>3. OnScreen(c)' /\ Connects(c)' /\ Carries(c)' /\ start'[c] # "off"
    BY <2>1, <2>2 DEF OnScreen, Connects, Carries, Latest
  <2> QED
    BY <2>1, <2>2, <2>3, OthersKeep
<1>2. CASE S!OpenFrame(s)
  <2>1. /\ \A x \in S!Share : x # s => inbox'[x] = inbox[x] /\ opening'[x] = opening[x]
        /\ inbox[s] # <<>> /\ (rtc[s].pc # "open" => opening'[s] = None)
        /\ UNCHANGED <<session, peer, listener, listens, start, rtc, attaching, astray>>
    BY <1>2 DEF S!OpenFrame, S!TypeOK, S!screen, S!output, S!history
  <2>2. s # c => opening'[s] = None
    BY <2>1 DEF Latest, Dormant
  <2>3. ASSUME c # 0 PROVE OnScreen(c)' /\ Connects(c)' /\ Carries(c)' /\ start'[c] # "off"
    <3>1. c \in S!Share /\ OnScreen(c) /\ Connects(c) /\ Carries(c) /\ start[c] # "off"
      BY <2>3 DEF Latest, S!Share
    <3>2. inbox'[c] # <<>> \/ opening'[c] # None => inbox[c] # <<>> \/ opening[c] # None
      BY <2>1, <3>1
    <3>3. OnScreen(c)' /\ Connects(c)' /\ Carries(c)'
      BY <2>1, <3>1, <3>2 DEF OnScreen, Connects, Carries
    <3> QED
      BY <2>1, <3>1, <3>3
  <2>4. \A x \in S!Share : x # c =>
        /\ opening'[x] \in {opening[x], None}
        /\ inbox[x] = <<>> => inbox'[x] = <<>>
    BY <2>1, <2>2
  <2> QED
    BY <2>1, <2>3, <2>4, OthersKeep
<1>3. CASE S!TypesIn(s)
  <2>1. S!UnderWay(s)
    BY <1>3, TypingAssumption DEF S!TypesIn, S!UnderWay, S!TerminalShareAssumption, S!Frame
  <2>2. s = c /\ c # 0 /\ OnScreen(c) /\ Connects(c) /\ Carries(c)
    BY <2>1, Whose
  <2>3. /\ \A x \in S!Share : x # c => opening'[x] = opening[x]
        /\ opening'[c] = None
        /\ UNCHANGED <<session, peer, listener, listens, start, rtc, attaching, inbox>>
    BY <1>3, <2>2 DEF S!TypesIn, S!TypeOK, S!screen, S!output
  <2>4. opening[c] # None
    BY <1>3, <2>2, TypingAssumption DEF S!TypesIn, S!TerminalShareAssumption, S!Frame
  <2>5. OnScreen(c)' /\ Connects(c)' /\ Carries(c)' /\ start'[c] # "off"
    BY <2>2, <2>3, <2>4 DEF OnScreen, Connects, Carries, Latest
  <2>6. Latest(c)'
    BY <2>2, <2>3, <2>5, OthersKeep
  <2>7. session # None => session.tab = rtc[s].tab
    BY <2>2 DEF OnScreen
  <2>8. astray' => astray
    BY <1>3, <2>7 DEF S!TypesIn
  <2> QED
    BY <2>6, <2>8
<1> QED
  BY <1>1, <1>2, <1>3

\* What a terminal prints goes out on its own share's channel.
LEMMA PrintsHere ==
    ASSUME S!TypeOK, NEW c \in 0..Shares, Latest(c), NEW t \in Tabs, S!Prints(t)
    PROVE  Latest(c)' /\ (astray' => astray)
<1>1. Latest(c)'
  BY StaysAsItIs DEF S!Prints, S!screen, S!output, S!input
<1>2. PICK x \in S!Share : listens[x] = t
  BY DEF S!Prints
<1>3. listens[x] # None
  BY <1>2, TypingAssumption DEF S!TerminalShareAssumption
<1>4. x = c /\ Carries(c)
  BY <1>3, Whose
<1>5. peer = c /\ t = rtc[c].tab
  BY <1>2, <1>3, <1>4 DEF Carries
<1>6. astray' => astray
  BY <1>5 DEF S!Prints
<1> QED
  BY <1>1, <1>6

\* The mode is for the share on the screen.
LEMMA ModeSet ==
    ASSUME S!TypeOK, NEW c \in 0..Shares, Latest(c), NEW m \in {"read-only", "read-write"},
           S!SetMode(m)
    PROVE  Latest(c)'
<1>1. session # None /\ session \in S!Shown
  BY DEF S!SetMode, S!TypeOK
<1>2. session.of \in S!Share
  BY <1>1 DEF S!Shown
<1>3. c # 0 /\ c \in S!Share /\ OnScreen(c) /\ Connects(c) /\ Carries(c) /\ start[c] # "off"
  BY <1>1, <1>2, Whose DEF Latest
<1>4. /\ session' = [session EXCEPT !.mode = m]
      /\ UNCHANGED <<peer, listener, listens, start, rtc, attaching, inbox, opening>>
  BY DEF S!SetMode, S!output, S!input
<1>5. /\ session' \in S!Shown /\ session'.of = session.of /\ session'.tab = session.tab
      /\ session'.code = session.code /\ session'.phase = session.phase
  BY <1>1, <1>4 DEF S!Shown
<1>6. session' # None
  BY <1>5, TypingAssumption DEF S!TerminalShareAssumption
<1>7. OnScreen(c)' /\ Connects(c)' /\ Carries(c)'
  BY <1>1, <1>3, <1>4, <1>5, <1>6 DEF OnScreen, Connects, Carries
<1> QED
  BY <1>1, <1>3, <1>4, <1>5, <1>7, OthersKeep

\* Every step keeps the invariant.
LEMMA ShareNext == ShareInv /\ [S!Next]_S!vars => ShareInv'
<1> SUFFICES ASSUME ShareInv, [S!Next]_S!vars PROVE ShareInv'
  OBVIOUS
<1>1. S!TypeOK /\ S!TypeOK'
  BY ShareTyped DEF ShareInv
<1> SUFFICES ASSUME ~together' PROVE ~astray' /\ \E d \in 0..Shares : Latest(d)'
  BY <1>1 DEF ShareInv
<1>2. ~together
  BY DEF S!Next, S!vars, S!Start, S!Imported, S!StartFails, S!Gathered, S!AcceptAnswer, S!OtherAccepts, S!Opens,
         S!TimesOut, S!Breaks, S!Attached, S!OpenFrame, S!TypesIn, S!HearsBye, S!Finish, S!Arrives, S!Prints,
         S!SetMode, S!EndShare, S!Dismiss, S!End, S!OtherDialog, S!Enable, S!history
<1>3. ~astray
  BY <1>2 DEF ShareInv
<1>4. PICK c \in 0..Shares : Latest(c)
  BY <1>2 DEF ShareInv
<1>5. SUFFICES (\E d \in 0..Shares : Latest(d)') /\ (astray' => astray)
  BY <1>3
<1>6. ASSUME NEW s \in S!Share, NEW choice \in Choices, S!Start(s, choice)
      PROVE  (\E d \in 0..Shares : Latest(d)') /\ (astray' => astray)
  <2>1. Latest(s)' /\ s \in 0..Shares
    BY <1>1, <1>4, <1>6, Starts DEF S!Share
  <2>2. astray' = astray
    BY <1>6 DEF S!Start
  <2> QED
    BY <2>1, <2>2
<1>7. ASSUME NEW s \in S!Share,
             \/ S!Imported(s) \/ S!StartFails(s) \/ S!Gathered(s)
             \/ S!AcceptAnswer(s) \/ S!OtherAccepts(s) \/ S!Opens(s)
             \/ S!TimesOut(s) \/ S!Breaks(s) \/ S!HearsBye(s) \/ S!Finish(s)
      PROVE  Latest(c)' /\ astray' = astray
  <2>1. Latest(c)'
    BY <1>1, <1>4, <1>7, StartGoesOn, Replies, ChannelOpens, Broken, ByeHeard,
       ConnectionFinishes
  <2>2. astray' = astray
    BY <1>7 DEF S!Imported, S!StartFails, S!Gathered, S!AcceptAnswer, S!OtherAccepts, S!Opens, S!TimesOut,
                S!Breaks, S!HearsBye, S!Finish, S!history
  <2> QED
    BY <2>1, <2>2
<1>8. ASSUME NEW s \in S!Share, S!Attached(s) PROVE Latest(c)' /\ astray' = astray
  <2>1. Latest(c)'
    BY <1>1, <1>4, <1>8, Follows
  <2> QED
    BY <1>8, <2>1 DEF S!Attached
<1>9. ASSUME NEW s \in S!Share,
             S!OpenFrame(s) \/ S!TypesIn(s) \/ \E frame \in S!Frame : S!Arrives(s, frame)
      PROVE  Latest(c)' /\ (astray' => astray)
  <2>1. "in" \in S!Frame
    BY DEF S!Frame
  <2> QED
    BY <1>1, <1>4, <1>9, <2>1, FrameMoves
<1>10. ASSUME NEW t \in Tabs, S!Prints(t) PROVE Latest(c)' /\ (astray' => astray)
  BY <1>1, <1>4, <1>10, PrintsHere
<1>11. ASSUME NEW m \in {"read-only", "read-write"}, S!SetMode(m)
       PROVE  Latest(c)' /\ astray' = astray
  <2>1. Latest(c)'
    BY <1>1, <1>4, <1>11, ModeSet
  <2> QED
    BY <1>11, <2>1 DEF S!SetMode, S!history
<1>12. CASE S!EndShare
  <2>1. Latest(c)'
    BY <1>1, <1>4, <1>12, EndsDown DEF S!EndShare
  <2> QED
    BY <1>4, <1>12, <2>1 DEF S!EndShare, S!End, S!history
<1>13. CASE S!Dismiss
  <2>1. CASE peer # None
    <3>1. Latest(c)'
      BY <1>1, <1>4, <1>13, <2>1, EndsDown DEF S!Dismiss
    <3> QED
      BY <1>4, <1>13, <2>1, <3>1 DEF S!Dismiss, S!End, S!history
  <2>2. CASE peer = None
    <3>1. /\ session # None /\ session' = None /\ astray' = astray
          /\ UNCHANGED <<peer, listener, listens, start, rtc, attaching, inbox, opening>>
      BY <1>13, <2>2 DEF S!Dismiss, S!output, S!input, S!history
    <3>2. session.of \in S!Share
      BY <1>1, <3>1 DEF S!TypeOK, S!Shown
    <3>3. c # 0 /\ Carries(c)
      BY <1>4, <3>1, <3>2, Whose
    <3>4. peer # c
      BY <2>2, <3>3, TypingAssumption DEF S!Share, S!TerminalShareAssumption
    <3>5. Latest(c)'
      BY <1>1, <1>4, <3>1, <3>3, <3>4, GoesDown
    <3> QED
      BY <1>4, <3>1, <3>5
  <2> QED
    BY <2>1, <2>2
<1>14. ASSUME S!OtherDialog \/ UNCHANGED S!vars PROVE Latest(c)' /\ astray' = astray
  <2>1. UNCHANGED <<session, peer, listener, listens, start, rtc, attaching, inbox, opening, astray>>
    BY <1>14 DEF S!OtherDialog, S!vars, S!screen, S!output, S!input, S!history
  <2> QED
    BY <1>4, <2>1, StaysAsItIs
<1>15. ASSUME NEW turned \in BOOLEAN, S!Enable(turned) PROVE Latest(c)' /\ astray' = astray
  <2>1. CASE ~turned /\ session # None
    <3>1. Latest(c)'
      BY <1>1, <1>4, <1>15, <2>1, EndsDown DEF S!Enable
    <3> QED
      BY <1>15, <2>1, <3>1 DEF S!Enable, S!End, S!history
  <2>2. CASE ~(~turned /\ session # None)
    <3>1. UNCHANGED <<session, peer, listener, listens, start, rtc, attaching, inbox, opening, astray>>
      BY <1>15, <2>2 DEF S!Enable, S!output, S!input, S!history
    <3> QED
      BY <1>4, <3>1, StaysAsItIs
  <2> QED
    BY <2>1, <2>2
<1>16. CASE \E s \in S!Share :
        \/ \E choice \in Choices : S!Start(s, choice)
        \/ S!Imported(s) \/ S!StartFails(s) \/ S!Gathered(s)
        \/ S!AcceptAnswer(s) \/ S!OtherAccepts(s) \/ S!Opens(s) \/ S!TimesOut(s) \/ S!Breaks(s)
        \/ S!Attached(s) \/ S!OpenFrame(s) \/ S!TypesIn(s) \/ S!HearsBye(s) \/ S!Finish(s)
        \/ \E frame \in S!Frame : S!Arrives(s, frame)
  BY <1>4, <1>6, <1>7, <1>8, <1>9, <1>16
<1>17. CASE ~\E s \in S!Share :
        \/ \E choice \in Choices : S!Start(s, choice)
        \/ S!Imported(s) \/ S!StartFails(s) \/ S!Gathered(s)
        \/ S!AcceptAnswer(s) \/ S!OtherAccepts(s) \/ S!Opens(s) \/ S!TimesOut(s) \/ S!Breaks(s)
        \/ S!Attached(s) \/ S!OpenFrame(s) \/ S!TypesIn(s) \/ S!HearsBye(s) \/ S!Finish(s)
        \/ \E frame \in S!Frame : S!Arrives(s, frame)
  BY <1>4, <1>10, <1>11, <1>12, <1>13, <1>14, <1>15, <1>17 DEF S!Next
<1> QED
  BY <1>16, <1>17

\* The invariant holds in every behaviour.
LEMMA ShareAlways == S!Spec => []ShareInv
<1>1. S!Init => ShareInv
  BY ShareInit
<1>2. ShareInv /\ [S!Next]_S!vars => ShareInv'
  BY ShareNext
<1> QED
  BY <1>1, <1>2, PTL DEF S!Spec

\* As long as no share begins before all of the last one is over, nothing
\* that one left changes the next: no connection stands open that the screen
\* does not show, the screen shows the share's own code and says connected of
\* its own connection only, and neither output nor typing goes astray.
THEOREM SharesAlwaysApart == S!Spec => []SharesApart
<1>1. ShareInv => S!SharesApart
  <2> SUFFICES ASSUME ShareInv, ~together PROVE S!NothingLeftOpen /\ S!ScreenIsTrue /\ ~astray
    BY DEF S!SharesApart
  <2>1. PICK c \in 0..Shares : Latest(c)
    BY DEF ShareInv
  <2>2. S!NothingLeftOpen
    <3> SUFFICES ASSUME NEW s \in S!Share, rtc[s].channel, rtc[s].pc = "open"
                 PROVE  /\ peer = s
                        /\ session # None /\ session.of = s /\ session.phase = "connected"
      BY DEF S!NothingLeftOpen
    <3>1. s = c /\ OnScreen(c) /\ Connects(c)
      BY <2>1, Whose
    <3> QED
      BY <3>1 DEF OnScreen, Connects, Reached
  <2>3. S!ScreenIsTrue
    <3> SUFFICES ASSUME session # None
                 PROVE  /\ session.code \in {None, session.of}
                        /\ session.phase = "connected" =>
                              peer = session.of /\ rtc[peer].state = "connected"
      BY DEF S!ScreenIsTrue
    <3>1. session.of \in S!Share
      BY DEF ShareInv, S!TypeOK, S!Shown
    <3>2. session.of = c /\ OnScreen(c)
      BY <2>1, <3>1, Whose
    <3> QED
      BY <3>2 DEF OnScreen
  <2> QED
    BY <2>2, <2>3 DEF ShareInv
<1> QED
  BY <1>1, ShareAlways, PTL DEF SharesApart
=============================================================================
