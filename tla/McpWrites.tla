------------------------------ MODULE McpWrites ------------------------------
(***************************************************************************)
(* Commands an AI client sends into a shared terminal: sharing, the mirror *)
(* of the terminal's output, the gate every command passes, the user's     *)
(* dialog and the typing.  Sources: mcp/state.rs, mcp/session.rs,          *)
(* mcp/tools.rs, mcp/guard.rs and ipc/mcp_commands.rs.                     *)
(*                                                                         *)
(* A send_input call locks the sessions and its client's bookkeeping for   *)
(* the gate, lets go of both before it asks the user, and types when the   *)
(* answer is yes: between two of its steps anything else may happen.  The  *)
(* server has one client, so one set of preconditions.                     *)
(*                                                                         *)
(* Output is one chunk at a time, and a chunk either leaves the terminal   *)
(* at a prompt for a secret or it does not.  The guard's other refusals    *)
(* (size, rationale, references, deny rules, rate) only ever end a call;   *)
(* here any call may end in one.                                           *)
(***************************************************************************)
EXTENDS Naturals, FiniteSets

CONSTANTS
    Sessions,       \* terminals the user may share
    Calls,          \* send_input requests that may be under way at once
    Agents,         \* the agents the user chooses from
    Writers,        \* those that are granted send_input
    UsedModes,      \* the modes the user chooses from
    UsedDangers,    \* the dangers a command may be classified as
    MaxSeq,         \* bound: chunks mirrored in one sharing
    MaxChunks,      \* bound: chunks of a terminal not yet mirrored
    Follow,         \* no override for this session
    Unshared,       \* not shared
    Never,          \* the client has not read this session
    NoCall          \* no request

Modes   == {"ask", "auto_safe", "auto", "dangerous"}
Benign  == 0
Mutating == 1
Sensitive == 2
Destructive == 3
Danger  == {Benign, Mutating, Sensitive, Destructive}

Session == [seq: 0..MaxSeq, prompt: BOOLEAN,
            agent: Agents \cup {Follow}, mode: UsedModes \cup {Follow}]
Places  == {"resolved", "passed", "confirming", "asking", "allowed",
            "sending", "sent"}
Call    == [at: Places, s: Sessions, danger: UsedDangers,
            mode: UsedModes \cup {Follow}]
Stops   == {"no", "confirmer", "sender", "sessions", "clients", "prompts"}

ASSUME McpSentinels ==
    /\ UsedModes \subseteq Modes /\ UsedDangers \subseteq Danger
    /\ UsedModes # {} /\ UsedDangers # {}
    /\ Writers \subseteq Agents /\ Agents # {}
    /\ Follow \notin Agents \cup UsedModes
    /\ Unshared \notin Session /\ NoCall \notin Call
    /\ MaxSeq \in Nat /\ MaxChunks \in Nat
    /\ Never \notin 0..MaxSeq

VARIABLES
    chunks,         \* output read from a terminal, its mirroring not run yet
    \* McpState.
    shared,         \* sessions
    described,      \* ClientState::described
    readSeq,        \* ClientState::last_read_seq
    agent,          \* the global agent
    mode,           \* the global mode
    running,        \* the listener is there and enabled is set
    confirmer,      \* the dialog is wired
    sender,         \* the typing is wired
    calls,          \* the requests under way
    \* User commands half way through.
    sharing,        \* share found the server enabled, the session not in yet
    unsharing,      \* sessions removed by unshare, their preconditions not yet
    stopping,       \* how far mcp_stop has come
    \* History, read by the properties only.
    met,            \* described in the present sharing
    fresh,          \* nothing mirrored in the present sharing is unread
    overlapped,     \* shared while shared, or between two steps of a stop
    open            \* calls during which some mode let them run unasked

client    == <<described, readSeq>>
server    == <<running, confirmer, sender, stopping>>
choices   == <<agent, mode>>
shares    == <<sharing, unsharing>>
seen      == <<met, fresh, overlapped>>
vars == <<chunks, shared, client, choices, server, calls, shares, seen,
          open>>

TypeOK ==
    /\ chunks \in [Sessions -> [BOOLEAN -> Nat]]
    /\ shared \in [Sessions -> Session \cup {Unshared}]
    /\ described \subseteq Sessions
    /\ readSeq \in [Sessions -> 0..MaxSeq \cup {Never}]
    /\ agent \in Agents
    /\ mode \in UsedModes
    /\ running \in BOOLEAN /\ confirmer \in BOOLEAN /\ sender \in BOOLEAN
    /\ calls \in [Calls -> Call \cup {NoCall}]
    /\ sharing \subseteq Sessions /\ unsharing \subseteq Sessions
    /\ stopping \in Stops
    /\ met \subseteq Sessions /\ fresh \subseteq Sessions
    /\ overlapped \subseteq Sessions
    /\ open \subseteq Calls

\* Everything is off and nothing is shared, whatever the user chose before.
Init ==
    /\ chunks = [s \in Sessions |-> [p \in BOOLEAN |-> 0]]
    /\ shared = [s \in Sessions |-> Unshared]
    /\ described = {}
    /\ readSeq = [s \in Sessions |-> Never]
    /\ agent \in Agents
    /\ mode \in UsedModes
    /\ running = FALSE /\ confirmer = FALSE /\ sender = FALSE
    /\ calls = [c \in Calls |-> NoCall]
    /\ sharing = {} /\ unsharing = {}
    /\ stopping = "no"
    /\ met = {} /\ fresh = {} /\ overlapped = {}
    /\ open = {}

IsShared(s) == shared[s] # Unshared

-----------------------------------------------------------------------------
\* Terminal output and its mirror.

Emit(s, p) ==
    /\ chunks[s][TRUE] + chunks[s][FALSE] < MaxChunks
    /\ chunks' = [chunks EXCEPT ![s][p] = @ + 1]
    /\ UNCHANGED <<shared, client, choices, server, calls, shares, seen, open>>

\* push_output, in a task of its own for every chunk: the tasks of one
\* terminal run in any order.  Nothing for a session that is not shared.
Push(s, p) ==
    /\ chunks[s][p] > 0
    /\ chunks' = [chunks EXCEPT ![s][p] = @ - 1]
    /\ IF IsShared(s)
       THEN /\ shared[s].seq < MaxSeq
            /\ shared' = [shared EXCEPT ![s].seq = @ + 1, ![s].prompt = p]
            /\ fresh' = fresh \ {s}
       ELSE UNCHANGED <<shared, fresh>>
    /\ UNCHANGED <<client, choices, server, calls, shares, met,
                   overlapped, open>>

-----------------------------------------------------------------------------
\* The user's commands.

NewShare == [seq |-> 0, prompt |-> FALSE, agent |-> Follow, mode |-> Follow]

\* mcp_share_session: the check of the switch, then the insertion under the
\* lock of the sessions, whatever was there.  The button waits for the answer
\* of an unshare; a second click on it shares again.
Share(s) ==
    /\ \/ /\ running
          /\ s \notin sharing \cup unsharing
          /\ sharing' = sharing \cup {s}
          /\ UNCHANGED <<shared, seen>>
       \/ /\ s \in sharing
          /\ sharing' = sharing \ {s}
          /\ shared' = [shared EXCEPT ![s] = NewShare]
          /\ met' = met \ {s} /\ fresh' = fresh \ {s}
          /\ overlapped' = IF IsShared(s) \/ stopping = "clients"
                           THEN overlapped \cup {s} ELSE overlapped
    /\ UNCHANGED <<chunks, client, choices, server, calls, unsharing, open>>

\* unshare: the session first, each client's preconditions after it.  Before
\* it the other order, a plausible slip.
UnsharePairForgetsFirst(s) ==
    \/ /\ IsShared(s) /\ s \notin unsharing
       /\ unsharing' = unsharing \cup {s}
       /\ described' = described \ {s}
       /\ readSeq' = [readSeq EXCEPT ![s] = Never]
       /\ overlapped' = overlapped \ {s}
       /\ UNCHANGED <<shared, met, fresh>>
    \/ /\ s \in unsharing
       /\ unsharing' = unsharing \ {s}
       /\ shared' = [shared EXCEPT ![s] = Unshared]
       /\ met' = met \ {s} /\ fresh' = fresh \ {s}
       /\ UNCHANGED <<client, overlapped>>
UnsharePair(s) ==
    \/ /\ IsShared(s) /\ s \notin unsharing
       /\ unsharing' = unsharing \cup {s}
       /\ shared' = [shared EXCEPT ![s] = Unshared]
       /\ met' = met \ {s} /\ fresh' = fresh \ {s}
       /\ UNCHANGED <<client, overlapped>>
    \/ /\ s \in unsharing
       /\ unsharing' = unsharing \ {s}
       /\ described' = described \ {s}
       /\ readSeq' = [readSeq EXCEPT ![s] = Never]
       /\ overlapped' = overlapped \ {s}
       /\ UNCHANGED <<shared, met, fresh>>

Unshare(s) ==
    /\ s \notin sharing
    /\ UnsharePair(s)
    /\ UNCHANGED <<chunks, choices, server, calls, sharing, open>>

\* A mode that lets the command run lets it run during the whole call.
AutoApproves(m, d) ==
    CASE m = "ask"       -> FALSE
      [] m = "auto_safe" -> d = Benign
      [] m = "auto"      -> d < Destructive
      [] OTHER           -> TRUE

Opened(m, cs) ==
    {c \in cs : calls[c] # NoCall /\ AutoApproves(m, calls[c].danger)}

SetAgent(a) ==
    /\ agent' = a
    /\ UNCHANGED <<chunks, shared, client, mode, server, calls, shares,
                   seen, open>>

SetMode(m) ==
    /\ mode' = m
    /\ open' = open \cup Opened(m, Calls)
    /\ UNCHANGED <<chunks, shared, client, agent, server, calls, shares,
                   seen>>

SetSessionAgent(s, a) ==
    /\ IsShared(s)
    /\ shared' = [shared EXCEPT ![s].agent = a]
    /\ UNCHANGED <<chunks, client, choices, server, calls, shares, seen,
                   open>>

SetSessionMode(s, m) ==
    /\ IsShared(s)
    /\ shared' = [shared EXCEPT ![s].mode = m]
    /\ open' = open \cup
           (IF m = Follow THEN {}
            ELSE Opened(m, {c \in Calls : calls[c] # NoCall /\ calls[c].s = s}))
    /\ UNCHANGED <<chunks, client, choices, server, calls, shares, seen>>

\* mcp_start, one at a time with mcp_stop: the switch waits for its answer.
\* When the port is taken the dialog and the typing stay wired.
Start(bound) ==
    /\ stopping = "no" /\ ~running
    /\ running' = bound
    /\ confirmer' = TRUE /\ sender' = TRUE
    /\ UNCHANGED <<chunks, shared, client, choices, stopping, calls,
                   shares, seen, open>>

\* mcp_stop, each lock in its turn, beside the calls under way.
Stop ==
    /\ stopping = "no" /\ running
    /\ running' = FALSE
    /\ stopping' = "confirmer"
    /\ UNCHANGED <<chunks, shared, client, choices, confirmer, sender, calls,
                   shares, seen, open>>

StopUnwires ==
    \/ /\ stopping = "confirmer"
       /\ confirmer' = FALSE /\ UNCHANGED sender
       /\ stopping' = "sender"
    \/ /\ stopping = "sender"
       /\ sender' = FALSE /\ UNCHANGED confirmer
       /\ stopping' = "sessions"

\* McpState::clear: the sessions, then what the client had met.
StopClears ==
    \/ /\ stopping = "sessions"
       /\ shared' = [s \in Sessions |-> Unshared]
       /\ met' = {} /\ fresh' = {}
       /\ stopping' = "clients"
       /\ UNCHANGED <<client, overlapped>>
    \/ /\ stopping = "clients"
       /\ described' = {}
       /\ readSeq' = [s \in Sessions |-> Never]
       /\ overlapped' = {}
       /\ stopping' = "prompts"
       /\ UNCHANGED <<shared, met, fresh>>

\* The pending dialogs are dropped: their calls end refused.
StopDropsPrompts ==
    /\ stopping = "prompts"
    /\ calls' = [c \in Calls |->
                    IF calls[c] # NoCall /\ calls[c].at = "asking"
                    THEN NoCall ELSE calls[c]]
    /\ stopping' = "no"

StopGoesOn ==
    /\ \/ StopUnwires /\ UNCHANGED <<shared, client, calls, seen>>
       \/ StopClears /\ UNCHANGED <<confirmer, sender, calls>>
       \/ /\ StopDropsPrompts
          /\ UNCHANGED <<confirmer, sender, shared, client, seen>>
    /\ UNCHANGED <<chunks, choices, running, shares, open>>

-----------------------------------------------------------------------------
\* The client's calls.

\* A request that was accepted goes on beside a stop.
Serving == running \/ stopping # "no"

\* describe_session shows the screen, so it counts as a read.
Describe(s) ==
    /\ Serving
    /\ IsShared(s)
    /\ described' = described \cup {s}
    /\ readSeq' = [readSeq EXCEPT ![s] = shared[s].seq]
    /\ met' = met \cup {s} /\ fresh' = fresh \cup {s}
    /\ UNCHANGED <<chunks, shared, choices, server, calls, shares, overlapped,
                   open>>

ReadOutput(s) ==
    /\ Serving
    /\ IsShared(s)
    /\ readSeq' = [readSeq EXCEPT ![s] = shared[s].seq]
    /\ fresh' = fresh \cup {s}
    /\ UNCHANGED <<chunks, shared, described, choices, server, calls,
                   shares, met, overlapped, open>>

\* The agent for a session: its override only narrows the global one.
Grants(s) ==
    /\ agent \in Writers
    /\ IsShared(s) /\ shared[s].agent # Follow => shared[s].agent \in Writers


\* The mode a session overrides; before it, the other override by mistake.
Override(s) == IF IsShared(s) THEN shared[s].mode ELSE Follow
ModeFor(override) == IF override = Follow THEN mode ELSE override

Goes(c, place) == calls' = [calls EXCEPT ![c].at = place]
Ends(c) == calls' = [calls EXCEPT ![c] = NoCall]
Beside == UNCHANGED <<chunks, shared, choices, server, shares>>

\* send_input: the overrides are read, and the agent must have the tool.
Send(c, s, d) ==
    /\ Serving
    /\ calls[c] = NoCall
    /\ Grants(s)
    /\ calls' = [calls EXCEPT ![c] = [at |-> "resolved", s |-> s, danger |-> d,
                                      mode |-> Override(s)]]
    /\ open' = IF AutoApproves(mode, d) \/ AutoApproves(ModeFor(Override(s)), d)
               THEN open \cup {c} ELSE open \ {c}
    /\ Beside /\ UNCHANGED <<client, seen>>

\* prepare_write and check_write.  A refusal for a stale view hands over what
\* was missed and counts as a read; before it, a slip that marks it too early.
StaleAlwaysRead(c) ==
    LET s == calls[c].s IN
    /\ readSeq' = [readSeq EXCEPT ![s] = shared[s].seq]
    /\ Goes(c, "passed")
    /\ UNCHANGED fresh
StaleRefused(c) ==
    LET s == calls[c].s IN
    /\ readSeq' = [readSeq EXCEPT ![s] = shared[s].seq]
    /\ fresh' = fresh \cup {s}
    /\ Ends(c)

Gate(c) ==
    LET s == calls[c].s IN
    /\ calls[c] # NoCall /\ calls[c].at = "resolved"
    /\ \/ Ends(c) /\ UNCHANGED <<readSeq, fresh>>
       \/ /\ IsShared(s) /\ ~shared[s].prompt
          /\ s \in described
          /\ IF readSeq[s] # shared[s].seq
             THEN StaleRefused(c)
             ELSE Goes(c, "passed") /\ UNCHANGED <<readSeq, fresh>>
    /\ Beside /\ UNCHANGED <<described, met, overlapped, open>>

\* Nobody to ask is a refusal.
AskFailsOpen(c) == Goes(c, IF confirmer THEN "confirming" ELSE "allowed")
Ask(c) == IF confirmer THEN Goes(c, "confirming") ELSE Ends(c)

Decide(c) ==
    /\ calls[c] # NoCall /\ calls[c].at = "passed"
    /\ IF AutoApproves(ModeFor(calls[c].mode), calls[c].danger)
       THEN Goes(c, "allowed") ELSE Ask(c)
    /\ Beside /\ UNCHANGED <<client, seen, open>>

\* ask_user: the dialog opens, or there is no window to open it in.
Prompt(c) ==
    /\ calls[c] # NoCall /\ calls[c].at = "confirming"
    /\ Goes(c, "asking") \/ Ends(c)
    /\ Beside /\ UNCHANGED <<client, seen, open>>

\* mcp_confirm_response, or two minutes without one.
Answer(c, yes) ==
    /\ calls[c] # NoCall /\ calls[c].at = "asking"
    /\ IF yes THEN Goes(c, "allowed") ELSE Ends(c)
    /\ Beside /\ UNCHANGED <<client, seen, open>>

TakeSender(c) ==
    /\ calls[c] # NoCall /\ calls[c].at = "allowed"
    /\ IF sender THEN Goes(c, "sending") ELSE Ends(c)
    /\ Beside /\ UNCHANGED <<client, seen, open>>

\* type_into_session: the terminal may be gone.
Type(c, ok) ==
    /\ calls[c] # NoCall /\ calls[c].at = "sending"
    /\ IF ok THEN Goes(c, "sent") ELSE Ends(c)
    /\ Beside /\ UNCHANGED <<client, seen, open>>

Reply(c) ==
    /\ calls[c] # NoCall /\ calls[c].at = "sent"
    /\ Ends(c)
    /\ Beside /\ UNCHANGED <<client, seen, open>>

-----------------------------------------------------------------------------

Terminal == \E s \in Sessions, p \in BOOLEAN : Emit(s, p) \/ Push(s, p)

User ==
    \/ \E s \in Sessions :
          \/ Share(s) \/ Unshare(s)
          \/ \E a \in Agents \cup {Follow} : SetSessionAgent(s, a)
          \/ \E m \in UsedModes \cup {Follow} : SetSessionMode(s, m)
    \/ \E a \in Agents : SetAgent(a)
    \/ \E m \in UsedModes : SetMode(m)
    \/ \E bound \in BOOLEAN : Start(bound)
    \/ Stop \/ StopGoesOn

\* What a call under way does by itself; a dialog's end is the timeout.
Proceed(c) ==
    \/ Gate(c) \/ Decide(c) \/ Prompt(c) \/ TakeSender(c) \/ Reply(c)
    \/ \E yes \in BOOLEAN : Answer(c, yes)
    \/ \E ok \in BOOLEAN : Type(c, ok)

Client ==
    \/ \E s \in Sessions : Describe(s) \/ ReadOutput(s)
    \/ \E c \in Calls :
          Proceed(c) \/ \E s \in Sessions, d \in UsedDangers : Send(c, s, d)

Next == Terminal \/ User \/ Client

Spec == Init /\ [][Next]_vars

-----------------------------------------------------------------------------
\* Properties.

Moves(c, from, to) ==
    /\ calls[c] # NoCall /\ calls[c].at = from
    /\ calls'[c] # NoCall /\ calls'[c].at = to

\* A call passes the gate only when the client has described the session, and
\* read all that was mirrored, since it was last shared: no order of unshare,
\* stop, share, describe and output lets what it met in an earlier sharing
\* count.  Left out are the sharings that begin while the preconditions of
\* another are still kept: over one that goes on, or inside a stop.
GateSeesSharing ==
    [][ \A c \in Calls :
            Moves(c, "resolved", "passed") /\ calls[c].s \notin overlapped
                => calls[c].s \in met \cap fresh ]_vars

\* The client's preconditions are kept for shared sessions only, whatever the
\* order of shares, unshares, stops and calls: a session shared again begins
\* with none.  An unshare or a stop half way through has its own still to drop.
ForgottenWithSharing ==
    \A s \in Sessions :
        s \in described \/ readSeq[s] # Never
            => IsShared(s) \/ s \in unsharing \/ stopping = "clients"

\* A command runs without the user's yes only if, at some time since the call
\* began, the global mode or the session's own let commands of its danger run
\* unasked; the override is read when the call begins, the global mode when it
\* has passed the gate, and either may change in between.
UnaskedOnlyIfOpen ==
    [][ \A c \in Calls : Moves(c, "passed", "allowed") => c \in open ]_vars
=============================================================================
