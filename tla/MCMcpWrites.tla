----------------------------- MODULE MCMcpWrites -----------------------------
(***************************************************************************)
(* The two ways by which somebody else types into a terminal, each on a    *)
(* small instance: an agent through the write gate (one terminal, one call *)
(* at a time, an agent, two modes and the two dangers the modes tell       *)
(* apart), and another person through a share (two shares one after the    *)
(* other, of two terminals).  A behaviour runs one of the two; the other   *)
(* stays as it begins.                                                     *)
(***************************************************************************)
EXTENDS McpWrites

CONSTANTS s1, c1, writer, Shares, Tabs, Choices, None

VARIABLES
    part,
    enabled, session, peer, listener, listens, busy, start, rtc, attaching,
    inbox, opening, astray, together

shareVars ==
    <<enabled, session, peer, listener, listens, busy, start, rtc, attaching,
      inbox, opening, astray, together>>

S == INSTANCE TerminalShare

ASSUME TypingAssumption == S!TerminalShareAssumption

AllDangers == {Benign, Destructive}

\* A terminal offered to look at, one lent to be typed in, one lent by a
\* guest, and a guest that only watches.
MCChoices ==
    {[role |-> "host", tab |-> "t1", mode |-> "read-only"],
     [role |-> "host", tab |-> "t2", mode |-> "read-write"],
     [role |-> "guest", tab |-> "t1", mode |-> "read-write"],
     [role |-> "guest", tab |-> None, mode |-> "read-only"]}

\* Of a gate that nobody uses, one initial state is enough.
MCInit ==
    /\ part \in {"gate", "share"} /\ Init /\ S!Init
    /\ part = "share" => mode = "ask"

MCNext ==
    /\ UNCHANGED part
    /\ \/ part = "gate" /\ Next /\ UNCHANGED shareVars
       \/ part = "share" /\ S!Next /\ UNCHANGED vars

MCSpec == MCInit /\ [][MCNext]_<<part, vars, shareVars>>

\* SharesApart says nothing of two shares at once, and they stay so.
Apart == ~together

SharesApart == S!SharesApart
NothingLeftOpen == S!NothingLeftOpen
WaitsForReply == S!WaitsForReply

TypesHold == TypeOK /\ S!TypeOK
=============================================================================
