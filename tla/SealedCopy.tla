----------------------------- MODULE SealedCopy -----------------------------
(***************************************************************************)
(* What the copy of a synced vault on this device promises, without how it *)
(* is kept: a vault is opened from a copy whose rows Turso held, or said   *)
(* it had written, at some time; the file holds a copy this device once    *)
(* had in memory; and a lock leaves nothing readable.                      *)
(***************************************************************************)
CONSTANTS
    Secrets, Row,   \* the rows' ids, and what each may hold
    None            \* no copy, in memory or on disk

VARIABLES
    said,           \* per row, everything Turso has held or acknowledged
    copy,           \* the rows in memory, or None
    saved,          \* the rows in the sealed file, or None
    key             \* the identity is in memory

vars == <<said, copy, saved, key>>

Rows == [Secrets -> Row]

Init ==
    /\ said \in [Secrets -> SUBSET Row]
    /\ copy = None
    /\ saved = None
    /\ key = FALSE

\* Turso changes, by any device, or acknowledges a write.
Says ==
    /\ said' \in [Secrets -> SUBSET Row]
    /\ \A s \in Secrets : said[s] \subseteq said'[s]

\* With the key, the copy becomes rows Turso has said, and is saved or not.
Moves ==
    /\ key
    /\ copy' \in Rows
    /\ \A s \in Secrets : copy'[s] \in said'[s]
    /\ saved' \in {saved, copy'}
    /\ UNCHANGED key

\* Out of memory: a close, or a lock or restart, which takes the key too.
LetGo == copy' = None /\ saved' = saved /\ key' \in {key, FALSE}

\* With the key, taken up from the file.
TakeUp == key' /\ copy' = saved /\ saved' = saved

\* No longer trusted, or the vault is deleted; the key may come with it.
Forget == copy' = None /\ saved' = None /\ key' \in {key, TRUE}

Next ==
    \/ Says /\ UNCHANGED <<copy, saved, key>>
    \/ Says /\ Moves
    \/ UNCHANGED said /\ (LetGo \/ TakeUp \/ Forget)

Spec == Init /\ [][Next]_vars
=============================================================================
