---------------------------- MODULE ArchiveStore ----------------------------
(***************************************************************************)
(* What the backup promises the operator (OPERATIONS.md, "Backup and       *)
(* restore"), without staging, copies or manifests: an archive appears at  *)
(* once, holds the stream from its first record on, and is never changed;  *)
(* a request that is answered "ok" is covered by an archive.               *)
(***************************************************************************)
EXTENDS Integers

CONSTANTS
    Client,     \* whoever runs an export
    Stamp       \* the names archives can have

VARIABLES
    written,    \* how many records were written so far
    stored,     \* stamp |-> the records that archive holds
    request     \* client |-> its request

vars == <<written, stored, request>>

Status == {"idle", "asked", "ok", "failed"}

TypeOK ==
    /\ written \in Nat
    /\ DOMAIN stored \subseteq Stamp
    /\ \A s \in DOMAIN stored : stored[s] \subseteq 1..written
    /\ request \in [Client -> [status : Status, need : SUBSET (1..written)]]

Init ==
    /\ written \in Nat \ {0}
    /\ stored = [s \in {} |-> 0]
    /\ request = [c \in Client |-> [status |-> "idle", need |-> {}]]

Write ==
    /\ written' \in Nat /\ written' > written
    /\ UNCHANGED <<stored, request>>

\* A request asks for what is written now.
Ask(c) ==
    /\ request[c].status # "asked"
    /\ request' = [request EXCEPT ![c] = [status |-> "asked", need |-> 1..written]]
    /\ UNCHANGED <<written, stored>>

\* The archive of a new name holds the stream from its first record on, and at
\* least what its request asked for.
Store(c) ==
    /\ request[c].status = "asked"
    /\ \E s \in Stamp \ DOMAIN stored, n \in 1..written :
          /\ request[c].need \subseteq 1..n
          /\ stored' = [t \in DOMAIN stored \cup {s} |-> IF t = s THEN 1..n ELSE stored[t]]
    /\ UNCHANGED <<written, request>>

Confirm(c) ==
    /\ request[c].status = "asked"
    /\ \E s \in DOMAIN stored : request[c].need \subseteq stored[s]
    /\ request' = [request EXCEPT ![c].status = "ok"]
    /\ UNCHANGED <<written, stored>>

\* A request may fail at once or late, or its client may die.
Refuse(c) ==
    /\ \/ \E need \in {{}, request[c].need} :
             request' = [request EXCEPT ![c] = [status |-> "failed", need |-> need]]
       \/ request' = [request EXCEPT ![c] = [status |-> "idle", need |-> {}]]
    /\ UNCHANGED <<written, stored>>

Next == Write \/ \E c \in Client : Ask(c) \/ Store(c) \/ Confirm(c) \/ Refuse(c)

Spec == Init /\ [][Next]_vars
=============================================================================
