--------------------------- MODULE AllianceLedger ---------------------------
(***************************************************************************)
(* What the alliance tables promise, without frames, connections, routes   *)
(* or deadlines.  Each realm holds a status for every name and the set of  *)
(* names its own user agreed to ally with since the process started.       *)
(*                                                                         *)
(*  - An unknown name becomes known only as PENDING.                       *)
(*  - An entry turns ACTIVE only for a name its user agreed to.            *)
(*  - No entry is forgotten while its process lives, and a process that    *)
(*    ends forgets all of them together with its user's agreements.        *)
(*  - One step changes the status of one name at one realm, or ends one    *)
(*    process.                                                             *)
(***************************************************************************)
CONSTANTS Realms, Names

VARIABLES
    status,     \* status[r][x]: UNKNOWN, PENDING, ACTIVE or INACTIVE
    agreed      \* agreed[r]: the names r's user pledged to or accepted

ledger == <<status, agreed>>

Becomes(r, x, s) == status' = [status EXCEPT ![r][x] = s]

Agrees(r, x) == agreed' = [agreed EXCEPT ![r] = @ \cup {x}]

\* The user pledges.  A name that finds no room in the table stays unknown,
\* and one that is misspelt leaves the status of the realm as it is.
Offer(r, x) ==
    /\ Agrees(r, x)
    /\ Becomes(r, x, "PENDING") \/ UNCHANGED status

\* Somebody else's pledge arrives: an ally too has to be accepted again.
Hear(r, x) ==
    /\ Becomes(r, x, "PENDING")
    /\ UNCHANGED agreed

\* The user decides on what is pending.
Grant(r, x) ==
    /\ status[r][x] = "PENDING"
    /\ Becomes(r, x, "ACTIVE")
    /\ Agrees(r, x)

Refuse(r, x) ==
    /\ status[r][x] = "PENDING"
    /\ Becomes(r, x, "INACTIVE")
    /\ UNCHANGED agreed

\* An answer to the user's pledge arrives.
Answer(r, x) ==
    /\ x \in agreed[r]
    /\ status[r][x] # "UNKNOWN"
    /\ \E s \in {"ACTIVE", "INACTIVE"} : Becomes(r, x, s)
    /\ UNCHANGED agreed

\* The other realm is said to have left.
Leave(r, x) ==
    /\ status[r][x] # "UNKNOWN"
    /\ Becomes(r, x, "INACTIVE")
    /\ UNCHANGED agreed

\* The process of r ends.
Forget(r) ==
    /\ status' = [status EXCEPT ![r] = [x \in Names |-> "UNKNOWN"]]
    /\ agreed' = [agreed EXCEPT ![r] = {}]

LedgerInit ==
    /\ status = [r \in Realms |-> [x \in Names |-> "UNKNOWN"]]
    /\ agreed = [r \in Realms |-> {}]

LedgerNext ==
    \E r \in Realms :
        \/ \E x \in Names :
            \/ Offer(r, x) \/ Hear(r, x)
            \/ Grant(r, x) \/ Refuse(r, x)
            \/ Answer(r, x) \/ Leave(r, x)
        \/ Forget(r)

LedgerSpec == LedgerInit /\ [][LedgerNext]_ledger

=============================================================================
