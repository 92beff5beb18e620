--------------------------- MODULE AllianceTable ---------------------------
(***************************************************************************)
(* The alliance table of one Maester (Maester.alliances in maester.h): an  *)
(* array of entries, searched from the front, that only grows.  Pure       *)
(* operators on one table; Citadel gives each realm a table of its own.    *)
(***************************************************************************)
EXTENDS Frames

CONSTANT MaxAlliances    \* MAX_ALLIANCES (64 in the code)

ASSUME MaxAlliancesAssumption == MaxAlliances \in Nat

\* An endpoint is written as the name of the realm that listens there, or
\* NoRealm when the entry has none (ip = "", port = 0).
AllianceStates == {"PENDING", "ACTIVE", "INACTIVE"}

\* What the table can hold as a name.
StoredNames == {Cleaned[n] : n \in Names}

AllianceEntry == [realm    : StoredNames,
                  endpoint : Names \cup {NoRealm},
                  state    : AllianceStates]

AllianceTables == {t \in Seq(AllianceEntry) : Len(t) <= MaxAlliances}

\* The front-most of a set of positions: {} when the search finds nothing.
First(S) == {i \in S : \A j \in S : i <= j}

----------------------------------------------------------------------------
(* maester_find_alliance with a realm name, and with an "IP:Port" key.     *)

FindByRealm(table, realm) ==
    First({i \in DOMAIN table : table[i].realm = realm})

FindByEndpoint(table, endpoint) ==
    First({i \in DOMAIN table : table[i].endpoint = endpoint})

\* maester_get_alliance_state
AllianceState(table, realm) ==
    IF FindByRealm(table, realm) = {} THEN "UNKNOWN"
    ELSE table[CHOOSE i \in FindByRealm(table, realm) : TRUE].state

\* maester_is_allied, as the frame handler calls it: with frame->origin, so
\* that the first entry that carries the sender's endpoint decides.
IsAlliedEndpoint(table, endpoint) ==
    \E i \in FindByEndpoint(table, endpoint) : table[i].state = "ACTIVE"

----------------------------------------------------------------------------
(* maester_add_or_update_alliance.  An update keeps the stored endpoint    *)
(* when the caller has none to give (ip == NULL, port == 0).  The search   *)
(* is for the name as it was given, the new entry gets the cleaned name:   *)
(* a name with an '&' is never found and adds an entry each time.  A table *)
(* that is full is returned as it was, and the caller prints a warning.    *)

AllianceUpdated(table, i, endpoint, state) ==
    [table EXCEPT ![i].state = state,
                  ![i].endpoint = IF endpoint = NoRealm THEN @
                                                           ELSE endpoint]

NewEntry(realm, endpoint, state) ==
    [realm |-> Cleaned[realm], endpoint |-> endpoint, state |-> state]

\* Mutants of AddOrUpdateAlliance: without the limit, without the search.
AddWithoutLimit(table, realm, endpoint, state) ==
    IF FindByRealm(table, realm) # {}
    THEN AllianceUpdated(table,
                         CHOOSE i \in FindByRealm(table, realm) : TRUE,
                         endpoint, state)
    ELSE Append(table, NewEntry(realm, endpoint, state))

AddWithoutSearch(table, realm, endpoint, state) ==
    IF Len(table) < MaxAlliances
    THEN Append(table, NewEntry(realm, endpoint, state))
    ELSE table

AddOrUpdateAlliance(table, realm, endpoint, state) ==
    IF FindByRealm(table, realm) # {}
    THEN AllianceUpdated(table,
                         CHOOSE i \in FindByRealm(table, realm) : TRUE,
                         endpoint, state)
    ELSE IF Len(table) < MaxAlliances
    THEN Append(table, NewEntry(realm, endpoint, state))
    ELSE table

============================================================================
