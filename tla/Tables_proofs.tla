---------------------------- MODULE Tables_proofs ----------------------------
(***************************************************************************)
(* Lemmas about the two tables of a Maester, for any number of realms,     *)
(* names, entries, slots and frames.  What a search in the alliance table  *)
(* returns and what AddOrUpdateAlliance changes; every operation on the    *)
(* connections turns a table of connections into a table of connections,   *)
(* only the acceptor's sends put frames on the way to an opener, and no    *)
(* two connections a realm can use have one label.                         *)
(***************************************************************************)
EXTENDS AllianceTable, Links, SequenceTheorems, WellFoundedInduction, TLAPS

----------------------------------------------------------------------------
(* The alliance table                                                      *)

\* A nonempty set of positions has a front-most one.
LEMMA FirstExists ==
    ASSUME NEW S, S \subseteq Nat, S # {}
    PROVE  First(S) # {}
<1> DEFINE R == {ss \in Nat \X Nat : ss[1] < ss[2]}
<1>1. IsWellFoundedOn(R, Nat)
  BY NatLessThanWellFounded DEF OpToRel
<1>2. \E x \in S : \A y \in S : ~ (<<y, x>> \in R)
  BY <1>1, WFMin
<1>3. PICK x \in S : \A y \in S : ~ (<<y, x>> \in R)
  BY <1>2
<1>4. \A y \in S : x <= y
  <2> TAKE y \in S
  <2>1. ~ (y < x)
    BY <1>3
  <2> QED
    BY <2>1
<1> QED
  BY <1>4 DEF First

\* The search by name finds an entry of that name, if and only if there is
\* one, and never two.
LEMMA FindByRealmFacts ==
    ASSUME NEW table \in AllianceTables, NEW realm
    PROVE  /\ FindByRealm(table, realm) \subseteq DOMAIN table
           /\ \A i \in FindByRealm(table, realm) : table[i].realm = realm
           /\ \A i, j \in FindByRealm(table, realm) : i = j
           /\ FindByRealm(table, realm) = {} <=>
                ~ \E i \in DOMAIN table : table[i].realm = realm
<1> DEFINE S == {i \in DOMAIN table : table[i].realm = realm}
<1>1. table \in Seq(AllianceEntry)
  BY DEF AllianceTables
<1>2. DOMAIN table \subseteq Nat
  BY <1>1, LenProperties
<1>3. S \subseteq Nat
  BY <1>2
<1>4. S # {} => First(S) # {}
  BY <1>3, FirstExists
<1>5. First(S) \subseteq S
  BY DEF First
<1>6. \A i, j \in First(S) : i = j
  BY <1>3 DEF First
<1> QED
  BY <1>4, <1>5, <1>6 DEF FindByRealm

\* The state of a name is that of the entry the search finds.
LEMMA AllianceStateFacts ==
    ASSUME NEW table \in AllianceTables, NEW realm
    PROVE  /\ AllianceState(table, realm) = "UNKNOWN"
                <=> FindByRealm(table, realm) = {}
           /\ \A i \in FindByRealm(table, realm) :
                AllianceState(table, realm) = table[i].state
           /\ AllianceState(table, realm) \in AllianceStates \cup {"UNKNOWN"}
<1>1. table \in Seq(AllianceEntry)
  BY DEF AllianceTables
<1>2. \A i \in DOMAIN table : table[i] \in AllianceEntry
  BY <1>1, ElementOfSeq, LenProperties
<1>3. \A i \in DOMAIN table : table[i].state \in AllianceStates
  BY <1>2 DEF AllianceEntry
<1>4. CASE FindByRealm(table, realm) = {}
  BY <1>4 DEF AllianceState
<1>5. CASE FindByRealm(table, realm) # {}
  <2> DEFINE i == CHOOSE k \in FindByRealm(table, realm) : TRUE
  <2>1. i \in FindByRealm(table, realm)
    BY <1>5
  <2>2. AllianceState(table, realm) = table[i].state
    BY <1>5 DEF AllianceState
  <2>3. \A j \in FindByRealm(table, realm) : j = i
    BY <2>1, FindByRealmFacts
  <2>4. table[i].state \in AllianceStates
    BY <2>1, <1>3, FindByRealmFacts
  <2> QED
    BY <1>5, <2>2, <2>3, <2>4 DEF AllianceStates
<1> QED
  BY <1>4, <1>5

-----------------------------------------------------------------------------

\* Cleaning a name gives one the table can hold, and the table holds only
\* names that cleaning leaves as they are.
LEMMA CleanedFacts ==
    /\ StoredNames \subseteq Names
    /\ \A n \in Names : Cleaned[n] \in StoredNames
    /\ \A n \in StoredNames : Cleaned[n] = n
BY CleanedAssumption DEF StoredNames

LEMMA FoundIsCleaned ==
    ASSUME NEW table \in AllianceTables, NEW realm,
           FindByRealm(table, realm) # {}
    PROVE  realm \in StoredNames /\ Cleaned[realm] = realm
<1>1. PICK i \in FindByRealm(table, realm) : TRUE
  OBVIOUS
<1>2. i \in DOMAIN table /\ table[i].realm = realm
  BY <1>1, FindByRealmFacts
<1>3. table[i] \in AllianceEntry
  BY <1>2, ElementOfSeq, LenProperties DEF AllianceTables
<1> QED
  BY <1>2, <1>3, CleanedFacts DEF AllianceEntry

\* The three outcomes of AddOrUpdateAlliance: an entry updated in place, an
\* entry appended, or a full table left alone.
Updated(table, new, realm, state, i) ==
    /\ DOMAIN new = DOMAIN table
    /\ Len(new) = Len(table)
    /\ new[i].realm = realm
    /\ new[i].state = state
    /\ \A j \in DOMAIN table \ {i} : new[j] = table[j]

Appended(table, new, realm, state) ==
    /\ FindByRealm(table, realm) = {}
    /\ Len(new) = Len(table) + 1
    /\ new[Len(new)].realm = Cleaned[realm]
    /\ new[Len(new)].state = state
    /\ \A j \in DOMAIN table : new[j] = table[j]

Refused(table, new, realm) ==
    /\ FindByRealm(table, realm) = {}
    /\ Len(table) = MaxAlliances
    /\ new = table

LEMMA AddOrUpdateCases ==
    ASSUME NEW table \in AllianceTables, NEW realm \in Names,
           NEW endpoint \in Names \cup {NoRealm}, NEW state \in AllianceStates,
           NEW new, new = AddOrUpdateAlliance(table, realm, endpoint, state)
    PROVE  /\ new \in AllianceTables
           /\ \/ \E i \in FindByRealm(table, realm) :
                    Updated(table, new, realm, state, i)
              \/ Appended(table, new, realm, state)
              \/ Refused(table, new, realm)
<1>1. /\ table \in Seq(AllianceEntry)
      /\ Len(table) \in Nat
      /\ Len(table) <= MaxAlliances
      /\ DOMAIN table = 1..Len(table)
  BY LenProperties DEF AllianceTables
<1>2. CASE FindByRealm(table, realm) # {}
  <2> DEFINE i == CHOOSE k \in FindByRealm(table, realm) : TRUE
             e == [table[i] EXCEPT !.state = state,
                       !.endpoint = IF endpoint = NoRealm THEN @ ELSE endpoint]
  <2>1. /\ i \in FindByRealm(table, realm)
        /\ i \in DOMAIN table
        /\ table[i].realm = realm
    BY <1>2, FindByRealmFacts
  <2>2. table[i] \in AllianceEntry
    BY <1>1, <2>1, ElementOfSeq
  <2>3. /\ e \in AllianceEntry
        /\ e.realm = realm
        /\ e.state = state
    BY <2>1, <2>2 DEF AllianceEntry
  <2>4. new = [table EXCEPT ![i] = e]
    <3>1. new = AllianceUpdated(table, i, endpoint, state)
      BY <1>2 DEF AddOrUpdateAlliance
    <3> QED
      BY <3>1, <2>1, <2>2 DEF AllianceUpdated, AllianceEntry
  <2> HIDE DEF e, i
  <2>5. /\ new \in Seq(AllianceEntry)
        /\ Len(new) = Len(table)
        /\ \A j \in 1..Len(table) : new[j] = IF j = i THEN e ELSE table[j]
    BY <1>1, <2>1, <2>3, <2>4, ExceptSeq
  <2>6. DOMAIN new = DOMAIN table
    BY <1>1, <2>5, LenProperties
  <2>7. new \in AllianceTables
    BY <1>1, <2>5 DEF AllianceTables
  <2> QED
    BY <1>1, <2>1, <2>3, <2>5, <2>6, <2>7 DEF Updated
<1>3. CASE FindByRealm(table, realm) = {} /\ Len(table) < MaxAlliances
  <2> DEFINE e == NewEntry(realm, endpoint, state)
  <2>1. e \in AllianceEntry
    BY CleanedFacts DEF NewEntry, AllianceEntry
  <2>2. new = Append(table, e)
    BY <1>3 DEF AddOrUpdateAlliance
  <2>3. e.realm = Cleaned[realm] /\ e.state = state
    BY DEF NewEntry
  <2> HIDE DEF e
  <2>4. /\ new \in Seq(AllianceEntry)
        /\ Len(new) = Len(table) + 1
        /\ \A j \in 1..Len(table) : new[j] = table[j]
        /\ new[Len(new)] = e
    BY <1>1, <2>1, <2>2, AppendProperties
  <2>5. new \in AllianceTables
    BY <1>1, <1>3, <2>4, MaxAlliancesAssumption DEF AllianceTables
  <2> QED
    BY <1>1, <1>3, <2>3, <2>4, <2>5 DEF Appended
<1>4. CASE FindByRealm(table, realm) = {} /\ ~(Len(table) < MaxAlliances)
  <2>1. new = table
    BY <1>4 DEF AddOrUpdateAlliance
  <2>2. Len(table) = MaxAlliances
    <3> DEFINE n == Len(table)
    <3>1. n \in Nat /\ n <= MaxAlliances /\ ~(n < MaxAlliances)
      BY <1>1, <1>4
    <3> HIDE DEF n
    <3>2. n = MaxAlliances
      BY <3>1, MaxAlliancesAssumption
    <3> QED
      BY <3>2 DEF n
  <2> QED
    BY <1>1, <1>4, <2>1, <2>2 DEF Refused, AllianceTables
<1> QED
  BY <1>2, <1>3, <1>4

\* An entry of the new table is an old one, or the one that was asked for.
LEMMA AddOrUpdateEntries ==
    ASSUME NEW table \in AllianceTables, NEW realm \in Names,
           NEW endpoint \in Names \cup {NoRealm}, NEW state \in AllianceStates,
           NEW new, new = AddOrUpdateAlliance(table, realm, endpoint, state),
           NEW i \in DOMAIN new
    PROVE  \/ i \in DOMAIN table /\ new[i] = table[i]
           \/ new[i].realm = Cleaned[realm] /\ new[i].state = state
<1>1. /\ Len(table) \in Nat /\ DOMAIN table = 1..Len(table)
      /\ new \in AllianceTables
      /\ Len(new) \in Nat /\ DOMAIN new = 1..Len(new)
  BY AddOrUpdateCases, LenProperties DEF AllianceTables
<1>2. CASE \E k \in FindByRealm(table, realm) :
                Updated(table, new, realm, state, k)
  BY <1>2, FoundIsCleaned DEF Updated
<1>3. CASE Appended(table, new, realm, state)
  BY <1>1, <1>3 DEF Appended
<1>4. CASE Refused(table, new, realm)
  BY <1>4 DEF Refused
<1> QED
  BY <1>2, <1>3, <1>4, AddOrUpdateCases

\* One call changes the state of one name, the cleaned one: the others keep
\* theirs, and it has the state that was asked for, unless it was unknown and
\* the table full, or the name given is not the one the table holds.
LEMMA AddOrUpdateState ==
    ASSUME NEW table \in AllianceTables, NEW realm \in Names,
           NEW endpoint \in Names \cup {NoRealm}, NEW state \in AllianceStates,
           NEW new, new = AddOrUpdateAlliance(table, realm, endpoint, state)
    PROVE  /\ \A y : y # Cleaned[realm] =>
                AllianceState(new, y) = AllianceState(table, y)
           /\ \/ AllianceState(new, Cleaned[realm]) = state
              \/ /\ AllianceState(table, realm) = "UNKNOWN"
                 /\ Len(table) = MaxAlliances
                 /\ new = table
              \/ /\ realm # Cleaned[realm]
                 /\ AllianceState(table, Cleaned[realm]) # "UNKNOWN"
                 /\ AllianceState(new, Cleaned[realm]) =
                        AllianceState(table, Cleaned[realm])
           /\ Len(table) = MaxAlliances => Len(new) = MaxAlliances
<1>1. /\ Len(table) \in Nat /\ DOMAIN table = 1..Len(table)
      /\ new \in AllianceTables
      /\ Len(new) \in Nat /\ DOMAIN new = 1..Len(new)
  BY AddOrUpdateCases, LenProperties DEF AllianceTables
<1> DEFINE At(t, y) == {i \in DOMAIN t : t[i].realm = y}
<1>2. ASSUME NEW i \in FindByRealm(table, realm),
             Updated(table, new, realm, state, i)
      PROVE  /\ Cleaned[realm] = realm
             /\ \A y : y # realm =>
                    AllianceState(new, y) = AllianceState(table, y)
             /\ AllianceState(new, realm) = state
  <2>1. \A y : At(new, y) = At(table, y)
    BY <1>2, FindByRealmFacts DEF Updated
  <2>2. \A y : FindByRealm(new, y) = FindByRealm(table, y)
    BY <2>1 DEF FindByRealm
  <2>3. AllianceState(new, realm) = state
    BY <1>1, <1>2, <2>2, AllianceStateFacts DEF Updated
  <2>4. ASSUME NEW y, y # realm
        PROVE  AllianceState(new, y) = AllianceState(table, y)
    <3>1. CASE FindByRealm(table, y) = {}
      BY <3>1, <2>2, <1>1, AllianceStateFacts
    <3>2. CASE FindByRealm(table, y) # {}
      <4>1. PICK k \in FindByRealm(table, y) : TRUE
        BY <3>2
      <4>2. k \in DOMAIN table /\ table[k].realm = y /\ table[i].realm = realm
        BY <4>1, FindByRealmFacts
      <4>3. new[k] = table[k]
        BY <4>2, <2>4, <1>2 DEF Updated
      <4>4. /\ AllianceState(table, y) = table[k].state
            /\ AllianceState(new, y) = new[k].state
        BY <4>1, <2>2, <1>1, AllianceStateFacts
      <4> QED
        BY <4>3, <4>4
    <3> QED
      BY <3>1, <3>2
  <2> QED
    BY <2>3, <2>4, FoundIsCleaned
<1>3. ASSUME Appended(table, new, realm, state)
      PROVE  /\ \A y : y # Cleaned[realm] =>
                    AllianceState(new, y) = AllianceState(table, y)
             /\ \/ AllianceState(new, Cleaned[realm]) = state
                \/ /\ realm # Cleaned[realm]
                   /\ AllianceState(table, Cleaned[realm]) # "UNKNOWN"
                   /\ AllianceState(new, Cleaned[realm]) =
                        AllianceState(table, Cleaned[realm])
  <2> DEFINE x == Cleaned[realm]
             n == Len(new)
  <2>0. /\ n \in Nat /\ n \notin DOMAIN table
        /\ DOMAIN new = DOMAIN table \cup {n}
        /\ new[n].realm = x /\ new[n].state = state
        /\ \A j \in DOMAIN table : new[j] = table[j] /\ j <= n
    BY <1>1, <1>3 DEF Appended
  <2> HIDE DEF x, n
  <2>1. \A y : y # x => At(new, y) = At(table, y)
    BY <2>0
  <2>2. \A y : y # x => FindByRealm(new, y) = FindByRealm(table, y)
    BY <2>1 DEF FindByRealm
  <2>3. ASSUME NEW y, y # x
        PROVE  AllianceState(new, y) = AllianceState(table, y)
    <3>1. CASE FindByRealm(table, y) = {}
      BY <3>1, <2>2, <2>3, <1>1, AllianceStateFacts
    <3>2. CASE FindByRealm(table, y) # {}
      <4>1. PICK k \in FindByRealm(table, y) : TRUE
        BY <3>2
      <4>2. k \in DOMAIN table
        BY <4>1, FindByRealmFacts
      <4>3. /\ AllianceState(table, y) = table[k].state
            /\ AllianceState(new, y) = new[k].state
        BY <4>1, <2>2, <2>3, <1>1, AllianceStateFacts
      <4> QED
        BY <4>2, <4>3, <2>0
    <3> QED
      BY <3>1, <3>2
  <2>4. CASE FindByRealm(table, x) = {}
    <3>1. At(new, x) = {n}
      BY <2>0, <2>4, FindByRealmFacts
    <3>2. n \in FindByRealm(new, x)
      BY <3>1, <2>0 DEF FindByRealm, First
    <3>3. AllianceState(new, x) = state
      BY <3>2, <2>0, <1>1, AllianceStateFacts
    <3> QED
      BY <3>3, <2>3 DEF x
  <2>5. CASE FindByRealm(table, x) # {}
    <3>1. PICK k \in FindByRealm(table, x) : TRUE
      BY <2>5
    <3>2. /\ k \in DOMAIN table /\ table[k].realm = x
          /\ \A j \in At(table, x) : k <= j
      BY <3>1, FindByRealmFacts DEF FindByRealm, First
    <3>3. k \in FindByRealm(new, x)
      BY <3>2, <2>0 DEF FindByRealm, First
    <3>4. AllianceState(new, x) = AllianceState(table, x)
      BY <3>1, <3>2, <3>3, <2>0, <1>1, AllianceStateFacts
    <3>5. AllianceState(table, x) # "UNKNOWN"
      BY <2>5, AllianceStateFacts
    <3>6. realm # x
      BY <2>5, <1>3 DEF Appended
    <3> QED
      BY <3>4, <3>5, <3>6, <2>3 DEF x
  <2> QED
    BY <2>4, <2>5
<1>4. Len(table) = MaxAlliances => Len(new) = MaxAlliances
  <2>1. Len(new) = Len(table) \/ Len(new) = Len(table) + 1
    BY AddOrUpdateCases DEF Updated, Appended, Refused
  <2> DEFINE m == Len(table)
             n == Len(new)
  <2>2. /\ m \in Nat /\ n \in Nat /\ n <= MaxAlliances
        /\ n = m \/ n = m + 1
    BY <1>1, <2>1 DEF AllianceTables
  <2> HIDE DEF m, n
  <2>3. m = MaxAlliances => n = MaxAlliances
    BY <2>2, MaxAlliancesAssumption
  <2> QED
    BY <2>3 DEF m, n
<1>5. CASE \E i \in FindByRealm(table, realm) :
                Updated(table, new, realm, state, i)
  BY <1>2, <1>4, <1>5
<1>6. CASE Appended(table, new, realm, state)
  BY <1>3, <1>4, <1>6
<1>7. CASE Refused(table, new, realm)
  <2>1. AllianceState(table, realm) = "UNKNOWN"
    BY <1>7, AllianceStateFacts DEF Refused
  <2> QED
    BY <2>1, <1>7 DEF Refused
<1> QED
  BY <1>5, <1>6, <1>7, AddOrUpdateCases

\* A name that is known stays known.
LEMMA AddOrUpdateKnown ==
    ASSUME NEW table \in AllianceTables, NEW realm \in Names,
           NEW endpoint \in Names \cup {NoRealm}, NEW state \in AllianceStates,
           NEW new, new = AddOrUpdateAlliance(table, realm, endpoint, state)
    PROVE  \A y : AllianceState(table, y) # "UNKNOWN"
                    => AllianceState(new, y) # "UNKNOWN"
<1>1. state # "UNKNOWN"
  BY DEF AllianceStates
<1> QED
  BY <1>1, AddOrUpdateState

\* A second entry of one name comes only of a name the table cannot hold.
Twice(table, x) ==
    \E i, j \in DOMAIN table :
        i # j /\ table[i].realm = x /\ table[j].realm = x

LEMMA AddOrUpdateTwice ==
    ASSUME NEW table \in AllianceTables, NEW realm \in Names,
           NEW endpoint \in Names \cup {NoRealm}, NEW state \in AllianceStates,
           NEW new, new = AddOrUpdateAlliance(table, realm, endpoint, state)
    PROVE  \A x : Twice(new, x) =>
                Twice(table, x) \/ (x = Cleaned[realm] /\ realm # x)
<1>1. /\ Len(table) \in Nat /\ DOMAIN table = 1..Len(table)
      /\ new \in AllianceTables
      /\ Len(new) \in Nat /\ DOMAIN new = 1..Len(new)
  BY AddOrUpdateCases, LenProperties DEF AllianceTables
<1>2. ASSUME NEW i \in FindByRealm(table, realm),
             Updated(table, new, realm, state, i)
      PROVE  \A x : Twice(new, x) => Twice(table, x)
  <2>1. i \in DOMAIN table /\ table[i].realm = realm
    BY FindByRealmFacts
  <2>2. \A j \in DOMAIN table : new[j].realm = table[j].realm
    BY <1>2, <2>1 DEF Updated
  <2> QED
    BY <1>2, <2>2 DEF Updated, Twice
<1>3. CASE Appended(table, new, realm, state)
  <2>1. \A j \in DOMAIN table : table[j].realm # realm
    BY <1>3, FindByRealmFacts DEF Appended
  <2>2. DOMAIN new = DOMAIN table \cup {Len(new)}
    BY <1>1, <1>3 DEF Appended
  <2> QED
    BY <1>3, <2>1, <2>2 DEF Appended, Twice
<1>4. CASE Refused(table, new, realm)
  BY <1>4 DEF Refused
<1> QED
  BY <1>2, <1>3, <1>4, AddOrUpdateCases

----------------------------------------------------------------------------
(* The connections                                                         *)

IsConnTable(cs) == DOMAIN cs \subseteq Slots /\ cs \in [DOMAIN cs -> Conn]

\* What a send may report: see SendOutcomes.
IsOutcome(out) ==
    /\ IsConnTable(out.conns)
    /\ out.status = "failed" => out.slot \in DOMAIN out.conns

LEMMA OtherEnd == \A e \in Ends : Other(e) \in Ends
BY DEF Other, Ends

LEMMA OwnerIsRealm ==
    ASSUME NEW conn \in Conn, NEW e
    PROVE  Owner(conn, e) \in Realms
BY DEF Owner, Conn

LEMMA NewConnType ==
    ASSUME NEW r \in Realms, NEW label \in Names, NEW hop \in Realms
    PROVE  NewConn(r, label, hop) \in Conn
<1>1. [e \in Ends |-> IF e = "opener" THEN "open" ELSE "backlog"]
        \in [Ends -> EndStates]
  BY DEF EndStates
<1>2. [e \in Ends |-> <<>>] \in [Ends -> Seq(Frame)]
  BY EmptySeq
<1> QED
  BY <1>1, <1>2 DEF NewConn, Conn

\* The new content of an inbox, and of a send_buffer.
LEMMA InboxType ==
    ASSUME NEW conn \in Conn, NEW e \in Ends, NEW q \in Seq(Frame)
    PROVE  [conn EXCEPT !.inbox[e] = q] \in Conn
BY DEF Conn

LEMMA OutboxType ==
    ASSUME NEW conn \in Conn, NEW e \in Ends, NEW q \in Seq(Frame)
    PROVE  [conn EXCEPT !.outbox[e] = q] \in Conn
BY DEF Conn

LEMMA EnqueuedType ==
    ASSUME NEW conn \in Conn, NEW e \in Ends, NEW frame \in Frame
    PROVE  Enqueued(conn, e, frame) \in Conn
<1> DEFINE o == Other(e)
           p == Append(conn.inbox[o], frame)
           q == Append(conn.outbox[e], frame)
<1>1. o \in Ends
  BY OtherEnd
<1>2. conn.inbox[o] \in Seq(Frame) /\ conn.outbox[e] \in Seq(Frame)
  BY <1>1 DEF Conn
<1>3. p \in Seq(Frame) /\ q \in Seq(Frame)
  BY <1>2, AppendProperties
<1>4. Enqueued(conn, e, frame) = IF GoesOut(conn, e)
                                 THEN [conn EXCEPT !.inbox[o] = p]
                                 ELSE [conn EXCEPT !.outbox[e] = q]
  BY <1>1 DEF Enqueued, Conn
<1> HIDE DEF o, p, q
<1> QED
  BY <1>1, <1>3, <1>4, InboxType, OutboxType

\* What a flush does to the two queues of its direction, over any set F of
\* frames: a part of send_buffer moves to the inbox of the other end.
Moved(conn, e, p, q, cut) ==
    [conn EXCEPT !.inbox[Other(e)] = p, !.outbox[e] = q, !.reset = cut]

LEMMA FlushedQueues ==
    ASSUME NEW F, NEW conn \in Conn, NEW e \in Ends,
           conn.inbox[Other(e)] \in Seq(F), conn.outbox[e] \in Seq(F)
    PROVE  \E p \in Seq(F), q \in Seq(F), cut \in BOOLEAN :
            Flushed(conn, e) = Moved(conn, e, p, q, cut)
<1> DEFINE o == Other(e)
           queue == conn.outbox[e]
           room == KernelFrames - Len(conn.inbox[o])
           n == IF Len(queue) < room THEN Len(queue) ELSE room
<1>1. o \in Ends /\ e \in Ends
  BY OtherEnd
<1>2. /\ Len(conn.inbox[o]) \in Nat
      /\ Len(queue) \in Nat /\ DOMAIN queue = 1..Len(queue)
  BY LenProperties
<1>3. /\ conn = Moved(conn, e, conn.inbox[o], queue, conn.reset)
      /\ conn.reset \in BOOLEAN
  BY <1>1 DEF Moved, Conn
<1>4. CASE conn.state[o] = "closed"
  <2>1. Flushed(conn, e) = Moved(conn, e, conn.inbox[o], <<>>, TRUE)
    BY <1>1, <1>4 DEF Flushed, Moved, Conn
  <2> QED
    BY <2>1, EmptySeq
<1>5. CASE conn.state[o] # "closed" /\ ~HasRoom(conn, e)
  <2>1. Flushed(conn, e) = conn
    BY <1>5 DEF Flushed
  <2> QED
    BY <1>3, <2>1
<1>6. CASE conn.state[o] # "closed" /\ HasRoom(conn, e)
  <2>1. room \in Nat /\ n \in Nat /\ n <= Len(queue)
    BY <1>2, <1>6, LinkBoundsAssumption DEF HasRoom
  <2>2. \A i \in 1..Len(queue) : queue[i] \in F
    BY <1>2, ElementOfSeq
  <2> DEFINE p == conn.inbox[o] \o SubSeq(queue, 1, n)
             q == SubSeq(queue, n + 1, Len(queue))
  <2>3. Flushed(conn, e) = Moved(conn, e, p, q, conn.reset)
    BY <1>1, <1>6 DEF Flushed, Moved, Conn
  <2> HIDE DEF n
  <2>4. \A i \in 1..n : queue[i] \in F
    BY <1>2, <2>1, <2>2
  <2>5. SubSeq(queue, 1, n) \in Seq(F)
    BY <2>1, <2>4, SubSeqProperties
  <2>6. \A i \in n + 1 .. Len(queue) : queue[i] \in F
    BY <1>2, <2>1, <2>2
  <2>7. q \in Seq(F)
    BY <1>2, <2>1, <2>6, SubSeqProperties
  <2>8. p \in Seq(F)
    BY <2>5, ConcatProperties
  <2> HIDE DEF p, q
  <2> QED
    BY <1>3, <2>3, <2>7, <2>8
<1> QED
  BY <1>4, <1>5, <1>6

LEMMA FlushedType ==
    ASSUME NEW conn \in Conn, NEW e \in Ends
    PROVE  Flushed(conn, e) \in Conn
<1>1. Other(e) \in Ends
  BY OtherEnd
<1>2. conn.inbox[Other(e)] \in Seq(Frame) /\ conn.outbox[e] \in Seq(Frame)
  BY <1>1 DEF Conn
<1>3. PICK p \in Seq(Frame), q \in Seq(Frame), cut \in BOOLEAN :
            Flushed(conn, e) = Moved(conn, e, p, q, cut)
  BY <1>2, FlushedQueues
<1> DEFINE inboxes == [conn.inbox EXCEPT ![Other(e)] = p]
           outboxes == [conn.outbox EXCEPT ![e] = q]
<1>4. /\ inboxes \in [Ends -> Seq(Frame)]
      /\ outboxes \in [Ends -> Seq(Frame)]
  BY <1>1 DEF Conn
<1>5. Flushed(conn, e) = [conn EXCEPT !.inbox = inboxes, !.outbox = outboxes,
                                      !.reset = cut]
  BY <1>3 DEF Moved
<1> HIDE DEF inboxes, outboxes
<1> QED
  BY <1>4, <1>5 DEF Conn

LEMMA EndClosedType ==
    ASSUME NEW conn \in Conn, NEW e \in Ends
    PROVE  EndClosed(conn, e) \in Conn
<1>1. <<>> \in Seq(Frame)
  BY EmptySeq
<1> QED
  BY <1>1 DEF EndClosed, Conn, EndStates

-----------------------------------------------------------------------------

\* Keeping some of the connections, and changing one of them.
LEMMA InUseType ==
    ASSUME NEW cs, IsConnTable(cs)
    PROVE  IsConnTable(InUse(cs)) /\ DOMAIN InUse(cs) \subseteq DOMAIN cs
BY DEF IsConnTable, InUse, Restrict

LEMMA ReplacedType ==
    ASSUME NEW cs, IsConnTable(cs), NEW c \in DOMAIN cs, NEW conn \in Conn
    PROVE  IsConnTable([cs EXCEPT ![c] = conn])
BY DEF IsConnTable

LEMMA CloseEndType ==
    ASSUME NEW cs, IsConnTable(cs), NEW c \in DOMAIN cs, NEW e \in Ends
    PROVE  IsConnTable(CloseEnd(cs, c, e))
<1>1. cs[c] \in Conn
  BY DEF IsConnTable
<1>2. IsConnTable([cs EXCEPT ![c] = EndClosed(cs[c], e)])
  BY <1>1, EndClosedType, ReplacedType
<1>3. [cs EXCEPT ![c] = EndClosed(@, e)] = [cs EXCEPT ![c] = EndClosed(cs[c], e)]
  BY DEF IsConnTable
<1> QED
  BY <1>2, <1>3, InUseType DEF CloseEnd

LEMMA CloseAllType ==
    ASSUME NEW cs, IsConnTable(cs), NEW r
    PROVE  IsConnTable(CloseAll(cs, r))
<1> DEFINE closed == [c \in DOMAIN cs |->
              IF cs[c].opener = r /\ cs[c].state["opener"] # "closed"
              THEN EndClosed(cs[c], "opener")
              ELSE IF cs[c].acceptor = r /\ cs[c].state["acceptor"] # "closed"
              THEN EndClosed(cs[c], "acceptor")
              ELSE cs[c]]
<1>1. \A c \in DOMAIN cs : cs[c] \in Conn
  BY DEF IsConnTable
<1>2. "opener" \in Ends /\ "acceptor" \in Ends
  BY DEF Ends
<1>3. closed \in [DOMAIN cs -> Conn]
  BY <1>1, <1>2, EndClosedType
<1>4. IsConnTable(closed)
  BY <1>3 DEF IsConnTable
<1> HIDE DEF closed
<1>5. IsConnTable(InUse(closed))
  BY <1>4, InUseType
<1> QED
  BY <1>5 DEF CloseAll, closed

LEMMA AcceptAllType ==
    ASSUME NEW cs, IsConnTable(cs), NEW r
    PROVE  IsConnTable(AcceptAll(cs, r))
<1>1. \A c \in DOMAIN cs : cs[c] \in Conn
  BY DEF IsConnTable
<1>2. ASSUME NEW conn \in Conn
      PROVE  [conn EXCEPT !.state["acceptor"] = "open"] \in Conn
  BY DEF Conn, EndStates
<1> QED
  BY <1>1, <1>2 DEF AcceptAll, IsConnTable

LEMMA GetOrOpenType ==
    ASSUME NEW cs, IsConnTable(cs), NEW r \in Realms, NEW label \in Names,
           NEW hop \in Realms, NEW listening,
           NEW a \in GetOrOpen(cs, r, label, hop, listening)
    PROVE  /\ IsConnTable(a.conns)
           /\ a.slot \in DOMAIN a.conns
           /\ \A d \in DOMAIN cs : d \in DOMAIN a.conns /\ a.conns[d] = cs[d]
<1>1. CASE FindConnection(cs, r, label) # {}
  <2>1. PICK c \in FindConnection(cs, r, label) :
                a = [conns |-> cs, slot |-> c]
    BY <1>1 DEF GetOrOpen
  <2> QED
    BY <2>1 DEF FindConnection
<1>2. CASE FindConnection(cs, r, label) = {}
  <2>1. a \in Opened(cs, r, label, hop)
    BY <1>2 DEF GetOrOpen
  <2>2. PICK c \in FreeSlots(cs) :
            a = [conns |-> [d \in DOMAIN cs \cup {c} |->
                                IF d = c THEN NewConn(r, label, hop) ELSE cs[d]],
                 slot |-> c]
    BY <2>1 DEF Opened
  <2>3. c \in Slots /\ c \notin DOMAIN cs
    BY DEF FreeSlots
  <2>4. NewConn(r, label, hop) \in Conn
    BY NewConnType
  <2>5. /\ DOMAIN a.conns = DOMAIN cs \cup {c}
        /\ a.slot = c
        /\ \A d \in DOMAIN cs \cup {c} :
              a.conns[d] = IF d = c THEN NewConn(r, label, hop) ELSE cs[d]
    BY <2>2
  <2>6. IsConnTable(a.conns)
    BY <2>2, <2>3, <2>4 DEF IsConnTable
  <2> QED
    BY <2>3, <2>5, <2>6
<1> QED
  BY <1>1, <1>2

\* A send leaves its connection as it was, marks it as reset, or adds the
\* frame to it, and touches no other.
LEMMA SentConnection ==
    ASSUME NEW cs, NEW c, NEW e, NEW frame,
           NEW out \in SendOutcomes(cs, c, e, frame)
    PROVE  /\ out.slot = c
           /\ \/ out.conns = [cs EXCEPT ![c] = cs[c]]
              \/ out.conns = [cs EXCEPT ![c] = [cs[c] EXCEPT !.reset = TRUE]]
              \/ out.conns = [cs EXCEPT ![c] = Enqueued(cs[c], e, frame)]
<1> DEFINE idle == cs[c].outbox[e] = <<>>
<1>1. CASE idle /\ cs[c].reset
  <2>1. \E s \in {"sent", "failed", "killed"} :
            out = [status |-> s, conns |-> [cs EXCEPT ![c] = cs[c]],
                   slot |-> c]
    BY <1>1 DEF SendOutcomes
  <2> QED
    BY <2>1
<1>2. CASE /\ ~(idle /\ cs[c].reset)
           /\ idle /\ cs[c].state[Other(e)] = "closed"
  <2>1. out = [status |-> "sent",
               conns |-> [cs EXCEPT ![c] = [cs[c] EXCEPT !.reset = TRUE]],
               slot |-> c]
    BY <1>2 DEF SendOutcomes
  <2> QED
    BY <2>1
<1>3. CASE /\ ~(idle /\ cs[c].reset)
           /\ ~(idle /\ cs[c].state[Other(e)] = "closed")
           /\ Takes(cs[c], e)
  <2>1. out = [status |-> "sent",
               conns |-> [cs EXCEPT ![c] = Enqueued(cs[c], e, frame)],
               slot |-> c]
    BY <1>3 DEF SendOutcomes
  <2> QED
    BY <2>1
<1>4. CASE /\ ~(idle /\ cs[c].reset)
           /\ ~(idle /\ cs[c].state[Other(e)] = "closed")
           /\ ~Takes(cs[c], e)
  <2>1. out = [status |-> "failed", conns |-> [cs EXCEPT ![c] = cs[c]],
               slot |-> c]
    BY <1>4 DEF SendOutcomes
  <2> QED
    BY <2>1
<1> QED
  BY <1>1, <1>2, <1>3, <1>4

LEMMA SendOutcomesType ==
    ASSUME NEW cs, IsConnTable(cs), NEW c \in DOMAIN cs, NEW e \in Ends,
           NEW frame \in Frame, NEW out \in SendOutcomes(cs, c, e, frame)
    PROVE  IsOutcome(out)
<1>1. cs[c] \in Conn
  BY DEF IsConnTable
<1>2. [cs[c] EXCEPT !.reset = TRUE] \in Conn
  BY <1>1 DEF Conn
<1>3. Enqueued(cs[c], e, frame) \in Conn
  BY <1>1, EnqueuedType
<1>4. PICK new \in Conn : out.conns = [cs EXCEPT ![c] = new] /\ out.slot = c
  BY <1>1, <1>2, <1>3, SentConnection
<1>5. IsConnTable(out.conns)
  BY <1>4, ReplacedType
<1>6. out.slot \in DOMAIN out.conns
  BY <1>4
<1> QED
  BY <1>5, <1>6 DEF IsOutcome

-----------------------------------------------------------------------------
(* The frames on their way to the opener of a connection.                  *)

\* Those the kernel has, and those the acceptor has yet to give it.
OpenerHolds(conn, F) ==
    conn.inbox["opener"] \in Seq(F) /\ conn.outbox["acceptor"] \in Seq(F)

OpenersHold(cs, F) == \A c \in DOMAIN cs : OpenerHolds(cs[c], F)

LEMMA EndClosedHolds ==
    ASSUME NEW F, NEW conn \in Conn, NEW e \in Ends, OpenerHolds(conn, F)
    PROVE  OpenerHolds(EndClosed(conn, e), F)
<1>1. /\ EndClosed(conn, e).inbox["opener"]
            \in {<<>>, conn.inbox["opener"]}
      /\ EndClosed(conn, e).outbox["acceptor"]
            \in {<<>>, conn.outbox["acceptor"]}
  BY DEF EndClosed, Conn, Ends
<1>2. <<>> \in Seq(F)
  BY EmptySeq
<1> QED
  BY <1>1, <1>2 DEF OpenerHolds

LEMMA EnqueuedHolds ==
    ASSUME NEW F, NEW conn \in Conn, NEW e \in Ends, OpenerHolds(conn, F),
           NEW frame \in Frame, e = "acceptor" => frame \in F
    PROVE  OpenerHolds(Enqueued(conn, e, frame), F)
<1> DEFINE new == Enqueued(conn, e, frame)
<1>1. CASE e = "opener"
  <2>1. /\ new.inbox["opener"] = conn.inbox["opener"]
        /\ new.outbox["acceptor"] = conn.outbox["acceptor"]
    BY <1>1 DEF Enqueued, Conn, Other, Ends
  <2> QED
    BY <2>1 DEF OpenerHolds
<1>2. CASE e = "acceptor"
  <2>1. /\ new.inbox["opener"]
              \in {conn.inbox["opener"], Append(conn.inbox["opener"], frame)}
        /\ new.outbox["acceptor"]
              \in {conn.outbox["acceptor"],
                   Append(conn.outbox["acceptor"], frame)}
    BY <1>2 DEF Enqueued, Conn, Other, Ends
  <2>2. /\ Append(conn.inbox["opener"], frame) \in Seq(F)
        /\ Append(conn.outbox["acceptor"], frame) \in Seq(F)
    BY <1>2, AppendProperties DEF OpenerHolds
  <2> QED
    BY <2>1, <2>2 DEF OpenerHolds
<1> QED
  BY <1>1, <1>2 DEF Ends

LEMMA FlushedHolds ==
    ASSUME NEW F, NEW conn \in Conn, NEW e \in Ends, OpenerHolds(conn, F)
    PROVE  OpenerHolds(Flushed(conn, e), F)
<1> DEFINE new == Flushed(conn, e)
<1>1. CASE e = "opener"
  <2>1. /\ new.inbox["opener"] = conn.inbox["opener"]
        /\ new.outbox["acceptor"] = conn.outbox["acceptor"]
    BY <1>1 DEF Flushed, Conn, Other, Ends
  <2> QED
    BY <2>1 DEF OpenerHolds
<1>2. CASE e = "acceptor"
  <2>1. Other(e) = "opener"
    BY <1>2 DEF Other
  <2>2. PICK p \in Seq(F), q \in Seq(F), cut \in BOOLEAN :
            new = Moved(conn, e, p, q, cut)
    <3>1. conn.inbox[Other(e)] \in Seq(F) /\ conn.outbox[e] \in Seq(F)
      BY <1>2, <2>1 DEF OpenerHolds
    <3> QED
      BY <3>1, FlushedQueues
  <2>3. /\ conn.inbox \in [Ends -> Seq(Frame)]
        /\ conn.outbox \in [Ends -> Seq(Frame)]
    BY DEF Conn
  <2>4. /\ new.inbox = [conn.inbox EXCEPT !["opener"] = p]
        /\ new.outbox = [conn.outbox EXCEPT !["acceptor"] = q]
    BY <1>2, <2>1, <2>2 DEF Moved, Conn
  <2> HIDE DEF new
  <2>5. new.inbox["opener"] = p /\ new.outbox["acceptor"] = q
    BY <2>3, <2>4 DEF Ends
  <2> QED
    BY <2>5 DEF OpenerHolds, new
<1> QED
  BY <1>1, <1>2 DEF Ends

LEMMA CloseEndHolds ==
    ASSUME NEW F, NEW cs, IsConnTable(cs), OpenersHold(cs, F),
           NEW c \in DOMAIN cs, NEW e \in Ends
    PROVE  OpenersHold(CloseEnd(cs, c, e), F)
<1>1. cs[c] \in Conn /\ OpenerHolds(cs[c], F)
  BY DEF IsConnTable, OpenersHold
<1>2. OpenerHolds(EndClosed(cs[c], e), F)
  BY <1>1, EndClosedHolds
<1>3. \A d \in DOMAIN CloseEnd(cs, c, e) :
        /\ d \in DOMAIN cs
        /\ CloseEnd(cs, c, e)[d] = IF d = c THEN EndClosed(cs[c], e) ELSE cs[d]
  BY DEF CloseEnd, InUse, Restrict
<1>4. ASSUME NEW d \in DOMAIN CloseEnd(cs, c, e)
      PROVE  OpenerHolds(CloseEnd(cs, c, e)[d], F)
  <2>1. CASE d = c
    BY <1>2, <1>3, <2>1
  <2>2. CASE d # c
    <3>1. CloseEnd(cs, c, e)[d] = cs[d] /\ d \in DOMAIN cs
      BY <1>3, <2>2
    <3> QED
      BY <3>1 DEF OpenersHold
  <2> QED
    BY <2>1, <2>2
<1> QED
  BY <1>4 DEF OpenersHold

LEMMA CloseAllHolds ==
    ASSUME NEW F, NEW cs, IsConnTable(cs), OpenersHold(cs, F), NEW r
    PROVE  OpenersHold(CloseAll(cs, r), F)
<1>1. ASSUME NEW d \in DOMAIN CloseAll(cs, r)
      PROVE  OpenerHolds(CloseAll(cs, r)[d], F)
  <2>1. /\ d \in DOMAIN cs
        /\ \/ CloseAll(cs, r)[d] = EndClosed(cs[d], "opener")
           \/ CloseAll(cs, r)[d] = EndClosed(cs[d], "acceptor")
           \/ CloseAll(cs, r)[d] = cs[d]
    BY DEF CloseAll, InUse, Restrict
  <2>2. cs[d] \in Conn /\ OpenerHolds(cs[d], F)
    BY <2>1 DEF IsConnTable, OpenersHold
  <2>3. "opener" \in Ends /\ "acceptor" \in Ends
    BY DEF Ends
  <2>4. /\ OpenerHolds(EndClosed(cs[d], "opener"), F)
        /\ OpenerHolds(EndClosed(cs[d], "acceptor"), F)
    BY <2>2, <2>3, EndClosedHolds
  <2> QED
    BY <2>1, <2>2, <2>4
<1> QED
  BY <1>1 DEF OpenersHold

LEMMA AcceptAllHolds ==
    ASSUME NEW F, NEW cs, IsConnTable(cs), OpenersHold(cs, F), NEW r
    PROVE  OpenersHold(AcceptAll(cs, r), F)
<1>1. ASSUME NEW d \in DOMAIN AcceptAll(cs, r)
      PROVE  /\ d \in DOMAIN cs
             /\ AcceptAll(cs, r)[d].inbox = cs[d].inbox
             /\ AcceptAll(cs, r)[d].outbox = cs[d].outbox
  BY DEF AcceptAll, IsConnTable, Conn
<1> QED
  BY <1>1 DEF OpenersHold, OpenerHolds

LEMMA GetOrOpenHolds ==
    ASSUME NEW F, NEW cs, IsConnTable(cs), OpenersHold(cs, F), NEW r,
           NEW label, NEW hop, NEW listening,
           NEW a \in GetOrOpen(cs, r, label, hop, listening)
    PROVE  OpenersHold(a.conns, F)
<1>1. CASE FindConnection(cs, r, label) # {}
  <2>1. a.conns = cs
    BY <1>1 DEF GetOrOpen
  <2> QED
    BY <2>1
<1>2. CASE FindConnection(cs, r, label) = {}
  <2>1. PICK c \in FreeSlots(cs) :
            a = [conns |-> [d \in DOMAIN cs \cup {c} |->
                                IF d = c THEN NewConn(r, label, hop) ELSE cs[d]],
                 slot |-> c]
    BY <1>2 DEF GetOrOpen, Opened
  <2>2. /\ NewConn(r, label, hop).inbox["opener"] = <<>>
        /\ NewConn(r, label, hop).outbox["acceptor"] = <<>>
    BY DEF NewConn, Ends
  <2>3. OpenerHolds(NewConn(r, label, hop), F)
    BY <2>2, EmptySeq DEF OpenerHolds
  <2>4. ASSUME NEW d \in DOMAIN a.conns
        PROVE  OpenerHolds(a.conns[d], F)
    <3>1. CASE d = c
      BY <2>1, <2>3, <3>1
    <3>2. CASE d # c
      <4>1. d \in DOMAIN cs /\ a.conns[d] = cs[d]
        BY <2>1, <3>2
      <4> QED
        BY <4>1 DEF OpenersHold
    <3> QED
      BY <3>1, <3>2
  <2> QED
    BY <2>4 DEF OpenersHold
<1> QED
  BY <1>1, <1>2

LEMMA SendOutcomesHolds ==
    ASSUME NEW F, NEW cs, IsConnTable(cs), OpenersHold(cs, F),
           NEW c \in DOMAIN cs, NEW e \in Ends,
           NEW frame \in Frame, e = "acceptor" => frame \in F,
           NEW out \in SendOutcomes(cs, c, e, frame)
    PROVE  OpenersHold(out.conns, F)
<1>1. cs[c] \in Conn /\ OpenerHolds(cs[c], F)
  BY DEF IsConnTable, OpenersHold
<1>2. OpenerHolds([cs[c] EXCEPT !.reset = TRUE], F)
  BY <1>1 DEF OpenerHolds, Conn
<1>3. OpenerHolds(Enqueued(cs[c], e, frame), F)
  BY <1>1, EnqueuedHolds
<1>4. PICK new : out.conns = [cs EXCEPT ![c] = new] /\ OpenerHolds(new, F)
  BY <1>1, <1>2, <1>3, SentConnection
<1>5. ASSUME NEW d \in DOMAIN out.conns
      PROVE  OpenerHolds(out.conns[d], F)
  <2>1. CASE d = c
    BY <1>4, <2>1
  <2>2. CASE d # c
    <3>1. d \in DOMAIN cs /\ out.conns[d] = cs[d]
      BY <1>4, <2>2
    <3> QED
      BY <3>1 DEF OpenersHold
  <2> QED
    BY <2>1, <2>2
<1> QED
  BY <1>5 DEF OpenersHold

-----------------------------------------------------------------------------
(* One connection per label.  Only an opening adds a connection that its   *)
(* opener can use, and it follows a search that found none.                *)

Usable(cs, c) == c \in DOMAIN cs /\ cs[c].state["opener"] = "open"

OneLabel(cs) ==
    \A c, d : (/\ Usable(cs, c) /\ Usable(cs, d)
               /\ cs[c].opener = cs[d].opener
               /\ cs[c].label = cs[d].label) => c = d

\* What the openers can use in ds, they could use in cs, under one label.
Narrower(cs, ds) ==
    \A c : Usable(ds, c) => /\ Usable(cs, c)
                            /\ ds[c].opener = cs[c].opener
                            /\ ds[c].label = cs[c].label

\* The opener of conn can use new no more than it could use conn.
NoWider(conn, new) ==
    /\ new.opener = conn.opener
    /\ new.label = conn.label
    /\ new.state["opener"] = "open" => conn.state["opener"] = "open"

LEMMA NarrowerLabels ==
    ASSUME NEW cs, NEW ds, OneLabel(cs), Narrower(cs, ds)
    PROVE  OneLabel(ds)
BY DEF OneLabel, Narrower

\* One connection is replaced by one its opener can use no better.
LEMMA ReplacedLabels ==
    ASSUME NEW cs, IsConnTable(cs), OneLabel(cs), NEW c \in DOMAIN cs,
           NEW new, NoWider(cs[c], new)
    PROVE  OneLabel([cs EXCEPT ![c] = new])
<1>1. Narrower(cs, [cs EXCEPT ![c] = new])
  BY DEF Narrower, Usable, IsConnTable, NoWider
<1> QED
  BY <1>1, NarrowerLabels

LEMMA EndClosedNoWider ==
    ASSUME NEW conn \in Conn, NEW e \in Ends
    PROVE  NoWider(conn, EndClosed(conn, e))
BY DEF EndClosed, Conn, Ends, NoWider

LEMMA EnqueuedNoWider ==
    ASSUME NEW conn \in Conn, NEW e, NEW frame
    PROVE  NoWider(conn, Enqueued(conn, e, frame))
BY DEF Enqueued, Conn, NoWider

LEMMA FlushedNoWider ==
    ASSUME NEW conn \in Conn, NEW e
    PROVE  NoWider(conn, Flushed(conn, e))
BY DEF Flushed, Conn, NoWider

LEMMA CloseEndLabels ==
    ASSUME NEW cs, IsConnTable(cs), OneLabel(cs),
           NEW c \in DOMAIN cs, NEW e \in Ends
    PROVE  OneLabel(CloseEnd(cs, c, e))
<1>1. cs[c] \in Conn
  BY DEF IsConnTable
<1>2. \A d \in DOMAIN CloseEnd(cs, c, e) :
        /\ d \in DOMAIN cs
        /\ CloseEnd(cs, c, e)[d] = IF d = c THEN EndClosed(cs[c], e) ELSE cs[d]
  BY DEF CloseEnd, InUse, Restrict
<1>3. Narrower(cs, CloseEnd(cs, c, e))
  BY <1>1, <1>2, EndClosedNoWider DEF Narrower, Usable, NoWider
<1> QED
  BY <1>3, NarrowerLabels

LEMMA CloseAllLabels ==
    ASSUME NEW cs, IsConnTable(cs), OneLabel(cs), NEW r
    PROVE  OneLabel(CloseAll(cs, r))
<1>1. \A d \in DOMAIN CloseAll(cs, r) :
        /\ d \in DOMAIN cs
        /\ \/ CloseAll(cs, r)[d] = EndClosed(cs[d], "opener")
           \/ CloseAll(cs, r)[d] = EndClosed(cs[d], "acceptor")
           \/ CloseAll(cs, r)[d] = cs[d]
  BY DEF CloseAll, InUse, Restrict
<1>2. "opener" \in Ends /\ "acceptor" \in Ends
  BY DEF Ends
<1>3. \A d \in DOMAIN cs : cs[d] \in Conn
  BY DEF IsConnTable
<1>4. Narrower(cs, CloseAll(cs, r))
  BY <1>1, <1>2, <1>3, EndClosedNoWider DEF Narrower, Usable, NoWider
<1> QED
  BY <1>4, NarrowerLabels

LEMMA AcceptAllLabels ==
    ASSUME NEW cs, IsConnTable(cs), OneLabel(cs), NEW r
    PROVE  OneLabel(AcceptAll(cs, r))
<1>1. Narrower(cs, AcceptAll(cs, r))
  BY DEF Narrower, Usable, AcceptAll, IsConnTable, Conn, Ends
<1> QED
  BY <1>1, NarrowerLabels

LEMMA GetOrOpenLabels ==
    ASSUME NEW cs, IsConnTable(cs), OneLabel(cs), NEW r, NEW label, NEW hop,
           NEW listening, NEW a \in GetOrOpen(cs, r, label, hop, listening)
    PROVE  OneLabel(a.conns)
<1>1. CASE FindConnection(cs, r, label) # {}
  <2>1. a.conns = cs
    BY <1>1 DEF GetOrOpen
  <2> QED
    BY <2>1
<1>2. CASE FindConnection(cs, r, label) = {}
  <2>1. PICK c \in FreeSlots(cs) :
            a = [conns |-> [d \in DOMAIN cs \cup {c} |->
                                IF d = c THEN NewConn(r, label, hop) ELSE cs[d]],
                 slot |-> c]
    BY <1>2 DEF GetOrOpen, Opened
  <2>2. /\ DOMAIN a.conns = DOMAIN cs \cup {c} /\ c \notin DOMAIN cs
        /\ a.conns[c] = NewConn(r, label, hop)
        /\ \A d \in DOMAIN cs : a.conns[d] = cs[d]
    BY <2>1 DEF FreeSlots
  <2>3. a.conns[c].opener = r /\ a.conns[c].label = label
    BY <2>2 DEF NewConn
  <2>4. \A d : Usable(cs, d) => ~(cs[d].opener = r /\ cs[d].label = label)
    BY <1>2 DEF FindConnection, Usable
  <2>5. \A d : Usable(a.conns, d) =>
            d = c \/ (Usable(cs, d) /\ a.conns[d] = cs[d])
    BY <2>2 DEF Usable
  <2> QED
    BY <2>3, <2>4, <2>5 DEF OneLabel
<1> QED
  BY <1>1, <1>2

LEMMA SendOutcomesLabels ==
    ASSUME NEW cs, IsConnTable(cs), OneLabel(cs), NEW c \in DOMAIN cs,
           NEW e \in Ends, NEW frame, NEW out \in SendOutcomes(cs, c, e, frame)
    PROVE  OneLabel(out.conns)
<1>1. cs[c] \in Conn
  BY DEF IsConnTable
<1>2. NoWider(cs[c], cs[c])
  BY DEF NoWider
<1>3. NoWider(cs[c], [cs[c] EXCEPT !.reset = TRUE])
  BY <1>1 DEF NoWider, Conn
<1>4. NoWider(cs[c], Enqueued(cs[c], e, frame))
  BY <1>1, EnqueuedNoWider
<1>5. PICK new : out.conns = [cs EXCEPT ![c] = new] /\ NoWider(cs[c], new)
  BY <1>2, <1>3, <1>4, SentConnection
<1> QED
  BY <1>5, ReplacedLabels

=============================================================================
