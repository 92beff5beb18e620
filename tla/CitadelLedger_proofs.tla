------------------------ MODULE CitadelLedger_proofs ------------------------
(***************************************************************************)
(* Citadel implements AllianceLedger, for any number of realms, names,     *)
(* routes and connections: every effect of a step (CitadelSafety_proofs)   *)
(* is a step of the ledger, or leaves its view unchanged.                  *)
(***************************************************************************)
EXTENDS CitadelSafety_proofs

\* Nobody is known to an empty table.
LEMMA EmptyTable == \A y : AllianceState(<<>>, y) = "UNKNOWN"
<1> TAKE y
<1>1. FindByRealm(<<>>, y) = {}
  BY EmptyTableType, FindByRealmFacts
<1> QED
  BY <1>1 DEF AllianceState

\* The ledger's view of an update: the status of the cleaned name changes, or
\* none does: the name was not in the table as it was given, which was full or
\* got an entry that no search will find.
LEMMA StatusUpdate ==
    ASSUME TypeOK, NEW r \in Realms, NEW n \in Names,
           NEW endpoint \in Names \cup {NoRealm}, NEW state \in AllianceStates,
           OneUpdate(r, n, endpoint, state)
    PROVE  \/ Status' = [Status EXCEPT ![r][Cleaned[n]] = state]
           \/ Status' = Status /\ AllianceState(alliances[r], n) = "UNKNOWN"
<1> DEFINE table == alliances[r]
           new   == alliances'[r]
           x     == Cleaned[n]
<1>0. x \in Names
  BY CleanedFacts
<1>1. /\ table \in AllianceTables
      /\ new = AddOrUpdateAlliance(table, n, endpoint, state)
      /\ \A q \in Realms : q # r => alliances'[q] = alliances[q]
  BY UpdateFacts
<1>2. /\ \A y : y # x => AllianceState(new, y) = AllianceState(table, y)
      /\ \/ AllianceState(new, x) = state
         \/ /\ AllianceState(table, n) = "UNKNOWN"
            /\ AllianceState(new, x) = AllianceState(table, x)
  <2>1. \/ AllianceState(new, x) = state
        \/ AllianceState(table, n) = "UNKNOWN" /\ new = table
        \/ n # x /\ AllianceState(new, x) = AllianceState(table, x)
    BY <1>1, AddOrUpdateState
  <2>2. n # x => AllianceState(table, n) = "UNKNOWN"
    BY KnownIsCleaned
  <2> QED
    BY <1>1, <2>1, <2>2, AddOrUpdateState
<1> HIDE DEF x
<1>3. CASE AllianceState(new, x) = state
  <2>1. \A q \in Realms, y \in Names :
            Status'[q][y] = IF q = r /\ y = x THEN state ELSE Status[q][y]
    <3> TAKE q \in Realms, y \in Names
    <3>1. /\ Status'[q][y] = AllianceState(alliances'[q], y)
          /\ Status[q][y] = AllianceState(alliances[q], y)
      BY DEF Status
    <3>2. CASE q # r
      BY <1>1, <3>1, <3>2
    <3>3. CASE q = r
      BY <1>2, <1>3, <3>1, <3>3
    <3> QED
      BY <3>2, <3>3
  <2>2. /\ DOMAIN Status' = Realms /\ DOMAIN Status = Realms
        /\ Status' = [q \in Realms |-> Status'[q]]
        /\ \A q \in Realms : /\ DOMAIN Status'[q] = Names
                             /\ Status'[q] = [y \in Names |-> Status'[q][y]]
                             /\ DOMAIN Status[q] = Names
                             /\ Status[q] = [y \in Names |-> Status[q][y]]
    BY DEF Status
  <2> DEFINE goal == [Status EXCEPT ![r][x] = state]
  <2>3. /\ DOMAIN goal = Realms
        /\ goal = [q \in Realms |-> goal[q]]
        /\ \A q \in Realms : goal[q] =
                [y \in Names |-> IF q = r /\ y = x THEN state ELSE Status[q][y]]
    BY <2>2, <1>0
  <2>4. \A q \in Realms : Status'[q] = goal[q]
    BY <2>1, <2>2, <2>3
  <2> QED
    BY <2>2, <2>3, <2>4 DEF x
<1>4. CASE /\ AllianceState(table, n) = "UNKNOWN"
           /\ AllianceState(new, x) = AllianceState(table, x)
  <2>1. \A q \in Realms, y \in Names :
            AllianceState(alliances'[q], y) = AllianceState(alliances[q], y)
    BY <1>1, <1>2, <1>4
  <2>2. Status' = Status
    BY <2>1 DEF Status
  <2> QED
    BY <1>4, <2>2
<1> QED
  BY <1>2, <1>3, <1>4 DEF x

LEMMA AgreedSame ==
    ASSUME UNCHANGED <<pledged, accepted>>
    PROVE  Agreed' = Agreed
BY DEF Agreed, Pledged

\* Agreed is a function; what it holds of each realm, before and after.
LEMMA AgreedFacts ==
    /\ DOMAIN Agreed' = Realms /\ DOMAIN Agreed = Realms
    /\ Agreed' = [q \in Realms |-> Agreed'[q]]
    /\ Agreed = [q \in Realms |-> Agreed[q]]
    /\ \A q \in Realms : \A y :
        /\ y \in Agreed[q] <=>
                \/ \E n \in Names : <<q, n>> \in pledged /\ Cleaned[n] = y
                \/ y \in Names /\ <<q, y>> \in accepted
        /\ y \in Agreed'[q] <=>
                \/ \E n \in Names : <<q, n>> \in pledged' /\ Cleaned[n] = y
                \/ y \in Names /\ <<q, y>> \in accepted'
BY DEF Agreed, Pledged

LEMMA AgreedPledged ==
    ASSUME NEW r \in Realms, NEW x \in Names,
           pledged' = pledged \cup {<<r, x>>}, accepted' = accepted
    PROVE  Agreed' = [Agreed EXCEPT ![r] = @ \cup {Cleaned[x]}]
<1>1. ASSUME NEW q \in Realms, NEW y
      PROVE  y \in Agreed'[q] <=>
                y \in Agreed[q] \/ (q = r /\ y = Cleaned[x])
  <2>1. \A n : <<q, n>> \in pledged' <=>
                <<q, n>> \in pledged \/ (q = r /\ n = x)
    OBVIOUS
  <2> QED
    BY <2>1, AgreedFacts
<1>2. \A q \in Realms : Agreed'[q] = IF q = r THEN Agreed[q] \cup {Cleaned[x]}
                                               ELSE Agreed[q]
  BY <1>1
<1> QED
  BY <1>2, AgreedFacts

LEMMA AgreedAccepted ==
    ASSUME NEW r \in Realms, NEW x \in Names,
           accepted' = accepted \cup {<<r, x>>}, pledged' = pledged
    PROVE  Agreed' = [Agreed EXCEPT ![r] = @ \cup {x}]
<1>1. ASSUME NEW q \in Realms, NEW y
      PROVE  y \in Agreed'[q] <=> y \in Agreed[q] \/ (q = r /\ y = x)
  <2>1. <<q, y>> \in accepted' <=>
                <<q, y>> \in accepted \/ (q = r /\ y = x)
    OBVIOUS
  <2> QED
    BY <2>1, AgreedFacts
<1>2. \A q \in Realms : Agreed'[q] = IF q = r THEN Agreed[q] \cup {x}
                                               ELSE Agreed[q]
  BY <1>1
<1> QED
  BY <1>2, AgreedFacts

-----------------------------------------------------------------------------

LEMMA LedgerForgets ==
    ASSUME TypeOK, NEW r \in Realms, Dies(r)
    PROVE  Ledger!Forget(r)
<1>1. Status' = [Status EXCEPT ![r] = [y \in Names |-> "UNKNOWN"]]
  <2>1. \A q \in Realms :
            Status'[q] = IF q = r THEN [y \in Names |-> "UNKNOWN"] ELSE Status[q]
    BY EmptyTable, DiesFacts DEF Status
  <2>2. /\ DOMAIN Status' = Realms /\ DOMAIN Status = Realms
        /\ Status' = [q \in Realms |-> Status'[q]]
        /\ Status = [q \in Realms |-> Status[q]]
    BY DEF Status
  <2> QED
    BY <2>1, <2>2
<1>2. Agreed' = [Agreed EXCEPT ![r] = {}]
  <2>1. ASSUME NEW q \in Realms, NEW y
        PROVE  y \in Agreed'[q] <=> y \in Agreed[q] /\ q # r
    <3>1. \A n : /\ <<q, n>> \in pledged' <=> <<q, n>> \in pledged /\ q # r
                 /\ <<q, n>> \in accepted' <=> <<q, n>> \in accepted /\ q # r
      BY DiesFacts
    <3> QED
      BY <3>1, AgreedFacts
  <2>2. \A q \in Realms : Agreed'[q] = IF q = r THEN {} ELSE Agreed[q]
    BY <2>1
  <2> QED
    BY <2>2, AgreedFacts
<1> QED
  BY <1>1, <1>2 DEF Ledger!Forget

\* Every effect is a step of the ledger or a stutter.
LEMMA LedgerStep ==
    ASSUME TypeOK, MissionTracked, Effect
    PROVE  [Ledger!LedgerNext]_(Ledger!ledger)
<1>1. CASE Quiet
  <2>1. Status' = Status
    BY <1>1 DEF Quiet, Status
  <2>2. Agreed' = Agreed
    BY <1>1, AgreedSame DEF Quiet, history
  <2> QED
    BY <2>1, <2>2 DEF Ledger!ledger
<1>2. ASSUME NEW r \in Realms, Dies(r)
      PROVE  Ledger!LedgerNext
  BY <1>2, LedgerForgets DEF Ledger!LedgerNext
<1>3. ASSUME NEW r \in Realms, Answers(r)
      PROVE  [Ledger!LedgerNext]_(Ledger!ledger)
  <2> DEFINE n == mission[r].target
             x == Cleaned[n]
  <2>1. PICK endpoint \in Names, state \in {"ACTIVE", "INACTIVE"} :
                OneUpdate(r, n, endpoint, state)
    BY <1>3 DEF Answers
  <2>2. n \in Names /\ x \in Names /\ state \in AllianceStates
    BY <1>3, CleanedFacts
    DEF Answers, TypeOK, Missions, NoMission, AllianceStates
  <2>3. Agreed' = Agreed
    BY <1>3, AgreedSame DEF Answers, history
  <2>4. x \in Agreed[r]
    BY <1>3, <2>2, AgreedFacts DEF Answers, MissionTracked
  <2>5. AllianceState(alliances[r], x) # "UNKNOWN"
            \/ Len(alliances[r]) = MaxAlliances
    BY <1>3 DEF Answers, MissionTracked
  <2> HIDE DEF n
  <2>6. \/ Status' = [Status EXCEPT ![r][x] = state]
        \/ Status' = Status
    BY <2>1, <2>2, StatusUpdate
  <2>7. Status[r][x] = AllianceState(alliances[r], x)
    BY <2>2 DEF Status
  <2> HIDE DEF x
  <2>8. CASE /\ Status' = [Status EXCEPT ![r][x] = state]
             /\ Status[r][x] # "UNKNOWN"
    <3>1. Ledger!Answer(r, x)
      BY <2>3, <2>4, <2>8 DEF Ledger!Answer, Ledger!Becomes
    <3> QED
      BY <2>2, <3>1 DEF Ledger!LedgerNext
  <2>9. CASE Status[r][x] = "UNKNOWN"
    <3>1. alliances[r] \in AllianceTables
      BY DEF TypeOK
    <3>2. Len(alliances[r]) = MaxAlliances
      BY <2>5, <2>7, <2>9
    <3>3. FindByRealm(alliances[r], x) = {}
      BY <3>1, <2>7, <2>9, AllianceStateFacts
    <3>4. FindByRealm(alliances[r], n) = {}
      BY <3>1, <3>3, FoundIsCleaned DEF x
    <3>5. alliances'[r] = alliances[r]
      <4>1. ~(Len(alliances[r]) < MaxAlliances)
        BY <3>2, MaxAlliancesAssumption
      <4> QED
        BY <2>1, <3>4, <4>1, UpdateFacts DEF AddOrUpdateAlliance
    <3>6. \A q \in Realms : alliances'[q] = alliances[q]
      BY <2>1, <3>5, UpdateFacts
    <3>7. Status' = Status
      BY <3>6 DEF Status
    <3> QED
      BY <2>3, <3>7 DEF Ledger!ledger
  <2>10. CASE Status' = Status
    BY <2>3, <2>10 DEF Ledger!ledger
  <2> QED
    BY <2>6, <2>8, <2>9, <2>10
<1>4. ASSUME NEW r \in Realms, NEW x \in Names, Pledges(r, x)
      PROVE  Ledger!LedgerNext
  <2>1. PICK hop \in Names : OneUpdate(r, x, hop, "PENDING")
    BY <1>4 DEF Pledges
  <2>2. "PENDING" \in AllianceStates
    BY DEF AllianceStates
  <2>3. Agreed' = [Agreed EXCEPT ![r] = @ \cup {Cleaned[x]}]
    BY <1>4, AgreedPledged DEF Pledges
  <2>4. \/ Status' = [Status EXCEPT ![r][Cleaned[x]] = "PENDING"]
        \/ Status' = Status
    BY <2>1, <2>2, StatusUpdate
  <2>5. Ledger!Offer(r, Cleaned[x])
    BY <2>3, <2>4 DEF Ledger!Offer, Ledger!Agrees, Ledger!Becomes
  <2>6. Cleaned[x] \in Names
    BY CleanedFacts
  <2> QED
    BY <2>5, <2>6 DEF Ledger!LedgerNext
<1>5. ASSUME NEW r \in Realms, NEW x \in Names, Hears(r, x)
      PROVE  [Ledger!LedgerNext]_(Ledger!ledger)
  <2>1. PICK endpoint \in Names : OneUpdate(r, x, endpoint, "PENDING")
    BY <1>5 DEF Hears
  <2>2. "PENDING" \in AllianceStates
    BY DEF AllianceStates
  <2>3. Agreed' = Agreed /\ Cleaned[x] = x
    BY <1>5, AgreedSame DEF Hears
  <2>4. CASE Status' = [Status EXCEPT ![r][x] = "PENDING"]
    <3>1. Ledger!Hear(r, x)
      BY <2>3, <2>4 DEF Ledger!Hear, Ledger!Becomes
    <3> QED
      BY <3>1 DEF Ledger!LedgerNext
  <2>5. CASE Status' = Status
    BY <2>3, <2>5 DEF Ledger!ledger
  <2> QED
    BY <2>1, <2>2, <2>3, <2>4, <2>5, StatusUpdate
<1>6. ASSUME NEW r \in Realms, NEW x \in Names, Parts(r, x)
      PROVE  Ledger!LedgerNext
  <2>1. OneUpdate(r, x, NoRealm, "INACTIVE") /\ Status[r][x] # "UNKNOWN"
    BY <1>6 DEF Parts, Status
  <2>2. "INACTIVE" \in AllianceStates
    BY DEF AllianceStates
  <2>3. Agreed' = Agreed
    BY <1>6, AgreedSame DEF Parts, history
  <2>4. Status' = [Status EXCEPT ![r][x] = "INACTIVE"]
    BY <1>6, <2>1, <2>2, StatusUpdate, KnownIsCleaned DEF Parts
  <2>5. Ledger!Leave(r, x)
    BY <2>1, <2>3, <2>4 DEF Ledger!Leave, Ledger!Becomes
  <2> QED
    BY <2>5 DEF Ledger!LedgerNext
<1>7. ASSUME NEW r \in Realms, NEW x \in Names,
             NEW answer \in {"ACCEPT", "REJECT"}, Decides(r, x, answer)
      PROVE  Ledger!LedgerNext
  <2> DEFINE state == DecidedState(answer)
  <2>1. OneUpdate(r, x, NoRealm, state) /\ Status[r][x] = "PENDING"
    BY <1>7 DEF Decides, Status
  <2>2. state \in AllianceStates
    BY DEF AllianceStates, DecidedState
  <2> HIDE DEF state
  <2>3. Status' = [Status EXCEPT ![r][x] = state]
    BY <1>7, <2>1, <2>2, StatusUpdate, KnownIsCleaned DEF Decides
  <2>4. CASE answer = "ACCEPT"
    <3>1. state = "ACTIVE"
      BY <2>4 DEF state, DecidedState
    <3>2. accepted' = accepted \cup {<<r, x>>} /\ pledged' = pledged
      BY <1>7, <2>4 DEF Decides
    <3>3. Ledger!Grant(r, x)
      BY <2>1, <2>3, <3>1, <3>2, AgreedAccepted
      DEF Ledger!Grant, Ledger!Becomes, Ledger!Agrees
    <3> QED
      BY <3>3 DEF Ledger!LedgerNext
  <2>5. CASE answer = "REJECT"
    <3>1. state = "INACTIVE"
      BY <2>5 DEF state, DecidedState
    <3>2. UNCHANGED <<pledged, accepted>>
      BY <1>7, <2>5 DEF Decides
    <3>3. Ledger!Refuse(r, x)
      BY <2>1, <2>3, <3>1, <3>2, AgreedSame DEF Ledger!Refuse, Ledger!Becomes
    <3> QED
      BY <3>3 DEF Ledger!LedgerNext
  <2> QED
    BY <2>4, <2>5
<1> QED
  BY <1>1, <1>2, <1>3, <1>4, <1>5, <1>6, <1>7 DEF Effect

LEMMA LedgerStart == Init => Ledger!LedgerInit
<1> SUFFICES ASSUME Init PROVE Ledger!LedgerInit
  OBVIOUS
<1>1. Status = [r \in Realms |-> [x \in Names |-> "UNKNOWN"]]
  BY EmptyTable DEF Init, Status
<1>2. Agreed = [r \in Realms |-> {}]
  BY DEF Init, Agreed, Pledged
<1> QED
  BY <1>1, <1>2 DEF Ledger!LedgerInit

\* Whatever the network, the deadlines and the deaths do, a user who looks
\* only at PLEDGE STATUS sees the steps of the ledger and no others.
THEOREM CitadelKeepsTheLedger == Spec => KeepsTheLedger
<1>1. Init => Ledger!LedgerInit
  BY LedgerStart
<1>2. SafetyInv /\ [Next]_vars => [Ledger!LedgerNext]_(Ledger!ledger)
  BY NextEffect, SoundFacts, LedgerStep DEF SafetyInv
<1> QED
  BY <1>1, <1>2, SafetyAlways, PTL
  DEF Spec, KeepsTheLedger, Ledger!LedgerSpec

=============================================================================
