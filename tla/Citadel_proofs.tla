--------------------------- MODULE Citadel_proofs ---------------------------
(***************************************************************************)
(* Proofs about Citadel for any number of realms, names, routes and        *)
(* connections: the type invariant, with one lemma per operation, and the  *)
(* missions, which no step replaces.                                       *)
(***************************************************************************)
EXTENDS Citadel, Tables_proofs

BoundsOK == commands \in 0..MaxCommands /\ restarts \in 0..MaxRestarts

-----------------------------------------------------------------------------
(* Frames                                                                  *)

LEMMA FrameInitType ==
    ASSUME NEW type \in FrameTypes, NEW origin \in Address,
           NEW destination \in Address, NEW data \in Payloads
    PROVE  FrameInit(type, origin, destination, data) \in Frame
BY DEF FrameInit, Frame

LEMMA AddressType ==
    ASSUME NEW n \in Names
    PROVE  Name(n) \in Address /\ Endpoint(n) \in Address /\ Ip(n) \in Address
BY DEF Name, Endpoint, Ip, Address

LEMMA PayloadType ==
    /\ NoData \in Payloads
    /\ \A n \in Names : RealmData(n) \in Payloads
    /\ \A a \in {"ACCEPT", "REJECT", "other", "none"} :
            AnswerData(a) \in Payloads
BY DEF NoData, RealmData, AnswerData, Payloads

LEMMA CommandFrames ==
    ASSUME NEW r \in Realms, NEW x \in Names
    PROVE  /\ PledgeFrame(r, x) \in Frame
           /\ \A a \in {"ACCEPT", "REJECT", "other"} :
                    ResponseFrame(r, x, a) \in Frame
           /\ LaterPhaseFrames(r, x) \subseteq Frame
<1>1. r \in Names
  BY NamesAssumption
<1>2. {"PLEDGE", "PLEDGE_RESPONSE", "LIST_REQUEST"} \subseteq FrameTypes
  BY DEF FrameTypes
<1>3. PledgeFrame(r, x) \in Frame
  BY <1>1, <1>2, AddressType, PayloadType, FrameInitType DEF PledgeFrame
<1>4. \A a \in {"ACCEPT", "REJECT", "other"} : ResponseFrame(r, x, a) \in Frame
  BY <1>1, <1>2, AddressType, PayloadType, FrameInitType DEF ResponseFrame
<1>5. LaterPhaseFrames(r, x) \subseteq Frame
  BY <1>1, <1>2, <1>4, AddressType, PayloadType, FrameInitType
  DEF LaterPhaseFrames
<1> QED
  BY <1>3, <1>4, <1>5

LEMMA ErrorFrameType ==
    ASSUME NEW r \in Realms, NEW frame \in Frame,
           NEW type \in {"ERROR_UNKNOWN", "ERROR_UNAUTHORIZED"}
    PROVE  ErrorFrame(type, r, frame) \in Frame
<1>1. r \in Names /\ type \in FrameTypes
  BY NamesAssumption DEF FrameTypes
<1>2. frame.origin \in Address
  BY DEF Frame
<1> QED
  BY <1>1, <1>2, AddressType, PayloadType, FrameInitType DEF ErrorFrame

LEMMA DisconnectFrameType ==
    ASSUME NEW r \in Realms, NEW conn \in Conn, NEW e
    PROVE  DisconnectFrame(r, conn, e) \in Frame
<1>1. r \in Names /\ conn.label \in Names /\ conn.opener \in Names
  BY NamesAssumption DEF Conn
<1>2. "DISCONNECT" \in FrameTypes
  BY DEF FrameTypes
<1> QED
  BY <1>1, <1>2, AddressType, PayloadType, FrameInitType DEF DisconnectFrame

-----------------------------------------------------------------------------
(* Sending                                                                 *)

LEMMA ResolvedRoute ==
    ASSUME NEW r \in Realms, NEW address, NEW l \in ResolveRoute(r, address)
    PROVE  l \in Names /\ Routes[r][l] \in Realms
<1>1. l \in DOMAIN Routes[r]
  BY DEF ResolveRoute
<1> QED
  BY <1>1, RoutesAssumption

LEMMA SentType ==
    ASSUME TypeOK, NEW cs, IsConnTable(cs), NEW r \in Realms, NEW address,
           NEW frame \in Frame, NEW out \in Sent(cs, r, address, frame)
    PROVE  IsOutcome(out)
<1>1. ASSUME NEW s \in {"refused", "unroutable"}
      PROVE  IsOutcome(NotSent(s, cs))
  BY DEF IsOutcome, NotSent
<1>2. CASE ResolveRoute(r, address) = {}
  BY <1>1, <1>2 DEF Sent
<1>3. ASSUME NEW l \in ResolveRoute(r, address),
             out \in SendVia(cs, r, l, frame)
      PROVE  IsOutcome(out)
  <2> DEFINE hop == Routes[r][l]
             attempts == GetOrOpen(cs, r, l, hop, phase[hop] # "down")
  <2>1. l \in Names /\ hop \in Realms
    BY ResolvedRoute
  <2>2. CASE attempts = {}
    BY <1>1, <1>3, <2>2 DEF SendVia
  <2>3. CASE attempts # {}
    <3>1. PICK a \in attempts :
                \/ out = NotSent("unbuildable", a.conns)
                \/ out \in SendOutcomes(a.conns, a.slot, "opener", frame)
      BY <1>3, <2>3 DEF SendVia
    <3>2. IsConnTable(a.conns) /\ a.slot \in DOMAIN a.conns
      BY <2>1, <3>1, GetOrOpenType
    <3>3. "opener" \in Ends
      BY DEF Ends
    <3>4. IsOutcome(NotSent("unbuildable", a.conns))
      BY <3>2 DEF IsOutcome, NotSent
    <3> QED
      BY <3>1, <3>2, <3>3, <3>4, SendOutcomesType
  <2> QED
    BY <2>2, <2>3
<1>4. CASE ResolveRoute(r, address) # {}
  <2>1. PICK l \in ResolveRoute(r, address) : out \in SendVia(cs, r, l, frame)
    BY <1>4 DEF Sent
  <2> QED
    BY <2>1, <1>3
<1> QED
  BY <1>2, <1>4

LEMMA ConnsType == TypeOK => IsConnTable(conns)
BY DEF TypeOK, IsConnTable

-----------------------------------------------------------------------------
(* Types of the parts of a step                                            *)

\* One entry of one table changes.
LEMMA TablesType ==
    ASSUME TypeOK, NEW r \in Realms, NEW x \in Names,
           NEW endpoint \in Names \cup {NoRealm}, NEW state \in AllianceStates,
           alliances' = [alliances EXCEPT ![r] =
                            AddOrUpdateAlliance(@, x, endpoint, state)]
    PROVE  alliances' \in [Realms -> AllianceTables]
<1>1. alliances[r] \in AllianceTables
  BY DEF TypeOK
<1>2. AddOrUpdateAlliance(alliances[r], x, endpoint, state) \in AllianceTables
  BY <1>1, AddOrUpdateCases
<1> QED
  BY <1>2 DEF TypeOK

LEMMA NoMissionType == NoMission \in Missions
BY DEF Missions

LEMMA NewMissionType ==
    ASSUME NEW type \in {"PLEDGE", "TRADE"}, NEW x \in Names
    PROVE  Mission(type, x) \in Missions
BY DEF Missions, Mission

LEMMA TimeoutsCheckedType ==
    ASSUME NEW m \in Missions
    PROVE  TimeoutsChecked(m) \in Missions
BY NoMissionType DEF TimeoutsChecked

LEMMA EmptyTableType == <<>> \in AllianceTables
<1>1. <<>> \in Seq(AllianceEntry) /\ Len(<<>>) = 0
  BY EmptySeq
<1> QED
  BY <1>1, MaxAlliancesAssumption DEF AllianceTables

LEMMA GoDownType ==
    ASSUME TypeOK, NEW r \in Realms, NEW cs, IsConnTable(cs), GoDown(r, cs),
           BoundsOK'
    PROVE  TypeOK'
<1>1. phase' \in [Realms -> {"running", "trading", "down"}]
  BY DEF TypeOK, GoDown
<1>2. mission' \in [Realms -> Missions]
  BY NoMissionType DEF TypeOK, GoDown
<1>3. alliances' \in [Realms -> AllianceTables]
  BY EmptyTableType DEF TypeOK, GoDown
<1>4. DOMAIN conns' \subseteq Slots /\ conns' \in [DOMAIN conns' -> Conn]
  BY CloseAllType DEF GoDown, IsConnTable
<1>5. /\ pledged' \subseteq Realms \X Names
      /\ accepted' \subseteq Realms \X Names
      /\ asked' \subseteq Realms \X Names
  BY DEF TypeOK, GoDown
<1> QED
  BY <1>1, <1>2, <1>3, <1>4, <1>5 DEF TypeOK, BoundsOK

LEMMA ReplyType ==
    ASSUME TypeOK, NEW r \in Realms, NEW outcomes,
           \A out \in outcomes : IsOutcome(out),
           Reply(r, outcomes), BoundsOK'
    PROVE  TypeOK'
<1>1. PICK out \in outcomes :
        \/ out.status = "killed" /\ GoDown(r, out.conns)
        \/ /\ conns' = out.conns
           /\ UNCHANGED <<phase, mission, alliances, history>>
  BY DEF Reply
<1>2. IsConnTable(out.conns)
  BY <1>1 DEF IsOutcome
<1>3. CASE GoDown(r, out.conns)
  BY <1>2, <1>3, GoDownType
<1>4. CASE conns' = out.conns
           /\ UNCHANGED <<phase, mission, alliances, history>>
  BY <1>2, <1>4 DEF TypeOK, BoundsOK, IsConnTable, history
<1> QED
  BY <1>1, <1>3, <1>4

LEMMA CommandBounds ==
    ASSUME TypeOK, NEW r \in Realms, Command(r)
    PROVE  BoundsOK'
<1>1. commands \in Nat /\ commands < MaxCommands /\ MaxCommands \in Nat
  BY ActorsAssumption DEF TypeOK, Command
<1>2. commands' = commands + 1 /\ restarts' = restarts
  BY DEF Command
<1> QED
  BY <1>1, <1>2 DEF TypeOK, BoundsOK

LEMMA KeptBounds ==
    ASSUME TypeOK, UNCHANGED bounds
    PROVE  BoundsOK'
BY DEF TypeOK, BoundsOK, bounds

-----------------------------------------------------------------------------
(* Types: one lemma per action                                             *)

LEMMA PledgeType ==
    ASSUME TypeOK, NEW r \in Realms, NEW x \in Names, Pledge(r, x)
    PROVE  TypeOK'
<1>1. BoundsOK'
  BY CommandBounds DEF Pledge
<1>2. PICK out \in Sent(conns, r, Name(x), PledgeFrame(r, x)) :
        \/ PledgeSent(r, x, out)
        \/ GoDown(r, out.conns)
        \/ PledgeNotSent(r, x, out)
  BY DEF Pledge
<1>3. IsOutcome(out)
  BY <1>2, ConnsType, CommandFrames, SentType
<1>4. CASE PledgeSent(r, x, out)
  <2>1. PICK hop \in NextHop(r, Name(x)) :
            alliances' = [alliances EXCEPT ![r] =
                            AddOrUpdateAlliance(@, x, hop, "PENDING")]
    BY <1>4 DEF PledgeSent
  <2>2. hop \in Names
    BY <2>1, ResolvedRoute, NamesAssumption DEF NextHop
  <2>3. alliances' \in [Realms -> AllianceTables]
    BY <2>1, <2>2, TablesType DEF AllianceStates
  <2>4. mission' \in [Realms -> Missions]
    BY <1>4, NewMissionType DEF PledgeSent, TypeOK
  <2>5. pledged' \subseteq Realms \X Names
    BY <1>4 DEF PledgeSent, TypeOK
  <2> QED
    BY <1>1, <1>3, <1>4, <2>3, <2>4, <2>5
    DEF PledgeSent, TypeOK, BoundsOK, IsOutcome, IsConnTable
<1>5. CASE GoDown(r, out.conns)
  BY <1>1, <1>3, <1>5, GoDownType DEF IsOutcome
<1>6. CASE PledgeNotSent(r, x, out)
  <2>1. "opener" \in Ends
    BY DEF Ends
  <2>2. IsConnTable(conns')
    BY <1>3, <1>6, <2>1, CloseEndType DEF PledgeNotSent, IsOutcome
  <2>3. mission' \in [Realms -> Missions]
    BY <1>6, NoMissionType DEF PledgeNotSent, TypeOK
  <2> QED
    BY <1>1, <1>6, <2>2, <2>3
    DEF PledgeNotSent, TypeOK, BoundsOK, IsConnTable, history
<1> QED
  BY <1>2, <1>4, <1>5, <1>6

LEMMA RespondType ==
    ASSUME TypeOK, NEW r \in Realms, NEW x \in Names,
           NEW answer \in {"ACCEPT", "REJECT"}, Respond(r, x, answer)
    PROVE  TypeOK'
<1>1. BoundsOK'
  BY CommandBounds DEF Respond
<1>2. PICK out \in Sent(conns, r, Name(x), ResponseFrame(r, x, answer)) :
        \/ Responded(r, x, answer, out)
        \/ GoDown(r, out.conns)
  BY DEF Respond
<1>3. IsOutcome(out)
  BY <1>2, ConnsType, CommandFrames, SentType
<1>4. CASE Responded(r, x, answer, out)
  <2>1. DecidedState(answer) \in AllianceStates
    BY DEF DecidedState, AllianceStates
  <2>2. alliances' \in [Realms -> AllianceTables]
    BY <1>4, <2>1, TablesType DEF Responded
  <2>3. mission' \in [Realms -> Missions]
    BY <1>4, TimeoutsCheckedType DEF Responded, TypeOK
  <2>4. accepted' \subseteq Realms \X Names
    BY <1>4 DEF Responded, TypeOK
  <2> QED
    BY <1>1, <1>3, <1>4, <2>2, <2>3, <2>4
    DEF Responded, TypeOK, BoundsOK, IsOutcome, IsConnTable
<1>5. CASE GoDown(r, out.conns)
  BY <1>1, <1>3, <1>5, GoDownType DEF IsOutcome
<1> QED
  BY <1>2, <1>4, <1>5

LEMMA TradeType ==
    ASSUME TypeOK, NEW r \in Realms, NEW x \in Names,
           StartTrade(r, x) \/ EndTrade(r)
    PROVE  TypeOK'
<1>1. BoundsOK'
  BY CommandBounds, KeptBounds DEF StartTrade, EndTrade
<1>2. mission' \in [Realms -> Missions]
  BY NewMissionType, NoMissionType DEF StartTrade, EndTrade, TypeOK
<1>3. phase' \in [Realms -> {"running", "trading", "down"}]
  BY DEF StartTrade, EndTrade, TypeOK
<1> QED
  BY <1>1, <1>2, <1>3
  DEF StartTrade, EndTrade, TypeOK, BoundsOK, history

LEMMA BroadcastType ==
    ASSUME NEW cs, IsConnTable(cs), NEW r \in Realms,
           NEW reached \in SUBSET OpenEnds(cs, r)
    PROVE  IsConnTable(Broadcast(cs, r, reached))
<1>1. ASSUME NEW c \in DOMAIN cs
      PROVE  Broadcast(cs, r, reached)[c] \in Conn
  <2>1. cs[c] \in Conn
    BY DEF IsConnTable
  <2>2. CASE \E e \in Ends : <<c, e>> \in reached /\ Reaches(cs[c], e)
    <3> DEFINE e == CHOOSE f \in Ends : <<c, f>> \in reached
    <3>1. e \in Ends
      BY <2>2
    <3>2. Broadcast(cs, r, reached)[c] =
            Flushed(Enqueued(cs[c], e, DisconnectFrame(r, cs[c], e)), e)
      BY <2>2 DEF Broadcast
    <3> HIDE DEF e
    <3>3. Enqueued(cs[c], e, DisconnectFrame(r, cs[c], e)) \in Conn
      BY <2>1, <3>1, EnqueuedType, DisconnectFrameType
    <3> QED
      BY <3>1, <3>2, <3>3, FlushedType
  <2>3. CASE ~ \E e \in Ends : <<c, e>> \in reached /\ Reaches(cs[c], e)
    BY <2>1, <2>3 DEF Broadcast
  <2> QED
    BY <2>2, <2>3
<1>2. /\ DOMAIN Broadcast(cs, r, reached) = DOMAIN cs
      /\ Broadcast(cs, r, reached) =
            [c \in DOMAIN cs |-> Broadcast(cs, r, reached)[c]]
  BY DEF Broadcast
<1> QED
  BY <1>1, <1>2 DEF IsConnTable

LEMMA LifeType ==
    ASSUME TypeOK, NEW r \in Realms, Exit(r) \/ Crash(r) \/ Restart(r)
    PROVE  TypeOK'
<1>1. CASE Exit(r)
  <2>1. PICK reached \in SUBSET OpenEnds(conns, r) :
                GoDown(r, Broadcast(conns, r, reached))
    BY <1>1 DEF Exit
  <2>2. BoundsOK'
    BY <1>1, KeptBounds DEF Exit
  <2> QED
    BY <2>1, <2>2, ConnsType, BroadcastType, GoDownType
<1>2. CASE Crash(r)
  BY <1>2, KeptBounds, ConnsType, GoDownType DEF Crash
<1>3. CASE Restart(r)
  <2>1. restarts' \in 0..MaxRestarts
    <3>1. restarts \in Nat /\ restarts < MaxRestarts /\ MaxRestarts \in Nat
      BY <1>3, ActorsAssumption DEF TypeOK, Restart
    <3>2. restarts' = restarts + 1
      BY <1>3 DEF Restart
    <3> QED
      BY <3>1, <3>2
  <2>2. phase' \in [Realms -> {"running", "trading", "down"}]
    BY <1>3 DEF Restart, TypeOK
  <2> QED
    BY <1>3, <2>1, <2>2 DEF Restart, TypeOK, history
<1> QED
  BY <1>1, <1>2, <1>3

LEMMA TimeType ==
    ASSUME TypeOK, NEW r \in Realms, DeadlinePasses(r) \/ Expire(r)
    PROVE  TypeOK'
<1>1. mission' \in [Realms -> Missions]
  <2>1. CASE DeadlinePasses(r)
    <3> DEFINE Begun == [type   : {"PLEDGE", "TRADE"},
                         target : Names,
                         due    : BOOLEAN]
    <3>1. mission[r] \in Missions /\ mission[r].type = "PLEDGE"
      BY <2>1 DEF DeadlinePasses, TypeOK
    <3>2. mission[r] \in Begun
      BY <3>1 DEF Missions, NoMission
    <3>3. [mission[r] EXCEPT !.due = TRUE] \in Begun
      BY <3>2
    <3>4. [mission[r] EXCEPT !.due = TRUE] \in Missions
      BY <3>3 DEF Missions
    <3>5. mission' = [mission EXCEPT ![r] = [mission[r] EXCEPT !.due = TRUE]]
      BY <2>1 DEF DeadlinePasses, TypeOK
    <3> QED
      BY <3>4, <3>5 DEF TypeOK
  <2>2. CASE Expire(r)
    BY <2>2, TimeoutsCheckedType, NoMissionType DEF Expire, TypeOK
  <2> QED
    BY <2>1, <2>2
<1> QED
  BY <1>1 DEF DeadlinePasses, Expire, TypeOK, bounds, history

LEMMA ClosingType ==
    ASSUME TypeOK, NEW r \in Realms, NEW c \in Slots, NEW e \in Ends,
           PeerClosed(r, c, e) \/ Hangup(r, c, e)
    PROVE  TypeOK'
<1>1. c \in DOMAIN conns
  BY DEF PeerClosed, Hangup, OpenEnds
<1>2. IsConnTable(conns')
  BY <1>1, ConnsType, CloseEndType DEF PeerClosed, Hangup
<1> QED
  BY <1>2 DEF PeerClosed, Hangup, TypeOK, IsConnTable, bounds, history

LEMMA FlushType ==
    ASSUME TypeOK, NEW r \in Realms, NEW c \in Slots, NEW e \in Ends,
           Flush(r, c, e)
    PROVE  TypeOK'
<1>1. BoundsOK'
  BY KeptBounds DEF Flush
<1>2. c \in DOMAIN conns /\ conns[c] \in Conn
  BY DEF Flush, OpenEnds, TypeOK
<1>3. CASE GoDown(r, conns)
  BY <1>1, <1>3, ConnsType, GoDownType
<1>4. CASE /\ \/ conns' = CloseEnd(conns, c, e)
              \/ conns' = [conns EXCEPT ![c] = Flushed(@, e)]
           /\ UNCHANGED <<phase, mission, alliances, history>>
  <2>1. Flushed(conns[c], e) \in Conn
    BY <1>2, FlushedType
  <2>2. [conns EXCEPT ![c] = Flushed(@, e)]
            = [conns EXCEPT ![c] = Flushed(conns[c], e)]
    OBVIOUS
  <2>3. IsConnTable(conns')
    BY <1>2, <1>4, <2>1, <2>2, ConnsType, CloseEndType, ReplacedType
  <2> QED
    BY <1>1, <1>4, <2>3 DEF TypeOK, BoundsOK, IsConnTable, history
<1> QED
  BY <1>3, <1>4 DEF Flush

LEMMA AcceptType ==
    ASSUME TypeOK, NEW r \in Realms, Accept(r)
    PROVE  TypeOK'
<1>1. IsConnTable(conns')
  BY ConnsType, AcceptAllType DEF Accept
<1> QED
  BY <1>1 DEF Accept, TypeOK, IsConnTable, bounds, history

LEMMA SendLaterPhaseType ==
    ASSUME TypeOK, NEW r \in Realms, NEW x \in Names, SendLaterPhase(r, x)
    PROVE  TypeOK'
<1>1. PICK frame \in LaterPhaseFrames(r, x) :
            Reply(r, Sent(conns, r, Name(x), frame))
  BY DEF SendLaterPhase
<1>2. frame \in Frame
  BY <1>1, CommandFrames
<1>3. \A out \in Sent(conns, r, Name(x), frame) : IsOutcome(out)
  BY <1>2, ConnsType, SentType
<1> QED
  BY <1>1, <1>3, CommandBounds, ReplyType DEF SendLaterPhase

-----------------------------------------------------------------------------
(* Receiving                                                               *)

\* The frame at the head of the queue, and the connections without it.
LEMMA IncomingType ==
    ASSUME TypeOK, NEW r \in Realms, NEW c \in Slots, NEW e \in Ends,
           Incoming(r, c, e)
    PROVE  /\ c \in DOMAIN conns
           /\ conns[c] \in Conn
           /\ Head(conns[c].inbox[e]) \in Frame
           /\ IsConnTable(Consumed(c, e))
           /\ c \in DOMAIN Consumed(c, e)
<1>1. c \in DOMAIN conns /\ conns[c].inbox[e] # <<>>
  BY DEF Incoming, OpenEnds
<1>2. conns[c] \in Conn
  BY <1>1 DEF TypeOK
<1> DEFINE q == conns[c].inbox[e]
<1>3. q \in Seq(Frame) /\ q # <<>>
  BY <1>1, <1>2 DEF Conn
<1> HIDE DEF q
<1>4. Head(q) \in Frame /\ Tail(q) \in Seq(Frame)
  BY <1>3, HeadTailProperties
<1> DEFINE rest == [conns[c] EXCEPT !.inbox[e] = Tail(q)]
<1>5. rest \in Conn
  BY <1>2, <1>4, InboxType
<1>6. Consumed(c, e) = [conns EXCEPT ![c] = rest]
  BY <1>1, <1>2 DEF Consumed, TypeOK, Conn, q
<1> HIDE DEF rest
<1>7. IsConnTable(Consumed(c, e))
  <2>1. IsConnTable([conns EXCEPT ![c] = rest])
    BY <1>1, <1>5, ConnsType, ReplacedType
  <2> QED
    BY <2>1, <1>6
<1>8. DOMAIN Consumed(c, e) = DOMAIN conns
  BY <1>6
<1> QED
  BY <1>1, <1>2, <1>4, <1>7, <1>8 DEF q

LEMMA FrameFields ==
    ASSUME NEW frame \in Frame
    PROVE  /\ frame.origin.of \in Names
           /\ frame.data.realm \in Names \cup {NoRealm}
BY DEF Frame, Address, Payloads

LEMMA ReceiveType ==
    ASSUME TypeOK, NEW r \in Realms, NEW c \in Slots, NEW e \in Ends,
           Receive(r, c, e)
    PROVE  TypeOK'
<1> DEFINE frame == Head(conns[c].inbox[e])
<1>1. BoundsOK'
  BY KeptBounds DEF Receive
<1>2. /\ c \in DOMAIN conns /\ conns[c] \in Conn
      /\ frame \in Frame
      /\ IsConnTable(Consumed(c, e)) /\ c \in DOMAIN Consumed(c, e)
  BY IncomingType DEF Receive
<1>3. \/ ReceiveForward(r, c, e, frame)
      \/ ReceiveResponse(r, c, e, frame)
      \/ ReceivePledge(r, c, e, frame)
      \/ ReceiveDisconnect(r, c, e, frame)
      \/ ReceiveRequest(r, c, e, frame)
      \/ ReceiveIgnored(r, c, e, frame)
  BY DEF Receive
<1> HIDE DEF frame
<1>4. UNCHANGED bounds
  BY DEF Receive
<1>5. ASSUME NEW error \in Frame,
             NEW out \in SendOutcomes(Consumed(c, e), c, e, error)
      PROVE  IsOutcome(out)
  BY <1>2, SendOutcomesType
<1>6. CASE ReceiveForward(r, c, e, frame)
  <2>1. CASE ResolveRoute(r, frame.destination) = {}
    <3>1. ErrorFrame("ERROR_UNKNOWN", r, frame) \in Frame
      BY <1>2, ErrorFrameType
    <3> QED
      BY <1>1, <1>5, <1>6, <2>1, <3>1, ReplyType DEF ReceiveForward
  <2>2. CASE ResolveRoute(r, frame.destination) # {}
    <3>1. \A out \in Sent(Consumed(c, e), r, frame.destination, frame) :
                IsOutcome(out)
      BY <1>2, SentType
    <3> QED
      BY <1>1, <1>6, <2>2, <3>1, ReplyType DEF ReceiveForward
  <2> QED
    BY <2>1, <2>2
<1>7. CASE ReceiveResponse(r, c, e, frame)
  <2>1. mission[r].target \in Names
    BY <1>7 DEF ReceiveResponse, TypeOK, Missions, NoMission
  <2>2. DecidedState(frame.data.answer) \in AllianceStates
    BY DEF DecidedState, AllianceStates
  <2>3. alliances' \in [Realms -> AllianceTables]
    <3>1. CASE frame.data.answer \notin {"ACCEPT", "REJECT"}
      BY <1>7, <3>1 DEF ReceiveResponse, TypeOK
    <3>2. CASE frame.data.answer \in {"ACCEPT", "REJECT"}
      <4>1. alliances' = [alliances EXCEPT ![r] =
                AddOrUpdateAlliance(@, mission[r].target, frame.origin.of,
                                    DecidedState(frame.data.answer))]
        BY <1>7, <3>2 DEF ReceiveResponse
      <4> QED
        BY <4>1, <1>2, <2>1, <2>2, FrameFields, TablesType
    <3> QED
      BY <3>1, <3>2
  <2>4. mission' \in [Realms -> Missions]
    BY <1>7, NoMissionType DEF ReceiveResponse, TypeOK
  <2> QED
    BY <1>1, <1>2, <1>7, <2>3, <2>4
    DEF ReceiveResponse, TypeOK, BoundsOK, IsConnTable, history
<1>8. CASE ReceivePledge(r, c, e, frame)
  <2>1. Cleaned[frame.data.realm] \in Names
    BY <1>2, <1>8, FrameFields, CleanedFacts DEF ReceivePledge
  <2>2. alliances' \in [Realms -> AllianceTables]
    BY <1>2, <1>8, <2>1, FrameFields, TablesType
    DEF ReceivePledge, AllianceStates
  <2>3. asked' \subseteq Realms \X Names
    BY <1>8, <2>1 DEF ReceivePledge, TypeOK
  <2> QED
    BY <1>1, <1>2, <1>8, <2>2, <2>3
    DEF ReceivePledge, TypeOK, BoundsOK, IsConnTable
<1>9. CASE ReceiveDisconnect(r, c, e, frame)
  <2>1. Leaving(r, c, e, frame) \subseteq Names
    <3>1. CASE e = "opener"
      BY <1>2, <3>1 DEF Leaving, Conn
    <3>2. CASE e # "opener"
      <4>1. alliances[r] \in Seq(AllianceEntry)
        BY DEF TypeOK, AllianceTables
      <4>2. \A i \in DOMAIN alliances[r] : alliances[r][i] \in AllianceEntry
        BY <4>1, ElementOfSeq, LenProperties
      <4>3. FindByEndpoint(alliances[r], frame.origin.of)
                \subseteq DOMAIN alliances[r]
        BY DEF FindByEndpoint, First
      <4> QED
        BY <3>2, <4>2, <4>3, CleanedFacts DEF Leaving, AllianceEntry
    <3> QED
      BY <3>1, <3>2
  <2>2. alliances' \in [Realms -> AllianceTables]
    <3>1. CASE UNCHANGED alliances
      BY <3>1 DEF TypeOK
    <3>2. CASE \E x \in Leaving(r, c, e, frame) :
                alliances' = [alliances EXCEPT ![r] =
                    AddOrUpdateAlliance(@, x, NoRealm, "INACTIVE")]
      BY <2>1, <3>2, TablesType DEF AllianceStates
    <3> QED
      BY <1>9, <3>1, <3>2 DEF ReceiveDisconnect
  <2> QED
    BY <1>1, <1>2, <1>9, <2>2
    DEF ReceiveDisconnect, TypeOK, BoundsOK, IsConnTable, history
<1>10. CASE ReceiveRequest(r, c, e, frame)
  <2>1. CASE IsAlliedEndpoint(alliances[r], frame.origin.of)
    BY <1>1, <1>2, <1>10, <2>1
    DEF ReceiveRequest, TypeOK, BoundsOK, IsConnTable, history
  <2>2. CASE ~IsAlliedEndpoint(alliances[r], frame.origin.of)
    <3>1. ErrorFrame("ERROR_UNAUTHORIZED", r, frame) \in Frame
      BY <1>2, ErrorFrameType
    <3> QED
      BY <1>1, <1>5, <1>10, <2>2, <3>1, ReplyType DEF ReceiveRequest
  <2> QED
    BY <2>1, <2>2
<1>11. CASE ReceiveIgnored(r, c, e, frame)
  BY <1>1, <1>2, <1>11
  DEF ReceiveIgnored, TypeOK, BoundsOK, IsConnTable, history
<1> QED
  BY <1>3, <1>6, <1>7, <1>8, <1>9, <1>10, <1>11

-----------------------------------------------------------------------------
(* The theorem                                                             *)

LEMMA InitType == Init => TypeOK
<1> SUFFICES ASSUME Init PROVE TypeOK
  OBVIOUS
<1>1. alliances \in [Realms -> AllianceTables]
  BY EmptyTableType DEF Init
<1>2. mission \in [Realms -> Missions]
  BY NoMissionType DEF Init
<1>3. DOMAIN conns = {} /\ conns = [c \in DOMAIN conns |-> conns[c]]
  BY DEF Init
<1>4. DOMAIN conns \subseteq Slots /\ conns \in [DOMAIN conns -> Conn]
  BY <1>3
<1>5. commands \in 0..MaxCommands /\ restarts \in 0..MaxRestarts
  BY ActorsAssumption DEF Init
<1> QED
  BY <1>1, <1>2, <1>4, <1>5 DEF Init, TypeOK

LEMMA StutterType == TypeOK /\ UNCHANGED vars => TypeOK'
BY DEF TypeOK, vars, bounds, history

\* The disjuncts of Next, with the realm, the name and the end they concern.
LEMMA NextActions ==
    ASSUME Next
    PROVE  \E r \in Realms :
            \/ \E x \in Names :
                \/ Pledge(r, x)
                \/ StartTrade(r, x)
                \/ SendLaterPhase(r, x)
                \/ \E answer \in {"ACCEPT", "REJECT"} : Respond(r, x, answer)
            \/ EndTrade(r)
            \/ Exit(r) \/ Crash(r) \/ Restart(r)
            \/ Accept(r)
            \/ \E c \in Slots, e \in Ends :
                \/ Receive(r, c, e) \/ PeerClosed(r, c, e)
                \/ Hangup(r, c, e) \/ Flush(r, c, e)
            \/ DeadlinePasses(r) \/ Expire(r)
<1>1. PICK r \in Realms :
        User(r) \/ Event(r) \/ DeadlinePasses(r) \/ Expire(r)
            \/ Crash(r) \/ Restart(r)
  BY DEF Next
<1>2. Targets[r] \subseteq Names
  BY ActorsAssumption
<1>3. CASE User(r)
  <2>1. CASE \E x \in Targets[r] :
                Pledge(r, x) \/ StartTrade(r, x) \/ SendLaterPhase(r, x)
    BY <1>2, <2>1
  <2>2. CASE \E x \in Names, answer \in {"ACCEPT", "REJECT"} :
                Respond(r, x, answer)
    BY <2>2
  <2>3. CASE EndTrade(r) \/ Exit(r)
    BY <2>3
  <2> QED
    BY <1>3, <2>1, <2>2, <2>3 DEF User
<1>4. CASE Event(r)
  BY <1>4 DEF Event
<1> QED
  BY <1>1, <1>3, <1>4

LEMMA NextType == TypeOK /\ [Next]_vars => TypeOK'
<1> SUFFICES ASSUME TypeOK, Next PROVE TypeOK'
  BY StutterType
<1>1. PICK r \in Realms :
        \/ \E x \in Names :
            \/ Pledge(r, x)
            \/ StartTrade(r, x)
            \/ SendLaterPhase(r, x)
            \/ \E answer \in {"ACCEPT", "REJECT"} : Respond(r, x, answer)
        \/ EndTrade(r)
        \/ Exit(r) \/ Crash(r) \/ Restart(r)
        \/ Accept(r)
        \/ \E c \in Slots, e \in Ends :
            \/ Receive(r, c, e) \/ PeerClosed(r, c, e)
            \/ Hangup(r, c, e) \/ Flush(r, c, e)
        \/ DeadlinePasses(r) \/ Expire(r)
  BY NextActions
<1>2. CASE \E x \in Names : Pledge(r, x)
  BY <1>2, PledgeType
<1>3. CASE \E x \in Names : StartTrade(r, x)
  BY <1>3, TradeType
<1>4. CASE \E x \in Names : SendLaterPhase(r, x)
  BY <1>4, SendLaterPhaseType
<1>5. CASE \E x \in Names, answer \in {"ACCEPT", "REJECT"} :
            Respond(r, x, answer)
  BY <1>5, RespondType
<1>6. CASE EndTrade(r)
  <2>1. \E x \in Names : TRUE
    BY NamesAssumption
  <2> QED
    BY <1>6, <2>1, TradeType
<1>7. CASE Exit(r) \/ Crash(r) \/ Restart(r)
  BY <1>7, LifeType
<1>8. CASE Accept(r)
  BY <1>8, AcceptType
<1>9. CASE \E c \in Slots, e \in Ends : Receive(r, c, e)
  BY <1>9, ReceiveType
<1>10. CASE \E c \in Slots, e \in Ends : PeerClosed(r, c, e) \/ Hangup(r, c, e)
  BY <1>10, ClosingType
<1>11. CASE \E c \in Slots, e \in Ends : Flush(r, c, e)
  BY <1>11, FlushType
<1>12. CASE DeadlinePasses(r) \/ Expire(r)
  BY <1>12, TimeType
<1> QED
  BY <1>1, <1>2, <1>3, <1>4, <1>5, <1>6, <1>7, <1>8, <1>9, <1>10, <1>11,
     <1>12

\* Every step of every realm keeps the state well-formed: in particular no
\* alliance table outgrows MaxAlliances, no frame is ever queued that the
\* protocol does not know, and a mission is for a name that can be typed.
THEOREM TypeCorrect == Spec => []TypeOK
<1>1. Init => TypeOK
  BY InitType
<1>2. TypeOK /\ [Next]_vars => TypeOK'
  BY NextType
<1> QED
  BY <1>1, <1>2, PTL DEF Spec

-----------------------------------------------------------------------------
(* Missions.  A step gives one realm a mission only where none is going on *)
(* any more, and otherwise ends one, marks it as due or leaves it alone.   *)

MissionSetTo(r, m) == mission' = [mission EXCEPT ![r] = m]

MissionStep(r) ==
    \/ MissionSetTo(r, NoMission)
    \/ MissionSetTo(r, TimeoutsChecked(mission[r]))
    \/ MissionSetTo(r, [mission[r] EXCEPT !.due = TRUE])
    \/ /\ ~MissionIsActive(TimeoutsChecked(mission[r]))
       /\ \E m \in Missions : MissionSetTo(r, m)

LEMMA ReplyMission ==
    ASSUME NEW r, NEW outcomes, Reply(r, outcomes)
    PROVE  MissionSetTo(r, NoMission) \/ UNCHANGED mission
BY DEF Reply, GoDown, MissionSetTo

LEMMA CommandMission ==
    ASSUME TypeOK, NEW r \in Realms, NEW x \in Names,
           \/ Pledge(r, x) \/ StartTrade(r, x) \/ SendLaterPhase(r, x)
           \/ \E answer \in {"ACCEPT", "REJECT"} : Respond(r, x, answer)
    PROVE  MissionStep(r) \/ UNCHANGED mission
<1>1. CASE Pledge(r, x)
  <2>1. \E out \in Sent(conns, r, Name(x), PledgeFrame(r, x)) :
            \/ PledgeSent(r, x, out)
            \/ GoDown(r, out.conns)
            \/ PledgeNotSent(r, x, out)
    BY <1>1 DEF Pledge
  <2>2. ~MissionIsActive(TimeoutsChecked(mission[r]))
    BY <1>1 DEF Pledge
  <2>3. Mission("PLEDGE", x) \in Missions
    BY NewMissionType
  <2> QED
    BY <2>1, <2>2, <2>3
    DEF PledgeSent, GoDown, PledgeNotSent, MissionStep, MissionSetTo
<1>2. CASE StartTrade(r, x)
  <2>1. Mission("TRADE", x) \in Missions
    BY NewMissionType
  <2> QED
    BY <1>2, <2>1 DEF StartTrade, MissionStep, MissionSetTo
<1>3. CASE SendLaterPhase(r, x)
  BY <1>3, ReplyMission DEF SendLaterPhase, MissionStep
<1>4. CASE \E answer \in {"ACCEPT", "REJECT"} : Respond(r, x, answer)
  <2>1. \/ mission' = [mission EXCEPT ![r] = TimeoutsChecked(@)]
        \/ mission' = [mission EXCEPT ![r] = NoMission]
    BY <1>4 DEF Respond, Responded, GoDown
  <2> QED
    BY <2>1 DEF TypeOK, MissionStep, MissionSetTo
<1> QED
  BY <1>1, <1>2, <1>3, <1>4

LEMMA ReceiveMission ==
    ASSUME NEW r \in Realms, NEW c \in Slots, NEW e \in Ends, Receive(r, c, e)
    PROVE  MissionStep(r) \/ UNCHANGED mission
<1> DEFINE frame == Head(conns[c].inbox[e])
<1>1. \/ ReceiveForward(r, c, e, frame)
      \/ ReceiveResponse(r, c, e, frame)
      \/ ReceivePledge(r, c, e, frame)
      \/ ReceiveDisconnect(r, c, e, frame)
      \/ ReceiveRequest(r, c, e, frame)
      \/ ReceiveIgnored(r, c, e, frame)
  BY DEF Receive
<1> HIDE DEF frame
<1>2. CASE ReceiveForward(r, c, e, frame) \/ ReceiveRequest(r, c, e, frame)
  <2>1. (\E outcomes : Reply(r, outcomes)) \/ UNCHANGED mission
    BY <1>2 DEF ReceiveForward, ReceiveRequest
  <2> QED
    BY <2>1, ReplyMission DEF MissionStep
<1>3. CASE \/ ReceiveResponse(r, c, e, frame) \/ ReceivePledge(r, c, e, frame)
           \/ ReceiveDisconnect(r, c, e, frame) \/ ReceiveIgnored(r, c, e, frame)
  BY <1>3 DEF ReceiveResponse, ReceivePledge, ReceiveDisconnect, ReceiveIgnored,
              MissionStep, MissionSetTo
<1> QED
  BY <1>1, <1>2, <1>3

LEMMA NextMission ==
    TypeOK /\ Next => UNCHANGED mission \/ \E r \in Realms : MissionStep(r)
<1> SUFFICES ASSUME TypeOK, Next
             PROVE  UNCHANGED mission \/ \E r \in Realms : MissionStep(r)
  OBVIOUS
<1>1. PICK r \in Realms :
        \/ \E x \in Names :
            \/ Pledge(r, x)
            \/ StartTrade(r, x)
            \/ SendLaterPhase(r, x)
            \/ \E answer \in {"ACCEPT", "REJECT"} : Respond(r, x, answer)
        \/ EndTrade(r)
        \/ Exit(r) \/ Crash(r) \/ Restart(r)
        \/ Accept(r)
        \/ \E c \in Slots, e \in Ends :
            \/ Receive(r, c, e) \/ PeerClosed(r, c, e)
            \/ Hangup(r, c, e) \/ Flush(r, c, e)
        \/ DeadlinePasses(r) \/ Expire(r)
  BY NextActions
<1>2. CASE \E x \in Names :
            \/ Pledge(r, x) \/ StartTrade(r, x) \/ SendLaterPhase(r, x)
            \/ \E answer \in {"ACCEPT", "REJECT"} : Respond(r, x, answer)
  BY <1>2, CommandMission
<1>3. CASE EndTrade(r) \/ Exit(r) \/ Crash(r)
  BY <1>3 DEF EndTrade, Exit, Crash, GoDown, MissionStep, MissionSetTo
<1>4. CASE \/ Restart(r) \/ Accept(r)
           \/ \E c \in Slots, e \in Ends :
                PeerClosed(r, c, e) \/ Hangup(r, c, e)
  BY <1>4 DEF Restart, Accept, PeerClosed, Hangup
<1>5. CASE \E c \in Slots, e \in Ends : Receive(r, c, e)
  BY <1>5, ReceiveMission
<1>6. CASE DeadlinePasses(r) \/ Expire(r)
  BY <1>6 DEF DeadlinePasses, Expire, TypeOK, MissionStep, MissionSetTo
<1>7. CASE \E c \in Slots, e \in Ends : Flush(r, c, e)
  BY <1>7 DEF Flush, GoDown, MissionStep, MissionSetTo
<1> QED
  BY <1>1, <1>2, <1>3, <1>4, <1>5, <1>6, <1>7

\* What such a step does to a mission that is going on and not due.
LEMMA MissionKept ==
    ASSUME TypeOK, NEW r \in Realms, NEW q \in Realms, MissionStep(q),
           MissionIsActive(mission[r]), ~mission[r].due
    PROVE  \/ mission'[r] = NoMission
           \/ mission'[r] = [mission[r] EXCEPT !.due = mission'[r].due]
<1>1. mission[r] \in [type : {"PLEDGE", "TRADE"}, target : Names, due : BOOLEAN]
  BY DEF TypeOK, Missions, MissionIsActive, NoMission
<1>2. mission[r] = [mission[r] EXCEPT !.due = mission[r].due]
  BY <1>1
<1>3. CASE q # r
  <2>1. mission'[r] = mission[r]
    BY <1>3 DEF MissionStep, MissionSetTo, TypeOK
  <2> QED
    BY <1>2, <2>1
<1>4. CASE q = r
  <2>1. TimeoutsChecked(mission[r]) = mission[r]
    BY DEF TimeoutsChecked
  <2>2. \/ mission'[r] = NoMission
        \/ mission'[r] = mission[r]
        \/ mission'[r] = [mission[r] EXCEPT !.due = TRUE]
    BY <1>4, <2>1 DEF MissionStep, MissionSetTo, TypeOK
  <2> QED
    BY <1>1, <1>2, <2>2
<1> QED
  BY <1>3, <1>4

\* Nothing a user types, a peer sends or the network does replaces a mission
\* that is going on: it ends, falls due, or stays what it is.
THEOREM MissionsAreNotReplaced == Spec => MissionNotReplaced
<1> DEFINE Kept == \A r \in Realms :
        (MissionIsActive(mission[r]) /\ ~mission[r].due)
        => \/ mission'[r] = NoMission
           \/ mission'[r] = [mission[r] EXCEPT !.due = mission'[r].due]
<1>1. TypeOK /\ [Next]_vars => [Kept]_vars
  <2> SUFFICES ASSUME TypeOK, Next PROVE Kept
    OBVIOUS
  <2>1. ASSUME UNCHANGED mission
        PROVE  Kept
    <3>1. \A r \in Realms : MissionIsActive(mission[r])
            => mission[r] = [mission[r] EXCEPT !.due = mission[r].due]
      BY DEF TypeOK, Missions, MissionIsActive, NoMission
    <3> QED
      BY <2>1, <3>1
  <2> QED
    BY <2>1, NextMission, MissionKept
<1> QED
  BY <1>1, TypeCorrect, PTL DEF Spec, MissionNotReplaced

=============================================================================
