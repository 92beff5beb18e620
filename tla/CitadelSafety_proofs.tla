------------------------ MODULE CitadelSafety_proofs ------------------------
(***************************************************************************)
(* Safety of Citadel for any number of realms, names, routes and           *)
(* connections.  The steps of the program are first reduced to their       *)
(* effects on the tables, the missions and the users' agreements, and to   *)
(* what they put on the connections; the invariants, the one answer of a   *)
(* pledge and the refinement of AllianceLedger follow from those.          *)
(***************************************************************************)
EXTENDS Citadel_proofs

-----------------------------------------------------------------------------
(* The frames on their way to the opener of a connection: the acceptor's   *)
(* sends are errors and farewells, and the farewells bear no name.         *)

Nameless == {f \in Frame : f.type = "DISCONNECT" => f.destination.kind = "ip"}

NamelessFarewells == OpenersHold(conns, Nameless)

LEMMA NamelessMiss == TypeOK /\ NamelessFarewells => FarewellsMissOpeners
<1> SUFFICES ASSUME TypeOK, NamelessFarewells,
                    NEW c \in DOMAIN conns,
                    NEW queue \in {conns[c].inbox["opener"],
                                   conns[c].outbox["acceptor"]},
                    NEW i \in DOMAIN queue,
                    queue[i].type = "DISCONNECT"
             PROVE  ~ForMe(conns[c].opener, queue[i])
  BY DEF FarewellsMissOpeners
<1>1. queue \in Seq(Nameless)
  BY DEF NamelessFarewells, OpenersHold, OpenerHolds
<1>2. queue[i] \in Nameless
  BY <1>1, ElementOfSeq, LenProperties
<1>3. queue[i].destination.kind = "ip"
  BY <1>2 DEF Nameless
<1> QED
  BY <1>3 DEF ForMe, Name

LEMMA ErrorFrameNameless ==
    ASSUME NEW r \in Realms, NEW frame \in Frame,
           NEW type \in {"ERROR_UNKNOWN", "ERROR_UNAUTHORIZED"}
    PROVE  ErrorFrame(type, r, frame) \in Nameless
<1>1. ErrorFrame(type, r, frame) \in Frame
  BY ErrorFrameType
<1>2. ErrorFrame(type, r, frame).type = type
  BY DEF ErrorFrame, FrameInit
<1> QED
  BY <1>1, <1>2 DEF Nameless

LEMMA DisconnectFrameNameless ==
    ASSUME NEW r \in Realms, NEW conn \in Conn
    PROVE  DisconnectFrame(r, conn, "acceptor") \in Nameless
<1>1. DisconnectFrame(r, conn, "acceptor") \in Frame
  BY DisconnectFrameType
<1>2. DisconnectFrame(r, conn, "acceptor").destination.kind = "ip"
  BY DEF DisconnectFrame, FrameInit, Ip
<1> QED
  BY <1>1, <1>2 DEF Nameless

-----------------------------------------------------------------------------
(* What every step keeps of the connections: only nameless farewells on    *)
(* their way to an opener, and one usable connection per label.            *)

SoundTable(cs) == OpenersHold(cs, Nameless) /\ OneLabel(cs)

SoundConns == SoundTable(conns)

LEMMA SoundFacts == SoundConns => NamelessFarewells /\ OneConnectionPerLabel
BY DEF SoundConns, SoundTable, NamelessFarewells, OneConnectionPerLabel,
       OneLabel, Usable

LEMMA CloseEndSound ==
    ASSUME NEW cs, IsConnTable(cs), SoundTable(cs),
           NEW c \in DOMAIN cs, NEW e \in Ends
    PROVE  SoundTable(CloseEnd(cs, c, e))
BY CloseEndHolds, CloseEndLabels DEF SoundTable

LEMMA CloseAllSound ==
    ASSUME NEW cs, IsConnTable(cs), SoundTable(cs), NEW r
    PROVE  SoundTable(CloseAll(cs, r))
BY CloseAllHolds, CloseAllLabels DEF SoundTable

LEMMA AcceptAllSound ==
    ASSUME NEW cs, IsConnTable(cs), SoundTable(cs), NEW r
    PROVE  SoundTable(AcceptAll(cs, r))
BY AcceptAllHolds, AcceptAllLabels DEF SoundTable

LEMMA GetOrOpenSound ==
    ASSUME NEW cs, IsConnTable(cs), SoundTable(cs), NEW r, NEW label, NEW hop,
           NEW listening, NEW a \in GetOrOpen(cs, r, label, hop, listening)
    PROVE  SoundTable(a.conns)
BY GetOrOpenHolds, GetOrOpenLabels DEF SoundTable

LEMMA SendOutcomesSound ==
    ASSUME NEW cs, IsConnTable(cs), SoundTable(cs),
           NEW c \in DOMAIN cs, NEW e \in Ends,
           NEW frame \in Frame, e = "acceptor" => frame \in Nameless,
           NEW out \in SendOutcomes(cs, c, e, frame)
    PROVE  SoundTable(out.conns)
BY SendOutcomesHolds, SendOutcomesLabels DEF SoundTable

LEMMA SentSound ==
    ASSUME TypeOK, NEW cs, IsConnTable(cs), SoundTable(cs),
           NEW r \in Realms, NEW address,
           NEW frame \in Frame, NEW out \in Sent(cs, r, address, frame)
    PROVE  SoundTable(out.conns)
<1>1. ASSUME NEW s
      PROVE  SoundTable(NotSent(s, cs).conns)
  BY DEF NotSent
<1>2. CASE ResolveRoute(r, address) = {}
  BY <1>1, <1>2 DEF Sent
<1>3. ASSUME NEW l \in ResolveRoute(r, address),
             out \in SendVia(cs, r, l, frame)
      PROVE  SoundTable(out.conns)
  <2> DEFINE hop == Routes[r][l]
             attempts == GetOrOpen(cs, r, l, hop, phase[hop] # "down")
  <2>1. l \in Names /\ hop \in Realms
    BY ResolvedRoute
  <2>2. CASE attempts = {}
    BY <1>1, <1>3, <2>2 DEF SendVia
  <2>3. CASE attempts # {}
    <3>1. PICK a \in attempts :
                \/ out = NotSent("unbuildable", a.conns)
                \/ out \in SendOutcomes(a.conns, a.slot, "opener", frame)
      BY <1>3, <2>3 DEF SendVia
    <3>2. IsConnTable(a.conns) /\ a.slot \in DOMAIN a.conns
      BY <2>1, <3>1, GetOrOpenType
    <3>3. SoundTable(a.conns)
      BY <3>1, GetOrOpenSound
    <3>4. "opener" \in Ends
      BY DEF Ends
    <3>5. SoundTable(NotSent("unbuildable", a.conns).conns)
      BY <3>3 DEF NotSent
    <3> QED
      BY <3>1, <3>2, <3>3, <3>4, <3>5, SendOutcomesSound
  <2> QED
    BY <2>2, <2>3
<1>4. CASE ResolveRoute(r, address) # {}
  <2>1. PICK l \in ResolveRoute(r, address) : out \in SendVia(cs, r, l, frame)
    BY <1>4 DEF Sent
  <2> QED
    BY <2>1, <1>3
<1> QED
  BY <1>2, <1>4

LEMMA BroadcastSound ==
    ASSUME NEW cs, IsConnTable(cs), SoundTable(cs),
           NEW r \in Realms, NEW reached \in SUBSET OpenEnds(cs, r)
    PROVE  SoundTable(Broadcast(cs, r, reached))
<1>1. ASSUME NEW c \in DOMAIN cs
      PROVE  /\ OpenerHolds(Broadcast(cs, r, reached)[c], Nameless)
             /\ NoWider(cs[c], Broadcast(cs, r, reached)[c])
  <2>1. cs[c] \in Conn /\ OpenerHolds(cs[c], Nameless)
    BY DEF IsConnTable, SoundTable, OpenersHold
  <2>2. CASE \E e \in Ends : <<c, e>> \in reached /\ Reaches(cs[c], e)
    <3> DEFINE e == CHOOSE f \in Ends : <<c, f>> \in reached
    <3>1. e \in Ends
      BY <2>2
    <3> DEFINE new == Enqueued(cs[c], e, DisconnectFrame(r, cs[c], e))
    <3>2. Broadcast(cs, r, reached)[c] = Flushed(new, e)
      BY <2>2 DEF Broadcast
    <3> HIDE DEF e
    <3>3. e = "acceptor" => DisconnectFrame(r, cs[c], e) \in Nameless
      BY <2>1, DisconnectFrameNameless
    <3>4. new \in Conn /\ OpenerHolds(new, Nameless) /\ NoWider(cs[c], new)
      BY <2>1, <3>1, <3>3, EnqueuedType, EnqueuedHolds, EnqueuedNoWider,
         DisconnectFrameType
    <3> HIDE DEF new
    <3>5. OpenerHolds(Flushed(new, e), Nameless) /\ NoWider(new, Flushed(new, e))
      BY <3>1, <3>4, FlushedHolds, FlushedNoWider
    <3> QED
      BY <3>2, <3>4, <3>5 DEF NoWider
  <2>3. CASE ~ \E e \in Ends : <<c, e>> \in reached /\ Reaches(cs[c], e)
    BY <2>1, <2>3 DEF Broadcast, NoWider
  <2> QED
    BY <2>2, <2>3
<1>2. DOMAIN Broadcast(cs, r, reached) = DOMAIN cs
  BY DEF Broadcast
<1>3. Narrower(cs, Broadcast(cs, r, reached))
  BY <1>1, <1>2 DEF Narrower, Usable, NoWider
<1>4. OneLabel(Broadcast(cs, r, reached))
  BY <1>3, NarrowerLabels DEF SoundTable
<1> QED
  BY <1>1, <1>2, <1>4 DEF SoundTable, OpenersHold

LEMMA ConsumedSound ==
    ASSUME TypeOK, SoundConns,
           NEW r \in Realms, NEW c \in Slots, NEW e \in Ends, Incoming(r, c, e)
    PROVE  SoundTable(Consumed(c, e))
<1>1. c \in DOMAIN conns /\ conns[c].inbox[e] # <<>> /\ conns[c] \in Conn
  BY IncomingType DEF Incoming
<1>2. ASSUME NEW d \in DOMAIN Consumed(c, e)
      PROVE  OpenerHolds(Consumed(c, e)[d], Nameless)
  <2>1. d \in DOMAIN conns /\ OpenerHolds(conns[d], Nameless)
    BY DEF Consumed, SoundConns, SoundTable, OpenersHold
  <2>2. CASE d = c /\ e = "opener"
    <3> DEFINE q == conns[c].inbox["opener"]
    <3>1. /\ Consumed(c, e)[d].inbox["opener"] = Tail(q)
          /\ Consumed(c, e)[d].outbox["acceptor"]
                = conns[d].outbox["acceptor"]
      BY <1>1, <2>2 DEF Consumed, TypeOK, Conn
    <3>2. q \in Seq(Nameless) /\ q # <<>>
      BY <1>1, <2>1, <2>2 DEF OpenerHolds
    <3> HIDE DEF q
    <3>3. Tail(q) \in Seq(Nameless)
      BY <3>2, HeadTailProperties
    <3> QED
      BY <2>1, <3>1, <3>3 DEF OpenerHolds
  <2>3. CASE ~(d = c /\ e = "opener")
    <3>1. /\ Consumed(c, e)[d].inbox["opener"] = conns[d].inbox["opener"]
          /\ Consumed(c, e)[d].outbox["acceptor"]
                = conns[d].outbox["acceptor"]
      BY <1>1, <2>1, <2>3 DEF Consumed, TypeOK, Conn, Ends
    <3> QED
      BY <2>1, <3>1 DEF OpenerHolds
  <2> QED
    BY <2>2, <2>3
<1>3. Narrower(conns, Consumed(c, e))
  BY <1>1 DEF Narrower, Usable, Consumed, TypeOK, Conn
<1>4. OneLabel(Consumed(c, e))
  BY <1>3, NarrowerLabels DEF SoundConns, SoundTable
<1> QED
  BY <1>2, <1>4 DEF SoundTable, OpenersHold

LEMMA GoDownSound ==
    ASSUME NEW r \in Realms, NEW cs, IsConnTable(cs), SoundTable(cs),
           GoDown(r, cs)
    PROVE  SoundConns'
BY CloseAllSound DEF GoDown, SoundConns

LEMMA ReplySound ==
    ASSUME NEW r \in Realms, NEW outcomes,
           \A out \in outcomes : /\ IsOutcome(out)
                                 /\ SoundTable(out.conns),
           Reply(r, outcomes)
    PROVE  SoundConns'
<1>1. PICK out \in outcomes : GoDown(r, out.conns) \/ conns' = out.conns
  BY DEF Reply
<1>2. IsConnTable(out.conns) /\ SoundTable(out.conns)
  BY <1>1 DEF IsOutcome
<1>3. CASE GoDown(r, out.conns)
  BY <1>2, <1>3, GoDownSound
<1>4. CASE conns' = out.conns
  BY <1>2, <1>4 DEF SoundConns
<1> QED
  BY <1>1, <1>3, <1>4

LEMMA ReceiveSound ==
    ASSUME TypeOK, SoundConns,
           NEW r \in Realms, NEW c \in Slots, NEW e \in Ends, Receive(r, c, e)
    PROVE  SoundConns'
<1> DEFINE frame == Head(conns[c].inbox[e])
<1>1. /\ c \in DOMAIN conns /\ frame \in Frame
      /\ IsConnTable(Consumed(c, e)) /\ c \in DOMAIN Consumed(c, e)
  BY IncomingType DEF Receive
<1>2. SoundTable(Consumed(c, e))
  BY ConsumedSound DEF Receive
<1>3. \/ conns' = Consumed(c, e)
      \/ ReceiveForward(r, c, e, frame)
      \/ ReceiveRequest(r, c, e, frame)
  BY DEF Receive, ReceiveResponse, ReceivePledge, ReceiveDisconnect,
         ReceiveIgnored
<1> HIDE DEF frame
<1>4. ASSUME NEW error \in Nameless,
             NEW out \in SendOutcomes(Consumed(c, e), c, e, error)
      PROVE  IsOutcome(out) /\ SoundTable(out.conns)
  <2>1. error \in Frame
    BY DEF Nameless
  <2> QED
    BY <1>1, <1>2, <2>1, SendOutcomesType, SendOutcomesSound
<1>5. CASE conns' = Consumed(c, e)
  BY <1>2, <1>5 DEF SoundConns
<1>6. CASE ReceiveForward(r, c, e, frame)
  <2>1. CASE ResolveRoute(r, frame.destination) = {}
    <3>1. ErrorFrame("ERROR_UNKNOWN", r, frame) \in Nameless
      BY <1>1, ErrorFrameNameless
    <3> QED
      BY <1>4, <1>6, <2>1, <3>1, ReplySound DEF ReceiveForward
  <2>2. CASE ResolveRoute(r, frame.destination) # {}
    <3>1. \A out \in Sent(Consumed(c, e), r, frame.destination, frame) :
                IsOutcome(out) /\ SoundTable(out.conns)
      BY <1>1, <1>2, SentType, SentSound
    <3> QED
      BY <1>6, <2>2, <3>1, ReplySound DEF ReceiveForward
  <2> QED
    BY <2>1, <2>2
<1>7. CASE ReceiveRequest(r, c, e, frame)
  <2>1. CASE IsAlliedEndpoint(alliances[r], frame.origin.of)
    BY <1>2, <1>7, <2>1 DEF ReceiveRequest, SoundConns
  <2>2. CASE ~IsAlliedEndpoint(alliances[r], frame.origin.of)
    <3>1. ErrorFrame("ERROR_UNAUTHORIZED", r, frame) \in Nameless
      BY <1>1, ErrorFrameNameless
    <3> QED
      BY <1>4, <1>7, <2>2, <3>1, ReplySound DEF ReceiveRequest
  <2> QED
    BY <2>1, <2>2
<1> QED
  BY <1>3, <1>5, <1>6, <1>7

LEMMA CommandSound ==
    ASSUME TypeOK, SoundConns, NEW r \in Realms, NEW x \in Names,
           \/ Pledge(r, x)
           \/ SendLaterPhase(r, x)
           \/ \E answer \in {"ACCEPT", "REJECT"} : Respond(r, x, answer)
    PROVE  SoundConns'
<1>1. ASSUME NEW frame \in Frame, NEW out \in Sent(conns, r, Name(x), frame)
      PROVE  IsOutcome(out) /\ SoundTable(out.conns)
  BY ConnsType, SentType, SentSound DEF SoundConns
<1>2. CASE Pledge(r, x)
  <2>1. PICK out \in Sent(conns, r, Name(x), PledgeFrame(r, x)) :
            \/ PledgeSent(r, x, out)
            \/ GoDown(r, out.conns)
            \/ PledgeNotSent(r, x, out)
    BY <1>2 DEF Pledge
  <2>2. IsOutcome(out) /\ SoundTable(out.conns)
    BY <1>1, <2>1, CommandFrames
  <2>3. CASE PledgeSent(r, x, out)
    BY <2>2, <2>3 DEF PledgeSent, SoundConns
  <2>4. CASE GoDown(r, out.conns)
    BY <2>2, <2>4, GoDownSound DEF IsOutcome
  <2>5. CASE PledgeNotSent(r, x, out)
    <3>1. "opener" \in Ends
      BY DEF Ends
    <3> QED
      BY <2>2, <2>5, <3>1, CloseEndSound
      DEF PledgeNotSent, SoundConns, IsOutcome
  <2> QED
    BY <2>1, <2>3, <2>4, <2>5
<1>3. CASE SendLaterPhase(r, x)
  <2>1. PICK frame \in LaterPhaseFrames(r, x) :
            Reply(r, Sent(conns, r, Name(x), frame))
    BY <1>3 DEF SendLaterPhase
  <2>2. frame \in Frame
    BY <2>1, CommandFrames
  <2> QED
    BY <1>1, <2>1, <2>2, ReplySound
<1>4. ASSUME NEW answer \in {"ACCEPT", "REJECT"}, Respond(r, x, answer)
      PROVE  SoundConns'
  <2>1. PICK out \in Sent(conns, r, Name(x), ResponseFrame(r, x, answer)) :
            Responded(r, x, answer, out) \/ GoDown(r, out.conns)
    BY <1>4 DEF Respond
  <2>2. IsOutcome(out) /\ SoundTable(out.conns)
    BY <1>1, <2>1, CommandFrames
  <2>3. CASE Responded(r, x, answer, out)
    BY <2>2, <2>3 DEF Responded, SoundConns
  <2>4. CASE GoDown(r, out.conns)
    BY <2>2, <2>4, GoDownSound DEF IsOutcome
  <2> QED
    BY <2>1, <2>3, <2>4
<1> QED
  BY <1>2, <1>3, <1>4

LEMMA FlushSound ==
    ASSUME TypeOK, SoundConns,
           NEW r \in Realms, NEW c \in Slots, NEW e \in Ends, Flush(r, c, e)
    PROVE  SoundConns'
<1>1. c \in DOMAIN conns /\ conns[c] \in Conn
  BY DEF Flush, OpenEnds, TypeOK
<1>2. CASE GoDown(r, conns)
  BY <1>2, ConnsType, GoDownSound DEF SoundConns
<1>3. CASE conns' = CloseEnd(conns, c, e)
  BY <1>1, <1>3, ConnsType, CloseEndSound DEF SoundConns
<1>4. CASE conns' = [conns EXCEPT ![c] = Flushed(@, e)]
  <2> DEFINE new == Flushed(conns[c], e)
  <2>1. conns' = [conns EXCEPT ![c] = new]
    BY <1>4
  <2>2. OpenerHolds(new, Nameless) /\ NoWider(conns[c], new)
    BY <1>1, FlushedHolds, FlushedNoWider
    DEF SoundConns, SoundTable, OpenersHold
  <2> HIDE DEF new
  <2>3. OneLabel(conns')
    BY <1>1, <2>1, <2>2, ConnsType, ReplacedLabels DEF SoundConns, SoundTable
  <2>4. OpenersHold(conns', Nameless)
    BY <2>1, <2>2 DEF SoundConns, SoundTable, OpenersHold
  <2> QED
    BY <2>3, <2>4 DEF SoundConns, SoundTable
<1> QED
  BY <1>2, <1>3, <1>4 DEF Flush

LEMMA NextSound ==
    TypeOK /\ SoundConns /\ [Next]_vars => SoundConns'
<1>1. CASE UNCHANGED vars
  BY <1>1 DEF vars, SoundConns
<1> SUFFICES ASSUME TypeOK, SoundConns, Next PROVE SoundConns'
  BY <1>1
<1>2. PICK r \in Realms :
        \/ \E x \in Names :
            \/ Pledge(r, x)
            \/ StartTrade(r, x)
            \/ SendLaterPhase(r, x)
            \/ \E answer \in {"ACCEPT", "REJECT"} : Respond(r, x, answer)
        \/ EndTrade(r)
        \/ Exit(r) \/ Crash(r) \/ Restart(r)
        \/ Accept(r)
        \/ \E c \in Slots, e \in Ends :
            \/ Receive(r, c, e) \/ PeerClosed(r, c, e)
            \/ Hangup(r, c, e) \/ Flush(r, c, e)
        \/ DeadlinePasses(r) \/ Expire(r)
  BY NextActions
<1>3. CASE \E x \in Names :
            \/ Pledge(r, x)
            \/ SendLaterPhase(r, x)
            \/ \E answer \in {"ACCEPT", "REJECT"} : Respond(r, x, answer)
  BY <1>3, CommandSound
<1>4. CASE \/ \E x \in Names : StartTrade(r, x)
           \/ EndTrade(r) \/ Restart(r) \/ DeadlinePasses(r) \/ Expire(r)
  <2>1. conns' = conns
    BY <1>4 DEF StartTrade, EndTrade, Restart, DeadlinePasses, Expire
  <2> QED
    BY <2>1 DEF SoundConns
<1>5. CASE Exit(r)
  <2>1. PICK reached \in SUBSET OpenEnds(conns, r) :
                GoDown(r, Broadcast(conns, r, reached))
    BY <1>5 DEF Exit
  <2>2. /\ IsConnTable(Broadcast(conns, r, reached))
        /\ SoundTable(Broadcast(conns, r, reached))
    BY ConnsType, BroadcastType, BroadcastSound DEF SoundConns
  <2> QED
    BY <2>1, <2>2, GoDownSound
<1>6. CASE Crash(r)
  BY <1>6, ConnsType, GoDownSound DEF Crash, SoundConns
<1>7. CASE Accept(r)
  BY <1>7, ConnsType, AcceptAllSound DEF Accept, SoundConns
<1>8. CASE \E c \in Slots, e \in Ends : Receive(r, c, e)
  BY <1>8, ReceiveSound
<1>9. ASSUME NEW c \in Slots, NEW e \in Ends,
             PeerClosed(r, c, e) \/ Hangup(r, c, e)
      PROVE  SoundConns'
  <2>1. c \in DOMAIN conns /\ conns' = CloseEnd(conns, c, e)
    BY <1>9 DEF PeerClosed, Hangup, OpenEnds
  <2> QED
    BY <2>1, ConnsType, CloseEndSound DEF SoundConns
<1>10. CASE \E c \in Slots, e \in Ends : Flush(r, c, e)
  BY <1>10, FlushSound
<1> QED
  BY <1>2, <1>3, <1>4, <1>5, <1>6, <1>7, <1>8, <1>9, <1>10

-----------------------------------------------------------------------------
(* The effects of a step on the tables, the missions and the history.      *)

OneUpdate(r, x, endpoint, state) ==
    alliances' = [alliances EXCEPT ![r] =
                    AddOrUpdateAlliance(@, x, endpoint, state)]

\* No pledge begins.
KeptMissions ==
    \A q \in Realms :
        mission'[q].type = "PLEDGE" => /\ mission[q].type = "PLEDGE"
                                       /\ mission'[q].target = mission[q].target

Quiet == KeptMissions /\ UNCHANGED <<alliances, history>>

Dies(r) == \E cs : GoDown(r, cs)

Pledges(r, x) ==
    /\ \E hop \in Names : OneUpdate(r, x, hop, "PENDING")
    /\ mission' = [mission EXCEPT ![r] = Mission("PLEDGE", x)]
    /\ pledged' = pledged \cup {<<r, x>>}
    /\ UNCHANGED <<accepted, asked>>

Decides(r, x, answer) ==
    /\ AllianceState(alliances[r], x) = "PENDING"
    /\ OneUpdate(r, x, NoRealm, DecidedState(answer))
    /\ KeptMissions
    /\ accepted' = IF answer = "ACCEPT" THEN accepted \cup {<<r, x>>}
                                        ELSE accepted
    /\ commands' # commands
    /\ UNCHANGED <<pledged, asked>>

Hears(r, x) ==
    /\ x = Cleaned[x]
    /\ \E endpoint \in Names : OneUpdate(r, x, endpoint, "PENDING")
    /\ KeptMissions
    /\ asked' = asked \cup {<<r, x>>}
    /\ UNCHANGED <<pledged, accepted>>

Answers(r) ==
    /\ mission[r].type = "PLEDGE"
    /\ \E endpoint \in Names, state \in {"ACTIVE", "INACTIVE"} :
            OneUpdate(r, mission[r].target, endpoint, state)
    /\ MissionSetTo(r, NoMission)
    /\ KeptMissions
    /\ UNCHANGED history

Parts(r, x) ==
    /\ AllianceState(alliances[r], x) # "UNKNOWN"
    /\ OneUpdate(r, x, NoRealm, "INACTIVE")
    /\ KeptMissions
    /\ UNCHANGED history

Effect ==
    \/ Quiet
    \/ \E r \in Realms :
        \/ Dies(r)
        \/ Answers(r)
        \/ \E x \in Names :
            \/ Pledges(r, x) \/ Hears(r, x) \/ Parts(r, x)
            \/ \E answer \in {"ACCEPT", "REJECT"} : Decides(r, x, answer)

\* A mission that is set to a value that is no pledge, or left alone.
LEMMA MissionSet ==
    ASSUME TypeOK, NEW r \in Realms, NEW m,
           mission' = [mission EXCEPT ![r] = m],
           m.type = "PLEDGE" => /\ mission[r].type = "PLEDGE"
                                /\ m.target = mission[r].target
    PROVE  KeptMissions
BY DEF KeptMissions, TypeOK

LEMMA MissionUnchanged == UNCHANGED mission => KeptMissions
BY DEF KeptMissions

LEMMA NoMissionSet ==
    ASSUME TypeOK, NEW r \in Realms, mission' = [mission EXCEPT ![r] = NoMission]
    PROVE  KeptMissions
<1>1. NoMission.type # "PLEDGE"
  BY DEF NoMission
<1> QED
  BY <1>1, MissionSet

LEMMA TimeoutsSet ==
    ASSUME TypeOK, NEW r \in Realms,
           mission' = [mission EXCEPT ![r] = TimeoutsChecked(@)]
    PROVE  KeptMissions
<1>1. mission' = [mission EXCEPT ![r] = TimeoutsChecked(mission[r])]
  BY DEF TypeOK
<1>2. \/ TimeoutsChecked(mission[r]) = mission[r]
      \/ TimeoutsChecked(mission[r]) = NoMission
  BY DEF TimeoutsChecked
<1>3. NoMission.type # "PLEDGE"
  BY DEF NoMission
<1> QED
  BY <1>1, <1>2, <1>3, MissionSet

LEMMA ReplyEffect ==
    ASSUME NEW r \in Realms, NEW outcomes, Reply(r, outcomes)
    PROVE  Effect
<1>1. \/ Dies(r)
      \/ UNCHANGED <<phase, mission, alliances, history>>
  BY DEF Reply, Dies
<1> QED
  BY <1>1, MissionUnchanged DEF Effect, Quiet

LEMMA PledgeEffect ==
    ASSUME TypeOK, NEW r \in Realms, NEW x \in Names, Pledge(r, x)
    PROVE  Effect
<1>1. PICK out \in Sent(conns, r, Name(x), PledgeFrame(r, x)) :
        \/ PledgeSent(r, x, out)
        \/ GoDown(r, out.conns)
        \/ PledgeNotSent(r, x, out)
  BY DEF Pledge
<1>2. CASE PledgeSent(r, x, out)
  <2>1. PICK hop \in NextHop(r, Name(x)) : OneUpdate(r, x, hop, "PENDING")
    BY <1>2 DEF PledgeSent, OneUpdate
  <2>2. hop \in Names
    BY <2>1, ResolvedRoute, NamesAssumption DEF NextHop
  <2>3. Pledges(r, x)
    BY <1>2, <2>1, <2>2 DEF PledgeSent, Pledges
  <2> QED
    BY <2>3 DEF Effect
<1>3. CASE GoDown(r, out.conns)
  BY <1>3 DEF Effect, Dies
<1>4. CASE PledgeNotSent(r, x, out)
  BY <1>4, NoMissionSet DEF PledgeNotSent, Effect, Quiet
<1> QED
  BY <1>1, <1>2, <1>3, <1>4

LEMMA RespondEffect ==
    ASSUME TypeOK, NEW r \in Realms, NEW x \in Names,
           NEW answer \in {"ACCEPT", "REJECT"}, Respond(r, x, answer)
    PROVE  Effect
<1>1. PICK out \in Sent(conns, r, Name(x), ResponseFrame(r, x, answer)) :
        Responded(r, x, answer, out) \/ GoDown(r, out.conns)
  BY DEF Respond
<1>2. CASE Responded(r, x, answer, out)
  <2>1. KeptMissions
    BY <1>2, TimeoutsSet DEF Responded
  <2>2. commands' # commands
    BY DEF Respond, Command, TypeOK
  <2>3. Decides(r, x, answer)
    BY <1>2, <2>1, <2>2 DEF Responded, Respond, Decides, OneUpdate
  <2> QED
    BY <2>3 DEF Effect
<1>3. CASE GoDown(r, out.conns)
  BY <1>3 DEF Effect, Dies
<1> QED
  BY <1>1, <1>2, <1>3

LEMMA OtherEffect ==
    ASSUME TypeOK, NEW r \in Realms,
           \/ \E x \in Names : StartTrade(r, x)
           \/ EndTrade(r)
           \/ Exit(r) \/ Crash(r) \/ Restart(r)
           \/ Accept(r)
           \/ \E c \in Slots, e \in Ends :
                PeerClosed(r, c, e) \/ Hangup(r, c, e) \/ Flush(r, c, e)
           \/ DeadlinePasses(r) \/ Expire(r)
    PROVE  Effect
<1>1. CASE \E x \in Names : StartTrade(r, x)
  <2>1. PICK x \in Names : mission' = [mission EXCEPT ![r] = Mission("TRADE", x)]
    BY <1>1 DEF StartTrade
  <2>2. Mission("TRADE", x).type # "PLEDGE"
    BY DEF Mission
  <2>3. KeptMissions
    BY <2>1, <2>2, MissionSet
  <2> QED
    BY <1>1, <2>3 DEF StartTrade, Effect, Quiet
<1>2. CASE EndTrade(r)
  BY <1>2, NoMissionSet DEF EndTrade, Effect, Quiet
<1>3. CASE Exit(r) \/ Crash(r)
  <2>1. Dies(r)
    BY <1>3 DEF Exit, Crash, Dies
  <2> QED
    BY <2>1 DEF Effect
<1>4. CASE \/ Restart(r) \/ Accept(r)
           \/ \E c \in Slots, e \in Ends :
                PeerClosed(r, c, e) \/ Hangup(r, c, e)
  BY <1>4, MissionUnchanged
  DEF Restart, Accept, PeerClosed, Hangup, Effect, Quiet
<1>5. CASE DeadlinePasses(r)
  <2> DEFINE m == [mission[r] EXCEPT !.due = TRUE]
  <2>1. mission' = [mission EXCEPT ![r] = m]
    BY <1>5 DEF DeadlinePasses, TypeOK
  <2>2. mission[r].type = "PLEDGE"
    BY <1>5 DEF DeadlinePasses
  <2>3. m.target = mission[r].target
    OBVIOUS
  <2>4. KeptMissions
    BY <2>1, <2>2, <2>3, MissionSet
  <2> QED
    BY <1>5, <2>4 DEF DeadlinePasses, Effect, Quiet
<1>6. CASE Expire(r)
  BY <1>6, TimeoutsSet DEF Expire, Effect, Quiet
<1>7. ASSUME NEW c \in Slots, NEW e \in Ends, Flush(r, c, e)
      PROVE  Effect
  <2>1. Dies(r) \/ UNCHANGED <<phase, mission, alliances, history>>
    BY <1>7 DEF Flush, Dies
  <2> QED
    BY <2>1, MissionUnchanged DEF Effect, Quiet
<1> QED
  BY <1>1, <1>2, <1>3, <1>4, <1>5, <1>6, <1>7

\* The realm that leaves has an entry: its name is never that of a label.
LEMMA LeavingKnown ==
    ASSUME TypeOK, NamelessFarewells,
           NEW r \in Realms, NEW c \in Slots, NEW e \in Ends, Incoming(r, c, e),
           NEW frame, frame = Head(conns[c].inbox[e]),
           ForMe(r, frame), frame.type = "DISCONNECT",
           NEW x \in Leaving(r, c, e, frame)
    PROVE  x \in Names /\ AllianceState(alliances[r], x) # "UNKNOWN"
<1>1. c \in DOMAIN conns /\ conns[c].inbox[e] # <<>> /\ conns[c] \in Conn
  BY IncomingType DEF Incoming
<1>2. e # "opener"
  <2> SUFFICES ASSUME e = "opener" PROVE FALSE
    OBVIOUS
  <2> DEFINE q == conns[c].inbox["opener"]
  <2>1. q \in Seq(Nameless) /\ q # <<>>
    BY <1>1 DEF NamelessFarewells, OpenersHold, OpenerHolds
  <2> HIDE DEF q
  <2>2. Head(q) \in Nameless
    BY <2>1, HeadTailProperties
  <2>3. frame = Head(q)
    BY DEF q
  <2>4. frame.destination.kind = "ip"
    BY <2>2, <2>3 DEF Nameless
  <2> QED
    BY <2>4 DEF ForMe, Name
<1>3. PICK i \in FindByEndpoint(alliances[r], frame.origin.of) :
            x = alliances[r][i].realm
  BY <1>2 DEF Leaving
<1>4. i \in DOMAIN alliances[r]
  BY DEF FindByEndpoint, First
<1>5. alliances[r] \in AllianceTables
  BY DEF TypeOK
<1>6. FindByRealm(alliances[r], x) # {}
  BY <1>3, <1>4, <1>5, FindByRealmFacts
<1>7. x \in Names
  <2>1. alliances[r] \in Seq(AllianceEntry)
    BY <1>5 DEF AllianceTables
  <2>2. alliances[r][i] \in AllianceEntry
    BY <1>4, <2>1, ElementOfSeq, LenProperties
  <2> QED
    BY <1>3, <2>2, CleanedFacts DEF AllianceEntry
<1> QED
  BY <1>5, <1>6, <1>7, AllianceStateFacts

LEMMA ReceiveEffect ==
    ASSUME TypeOK, NamelessFarewells,
           NEW r \in Realms, NEW c \in Slots, NEW e \in Ends, Receive(r, c, e)
    PROVE  Effect
<1> DEFINE frame == Head(conns[c].inbox[e])
<1>1. Incoming(r, c, e) /\ frame \in Frame
  BY IncomingType DEF Receive
<1>2. \/ ReceiveForward(r, c, e, frame)
      \/ ReceiveResponse(r, c, e, frame)
      \/ ReceivePledge(r, c, e, frame)
      \/ ReceiveDisconnect(r, c, e, frame)
      \/ ReceiveRequest(r, c, e, frame)
      \/ ReceiveIgnored(r, c, e, frame)
  BY DEF Receive
<1>3. ASSUME ReceiveDisconnect(r, c, e, frame)
      PROVE  Effect
  <2>1. CASE UNCHANGED alliances
    BY <1>3, <2>1, MissionUnchanged DEF ReceiveDisconnect, Effect, Quiet
  <2>2. ASSUME NEW x \in Leaving(r, c, e, frame),
               OneUpdate(r, x, NoRealm, "INACTIVE")
        PROVE  Effect
    <3>1. x \in Names /\ AllianceState(alliances[r], x) # "UNKNOWN"
      BY <1>1, <1>3, LeavingKnown DEF ReceiveDisconnect
    <3>2. Parts(r, x)
      BY <1>3, <2>2, <3>1, MissionUnchanged DEF ReceiveDisconnect, Parts
    <3> QED
      BY <3>1, <3>2 DEF Effect
  <2> QED
    BY <1>3, <2>1, <2>2 DEF ReceiveDisconnect, OneUpdate
<1> HIDE DEF frame
<1>4. CASE ReceiveForward(r, c, e, frame)
  BY <1>4, ReplyEffect DEF ReceiveForward
<1>5. CASE ReceiveResponse(r, c, e, frame)
  <2>1. KeptMissions
    BY <1>5, NoMissionSet DEF ReceiveResponse
  <2>2. CASE frame.data.answer \notin {"ACCEPT", "REJECT"}
    BY <1>5, <2>1, <2>2 DEF ReceiveResponse, Effect, Quiet
  <2>3. CASE frame.data.answer \in {"ACCEPT", "REJECT"}
    <3>1. DecidedState(frame.data.answer) \in {"ACTIVE", "INACTIVE"}
      BY DEF DecidedState
    <3>2. OneUpdate(r, mission[r].target, frame.origin.of,
                    DecidedState(frame.data.answer))
      BY <1>5, <2>3 DEF ReceiveResponse, OneUpdate
    <3>3. frame.origin.of \in Names
      BY <1>1, FrameFields
    <3>4. Answers(r)
      BY <1>5, <2>1, <3>1, <3>2, <3>3
      DEF ReceiveResponse, Answers, MissionSetTo
    <3> QED
      BY <3>4 DEF Effect
  <2> QED
    BY <2>2, <2>3
<1>6. CASE ReceivePledge(r, c, e, frame)
  <2> DEFINE x == Cleaned[frame.data.realm]
  <2>1. /\ x \in Names /\ x = Cleaned[x]
        /\ frame.origin.of \in Names
    BY <1>1, <1>6, FrameFields, CleanedFacts DEF ReceivePledge
  <2>2. OneUpdate(r, x, frame.origin.of, "PENDING")
    BY <1>6 DEF ReceivePledge, OneUpdate
  <2>3. asked' = asked \cup {<<r, x>>}
    BY <1>6 DEF ReceivePledge
  <2> HIDE DEF x
  <2>4. Hears(r, x)
    BY <1>6, <2>1, <2>2, <2>3, MissionUnchanged DEF ReceivePledge, Hears
  <2> QED
    BY <2>1, <2>4 DEF Effect
<1>7. CASE ReceiveRequest(r, c, e, frame)
  <2>1. CASE IsAlliedEndpoint(alliances[r], frame.origin.of)
    BY <1>7, <2>1, MissionUnchanged DEF ReceiveRequest, Effect, Quiet
  <2>2. CASE ~IsAlliedEndpoint(alliances[r], frame.origin.of)
    BY <1>7, <2>2, ReplyEffect DEF ReceiveRequest
  <2> QED
    BY <2>1, <2>2
<1>8. CASE ReceiveIgnored(r, c, e, frame)
  BY <1>8, MissionUnchanged DEF ReceiveIgnored, Effect, Quiet
<1> QED
  BY <1>2, <1>3, <1>4, <1>5, <1>6, <1>7, <1>8

LEMMA NextEffect == TypeOK /\ NamelessFarewells /\ [Next]_vars => Effect
<1>1. CASE UNCHANGED vars
  BY <1>1, MissionUnchanged DEF vars, Effect, Quiet
<1> SUFFICES ASSUME TypeOK, NamelessFarewells, Next PROVE Effect
  BY <1>1
<1>2. PICK r \in Realms :
        \/ \E x \in Names :
            \/ Pledge(r, x)
            \/ StartTrade(r, x)
            \/ SendLaterPhase(r, x)
            \/ \E answer \in {"ACCEPT", "REJECT"} : Respond(r, x, answer)
        \/ EndTrade(r)
        \/ Exit(r) \/ Crash(r) \/ Restart(r)
        \/ Accept(r)
        \/ \E c \in Slots, e \in Ends :
            \/ Receive(r, c, e) \/ PeerClosed(r, c, e)
            \/ Hangup(r, c, e) \/ Flush(r, c, e)
        \/ DeadlinePasses(r) \/ Expire(r)
  BY NextActions
<1>3. CASE \E x \in Names : Pledge(r, x)
  BY <1>3, PledgeEffect
<1>4. CASE \E x \in Names : SendLaterPhase(r, x)
  BY <1>4, ReplyEffect DEF SendLaterPhase
<1>5. CASE \E x \in Names, answer \in {"ACCEPT", "REJECT"} :
            Respond(r, x, answer)
  BY <1>5, RespondEffect
<1>6. CASE \E c \in Slots, e \in Ends : Receive(r, c, e)
  BY <1>6, ReceiveEffect
<1> QED
  BY <1>2, <1>3, <1>4, <1>5, <1>6, OtherEffect

-----------------------------------------------------------------------------
(* What an effect does to each table                                       *)

\* The table of one realm changes as AddOrUpdateAlliance says.
LEMMA UpdateFacts ==
    ASSUME TypeOK, NEW r \in Realms, NEW x, NEW endpoint, NEW state,
           OneUpdate(r, x, endpoint, state)
    PROVE  /\ alliances[r] \in AllianceTables
           /\ alliances'[r] =
                AddOrUpdateAlliance(alliances[r], x, endpoint, state)
           /\ \A q \in Realms : q # r => alliances'[q] = alliances[q]
BY DEF OneUpdate, TypeOK

LEMMA DiesFacts ==
    ASSUME TypeOK, NEW r \in Realms, Dies(r)
    PROVE  /\ alliances'[r] = <<>>
           /\ mission'[r] = NoMission
           /\ \A q \in Realms : q # r => /\ alliances'[q] = alliances[q]
                                         /\ mission'[q] = mission[q]
           /\ pledged'  = {p \in pledged : p[1] # r}
           /\ accepted' = {p \in accepted : p[1] # r}
           /\ asked'    = {p \in asked : p[1] # r}
BY DEF Dies, GoDown, TypeOK

\* A name that is known is one the table can hold.
LEMMA KnownIsCleaned ==
    ASSUME TypeOK, NEW r \in Realms, NEW x,
           AllianceState(alliances[r], x) # "UNKNOWN"
    PROVE  x = Cleaned[x]
<1>1. alliances[r] \in AllianceTables
  BY DEF TypeOK
<1> QED
  BY <1>1, AllianceStateFacts, FoundIsCleaned

\* Every effect but an end is an update with these bounds on what it may
\* say, or leaves the tables alone; the history only grows.
LEMMA LivingEffect ==
    ASSUME TypeOK, Effect, ~ \E r \in Realms : Dies(r)
    PROVE  /\ pledged \subseteq pledged'
           /\ accepted \subseteq accepted'
           /\ asked \subseteq asked'
           /\ \/ UNCHANGED alliances
              \/ \E r \in Realms, x \in Names, endpoint \in Names \cup {NoRealm},
                    state \in AllianceStates :
                    /\ OneUpdate(r, x, endpoint, state)
                    /\ state = "ACTIVE" =>
                            \/ <<r, x>> \in accepted' /\ x = Cleaned[x]
                            \/ /\ mission[r].type = "PLEDGE"
                               /\ mission[r].target = x
                    /\ \/ <<r, x>> \in pledged'
                       \/ <<r, x>> \in asked' /\ x = Cleaned[x]
                       \/ AllianceState(alliances[r], x) # "UNKNOWN"
                       \/ /\ mission[r].type = "PLEDGE"
                          /\ mission[r].target = x
<1>1. CASE Quiet
  BY <1>1 DEF Quiet, history
<1>2. ASSUME NEW r \in Realms, Answers(r)
      PROVE  /\ UNCHANGED history
             /\ \E x \in Names, endpoint \in Names \cup {NoRealm},
                   state \in AllianceStates :
                    /\ OneUpdate(r, x, endpoint, state)
                    /\ mission[r].type = "PLEDGE"
                    /\ mission[r].target = x
  <2>1. mission[r].target \in Names
    BY <1>2 DEF Answers, TypeOK, Missions, NoMission
  <2> QED
    BY <1>2, <2>1 DEF Answers, AllianceStates
<1>3. ASSUME NEW r \in Realms, NEW x \in Names, Pledges(r, x)
      PROVE  /\ UNCHANGED <<accepted, asked>>
             /\ pledged \subseteq pledged' /\ <<r, x>> \in pledged'
             /\ \E hop \in Names : OneUpdate(r, x, hop, "PENDING")
  BY <1>3 DEF Pledges
<1>4. ASSUME NEW r \in Realms, NEW x \in Names, Hears(r, x)
      PROVE  /\ UNCHANGED <<accepted, pledged>>
             /\ asked \subseteq asked' /\ <<r, x>> \in asked'
             /\ x = Cleaned[x]
             /\ \E endpoint \in Names : OneUpdate(r, x, endpoint, "PENDING")
  BY <1>4 DEF Hears
<1>5. ASSUME NEW r \in Realms, NEW x \in Names, Parts(r, x)
      PROVE  /\ UNCHANGED history
             /\ AllianceState(alliances[r], x) # "UNKNOWN"
             /\ OneUpdate(r, x, NoRealm, "INACTIVE")
  BY <1>5 DEF Parts
<1>6. ASSUME NEW r \in Realms, NEW x \in Names,
             NEW answer \in {"ACCEPT", "REJECT"}, Decides(r, x, answer)
      PROVE  /\ UNCHANGED <<pledged, asked>>
             /\ accepted \subseteq accepted'
             /\ AllianceState(alliances[r], x) # "UNKNOWN"
             /\ \E state \in AllianceStates :
                    /\ OneUpdate(r, x, NoRealm, state)
                    /\ state = "ACTIVE" =>
                            <<r, x>> \in accepted' /\ x = Cleaned[x]
  BY <1>6, KnownIsCleaned DEF Decides, DecidedState, AllianceStates
<1>7. {"PENDING", "INACTIVE"} \subseteq AllianceStates
  BY DEF AllianceStates
<1>8. CASE \E r \in Realms : Answers(r)
  BY <1>2, <1>8 DEF history
<1>9. CASE \E r \in Realms, x \in Names : Pledges(r, x)
  BY <1>3, <1>7, <1>9
<1>10. CASE \E r \in Realms, x \in Names : Hears(r, x)
  <2>1. PICK r \in Realms, x \in Names : Hears(r, x)
    BY <1>10
  <2>2. PICK endpoint \in Names : OneUpdate(r, x, endpoint, "PENDING")
    BY <1>4, <2>1
  <2>3. /\ UNCHANGED <<accepted, pledged>>
        /\ asked \subseteq asked' /\ <<r, x>> \in asked' /\ x = Cleaned[x]
    BY <1>4, <2>1
  <2>4. endpoint \in Names \cup {NoRealm} /\ "PENDING" \in AllianceStates
    BY <1>7
  <2>5. \/ <<r, x>> \in pledged'
        \/ <<r, x>> \in asked' /\ x = Cleaned[x]
    BY <2>3
  <2> QED
    BY <2>2, <2>3, <2>4, <2>5, Zenon
<1>11. CASE \E r \in Realms, x \in Names : Parts(r, x)
  BY <1>5, <1>7, <1>11 DEF history
<1>12. CASE \E r \in Realms, x \in Names, answer \in {"ACCEPT", "REJECT"} :
                Decides(r, x, answer)
  <2>1. PICK r \in Realms, x \in Names, answer \in {"ACCEPT", "REJECT"} :
                Decides(r, x, answer)
    BY <1>12
  <2>2. PICK state \in AllianceStates :
                /\ OneUpdate(r, x, NoRealm, state)
                /\ state = "ACTIVE" => <<r, x>> \in accepted' /\ x = Cleaned[x]
    BY <1>6, <2>1
  <2> QED
    BY <1>6, <2>1, <2>2
<1> QED
  BY <1>1, <1>8, <1>9, <1>10, <1>11, <1>12 DEF Effect

-----------------------------------------------------------------------------
(* One lemma per invariant                                                 *)

LEMMA MissionTrackedStep ==
    ASSUME TypeOK, TypeOK', MissionTracked, Effect
    PROVE  MissionTracked'
<1> SUFFICES ASSUME NEW q \in Realms, mission'[q].type = "PLEDGE"
             PROVE  /\ <<q, mission'[q].target>> \in pledged'
                    /\ \/ AllianceState(alliances'[q], Cleaned[mission'[q].target])
                            # "UNKNOWN"
                       \/ Len(alliances'[q]) = MaxAlliances
  BY DEF MissionTracked
<1> DEFINE Tracked(table, y) == \/ AllianceState(table, y) # "UNKNOWN"
                                \/ Len(table) = MaxAlliances
<1>1. ASSUME NEW r \in Realms, Dies(r)
      PROVE  /\ <<q, mission'[q].target>> \in pledged'
             /\ Tracked(alliances'[q], Cleaned[mission'[q].target])
  <2>1. q # r
    BY <1>1, DiesFacts DEF NoMission
  <2>2. mission'[q] = mission[q] /\ alliances'[q] = alliances[q]
    BY <1>1, <2>1, DiesFacts
  <2>3. <<q, mission[q].target>> \in pledged
    BY <2>2 DEF MissionTracked
  <2>4. Tracked(alliances[q], Cleaned[mission[q].target])
    BY <2>2 DEF MissionTracked
  <2>5. <<q, mission[q].target>> \in pledged'
    BY <1>1, <2>1, <2>3, DiesFacts
  <2> QED
    BY <2>2, <2>4, <2>5
<1>2. ASSUME NEW r \in Realms, NEW x \in Names,
             NEW endpoint \in Names \cup {NoRealm}, NEW state \in AllianceStates,
             OneUpdate(r, x, endpoint, state), NEW y
      PROVE  /\ Tracked(alliances[q], y) => Tracked(alliances'[q], y)
             /\ q = r /\ y = Cleaned[x] => Tracked(alliances'[q], y)
  <2>1. CASE q # r
    BY <1>2, <2>1, UpdateFacts
  <2>2. CASE q = r
    <3>1. /\ alliances[q] \in AllianceTables
          /\ alliances'[q] = AddOrUpdateAlliance(alliances[q], x, endpoint, state)
      BY <1>2, <2>2, UpdateFacts
    <3>2. state # "UNKNOWN"
      BY DEF AllianceStates
    <3>3. /\ AllianceState(alliances[q], y) # "UNKNOWN"
                => AllianceState(alliances'[q], y) # "UNKNOWN"
          /\ Len(alliances[q]) = MaxAlliances
                => Len(alliances'[q]) = MaxAlliances
          /\ \/ AllianceState(alliances'[q], Cleaned[x]) = state
             \/ Len(alliances[q]) = MaxAlliances
             \/ AllianceState(alliances[q], Cleaned[x]) # "UNKNOWN"
      BY <3>1, AddOrUpdateKnown, AddOrUpdateState
    <3> QED
      BY <3>2, <3>3
  <2> QED
    BY <2>1, <2>2
<1>3. ASSUME NEW r \in Realms, NEW x \in Names, Pledges(r, x)
      PROVE  /\ <<q, mission'[q].target>> \in pledged'
             /\ Tracked(alliances'[q], Cleaned[mission'[q].target])
  <2>1. PICK hop \in Names : OneUpdate(r, x, hop, "PENDING")
    BY <1>3 DEF Pledges
  <2>2. "PENDING" \in AllianceStates
    BY DEF AllianceStates
  <2>3. CASE q = r
    <3>1. mission'[q].target = x
      BY <1>3, <2>3 DEF Pledges, Mission, TypeOK
    <3> QED
      BY <1>2, <1>3, <2>1, <2>2, <2>3, <3>1 DEF Pledges
  <2>4. CASE q # r
    <3>1. mission'[q] = mission[q]
      BY <1>3, <2>4 DEF Pledges, TypeOK
    <3>2. /\ <<q, mission[q].target>> \in pledged
          /\ Tracked(alliances[q], Cleaned[mission[q].target])
      BY <3>1 DEF MissionTracked
    <3> QED
      BY <1>2, <1>3, <2>1, <2>2, <3>1, <3>2 DEF Pledges
  <2> QED
    BY <2>3, <2>4
<1>4. ASSUME KeptMissions, ~ \E r \in Realms : Dies(r)
      PROVE  /\ <<q, mission'[q].target>> \in pledged'
             /\ Tracked(alliances'[q], Cleaned[mission'[q].target])
  <2>1. mission[q].type = "PLEDGE" /\ mission'[q].target = mission[q].target
    BY <1>4 DEF KeptMissions
  <2>2. /\ <<q, mission[q].target>> \in pledged
        /\ Tracked(alliances[q], Cleaned[mission[q].target])
    BY <2>1 DEF MissionTracked
  <2>3. Tracked(alliances'[q], Cleaned[mission[q].target])
    BY <1>2, <1>4, <2>2, LivingEffect
  <2> QED
    BY <1>4, <2>1, <2>2, <2>3, LivingEffect
<1>5. \/ \E r \in Realms : Dies(r)
      \/ \E r \in Realms, x \in Names : Pledges(r, x)
      \/ KeptMissions
  BY DEF Effect, Quiet, Answers, Hears, Parts, Decides
<1> QED
  BY <1>1, <1>3, <1>4, <1>5

\* The realm y of q is in p as the table would hold it, or in a as it is.
Owed(q, y, p, a) ==
    \/ \E x \in Names : <<q, x>> \in p /\ Cleaned[x] = y
    \/ <<q, y>> \in a

LEMMA LocalConsentOwed ==
    LocalConsent <=>
        \A q \in Realms : \A i \in DOMAIN alliances[q] :
            alliances[q][i].state = "ACTIVE" =>
                Owed(q, alliances[q][i].realm, pledged, accepted)
BY DEF LocalConsent, Owed, Pledged

LEMMA EntriesOwed ==
    EntriesHaveOrigin <=>
        \A q \in Realms : \A i \in DOMAIN alliances[q] :
            Owed(q, alliances[q][i].realm, pledged, asked)
BY DEF EntriesHaveOrigin, Owed, Pledged

LEMMA LocalConsentStep ==
    ASSUME TypeOK, TypeOK', MissionTracked, LocalConsent, Effect
    PROVE  LocalConsent'
<1> SUFFICES ASSUME NEW q \in Realms, NEW i \in DOMAIN alliances'[q],
                    alliances'[q][i].state = "ACTIVE"
             PROVE  Owed(q, alliances'[q][i].realm, pledged', accepted')
  BY DEF LocalConsent, Owed, Pledged
<1>1. ASSUME NEW r \in Realms, Dies(r)
      PROVE  Owed(q, alliances'[q][i].realm, pledged', accepted')
  <2>1. q # r
    <3> SUFFICES ASSUME q = r PROVE FALSE
      OBVIOUS
    <3>1. i \in DOMAIN <<>>
      BY <1>1, DiesFacts
    <3> QED
      BY <3>1
  <2>2. alliances'[q] = alliances[q]
    BY <1>1, <2>1, DiesFacts
  <2>3. Owed(q, alliances[q][i].realm, pledged, accepted)
    BY <2>2, LocalConsentOwed
  <2> QED
    BY <1>1, <2>1, <2>2, <2>3, DiesFacts DEF Owed
<1>2. ASSUME ~ \E r \in Realms : Dies(r)
      PROVE  Owed(q, alliances'[q][i].realm, pledged', accepted')
  <2>1. pledged \subseteq pledged' /\ accepted \subseteq accepted'
    BY <1>2, LivingEffect
  <2>2. CASE i \in DOMAIN alliances[q] /\ alliances'[q][i] = alliances[q][i]
    BY <2>1, <2>2, LocalConsentOwed DEF Owed
  <2>3. ASSUME NEW r \in Realms, NEW x \in Names,
               NEW endpoint \in Names \cup {NoRealm},
               NEW state \in AllianceStates,
               OneUpdate(r, x, endpoint, state),
               state = "ACTIVE" =>
                    \/ <<r, x>> \in accepted' /\ x = Cleaned[x]
                    \/ /\ mission[r].type = "PLEDGE"
                       /\ mission[r].target = x
        PROVE  Owed(q, alliances'[q][i].realm, pledged', accepted')
    <3>1. CASE q # r
      BY <2>2, <2>3, <3>1, UpdateFacts
    <3>2. CASE q = r
      <4>1. /\ alliances[q] \in AllianceTables
            /\ alliances'[q] =
                    AddOrUpdateAlliance(alliances[q], x, endpoint, state)
        BY <2>3, <3>2, UpdateFacts
      <4>2. \/ i \in DOMAIN alliances[q] /\ alliances'[q][i] = alliances[q][i]
            \/ /\ alliances'[q][i].realm = Cleaned[x]
               /\ alliances'[q][i].state = state
        BY <4>1, AddOrUpdateEntries
      <4>3. CASE alliances'[q][i].realm = Cleaned[x] /\ state = "ACTIVE"
        BY <2>1, <2>3, <3>2, <4>3 DEF MissionTracked, Owed
      <4> QED
        BY <2>2, <4>2, <4>3
    <3> QED
      BY <3>1, <3>2
  <2>4. CASE UNCHANGED alliances
    BY <2>2, <2>4
  <2> QED
    BY <1>2, <2>3, <2>4, LivingEffect
<1> QED
  BY <1>1, <1>2

LEMMA EntriesHaveOriginStep ==
    ASSUME TypeOK, TypeOK', MissionTracked, EntriesHaveOrigin, Effect
    PROVE  EntriesHaveOrigin'
<1> SUFFICES ASSUME NEW q \in Realms, NEW i \in DOMAIN alliances'[q]
             PROVE  Owed(q, alliances'[q][i].realm, pledged', asked')
  BY DEF EntriesHaveOrigin, Owed, Pledged
<1>1. ASSUME NEW r \in Realms, Dies(r)
      PROVE  Owed(q, alliances'[q][i].realm, pledged', asked')
  <2>1. q # r
    <3> SUFFICES ASSUME q = r PROVE FALSE
      OBVIOUS
    <3>1. i \in DOMAIN <<>>
      BY <1>1, DiesFacts
    <3> QED
      BY <3>1
  <2>2. alliances'[q] = alliances[q]
    BY <1>1, <2>1, DiesFacts
  <2>3. Owed(q, alliances[q][i].realm, pledged, asked)
    BY <2>2, EntriesOwed
  <2> QED
    BY <1>1, <2>1, <2>2, <2>3, DiesFacts DEF Owed
<1>2. ASSUME ~ \E r \in Realms : Dies(r)
      PROVE  Owed(q, alliances'[q][i].realm, pledged', asked')
  <2>1. pledged \subseteq pledged' /\ asked \subseteq asked'
    BY <1>2, LivingEffect
  <2>2. CASE i \in DOMAIN alliances[q] /\ alliances'[q][i] = alliances[q][i]
    BY <2>1, <2>2, EntriesOwed DEF Owed
  <2>3. ASSUME NEW r \in Realms, NEW x \in Names,
               NEW endpoint \in Names \cup {NoRealm},
               NEW state \in AllianceStates,
               OneUpdate(r, x, endpoint, state),
               \/ <<r, x>> \in pledged'
               \/ <<r, x>> \in asked' /\ x = Cleaned[x]
               \/ AllianceState(alliances[r], x) # "UNKNOWN"
               \/ mission[r].type = "PLEDGE" /\ mission[r].target = x
        PROVE  Owed(q, alliances'[q][i].realm, pledged', asked')
    <3>1. CASE q # r
      BY <2>2, <2>3, <3>1, UpdateFacts
    <3>2. CASE q = r
      <4>1. /\ alliances[q] \in AllianceTables
            /\ alliances'[q] =
                    AddOrUpdateAlliance(alliances[q], x, endpoint, state)
        BY <2>3, <3>2, UpdateFacts
      <4>2. \/ i \in DOMAIN alliances[q] /\ alliances'[q][i] = alliances[q][i]
            \/ alliances'[q][i].realm = Cleaned[x]
        BY <4>1, AddOrUpdateEntries
      <4>3. CASE AllianceState(alliances[q], x) # "UNKNOWN"
        <5>1. \E k \in DOMAIN alliances[q] : alliances[q][k].realm = x
          BY <4>1, <4>3, AllianceStateFacts, FindByRealmFacts
        <5>2. Owed(q, x, pledged, asked)
          BY <5>1, EntriesOwed
        <5>3. x = Cleaned[x]
          BY <4>3, KnownIsCleaned
        <5> QED
          BY <2>1, <2>2, <4>2, <5>2, <5>3 DEF Owed
      <4>4. CASE mission[q].type = "PLEDGE" /\ mission[q].target = x
        BY <2>1, <2>2, <4>2, <4>4 DEF MissionTracked, Owed
      <4>5. CASE \/ <<q, x>> \in pledged'
                 \/ <<q, x>> \in asked' /\ x = Cleaned[x]
        BY <2>2, <4>2, <4>5 DEF Owed
      <4> QED
        BY <2>3, <3>2, <4>3, <4>4, <4>5
    <3> QED
      BY <3>1, <3>2
  <2>4. CASE UNCHANGED alliances
    BY <2>2, <2>4
  <2> QED
    BY <1>2, <2>3, <2>4, LivingEffect
<1> QED
  BY <1>1, <1>2

\* The realm y is in p under a name that the table cannot hold.
Misspelt(q, y, p) ==
    \E x \in Names : <<q, x>> \in p /\ x # Cleaned[x] /\ Cleaned[x] = y

LEMMA DuplicatesAreTwice ==
    DuplicatesAreMisspelt <=>
        \A q \in Realms : \A y :
            Twice(alliances[q], y) => Misspelt(q, y, pledged)
<1>1. ASSUME DuplicatesAreMisspelt, NEW q \in Realms, NEW y,
             Twice(alliances[q], y)
      PROVE  Misspelt(q, y, pledged)
  <2>1. PICK i, j \in DOMAIN alliances[q] :
            i # j /\ alliances[q][i].realm = y /\ alliances[q][j].realm = y
    BY <1>1 DEF Twice
  <2> QED
    BY <1>1, <2>1 DEF DuplicatesAreMisspelt, Misspelt
<1>2. ASSUME \A q \in Realms : \A y :
                Twice(alliances[q], y) => Misspelt(q, y, pledged),
             NEW q \in Realms,
             NEW i \in DOMAIN alliances[q], NEW j \in DOMAIN alliances[q],
             i # j, alliances[q][i].realm = alliances[q][j].realm
      PROVE  Misspelt(q, alliances[q][i].realm, pledged)
  <2>1. Twice(alliances[q], alliances[q][i].realm)
    BY <1>2 DEF Twice
  <2> QED
    BY <1>2, <2>1
<1> QED
  BY <1>1, <1>2, Zenon DEF DuplicatesAreMisspelt, Misspelt

LEMMA DuplicatesStep ==
    ASSUME TypeOK, TypeOK', MissionTracked, DuplicatesAreMisspelt, Effect
    PROVE  DuplicatesAreMisspelt'
<1> SUFFICES ASSUME NEW q \in Realms, NEW y, Twice(alliances'[q], y)
             PROVE  Misspelt(q, y, pledged')
  <2> SUFFICES ASSUME NEW q \in Realms,
                      NEW i \in DOMAIN alliances'[q], NEW j \in DOMAIN alliances'[q],
                      i # j, alliances'[q][i].realm = alliances'[q][j].realm
               PROVE  Misspelt(q, alliances'[q][i].realm, pledged')
    BY DEF DuplicatesAreMisspelt, Misspelt
  <2>1. Twice(alliances'[q], alliances'[q][i].realm)
    BY DEF Twice
  <2> QED
    BY <2>1
<1>1. Twice(alliances[q], y) => Misspelt(q, y, pledged)
  BY DuplicatesAreTwice
<1>2. ASSUME NEW r \in Realms, Dies(r)
      PROVE  Misspelt(q, y, pledged')
  <2>1. q # r
    BY <1>2, DiesFacts DEF Twice
  <2> QED
    BY <1>1, <1>2, <2>1, DiesFacts DEF Misspelt
<1>3. ASSUME ~ \E r \in Realms : Dies(r)
      PROVE  Misspelt(q, y, pledged')
  <2>1. pledged \subseteq pledged'
    BY <1>3, LivingEffect
  <2>2. CASE Twice(alliances[q], y)
    BY <1>1, <2>1, <2>2 DEF Misspelt
  <2>3. ASSUME NEW r \in Realms, NEW x \in Names,
               NEW endpoint \in Names \cup {NoRealm},
               NEW state \in AllianceStates,
               OneUpdate(r, x, endpoint, state),
               \/ <<r, x>> \in pledged'
               \/ <<r, x>> \in asked' /\ x = Cleaned[x]
               \/ AllianceState(alliances[r], x) # "UNKNOWN"
               \/ mission[r].type = "PLEDGE" /\ mission[r].target = x
        PROVE  Misspelt(q, y, pledged')
    <3>1. CASE q # r
      BY <2>2, <2>3, <3>1, UpdateFacts
    <3>2. CASE q = r /\ ~Twice(alliances[q], y)
      <4>1. /\ alliances[q] \in AllianceTables
            /\ alliances'[q] =
                    AddOrUpdateAlliance(alliances[q], x, endpoint, state)
        BY <2>3, <3>2, UpdateFacts
      <4>2. y = Cleaned[x] /\ x # y
        BY <3>2, <4>1, AddOrUpdateTwice
      <4>3. AllianceState(alliances[r], x) = "UNKNOWN"
        BY <4>2, KnownIsCleaned
      <4>4. <<q, x>> \in pledged'
        BY <2>1, <2>3, <3>2, <4>2, <4>3 DEF MissionTracked
      <4> QED
        BY <4>2, <4>4 DEF Misspelt
    <3> QED
      BY <2>2, <3>1, <3>2
  <2>4. CASE UNCHANGED alliances
    BY <2>2, <2>4
  <2> QED
    BY <1>3, <2>3, <2>4, LivingEffect
<1> QED
  BY <1>2, <1>3

-----------------------------------------------------------------------------
(* The inductive invariant and what follows from it                        *)

SafetyInv ==
    /\ TypeOK
    /\ SoundConns
    /\ MissionTracked
    /\ LocalConsent
    /\ EntriesHaveOrigin
    /\ DuplicatesAreMisspelt

LEMMA SafetyInit == Init => SafetyInv
<1> SUFFICES ASSUME Init PROVE SafetyInv
  OBVIOUS
<1>1. SoundConns
  BY DEF Init, SoundConns, SoundTable, OpenersHold, OneLabel, Usable
<1>2. \A r \in Realms : alliances[r] = <<>> /\ mission[r] = NoMission
  BY DEF Init
<1>3. MissionTracked
  BY <1>2 DEF MissionTracked, NoMission
<1>4. LocalConsent /\ EntriesHaveOrigin /\ DuplicatesAreMisspelt
  BY <1>2 DEF LocalConsent, EntriesHaveOrigin, DuplicatesAreMisspelt
<1> QED
  BY <1>1, <1>3, <1>4, InitType DEF SafetyInv

LEMMA SafetyNext == SafetyInv /\ [Next]_vars => SafetyInv'
<1> SUFFICES ASSUME SafetyInv, [Next]_vars PROVE SafetyInv'
  OBVIOUS
<1>1. TypeOK'
  BY NextType DEF SafetyInv
<1>2. SoundConns'
  BY NextSound DEF SafetyInv
<1>3. Effect
  BY NextEffect, SoundFacts DEF SafetyInv
<1>4. MissionTracked'
  BY <1>1, <1>3, MissionTrackedStep DEF SafetyInv
<1>5. LocalConsent'
  BY <1>1, <1>3, LocalConsentStep DEF SafetyInv
<1>6. EntriesHaveOrigin'
  BY <1>1, <1>3, EntriesHaveOriginStep DEF SafetyInv
<1>7. DuplicatesAreMisspelt'
  BY <1>1, <1>3, DuplicatesStep DEF SafetyInv
<1> QED
  BY <1>1, <1>2, <1>4, <1>5, <1>6, <1>7 DEF SafetyInv

LEMMA SafetyAlways == Spec => []SafetyInv
BY SafetyInit, SafetyNext, PTL DEF Spec

\* The pledge in progress always has the entry that its answer will change,
\* or a full table explains why it has none.
THEOREM PledgesAreTracked == Spec => []MissionTracked
<1>1. SafetyInv => MissionTracked
  BY DEF SafetyInv
<1> QED
  BY <1>1, SafetyAlways, PTL

\* No order of commands, frames, deaths and deadlines makes a realm an ally
\* to which its user never agreed.
THEOREM AlliesAreAgreedTo == Spec => []LocalConsent
<1>1. SafetyInv => LocalConsent
  BY DEF SafetyInv
<1> QED
  BY <1>1, SafetyAlways, PTL

\* No frame but a PLEDGE, and no command but PLEDGE, ever creates an entry.
THEOREM OnlyPledgesMakeEntries == Spec => []EntriesHaveOrigin
<1>1. SafetyInv => EntriesHaveOrigin
  BY DEF SafetyInv
<1> QED
  BY <1>1, SafetyAlways, PTL

\* A table has two entries of one realm only after its user has typed a
\* PLEDGE to that realm with an '&' in its name: no frame, answer, farewell
\* or decision ever makes a second one.
THEOREM DuplicatesAreTyped == Spec => []DuplicatesAreMisspelt
<1>1. SafetyInv => DuplicatesAreMisspelt
  BY DEF SafetyInv
<1> QED
  BY <1>1, SafetyAlways, PTL

\* The label of an opened connection never decides who has left.
THEOREM LabelsNeverLeave == Spec => []FarewellsMissOpeners
<1>1. SafetyInv => FarewellsMissOpeners
  BY NamelessMiss, SoundFacts DEF SafetyInv
<1> QED
  BY <1>1, SafetyAlways, PTL

\* A realm never has two connections it can use under one label: the frames
\* it sends to one next hop go out on one socket and cannot overtake each
\* other.
THEOREM OneSocketPerLabel == Spec => []OneConnectionPerLabel
<1>1. SafetyInv => OneConnectionPerLabel
  BY SoundFacts DEF SafetyInv
<1> QED
  BY <1>1, SafetyAlways, PTL

-----------------------------------------------------------------------------
(* One pledge, one answer                                                  *)

\* The entries an update changes or adds are of the name it is for, and have
\* its state.
LEMMA EntryTurns ==
    ASSUME TypeOK, NEW r \in Realms, NEW x \in Names,
           NEW endpoint \in Names \cup {NoRealm}, NEW state \in AllianceStates,
           OneUpdate(r, x, endpoint, state),
           NEW q \in Realms, NEW i \in DOMAIN alliances'[q],
           ~(i \in DOMAIN alliances[q] /\ alliances'[q][i] = alliances[q][i])
    PROVE  /\ q = r
           /\ alliances'[q][i].realm = Cleaned[x]
           /\ alliances'[q][i].state = state
<1>1. q = r
  BY UpdateFacts
<1>2. /\ alliances[r] \in AllianceTables
      /\ alliances'[r] = AddOrUpdateAlliance(alliances[r], x, endpoint, state)
  BY UpdateFacts
<1> QED
  BY <1>1, <1>2, AddOrUpdateEntries

\* Where the name is known, the entry is the one the search finds.
LEMMA EntryUpdated ==
    ASSUME TypeOK, NEW r \in Realms, NEW x \in Names,
           NEW endpoint \in Names \cup {NoRealm}, NEW state \in AllianceStates,
           OneUpdate(r, x, endpoint, state),
           AllianceState(alliances[r], x) # "UNKNOWN",
           NEW i \in DOMAIN alliances'[r],
           ~(i \in DOMAIN alliances[r] /\ alliances'[r][i] = alliances[r][i])
    PROVE  /\ i \in DOMAIN alliances[r]
           /\ alliances[r][i].state = AllianceState(alliances[r], x)
<1>1. /\ alliances[r] \in AllianceTables
      /\ alliances'[r] = AddOrUpdateAlliance(alliances[r], x, endpoint, state)
  BY UpdateFacts
<1>2. FindByRealm(alliances[r], x) # {}
  BY <1>1, AllianceStateFacts
<1>3. PICK k \in FindByRealm(alliances[r], x) :
            Updated(alliances[r], alliances'[r], x, state, k)
  BY <1>1, <1>2, AddOrUpdateCases DEF Appended, Refused
<1>4. i = k /\ i \in DOMAIN alliances[r]
  BY <1>3 DEF Updated
<1> QED
  BY <1>1, <1>3, <1>4, AllianceStateFacts

LEMMA OneAnswerStep ==
    ASSUME TypeOK, Effect, NEW q \in Realms, NEW i \in DOMAIN alliances'[q],
           alliances'[q][i].state = "ACTIVE",
           ~(i \in DOMAIN alliances[q] /\ alliances[q][i].state = "ACTIVE")
    PROVE  \/ /\ i \in DOMAIN alliances[q]
              /\ alliances[q][i].state = "PENDING"
              /\ commands' # commands
           \/ /\ mission[q].type = "PLEDGE"
              /\ Cleaned[mission[q].target] = alliances'[q][i].realm
              /\ mission'[q] = NoMission
<1> DEFINE Due == \/ /\ i \in DOMAIN alliances[q]
                     /\ alliances[q][i].state = "PENDING"
                     /\ commands' # commands
                  \/ /\ mission[q].type = "PLEDGE"
                     /\ Cleaned[mission[q].target] = alliances'[q][i].realm
                     /\ mission'[q] = NoMission
<1>1. ~(i \in DOMAIN alliances[q] /\ alliances'[q][i] = alliances[q][i])
  OBVIOUS
<1>2. ~Quiet
  BY <1>1 DEF Quiet
<1>3. ASSUME NEW r \in Realms
      PROVE  ~Dies(r)
  <2> SUFFICES ASSUME Dies(r) PROVE FALSE
    OBVIOUS
  <2>1. i \in DOMAIN <<>>
    BY <1>1, DiesFacts
  <2> QED
    BY <2>1
<1>4. ASSUME NEW r \in Realms, NEW x \in Names,
             NEW endpoint \in Names \cup {NoRealm},
             NEW state \in {"PENDING", "INACTIVE"},
             OneUpdate(r, x, endpoint, state)
      PROVE  FALSE
  <2>1. state \in AllianceStates /\ state # "ACTIVE"
    BY DEF AllianceStates
  <2> QED
    BY <1>1, <1>4, <2>1, EntryTurns
<1>5. ASSUME NEW r \in Realms, NEW x \in Names,
             Pledges(r, x) \/ Hears(r, x) \/ Parts(r, x)
      PROVE  FALSE
  BY <1>4, <1>5 DEF Pledges, Hears, Parts
<1>6. ASSUME NEW r \in Realms, NEW x \in Names,
             NEW answer \in {"ACCEPT", "REJECT"}, Decides(r, x, answer)
      PROVE  Due
  <2>1. DecidedState(answer) \in AllianceStates
    BY DEF DecidedState, AllianceStates
  <2>2. q = r
    BY <1>1, <1>6, <2>1, EntryTurns DEF Decides
  <2>3. /\ OneUpdate(r, x, NoRealm, DecidedState(answer))
        /\ AllianceState(alliances[r], x) = "PENDING"
    BY <1>6 DEF Decides
  <2>4. /\ i \in DOMAIN alliances[r]
        /\ alliances[r][i].state = AllianceState(alliances[r], x)
    BY <1>1, <2>1, <2>2, <2>3, EntryUpdated
  <2> QED
    BY <1>6, <2>2, <2>3, <2>4 DEF Decides
<1>7. ASSUME NEW r \in Realms, Answers(r)
      PROVE  Due
  <2> DEFINE x == mission[r].target
  <2>1. x \in Names
    BY <1>7 DEF Answers, TypeOK, Missions, NoMission
  <2>2. PICK endpoint \in Names, state \in {"ACTIVE", "INACTIVE"} :
            OneUpdate(r, x, endpoint, state)
    BY <1>7 DEF Answers
  <2>3. mission[r].type = "PLEDGE" /\ mission'[r] = NoMission
    BY <1>7 DEF Answers, MissionSetTo, TypeOK
  <2>4. state \in AllianceStates /\ endpoint \in Names \cup {NoRealm}
    BY DEF AllianceStates
  <2> HIDE DEF x
  <2>5. q = r /\ alliances'[q][i].realm = Cleaned[x]
    BY <1>1, <2>1, <2>2, <2>4, EntryTurns
  <2> QED
    BY <2>3, <2>5 DEF x
<1> QED
  BY <1>2, <1>3, <1>5, <1>6, <1>7 DEF Effect

\* One pledge, one answer: an ally its user did not accept in this very step
\* is one whose answer ends the pledge it answers.
THEOREM PledgesAreAnsweredOnce == Spec => OneAnswerPerPledge
<1> DEFINE Answered == \A r \in Realms : \A i \in DOMAIN alliances'[r] :
        LET old == {alliances[r][k].state : k \in {i} \cap DOMAIN alliances[r]}
        IN  (alliances'[r][i].state = "ACTIVE" /\ "ACTIVE" \notin old)
            => \/ "PENDING" \in old /\ commands' # commands
               \/ /\ mission[r].type = "PLEDGE"
                  /\ Cleaned[mission[r].target] = alliances'[r][i].realm
                  /\ mission'[r] = NoMission
<1>1. SafetyInv /\ [Next]_vars => [Answered]_vars
  <2> SUFFICES ASSUME SafetyInv, [Next]_vars PROVE Answered
    OBVIOUS
  <2>1. TypeOK /\ Effect
    BY NextEffect, SoundFacts DEF SafetyInv
  <2> QED
    BY <2>1, OneAnswerStep
<1> QED
  BY <1>1, SafetyAlways, PTL DEF Spec, OneAnswerPerPledge

=============================================================================
