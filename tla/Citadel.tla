------------------------------ MODULE Citadel ------------------------------
(***************************************************************************)
(* The Maesters of the realms and the ravens between them: one process per *)
(* realm, a single-threaded poll() loop over the standard input, the       *)
(* listener and the connections (maester_event_loop).  One action is one   *)
(* typed command, one handled event or one expiry of the loop; a realm     *)
(* loses everything it knows when its process ends, because nothing about  *)
(* alliances is persisted.                                                 *)
(***************************************************************************)
EXTENDS AllianceTable, Links

CONSTANTS
    Targets,        \* Targets[r]: the realms the user of r pledges to
    Traders,        \* the realms whose users open the trade menu
    Leavers,        \* the realms whose users type EXIT (or hit CTRL+C)
    Crashers,       \* the realms whose processes may be killed
    LaterPhase,     \* realms that also run code this repository lacks yet
    LongAddresses,  \* realms whose "IP:Port" is longer than an origin field
    MaxCommands,    \* bound on PLEDGE, RESPOND and START TRADE commands
    MaxRestarts     \* bound on processes started again

ASSUME ActorsAssumption ==
    /\ Targets \in [Realms -> SUBSET Names]
    /\ \A S \in {Traders, Leavers, Crashers, LaterPhase, LongAddresses} :
            S \subseteq Realms
    /\ LongAddresses \cap Leavers = {}
    /\ MaxCommands \in Nat
    /\ MaxRestarts \in Nat

VARIABLES
    phase,      \* phase[r]: in its event loop, in the trade menu, or gone
    mission,    \* Maester.active_mission
    alliances,  \* Maester.alliances
    conns,      \* the sockets and both ends' ConnectionEntry
    commands,   \* commands typed so far
    restarts,   \* processes started again so far
    pledged,    \* history: <<r, x>>, r's user pledged to x in this life of r
    accepted,   \* history: <<r, x>>, r's user accepted x in this life of r
    asked       \* history: <<r, x>>, a PLEDGE naming x was handled by r

bounds == <<commands, restarts>>
history == <<pledged, accepted, asked>>
vars == <<phase, mission, alliances, conns, bounds, history>>

----------------------------------------------------------------------------
(* Missions (missions.c).  The deadline of a pledge is a moment that comes *)
(* at any time after it was sent; a trade has no deadline.                 *)

NoMission == [type |-> "none", target |-> NoRealm, due |-> FALSE]
Mission(type, target) == [type |-> type, target |-> target, due |-> FALSE]

Missions == {NoMission} \cup [type   : {"PLEDGE", "TRADE"},
                              target : Names,
                              due    : BOOLEAN]

MissionIsActive(m) == m.type # "none"

\* Mutants of TimeoutsChecked: the deadline is not looked at, or the mission
\* is never given up.
TimeoutsForced(m) == NoMission
TimeoutsForgotten(m) == m

\* maester_mission_check_timeouts, the first call of every command and of
\* every turn of the loop
TimeoutsChecked(m) == IF m.due THEN NoMission ELSE m

----------------------------------------------------------------------------
(* Life of a process                                                       *)

\* The process of r is gone: its memory, its descriptors and its history.
GoDown(r, cs) ==
    /\ phase'     = [phase EXCEPT ![r] = "down"]
    /\ mission'   = [mission EXCEPT ![r] = NoMission]
    /\ alliances' = [alliances EXCEPT ![r] = <<>>]
    /\ conns'     = CloseAll(cs, r)
    /\ pledged'   = {p \in pledged : p[1] # r}
    /\ accepted'  = {p \in accepted : p[1] # r}
    /\ asked'     = {p \in asked : p[1] # r}

Running(r) == phase[r] = "running"

Command(r) ==
    /\ Running(r)
    /\ commands < MaxCommands
    /\ commands' = commands + 1
    /\ UNCHANGED restarts

----------------------------------------------------------------------------
(* Sending towards a realm: resolve the route, reuse or open the           *)
(* connection to the next hop, send one frame.                             *)

NotSent(status, cs) == [status |-> status, conns |-> cs, slot |-> 0]

\* build_origin_string fails: the frame r would send is never built.
Unbuildable(r, frame) == r \in LongAddresses /\ frame.origin = Endpoint(r)

SendVia(cs, r, label, frame) ==
    LET hop      == Routes[r][label]
        attempts == GetOrOpen(cs, r, label, hop, phase[hop] # "down")
    IN  IF attempts = {} THEN {NotSent("refused", cs)}
        ELSE IF Unbuildable(r, frame)
        THEN {NotSent("unbuildable", a.conns) : a \in attempts}
        ELSE UNION {SendOutcomes(a.conns, a.slot, "opener", frame) :
                        a \in attempts}

Sent(cs, r, address, frame) ==
    IF ResolveRoute(r, address) = {} THEN {NotSent("unroutable", cs)}
    ELSE UNION {SendVia(cs, r, l, frame) : l \in ResolveRoute(r, address)}

NextHop(r, address) ==
    {Routes[r][l] : l \in ResolveRoute(r, address)}

----------------------------------------------------------------------------
(* Commands                                                                *)

PledgeFrame(r, x) ==
    FrameInit("PLEDGE", Endpoint(r), Name(x), RealmData(r))

\* What an answer makes of the entry it is about.
DecidedState(answer) == IF answer = "ACCEPT" THEN "ACTIVE" ELSE "INACTIVE"

ResponseFrame(r, x, answer) ==
    FrameInit("PLEDGE_RESPONSE", Endpoint(r), Name(x), AnswerData(answer))

\* The frame of cmd_pledge went out: the entry takes the endpoint of the
\* next hop, the only one known so far, and the mission begins.
PledgeSent(r, x, out) ==
    /\ conns' = out.conns
    /\ \E hop \in NextHop(r, Name(x)) :
        alliances' = [alliances EXCEPT ![r] =
                        AddOrUpdateAlliance(@, x, hop, "PENDING")]
    /\ mission' = [mission EXCEPT ![r] = Mission("PLEDGE", x)]
    /\ pledged' = pledged \cup {<<r, x>>}
    /\ UNCHANGED <<phase, accepted, asked>>

\* Mutant of PledgeNotSent: the mission begins before the send is checked.
PledgeNotSentBusy(r, x, out) ==
    /\ conns' = out.conns
    /\ mission' = [mission EXCEPT ![r] = Mission("PLEDGE", x)]
    /\ UNCHANGED <<phase, alliances, history>>

\* No route, no connection, or a send() that failed, which also closes the
\* connection: nothing is recorded and no mission begins.
PledgeNotSent(r, x, out) ==
    /\ conns' = IF out.status = "failed"
                THEN CloseEnd(out.conns, out.slot, "opener")
                ELSE out.conns
    /\ mission' = [mission EXCEPT ![r] = NoMission]
    /\ UNCHANGED <<phase, alliances, history>>

\* cmd_pledge; the origin is built before anything is done
Pledge(r, x) ==
    /\ Command(r)
    /\ r \notin LongAddresses
    /\ ~MissionIsActive(TimeoutsChecked(mission[r]))
    /\ \E out \in Sent(conns, r, Name(x), PledgeFrame(r, x)) :
        \/ out.status = "sent" /\ PledgeSent(r, x, out)
        \/ out.status = "killed" /\ GoDown(r, out.conns)
        \/ out.status \notin {"sent", "killed"} /\ PledgeNotSent(r, x, out)

\* The entry changes first, whatever becomes of the answer: a response that
\* cannot be built or sent is only reported to the user.
Responded(r, x, answer, out) ==
    /\ conns' = out.conns
    /\ alliances' = [alliances EXCEPT ![r] =
                        AddOrUpdateAlliance(@, x, NoRealm, DecidedState(answer))]
    /\ mission' = [mission EXCEPT ![r] = TimeoutsChecked(@)]
    /\ accepted' = IF answer = "ACCEPT" THEN accepted \cup {<<r, x>>}
                                        ELSE accepted
    /\ UNCHANGED <<phase, pledged, asked>>

\* cmd_pledge_respond
Respond(r, x, answer) ==
    /\ Command(r)
    /\ AllianceState(alliances[r], x) = "PENDING"
    /\ \E out \in Sent(conns, r, Name(x), ResponseFrame(r, x, answer)) :
        \/ out.status # "killed" /\ Responded(r, x, answer, out)
        \/ out.status = "killed" /\ GoDown(r, out.conns)

\* START TRADE: the menu of trade.c reads the standard input until it is
\* left, and the event loop does not turn meanwhile.
StartTrade(r, x) ==
    /\ r \in Traders
    /\ Command(r)
    /\ ~MissionIsActive(TimeoutsChecked(mission[r]))
    /\ phase' = [phase EXCEPT ![r] = "trading"]
    /\ mission' = [mission EXCEPT ![r] = Mission("TRADE", x)]
    /\ UNCHANGED <<alliances, conns, history>>

EndTrade(r) ==
    /\ phase[r] = "trading"
    /\ phase' = [phase EXCEPT ![r] = "running"]
    /\ mission' = [mission EXCEPT ![r] = NoMission]
    /\ UNCHANGED <<alliances, conns, bounds, history>>

----------------------------------------------------------------------------
(* Leaving                                                                 *)

\* Mutant of DisconnectFrame: an accepted peer is addressed by its name.
DisconnectFrameNamed(r, conn, e) ==
    FrameInit("DISCONNECT", Endpoint(r),
              IF e = "opener" THEN Name(conn.label) ELSE Name(conn.opener),
              NoData)

\* maester_broadcast_disconnect: one DISCONNECT per open entry, addressed to
\* the label of the entry or, when it was accepted, to the bare IP.
DisconnectFrame(r, conn, e) ==
    FrameInit("DISCONNECT", Endpoint(r),
              IF e = "opener" THEN Name(conn.label) ELSE Ip(conn.opener),
              NoData)

Reaches(conn, e) ==
    /\ ~conn.reset
    /\ conn.state[Other(e)] # "closed"
    /\ Takes(conn, e)

\* Each frame that was sent is followed by a flush.
Broadcast(cs, r, reached) ==
    [c \in DOMAIN cs |->
        IF \E e \in Ends : <<c, e>> \in reached /\ Reaches(cs[c], e)
        THEN LET e == CHOOSE f \in Ends : <<c, f>> \in reached
             IN  Flushed(Enqueued(cs[c], e, DisconnectFrame(r, cs[c], e)), e)
        ELSE cs[c]]

\* The end of maester_run after EXIT, CTRL+C or the end of the input.  A
\* reset connection may stop the broadcast half-way with SIGPIPE.
Exit(r) ==
    /\ r \in Leavers
    /\ Running(r)
    /\ \E reached \in SUBSET OpenEnds(conns, r) :
        /\ \/ reached = OpenEnds(conns, r)
           \/ \E end \in OpenEnds(conns, r) : conns[end[1]].reset
        /\ GoDown(r, Broadcast(conns, r, reached))
    /\ UNCHANGED bounds

\* The process is killed: the kernel closes its sockets, nobody is told.
Crash(r) ==
    /\ r \in Crashers
    /\ phase[r] # "down"
    /\ GoDown(r, conns)
    /\ UNCHANGED bounds

Restart(r) ==
    /\ phase[r] = "down"
    /\ restarts < MaxRestarts
    /\ restarts' = restarts + 1
    /\ phase' = [phase EXCEPT ![r] = "running"]
    /\ UNCHANGED <<mission, alliances, conns, commands, history>>

----------------------------------------------------------------------------
(* Time                                                                    *)

\* The clock reaches the deadline of the pledge (120 seconds).
DeadlinePasses(r) ==
    /\ mission[r].type = "PLEDGE"
    /\ ~mission[r].due
    /\ mission' = [mission EXCEPT ![r].due = TRUE]
    /\ UNCHANGED <<phase, alliances, conns, bounds, history>>

\* The check at the top of a turn of the loop, at most 500 ms later.
Expire(r) ==
    /\ Running(r)
    /\ mission[r].due
    /\ mission' = [mission EXCEPT ![r] = TimeoutsChecked(@)]
    /\ UNCHANGED <<phase, alliances, conns, bounds, history>>

----------------------------------------------------------------------------
(* Events of the listener and of the connections                           *)

Accept(r) ==
    /\ Running(r)
    /\ AcceptAll(conns, r) # conns
    /\ conns' = AcceptAll(conns, r)
    /\ UNCHANGED <<phase, mission, alliances, bounds, history>>

\* A readable frame at end e of slot c, which r owns.
Incoming(r, c, e) ==
    /\ Running(r)
    /\ <<c, e>> \in OpenEnds(conns, r)
    /\ conns[c].inbox[e] # <<>>

Consumed(c, e) == [conns EXCEPT ![c].inbox[e] = Tail(@)]

ForMe(r, frame) == frame.destination = Name(r)

\* A frame the handler sends while it works on one it received: every result
\* but a SIGPIPE is only logged.
Reply(r, outcomes) ==
    \E out \in outcomes :
        \/ /\ out.status = "killed"
           /\ GoDown(r, out.conns)
        \/ /\ out.status # "killed"
           /\ conns' = out.conns
           /\ UNCHANGED <<phase, mission, alliances, history>>

ErrorFrame(type, r, frame) == FrameInit(type, Name(r), frame.origin, NoData)

\* A frame for somebody else goes to the next hop; without a route an error
\* goes back on the connection the frame came by.
ReceiveForward(r, c, e, frame) ==
    /\ ~ForMe(r, frame)
    /\ IF ResolveRoute(r, frame.destination) = {}
       THEN Reply(r, SendOutcomes(Consumed(c, e), c, e,
                                  ErrorFrame("ERROR_UNKNOWN", r, frame)))
       ELSE Reply(r, Sent(Consumed(c, e), r, frame.destination, frame))

\* Mutant of ReceiveResponse: the pledge stays open after its answer.
ReceiveResponseOpen(r, c, e, frame) ==
    /\ ForMe(r, frame)
    /\ frame.type = "PLEDGE_RESPONSE"
    /\ mission[r].type = "PLEDGE"
    /\ frame.data.answer \in {"ACCEPT", "REJECT"}
    /\ alliances' = [alliances EXCEPT ![r] =
                        AddOrUpdateAlliance(@, mission[r].target, frame.origin.of,
                                            DecidedState(frame.data.answer))]
    /\ conns' = Consumed(c, e)
    /\ UNCHANGED <<phase, mission, history>>

\* A response is taken for the answer of the active pledge's target, and its
\* origin for that realm's endpoint.  A malformed one ends the pledge too.
ReceiveResponse(r, c, e, frame) ==
    /\ ForMe(r, frame)
    /\ frame.type = "PLEDGE_RESPONSE"
    /\ mission[r].type = "PLEDGE"
    /\ alliances' =
        IF frame.data.answer \notin {"ACCEPT", "REJECT"} THEN alliances
        ELSE [alliances EXCEPT ![r] =
                AddOrUpdateAlliance(@, mission[r].target, frame.origin.of,
                                    DecidedState(frame.data.answer))]
    /\ mission' = [mission EXCEPT ![r] = NoMission]
    /\ conns' = Consumed(c, e)
    /\ UNCHANGED <<phase, history>>

\* Mutant of ReceivePledge: a pledge that meets a PENDING entry is taken for
\* the second half of an agreement.
ReceivePledgeCrossed(r, c, e, frame) ==
    /\ ForMe(r, frame)
    /\ frame.type = "PLEDGE"
    /\ frame.data.realm # NoRealm
    /\ LET x == Cleaned[frame.data.realm] IN
        /\ alliances' = [alliances EXCEPT ![r] =
                AddOrUpdateAlliance(@, x, frame.origin.of,
                    IF AllianceState(alliances[r], x) = "PENDING"
                    THEN "ACTIVE" ELSE "PENDING")]
        /\ asked' = asked \cup {<<r, x>>}
    /\ conns' = Consumed(c, e)
    /\ UNCHANGED <<phase, mission, pledged, accepted>>

\* A pledge is recorded under the cleaned name in its payload, with the
\* endpoint in its origin.
ReceivePledge(r, c, e, frame) ==
    /\ ForMe(r, frame)
    /\ frame.type = "PLEDGE"
    /\ frame.data.realm # NoRealm
    /\ LET x == Cleaned[frame.data.realm] IN
        /\ alliances' = [alliances EXCEPT ![r] =
                AddOrUpdateAlliance(@, x, frame.origin.of, "PENDING")]
        /\ asked' = asked \cup {<<r, x>>}
    /\ conns' = Consumed(c, e)
    /\ UNCHANGED <<phase, mission, pledged, accepted>>

\* Mutant of Leaving: the origin is trusted without a look at the table.
LeavingByOrigin(r, c, e, frame) ==
    IF e = "opener" THEN {conns[c].label} ELSE {frame.origin.of}

\* Who is leaving: the label of the entry or, on an accepted connection, the
\* first entry of the table with the endpoint in the frame's origin.
Leaving(r, c, e, frame) ==
    IF e = "opener" THEN {conns[c].label}
    ELSE {alliances[r][i].realm :
            i \in FindByEndpoint(alliances[r], frame.origin.of)}

ReceiveDisconnect(r, c, e, frame) ==
    /\ ForMe(r, frame)
    /\ frame.type = "DISCONNECT"
    /\ IF Leaving(r, c, e, frame) = {} THEN UNCHANGED alliances
       ELSE \E x \in Leaving(r, c, e, frame) :
                alliances' = [alliances EXCEPT ![r] =
                    AddOrUpdateAlliance(@, x, NoRealm, "INACTIVE")]
    /\ conns' = Consumed(c, e)
    /\ UNCHANGED <<phase, mission, history>>

\* LIST_REQUEST and ORDER frames are answered only with a refusal; serving
\* an ally is left to a later phase of the program.
ReceiveRequest(r, c, e, frame) ==
    /\ ForMe(r, frame)
    /\ frame.type \in {"LIST_REQUEST", "ORDER_HEADER", "ORDER_DATA"}
    /\ IF IsAlliedEndpoint(alliances[r], frame.origin.of)
       THEN /\ conns' = Consumed(c, e)
            /\ UNCHANGED <<phase, mission, alliances, history>>
       ELSE Reply(r, SendOutcomes(Consumed(c, e), c, e,
                                  ErrorFrame("ERROR_UNAUTHORIZED", r, frame)))

\* Errors, NACKs, a response nobody waits for and a pledge without a name:
\* read and dropped.
ReceiveIgnored(r, c, e, frame) ==
    /\ ForMe(r, frame)
    /\ \/ frame.type \in {"ERROR_UNKNOWN", "ERROR_UNAUTHORIZED", "NACK"}
       \/ /\ frame.type = "PLEDGE_RESPONSE"
          /\ mission[r].type # "PLEDGE"
       \/ frame.type = "PLEDGE" /\ frame.data.realm = NoRealm
    /\ conns' = Consumed(c, e)
    /\ UNCHANGED <<phase, mission, alliances, history>>

\* maester_process_incoming_frame
Receive(r, c, e) ==
    /\ Incoming(r, c, e)
    /\ LET frame == Head(conns[c].inbox[e]) IN
        \/ ReceiveForward(r, c, e, frame)
        \/ ReceiveResponse(r, c, e, frame)
        \/ ReceivePledge(r, c, e, frame)
        \/ ReceiveDisconnect(r, c, e, frame)
        \/ ReceiveRequest(r, c, e, frame)
        \/ ReceiveIgnored(r, c, e, frame)
    /\ UNCHANGED bounds

\* Mutant of PeerClosed: only connections with a label are closed.
PeerClosedLabelled(r, c, e) ==
    /\ Running(r)
    /\ <<c, e>> \in OpenEnds(conns, r)
    /\ e = "opener"
    /\ conns[c].inbox[e] = <<>>
    /\ conns[c].state[Other(e)] = "closed"
    /\ conns' = CloseEnd(conns, c, e)
    /\ UNCHANGED <<phase, mission, alliances, bounds, history>>

\* read() returns 0: the peer has closed and all it sent has been read.
PeerClosed(r, c, e) ==
    /\ Running(r)
    /\ <<c, e>> \in OpenEnds(conns, r)
    /\ conns[c].inbox[e] = <<>>
    /\ conns[c].state[Other(e)] = "closed"
    /\ conns' = CloseEnd(conns, c, e)
    /\ UNCHANGED <<phase, mission, alliances, bounds, history>>

\* POLLHUP or POLLERR: closed at once, whatever is still unread.
Hangup(r, c, e) ==
    /\ Running(r)
    /\ <<c, e>> \in OpenEnds(conns, r)
    /\ conns[c].reset
    /\ conns' = CloseEnd(conns, c, e)
    /\ UNCHANGED <<phase, mission, alliances, bounds, history>>

\* POLLOUT, while frames wait in send_buffer: maester_flush_send_buffer.  A
\* reset that arrived after poll() returned ends the connection or, with
\* SIGPIPE, the process.
Flush(r, c, e) ==
    /\ Running(r)
    /\ <<c, e>> \in OpenEnds(conns, r)
    /\ conns[c].outbox[e] # <<>>
    /\ \/ /\ conns[c].reset
          /\ GoDown(r, conns)
       \/ /\ \/ /\ conns[c].reset
                /\ conns' = CloseEnd(conns, c, e)
             \/ /\ ~conns[c].reset
                /\ HasRoom(conns[c], e) \/ conns[c].state[Other(e)] = "closed"
                /\ conns' = [conns EXCEPT ![c] = Flushed(@, e)]
          /\ UNCHANGED <<phase, mission, alliances, history>>
    /\ UNCHANGED bounds

----------------------------------------------------------------------------
(* External: a realm that already runs the next phase of the program sends *)
(* what this code receives and never sends itself.                         *)

LaterPhaseFrames(r, x) ==
    {FrameInit("LIST_REQUEST", Endpoint(r), Name(x), NoData),
     ResponseFrame(r, x, "other"),
     FrameInit("PLEDGE", Endpoint(r), Name(x), NoData)}

SendLaterPhase(r, x) ==
    /\ r \in LaterPhase
    /\ Command(r)
    /\ \E frame \in LaterPhaseFrames(r, x) :
        Reply(r, Sent(conns, r, Name(x), frame))

----------------------------------------------------------------------------

Init ==
    /\ phase     = [r \in Realms |-> "running"]
    /\ mission   = [r \in Realms |-> NoMission]
    /\ alliances = [r \in Realms |-> <<>>]
    /\ conns     = [c \in {} |-> {}]
    /\ commands  = 0
    /\ restarts  = 0
    /\ pledged   = {}
    /\ accepted  = {}
    /\ asked     = {}

User(r) ==
    \/ \E x \in Targets[r] :
        \/ Pledge(r, x)
        \/ StartTrade(r, x)
        \/ SendLaterPhase(r, x)
    \/ \E x \in Names, answer \in {"ACCEPT", "REJECT"} : Respond(r, x, answer)
    \/ EndTrade(r)
    \/ Exit(r)

Event(r) ==
    \/ Accept(r)
    \/ \E c \in Slots, e \in Ends :
        \/ Receive(r, c, e)
        \/ PeerClosed(r, c, e)
        \/ Hangup(r, c, e)
        \/ Flush(r, c, e)

Next ==
    \E r \in Realms :
        \/ User(r)
        \/ Event(r)
        \/ DeadlinePasses(r)
        \/ Expire(r)
        \/ Crash(r)
        \/ Restart(r)

Spec == Init /\ [][Next]_vars

\* One turn of poll() serves every descriptor that is ready, and the loop
\* turns at least every 500 ms; the clock advances.  Nothing is assumed of
\* the users, of crashes or of restarts.
EndEvent(c, e) ==
    \E r \in Realms : Receive(r, c, e) \/ PeerClosed(r, c, e) \/ Hangup(r, c, e)

FlushEvent(c, e) == \E r \in Realms : Flush(r, c, e)

Fairness ==
    /\ \A r \in Realms : /\ WF_vars(Accept(r))
                         /\ WF_vars(DeadlinePasses(r))
                         /\ WF_vars(Expire(r))
    /\ \A c \in Slots, e \in Ends : /\ WF_vars(EndEvent(c, e))
                                   /\ WF_vars(FlushEvent(c, e))

FairSpec == Spec /\ Fairness

----------------------------------------------------------------------------
(* Properties                                                              *)

TypeOK ==
    /\ phase     \in [Realms -> {"running", "trading", "down"}]
    /\ mission   \in [Realms -> Missions]
    /\ alliances \in [Realms -> AllianceTables]
    /\ DOMAIN conns \subseteq Slots
    /\ conns     \in [DOMAIN conns -> Conn]
    /\ commands  \in 0..MaxCommands
    /\ restarts  \in 0..MaxRestarts
    /\ pledged   \subseteq Realms \X Names
    /\ accepted  \subseteq Realms \X Names
    /\ asked     \subseteq Realms \X Names

\* maester_get_or_open_connection never leaves two usable connections with
\* one label in the table of one realm, whatever closes, resets and
\* reconnections happen in between: a frame goes out on a single socket, so
\* two frames to one next hop cannot overtake each other.
OneConnectionPerLabel ==
    \A c, d \in DOMAIN conns :
        (/\ conns[c].opener = conns[d].opener
         /\ conns[c].label = conns[d].label
         /\ conns[c].state["opener"] = "open"
         /\ conns[d].state["opener"] = "open") => c = d

\* The names r's user pledged to, as the table can hold them.
Pledged(r) == {Cleaned[x] : x \in {y \in Names : <<r, y>> \in pledged}}

\* A realm never becomes an ally behind its user's back: an ACTIVE entry is
\* for a realm the user pledged to or accepted since the process started
\* (the guards of maester.c 574-593 and 858-863).
LocalConsent ==
    \A r \in Realms : \A i \in DOMAIN alliances[r] :
        alliances[r][i].state = "ACTIVE" =>
            \/ alliances[r][i].realm \in Pledged(r)
            \/ <<r, alliances[r][i].realm>> \in accepted

\* Every entry was caused by a pledge, sent or received: no DISCONNECT,
\* response or error, however misrouted, invents one (such as an entry for
\* the label DEFAULT of an opened connection, maester.c 1025-1049).
EntriesHaveOrigin ==
    \A r \in Realms : \A i \in DOMAIN alliances[r] :
        \/ alliances[r][i].realm \in Pledged(r)
        \/ <<r, alliances[r][i].realm>> \in asked

\* A DISCONNECT for its own name never reaches the end that opened the
\* connection: those that accepted it say goodbye to an IP.  So the label of
\* an entry never decides who has left (the first branch of maester.c 1027),
\* and a next hop is never struck off for a realm behind it.
FarewellsMissOpeners ==
    \A c \in DOMAIN conns :
        \A queue \in {conns[c].inbox["opener"], conns[c].outbox["acceptor"]} :
            \A i \in DOMAIN queue :
                queue[i].type = "DISCONNECT" =>
                    ~ForMe(conns[c].opener, queue[i])

\* Only the spelling of a PLEDGE makes a second entry of one realm: no frame,
\* answer or farewell does, and no pledge that was typed as the table holds
\* the name (maester.c 1545 searches before 1576 cleans).
DuplicatesAreMisspelt ==
    \A r \in Realms : \A i, j \in DOMAIN alliances[r] :
        (i # j /\ alliances[r][i].realm = alliances[r][j].realm) =>
            \E x \in Names : /\ <<r, x>> \in pledged
                             /\ x # Cleaned[x]
                             /\ Cleaned[x] = alliances[r][i].realm

\* A pledge in progress is one the user sent in this life of the process,
\* and its realm has an entry in the table, unless the table was full
\* (cmd_pledge goes on with a warning).
MissionTracked ==
    \A r \in Realms :
        mission[r].type = "PLEDGE" =>
            /\ <<r, mission[r].target>> \in pledged
            /\ \/ AllianceState(alliances[r], Cleaned[mission[r].target])
                        # "UNKNOWN"
               \/ Len(alliances[r]) = MaxAlliances

\* One pledge, one answer: an entry that becomes ACTIVE, or appears as
\* ACTIVE, without its user accepting it ends the pledge it is the answer
\* of, so that the next answer cannot count for the same pledge.
OneAnswerPerPledge ==
    [][\A r \in Realms : \A i \in DOMAIN alliances'[r] :
        LET old == {alliances[r][k].state : k \in {i} \cap DOMAIN alliances[r]}
        IN  (alliances'[r][i].state = "ACTIVE" /\ "ACTIVE" \notin old)
            => \/ "PENDING" \in old /\ commands' # commands
               \/ /\ mission[r].type = "PLEDGE"
                  /\ Cleaned[mission[r].target] = alliances'[r][i].realm
                  /\ mission'[r] = NoMission]_vars

\* A mission is not replaced before it ended or its deadline passed.
MissionNotReplaced ==
    [][\A r \in Realms :
        (MissionIsActive(mission[r]) /\ ~mission[r].due)
        => \/ mission'[r] = NoMission
           \/ mission'[r] = [mission[r] EXCEPT !.due = mission'[r].due]]_vars

\* Every pledge ends, answered or not: the deadline and the check of the
\* loop leave no realm busy for ever.
PledgeEnds ==
    \A r \in Realms :
        mission[r].type = "PLEDGE" ~> mission[r].type # "PLEDGE"

\* No entry outlives its peer: an end whose other end has closed is closed
\* in turn, by the end of file or by the hang-up.
ClosedIsNoticed ==
    \A c \in Slots, e \in Ends :
        LET HalfOpen == /\ c \in DOMAIN conns
                        /\ conns[c].state[e] = "open"
                        /\ conns[c].state[Other(e)] = "closed"
        IN  HalfOpen ~> ~HalfOpen

\* An entry that an answer made ACTIVE has the endpoint of its own realm
\* (maester.c 858-919 takes the endpoint of whoever answered).
AllyEndpointIsItsOwn ==
    \A r \in Realms : \A i \in DOMAIN alliances[r] :
        (/\ alliances[r][i].state = "ACTIVE"
         /\ <<r, alliances[r][i].realm>> \notin accepted)
        => alliances[r][i].endpoint = alliances[r][i].realm

\* A realm that leaves while it is somebody's ally is, from some moment on,
\* no longer that realm's ally ("Gracefully notify all peers before closing
\* connections", maester.c 1643).
AlliesLearnOfExit ==
    \A r, x \in Realms :
        LET Ally == AllianceState(alliances[r], x) = "ACTIVE"
        IN  [](Ally /\ Running(x) => []((phase[x] = "down") => <>~Ally))

\* Ravens do not fly for ever: once the users are quiet every frame is
\* delivered or dropped.
FramesDrain ==
    <>[](\A c \in DOMAIN conns : \A e \in Ends :
            conns[c].inbox[e] = <<>> /\ conns[c].outbox[e] = <<>>)

----------------------------------------------------------------------------
(* Refinement: the alliance tables keep the promises of AllianceLedger.    *)

Status ==
    [r \in Realms |-> [x \in Names |-> AllianceState(alliances[r], x)]]

Agreed ==
    [r \in Realms |-> Pledged(r) \cup {x \in Names : <<r, x>> \in accepted}]

Ledger == INSTANCE AllianceLedger WITH status <- Status, agreed <- Agreed

\* Whatever is lost, late, duplicated by a loop or misrouted, every step of
\* a Maester is one of the ledger's steps on one entry, or none.
KeepsTheLedger == Ledger!LedgerSpec

=============================================================================
