------------------------------- MODULE Links -------------------------------
(***************************************************************************)
(* The TCP connections between the Maesters and the operations network.c   *)
(* performs on them.  A connection has two ends, each with an entry in its *)
(* owner's connection table (Maester.connections) while it is open.  The   *)
(* socket is the operating system's: a queue of whole frames per           *)
(* direction, cut by a reset; what it does not take waits in send_buffer.  *)
(* FrameStream models one direction byte by byte.  Pure operators on a     *)
(* partial function cs from slots to connections; a slot is in use until   *)
(* both ends are closed.                                                   *)
(***************************************************************************)
EXTENDS Frames, Functions

CONSTANTS
    MaxConns,           \* bound on the connections alive at once
    KernelFrames,       \* frames the kernel takes before EAGAIN
    SendBufferFrames    \* frames send_buffer holds (4 in the code)

ASSUME LinkBoundsAssumption ==
    /\ MaxConns \in Nat
    /\ KernelFrames \in Nat
    /\ SendBufferFrames \in Nat

Slots == 1..MaxConns

Ends == {"opener", "acceptor"}
EndStates == {"backlog", "open", "closed"}

Other(e) == IF e = "opener" THEN "acceptor" ELSE "opener"

Conn == [opener   : Realms,                 \* who called connect()
         acceptor : Realms,                 \* whose listener it reached
         label    : Names,                  \* peer_realm at the opener's end
         state    : [Ends -> EndStates],
         inbox    : [Ends -> Seq(Frame)],   \* sent, not yet read at this end
         outbox   : [Ends -> Seq(Frame)],   \* send_buffer of this end
         reset    : BOOLEAN]                \* an RST is on its way

Owner(conn, e) == IF e = "opener" THEN conn.opener ELSE conn.acceptor

OpenEnds(cs, r) ==
    {end \in (DOMAIN cs) \X Ends :
        /\ Owner(cs[end[1]], end[2]) = r
        /\ cs[end[1]].state[end[2]] = "open"}

----------------------------------------------------------------------------
(* Opening.  Only entries this process opened carry a label: accept stores *)
(* an empty peer_realm and nothing ever fills it in, so the search of      *)
(* maester_find_connection never returns an accepted connection.           *)

\* Mutant of FindConnection: a connection with frames under way is passed by.
FindIdleConnection(cs, r, label) ==
    {c \in DOMAIN cs : /\ cs[c].opener = r
                       /\ cs[c].label = label
                       /\ cs[c].state["opener"] = "open"
                       /\ cs[c].inbox["acceptor"] = <<>>}

\* maester_find_connection
FindConnection(cs, r, label) ==
    {c \in DOMAIN cs : /\ cs[c].opener = r
                       /\ cs[c].label = label
                       /\ cs[c].state["opener"] = "open"}

FreeSlots(cs) == {c \in Slots : c \notin DOMAIN cs}

NewConn(r, label, hop) ==
    [opener |-> r, acceptor |-> hop, label |-> label,
     state |-> [e \in Ends |-> IF e = "opener" THEN "open" ELSE "backlog"],
     inbox |-> [e \in Ends |-> <<>>],
     outbox |-> [e \in Ends |-> <<>>],
     reset |-> FALSE]

Opened(cs, r, label, hop) ==
    {[conns |-> [d \in DOMAIN cs \cup {c} |->
                    IF d = c THEN NewConn(r, label, hop) ELSE cs[d]],
      slot  |-> c] :
        c \in {d \in FreeSlots(cs) : \A f \in FreeSlots(cs) : d <= f}}

\* maester_get_or_open_connection: {} when connect() fails.
GetOrOpen(cs, r, label, hop, listening) ==
    IF FindConnection(cs, r, label) # {}
    THEN {[conns |-> cs, slot |-> c] : c \in FindConnection(cs, r, label)}
    ELSE IF listening THEN Opened(cs, r, label, hop)
    ELSE {}

----------------------------------------------------------------------------
(* Sending: maester_send_frame, maester_queue_bytes and the send() calls.  *)

\* The kernel has room for a frame from end e to the other end.
HasRoom(conn, e) == Len(conn.inbox[Other(e)]) < KernelFrames

\* Nothing overtakes what waits in send_buffer, even when the kernel has room
\* again.
GoesOut(conn, e) == conn.outbox[e] = <<>> /\ HasRoom(conn, e)

Takes(conn, e) ==
    GoesOut(conn, e) \/ Len(conn.outbox[e]) < SendBufferFrames

Enqueued(conn, e, frame) ==
    IF GoesOut(conn, e)
    THEN [conn EXCEPT !.inbox[Other(e)] = Append(@, frame)]
    ELSE [conn EXCEPT !.outbox[e] = Append(@, frame)]

\* What one maester_send_frame at end e of slot c may do.  A frame for a
\* peer that has closed is accepted by the kernel and answered by an RST;
\* once that has arrived send() fails, or kills the process: SIGPIPE is
\* neither ignored nor suppressed.  Behind a send_buffer that is not empty
\* nothing is given to the kernel, and nothing of this is noticed.
SendOutcomes(cs, c, e, frame) ==
    LET conn == cs[c]
        Result(status, new) ==
            [status |-> status, conns |-> [cs EXCEPT ![c] = new], slot |-> c]
    IN  IF conn.outbox[e] = <<>> /\ conn.reset
        THEN {Result(s, conn) : s \in {"sent", "failed", "killed"}}
        ELSE IF conn.outbox[e] = <<>> /\ conn.state[Other(e)] = "closed"
        THEN {Result("sent", [conn EXCEPT !.reset = TRUE])}
        ELSE IF Takes(conn, e)
        THEN {Result("sent", Enqueued(conn, e, frame))}
        ELSE {Result("failed", conn)}

\* maester_flush_send_buffer: what fits goes to the kernel, in order; what is
\* sent to a peer that has closed is lost and draws an RST.
Flushed(conn, e) ==
    LET queue == conn.outbox[e]
        room  == KernelFrames - Len(conn.inbox[Other(e)])
        n     == IF Len(queue) < room THEN Len(queue) ELSE room
    IN  IF conn.state[Other(e)] = "closed"
        THEN [conn EXCEPT !.outbox[e] = <<>>, !.reset = TRUE]
        ELSE IF HasRoom(conn, e)
        THEN [conn EXCEPT !.inbox[Other(e)] = @ \o SubSeq(queue, 1, n),
                          !.outbox[e] = SubSeq(queue, n + 1, Len(queue))]
        ELSE conn

----------------------------------------------------------------------------
(* Closing.  What is still in send_buffer is dropped, what the kernel has  *)
(* taken is delivered; closing with unread data, or before the other side  *)
(* was accepted, resets the connection.                                    *)

EndClosed(conn, e) ==
    [conn EXCEPT
        !.state[e] = "closed",
        !.inbox[e] = <<>>,
        !.outbox[e] = <<>>,
        !.reset = @ \/ conn.inbox[e] # <<>> \/ conn.state[e] = "backlog"]

InUse(cs) ==
    Restrict(cs, {c \in DOMAIN cs : \E e \in Ends : cs[c].state[e] # "closed"})

\* maester_close_connection_entry
CloseEnd(cs, c, e) == InUse([cs EXCEPT ![c] = EndClosed(@, e)])

\* Every descriptor of r is closed: maester_close_all_connections at the end
\* of maester_run, or the kernel when the process dies.
CloseAll(cs, r) ==
    InUse([c \in DOMAIN cs |->
              IF cs[c].opener = r /\ cs[c].state["opener"] # "closed"
              THEN EndClosed(cs[c], "opener")
              ELSE IF cs[c].acceptor = r /\ cs[c].state["acceptor"] # "closed"
              THEN EndClosed(cs[c], "acceptor")
              ELSE cs[c]])

\* The accept() loop of maester_accept_placeholder empties the backlog.
AcceptAll(cs, r) ==
    [c \in DOMAIN cs |->
        IF cs[c].acceptor = r /\ cs[c].state["acceptor"] = "backlog"
        THEN [cs[c] EXCEPT !.state["acceptor"] = "open"]
        ELSE cs[c]]

============================================================================
