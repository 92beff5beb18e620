--------------------------- MODULE ConnectionPool ---------------------------
(***************************************************************************)
(* The connection table of one Maester as the array it is in memory:       *)
(* Maester.connections with its capacity and its growth by realloc, the    *)
(* descriptors of the process, and one turn of maester_event_loop, which   *)
(* keeps a pointer to every entry it polled (conn_map) until the turn is   *)
(* over.  Links says what the connections do; here only where they are.    *)
(***************************************************************************)
EXTENDS Naturals, Sequences, FiniteSets, Functions

CONSTANTS
    Hops,       \* the names of the routes a frame or a command may need
    NoLabel,    \* the empty peer_realm of an accepted connection
    MaxFds,     \* descriptors the kernel grants beyond the listener's
    MaxConns    \* bound on the connections made in a behaviour

ASSUME PoolAssumption ==
    /\ NoLabel \notin Hops
    /\ MaxFds \in Nat
    /\ MaxConns \in Nat

VARIABLES
    pool,       \* the array, its capacity, the kernel's descriptors
    turn,       \* where the loop is
    polled,     \* conn_map: polled[i] is the connection that poll() was
                \* asked about for the entry at position i
    at          \* the index into conn_map in the loop that serves events

vars == <<pool, turn, polled, at>>

Fds == 1..MaxFds
NoFd == 0                               \* sockfd = -1

Entry == [fd : Fds \cup {NoFd}, label : Hops \cup {NoLabel}]

ClosedEntry == [fd |-> NoFd, label |-> NoLabel]

\* The kernel's table: the connection behind each open descriptor.
Opens == UNION {[S -> 1..MaxConns] : S \in SUBSET Fds}

Pools == [table    : Seq(Entry),        \* connections[0 .. num_connections-1]
          capacity : Nat,               \* connections_capacity
          open     : Opens,
          made     : 0..MaxConns,       \* connections made so far
          moved    : BOOLEAN]           \* history: realloc has moved the
                                        \* block since conn_map was filled

EmptyPool == [table |-> <<>>, capacity |-> 0, open |-> <<>>,
              made |-> 0, moved |-> FALSE]

Turns == {"top", "command", "accept", "serve", "frames", "done", "undefined"}

----------------------------------------------------------------------------
(* Operations on the array                                                 *)

IsOpen(entry) == entry.fd # NoFd

\* maester_find_connection, with the test of sockfd that its caller adds:
\* the first entry that carries the name, as a set.
FindConnection(table, hop) ==
    LET found == {i \in DOMAIN table : IsOpen(table[i]) /\ table[i].label = hop}
    IN  {i \in found : \A j \in found : i <= j}

\* Mutant of NewCapacity: the array starts with one entry.
CapacityFromOne(capacity) == IF capacity = 0 THEN 1 ELSE 2 * capacity

NewCapacity(capacity) == IF capacity = 0 THEN 4 ELSE 2 * capacity

\* Mutant of Grown: a full array is taken to have room for one more.
GrownLate(p) ==
    IF Len(p.table) <= p.capacity THEN {p}
    ELSE {[p EXCEPT !.capacity = NewCapacity(@), !.moved = m] :
              m \in {p.moved, p.moved \/ p.capacity > 0}}

\* The room maester_add_connection_entry makes for one more entry.  realloc
\* extends the block where it is, or moves it; the first call has no block.
Grown(p) ==
    IF Len(p.table) < p.capacity THEN {p}
    ELSE {[p EXCEPT !.capacity = NewCapacity(@), !.moved = m] :
              m \in {p.moved, p.moved \/ p.capacity > 0}}

\* realloc may also return NULL.
GrowthMayFail(p) == Len(p.table) >= p.capacity

FreeFds(p) == Fds \ DOMAIN p.open

LowestFree(p) == CHOOSE fd \in FreeFds(p) : \A f \in FreeFds(p) : fd <= f

CanConnect(p) == p.made < MaxConns /\ FreeFds(p) # {}

\* A new connection under the lowest free descriptor, as the kernel gives it.
Descriptor(p) ==
    [p EXCEPT !.made = @ + 1,
              !.open = [fd \in DOMAIN p.open \cup {LowestFree(p)} |->
                            IF fd = LowestFree(p) THEN p.made + 1
                                                  ELSE p.open[fd]]]

\* Mutant of Connected: the first closed entry is used again.
ConnectedInPlace(p, label) ==
    LET entry == [fd |-> LowestFree(p), label |-> label]
        free == {i \in DOMAIN p.table : ~IsOpen(p.table[i])}
    IN  [Descriptor(p) EXCEPT
            !.table = IF free = {} THEN Append(@, entry)
                      ELSE [@ EXCEPT ![CHOOSE i \in free : TRUE] = entry]]

\* ... and its entry, at the end of the array.
Connected(p, label) ==
    [Descriptor(p) EXCEPT
        !.table = Append(@, [fd |-> LowestFree(p), label |-> label])]

\* Mutant of Abandoned: the failure path forgets the descriptor.
AbandonedOpen(p) == IF CanConnect(p) THEN Descriptor(p) ELSE p

\* socket(), inet_pton() or connect() failed: the descriptor is closed and
\* the entry taken back, but the array keeps its new size and place.
Abandoned(p) == p

\* maester_get_or_open_connection: the pool afterwards, and the position of
\* the entry returned, 0 for NULL.
GetOrOpen(p, hop) ==
    IF FindConnection(p.table, hop) # {}
    THEN {[pool |-> p, slot |-> i] : i \in FindConnection(p.table, hop)}
    ELSE (IF GrowthMayFail(p) THEN {[pool |-> p, slot |-> 0]} ELSE {})
         \cup {[pool |-> Abandoned(g), slot |-> 0] : g \in Grown(p)}
         \cup {[pool |-> Connected(g, hop), slot |-> Len(g.table) + 1] :
                   g \in {x \in Grown(p) : CanConnect(x)}}

\* maester_close_connection_entry
Closed(p, i) ==
    [p EXCEPT !.table[i] = ClosedEntry,
              !.open = Restrict(@, DOMAIN @ \ {p.table[i].fd})]

\* The open entries up to position i: write_idx once i has been looked at.
WriteIdx(table, i) == Cardinality({k \in 1..i : IsOpen(table[k])})

\* maester_compact_connections: every open entry moves to the front.
Compacted(p) ==
    LET source(j) == CHOOSE i \in DOMAIN p.table :
                        IsOpen(p.table[i]) /\ WriteIdx(p.table, i) = j
    IN  [p EXCEPT !.table =
            [j \in 1..WriteIdx(@, Len(@)) |-> p.table[source(j)]]]

\* maester_close_all_connections
AllClosed(p) ==
    [p EXCEPT !.table = <<>>,
              !.open = Restrict(@, DOMAIN @ \ {p.table[i].fd :
                                                  i \in DOMAIN p.table})]

----------------------------------------------------------------------------
(* A turn of maester_event_loop                                            *)

\* Both tables are filled before poll().  Nothing ready, or a signal: the
\* next turn begins, with another compaction.
Poll ==
    /\ turn = "top"
    /\ LET p == [Compacted(pool) EXCEPT !.moved = FALSE] IN
       /\ pool' = p
       /\ polled' = [i \in DOMAIN p.table |-> p.open[p.table[i].fd]]
    /\ turn' \in {"top", "command"}
    /\ at' = 1

\* The loop is left; maester_run closes everything.
Leave ==
    /\ turn = "top"
    /\ turn' = "done"
    /\ pool' = AllClosed(pool)
    /\ polled' = <<>>
    /\ UNCHANGED at

\* No input, or a command that sends nothing.
NoCommand ==
    /\ turn = "command"
    /\ turn' = "accept"
    /\ UNCHANGED <<pool, polled, at>>

\* PLEDGE and PLEDGE RESPOND: find or open the next hop and send; if that
\* fails cmd_pledge closes the entry, which poll() may just have reported.
Command(hop) ==
    /\ turn = "command"
    /\ turn' = "accept"
    /\ \E o \in GetOrOpen(pool, hop) :
        \/ pool' = o.pool
        \/ o.slot # 0 /\ pool' = Closed(o.pool, o.slot)
    /\ UNCHANGED <<polled, at>>

\* One round of the loop of maester_accept_placeholder.
Accept ==
    /\ turn = "accept"
    /\ CanConnect(pool)
    /\ \/ \E g \in Grown(pool) : pool' = Connected(g, NoLabel)
       \/ GrowthMayFail(pool) /\ pool' = [pool EXCEPT !.made = @ + 1]
    /\ UNCHANGED <<turn, polled, at>>

\* accept() fails, for want of clients or of descriptors.
Accepted ==
    /\ turn = "accept"
    /\ turn' = "serve"
    /\ UNCHANGED <<pool, polled, at>>

\* revents = 0; or, with the entry still in place, an event that changes no
\* connection: part of a frame, output flushed, POLLIN for an entry closed
\* since.
NothingToDo ==
    /\ turn = "serve"
    /\ at <= Len(polled)
    /\ at' = at + 1
    /\ UNCHANGED <<pool, turn, polled>>

\* POLLERR or POLLHUP, a flush that fails, end of file, an error in read().
CloseServed ==
    /\ turn = "serve"
    /\ at <= Len(polled)
    /\ ~pool.moved
    /\ pool' = Closed(pool, at)
    /\ at' = at + 1
    /\ UNCHANGED <<turn, polled>>

\* Bytes arrived that complete at least one frame.
ReceiveFrames ==
    /\ turn = "serve"
    /\ at <= Len(polled)
    /\ ~pool.moved
    /\ IsOpen(pool.table[at])
    /\ turn' = "frames"
    /\ UNCHANGED <<pool, polled, at>>

\* One frame for another realm, inside the extraction loop.  A send that
\* fails here closes nothing.
Forward(hop) ==
    /\ turn = "frames"
    /\ ~pool.moved
    /\ \E o \in GetOrOpen(pool, hop) : pool' = o.pool
    /\ UNCHANGED <<turn, polled, at>>

\* frame_buffer_extract finds no further frame in entry->recv_buffer.
ReceivedFrames ==
    /\ turn = "frames"
    /\ ~pool.moved
    /\ turn' = "serve"
    /\ at' = at + 1
    /\ UNCHANGED <<pool, polled>>

\* The code goes on with a pointer into the block that realloc has freed:
\* the extraction loop after a forward, or conn_map[i] with revents set.
\* What the program does from here on is not defined.
UseFreedEntry ==
    /\ pool.moved
    /\ turn = "frames" \/ (turn = "serve" /\ at <= Len(polled))
    /\ turn' = "undefined"
    /\ UNCHANGED <<pool, polled, at>>

EndTurn ==
    /\ turn = "serve"
    /\ at > Len(polled)
    /\ pool' = Compacted(pool)
    /\ turn' = "top"
    /\ polled' = <<>>
    /\ UNCHANGED at

----------------------------------------------------------------------------

Init ==
    /\ pool = EmptyPool
    /\ turn = "top"
    /\ polled = <<>>
    /\ at = 1

Next ==
    \/ Poll \/ Leave
    \/ NoCommand \/ (\E hop \in Hops : Command(hop))
    \/ Accept \/ Accepted
    \/ NothingToDo \/ CloseServed \/ ReceiveFrames
    \/ (\E hop \in Hops : Forward(hop)) \/ ReceivedFrames
    \/ UseFreedEntry \/ EndTurn

Spec == Init /\ [][Next]_vars

----------------------------------------------------------------------------
(* Properties                                                              *)

PoolTypeOK ==
    /\ pool \in Pools
    /\ Len(pool.table) <= pool.capacity
    /\ turn \in Turns
    /\ polled \in Seq(1..MaxConns)
    /\ at \in 1..(Len(polled) + 1) \/ turn \in {"top", "done"}

\* No path of open, failure, accept, close or compaction leaks a descriptor
\* or gives one to two entries: the open descriptors are those of the open
\* entries, one each.
FdsTracked ==
    /\ DOMAIN pool.open =
           {pool.table[i].fd : i \in DOMAIN pool.table} \ {NoFd}
    /\ \A i, j \in DOMAIN pool.table :
           IsOpen(pool.table[i]) /\ pool.table[i].fd = pool.table[j].fd
           => i = j

\* An event is handled on the connection poll() reported it for, or on a
\* closed entry.  A command or a handler may have closed that connection
\* since, and accept() may have been given its descriptor anew.
EventsReachTheirConnection ==
    turn \in {"command", "accept", "serve", "frames"} =>
        \A i \in DOMAIN polled :
            /\ i \in DOMAIN pool.table
            /\ IsOpen(pool.table[i]) =>
                   pool.open[pool.table[i].fd] = polled[i]

\* Freed memory is used only by a Maester that has needed a fifth entry at
\* once, counting those closed in the same turn.
FourConnectionsAreSafe == turn = "undefined" => pool.capacity > 4

\* Every event and every frame is handled through a pointer into the table
\* ("Send error back through the connection we received from",
\* maester_process_incoming_frame): nothing the loop calls meanwhile moves it.
PointersStayGood == turn # "undefined"

=============================================================================
