------------------------------- MODULE Frames -------------------------------
(***************************************************************************)
(* The vocabulary of the protocol: names, addresses, frames and the static *)
(* routing table of each Maester (maester.h, network.c).                   *)
(***************************************************************************)
EXTENDS Naturals, Sequences

CONSTANTS
    Realms,     \* the Maester processes, named by their realm
    Names,      \* what can be typed or carried as a realm name
    DEFAULT,    \* ROUTE_DEFAULT, the name of the fall-back route
    NoRealm,    \* the empty name, and the absent IP:Port
    Routes,     \* Routes[r][n] = the realm whose listener r's route n names;
                \* only routes with a known address are in DOMAIN Routes[r]
    Cleaned     \* Cleaned[n] = the name n without its '&' characters

ASSUME NamesAssumption ==
    /\ Realms \subseteq Names
    /\ DEFAULT \in Names \ Realms
    /\ NoRealm \notin Names

\* No configuration lists the realm's own listener as a next hop.
ASSUME RoutesAssumption ==
    /\ DOMAIN Routes = Realms
    /\ \A r \in Realms : /\ DOMAIN Routes[r] \subseteq Names
                         /\ \A n \in DOMAIN Routes[r] :
                                Routes[r][n] \in Realms \ {r}

\* clean_realm_name: realms and routes are named by cleaned names.
ASSUME CleanedAssumption ==
    /\ Cleaned \in [Names -> Names]
    /\ \A n \in Names : Cleaned[Cleaned[n]] = Cleaned[n]
    /\ \A r \in Realms : /\ Cleaned[r] = r
                         /\ \A n \in DOMAIN Routes[r] : Cleaned[n] = n

----------------------------------------------------------------------------
(* An address in the origin or destination of a frame is a realm name, an  *)
(* "IP:Port" or a bare IP.  Only the first can equal a realm name, and     *)
(* only a name can match a route.                                          *)

Address == [kind : {"name", "ip:port", "ip"}, of : Names]

Name(n) == [kind |-> "name", of |-> n]
Endpoint(r) == [kind |-> "ip:port", of |-> r] \* build_origin_string
Ip(r) == [kind |-> "ip", of |-> r]

FrameTypes == {"PLEDGE", "PLEDGE_RESPONSE", "DISCONNECT",
               "LIST_REQUEST", "ORDER_HEADER", "ORDER_DATA",
               "ERROR_UNKNOWN", "ERROR_UNAUTHORIZED", "NACK"}

\* The payload: the first field of a PLEDGE is the sender's realm name, a
\* PLEDGE_RESPONSE says ACCEPT, REJECT or something that is neither.
Payloads == [realm  : Names \cup {NoRealm},
             answer : {"ACCEPT", "REJECT", "other", "none"}]

Frame == [type        : FrameTypes,
          origin      : Address,
          destination : Address,
          data        : Payloads]

NoData      == [realm |-> NoRealm, answer |-> "none"]
RealmData(r) == [realm |-> r, answer |-> "none"]
AnswerData(a) == [realm |-> NoRealm, answer |-> a]

\* frame_init, and the payload the caller then copies in
FrameInit(type, origin, destination, data) ==
    [type |-> type, origin |-> origin, destination |-> destination,
     data |-> data]

----------------------------------------------------------------------------
(* maester_resolve_route: the route of that name if its address is known,  *)
(* else the default route if it has one.  The result is the set of the     *)
(* names of the route to take, empty when there is none.                   *)

\* Mutant of ResolveRoute: the default route is preferred.
ResolveDefaultFirst(r, address) ==
    IF DEFAULT \in DOMAIN Routes[r] THEN {DEFAULT}
    ELSE {address.of} \cap DOMAIN Routes[r]

\* maester_resolve_route
ResolveRoute(r, address) ==
    IF address.kind = "name" /\ address.of \in DOMAIN Routes[r]
    THEN {address.of}
    ELSE {DEFAULT} \cap DOMAIN Routes[r]

=============================================================================
