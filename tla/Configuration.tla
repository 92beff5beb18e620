--------------------------- MODULE Configuration ---------------------------
(***************************************************************************)
(* load_maester_config reads the configuration file line by line;          *)
(* maester_resolve_route then searches the list of routes it has made.     *)
(* Citadel knows neither the file nor the list, only the function Routes   *)
(* that Frames resolves names with; Lifetime states that they agree.       *)
(***************************************************************************)
EXTENDS Naturals, Sequences

CONSTANTS
    Names,          \* the realms that routes are written for
    DEFAULT,        \* ROUTE_DEFAULT
    NoRealm,        \* the empty name
    Hops,           \* the listeners an address can name
    Me,             \* the realm whose file it is
    ConfigFiles     \* the files tried

\* A line is empty, has at least three words, or is any other text: short of
\* a word, or of the header.  The hop is NoRealm for *.*.*.* or port 0.
Lines == [kind : {"blank", "text"}]
         \cup [kind : {"route"}, name : Names, hop : Hops \cup {NoRealm}]

\* Realm, folder, envoys, IP, port and the marker of the routes.
HeaderLines == 6

ASSUME ConfigurationAssumption == ConfigFiles \subseteq Seq(Lines)

\* read_line_fd returns 0 for an empty line as it does at the end of the
\* file, and every line of the header must give more.
HasHeader(file) ==
    /\ Len(file) >= HeaderLines
    /\ \A i \in 1..HeaderLines : file[i].kind # "blank"

----------------------------------------------------------------------------
(* The loop over the routes, and the two searches in its result            *)

\* The comment says "until EOF", and empty lines are to be skipped, but the 0
\* of an empty line ends the loop before it is looked at.
ReadsOn(file, i) == i <= Len(file) /\ file[i].kind # "blank"

\* Lines short of a word are skipped, the others become routes (add_route).
LoadedRoutes(file) ==
    LET from[i \in 1..(Len(file) + 1)] ==
            IF ~ReadsOn(file, i) THEN <<>>
            ELSE IF file[i].kind = "route" THEN <<file[i]>> \o from[i + 1]
            ELSE from[i + 1]
    IN  from[HeaderLines + 1]

\* Mutant of FindRoute: a later line for a name replaces an earlier one.
FindLastRoute(routes, name) ==
    LET found == {i \in DOMAIN routes : routes[i].name = name}
    IN  {routes[i] : i \in {j \in found : \A k \in found : k <= j}}

\* maester_find_route and maester_find_default_route
FindRoute(routes, name) ==
    LET found == {i \in DOMAIN routes : routes[i].name = name}
    IN  {routes[i] : i \in {j \in found : \A k \in found : j <= k}}

\* maester_route_is_known
Known(found) == {route \in found : route.hop # NoRealm}

\* maester_resolve_route: the route taken, {} for NULL.
Resolve(routes, name) ==
    IF Known(FindRoute(routes, name)) # {}
    THEN Known(FindRoute(routes, name))
    ELSE Known(FindRoute(routes, DEFAULT))

----------------------------------------------------------------------------
(* What the file means: the routes are all the lines below the header      *)

RouteLines(file, name) ==
    {i \in (HeaderLines + 1)..Len(file) :
        file[i].kind = "route" /\ file[i].name = name}

\* The names whose first line has an address, each with that address.
RouteTable(file) ==
    LET first(n) == CHOOSE i \in RouteLines(file, n) :
                        \A j \in RouteLines(file, n) : i <= j
        names == {n \in Names : /\ RouteLines(file, n) # {}
                                /\ file[first(n)].hop # NoRealm}
    IN  [n \in names |-> file[first(n)].hop]

Table(file) ==
    INSTANCE Frames WITH Realms <- Hops \cup {Me},
                         Cleaned <- [n \in Names |-> n],
                         Routes <- [r \in Hops \cup {Me} |-> RouteTable(file)]

\* The list made of the file, searched as maester_resolve_route does, leads to
\* the next hops that Citadel resolves.
ReadAsMeant(file) ==
    \A name \in Names :
        {route.hop : route \in Resolve(LoadedRoutes(file), name)}
            = {RouteTable(file)[n] :
                   n \in Table(file)!ResolveRoute(Me, Table(file)!Name(name))}

\* An empty line below the header.
HasGap(file) ==
    \E i \in (HeaderLines + 1)..Len(file) : file[i].kind = "blank"

=============================================================================
