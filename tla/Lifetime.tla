------------------------------ MODULE Lifetime ------------------------------
(***************************************************************************)
(* The lives of one Maester as its user and its files see them: start,     *)
(* loop, trade menu, the stock written back at the end, and everything     *)
(* that cuts a life short.  The network is left out (Citadel has it); what *)
(* outlives the process is the stock database.                             *)
(***************************************************************************)
EXTENDS Cart, Configuration, Functions

CONSTANTS
    Inventory,  \* the records the database has before the first life
    MaxLives    \* bound on the starts

ASSUME LifetimeAssumption ==
    /\ Inventory \in Seq(Products)
    /\ MaxLives \in Nat

Stock == INSTANCE StockFile

VARIABLES
    phase,      \* what the process is doing
    lives,      \* how often it was started
    config,     \* the configuration file while it is loaded, then <<>>
    stock,      \* Maester.stock, <<>> for NULL
    cart,       \* shopping_list[0 .. item_count-1] of the trade menu
    exiting,    \* g_should_exit or shutting_down
    handled,    \* whether SIGINT still has its handler
    file,       \* the stock database
    found,      \* history: the records it had when this life began
    ending      \* history: how the last life ended

memory == <<config, stock, cart, exiting, handled>>
vars == <<phase, lives, memory, file, found, ending>>

Phases == {"down", "starting", "loop", "turn", "menu", "leaving", "saving"}

Endings == {"none",         \* still alive, or never was
            "refused",      \* no usable configuration, or no listener
            "orderly",      \* to the end of maester_run
            "unsaved",      \* the same, with a warning that saving failed
            "killed"}

\* The process is gone.
Ends(how) ==
    /\ phase' = "down"
    /\ ending' = how
    /\ config' = <<>>
    /\ stock' = <<>>
    /\ cart' = <<>>
    /\ exiting' = FALSE
    /\ handled' = FALSE

----------------------------------------------------------------------------
(* maester_run, before and after the loop                                  *)

\* signal(), and load_maester_config as far as the routes.
Start ==
    /\ phase = "down"
    /\ lives < MaxLives
    /\ phase' = "starting"
    /\ lives' = lives + 1
    /\ config' \in ConfigFiles
    /\ handled' = TRUE
    /\ found' = file.records
    /\ ending' = "none"
    /\ UNCHANGED <<stock, cart, exiting, file>>

\* load_stock, then maester_setup_listener.  From here on the routes are those
\* of Citadel.
Begin ==
    /\ phase = "starting"
    /\ HasHeader(config)
    /\ phase' = "loop"
    /\ config' = <<>>
    /\ stock' \in Stock!LoadOutcomes(file)
    /\ UNCHANGED <<lives, cart, exiting, handled, file, found, ending>>

\* die(): no header, no port, no memory.
Refuse ==
    /\ phase = "starting"
    /\ Ends("refused")
    /\ UNCHANGED <<lives, file, found>>

\* Mutant of Turn: the flag of the signal handler is not looked at.
TurnUnchecked ==
    /\ phase = "loop"
    /\ phase' = "turn"
    /\ UNCHANGED <<lives, memory, file, found, ending>>

\* while (!g_should_exit && !shutting_down), and poll() for half a second
\* at most.
Turn ==
    /\ phase = "loop"
    /\ ~exiting
    /\ phase' = "turn"
    /\ UNCHANGED <<lives, memory, file, found, ending>>

\* ... and out of it, to the farewells and the clean-up.
LeaveLoop ==
    /\ phase = "loop"
    /\ exiting
    /\ phase' = "leaving"
    /\ UNCHANGED <<lives, memory, file, found, ending>>

\* Mutant of HasStock: what is in memory is saved whatever it is.
HasStockAlways == TRUE

HasStock == stock # Stock!NullStock

\* Nothing to save, or the database cannot be opened for writing.
EndUnsaved ==
    /\ phase = "leaving"
    /\ Ends(IF HasStock THEN "unsaved" ELSE "orderly")
    /\ UNCHANGED <<lives, file, found>>

\* save_stock, first half: open() with O_TRUNC.
TruncateStock ==
    /\ phase = "leaving"
    /\ HasStock
    /\ phase' = "saving"
    /\ file' = Stock!EmptyFile
    /\ UNCHANGED <<lives, memory, found, ending>>

\* Second half: write(), and the end of maester_run.
WriteStock ==
    /\ phase = "saving"
    /\ \/ file' = Stock!CompleteWrite(stock) /\ Ends("orderly")
       \/ file' \in Stock!ShortWrites(stock) /\ Ends("unsaved")
    /\ UNCHANGED <<lives, found>>

----------------------------------------------------------------------------
(* A turn of the loop, and the trade menu                                  *)

\* Time-out, EINTR, or an event that does not concern this module.
NoCommand ==
    /\ phase = "turn"
    /\ phase' = "loop"
    /\ UNCHANGED <<lives, memory, file, found, ending>>

\* EXIT, the end of the input, or a poll() that fails.
Exit ==
    /\ phase = "turn"
    /\ phase' = "loop"
    /\ exiting' = TRUE
    /\ UNCHANGED <<lives, config, stock, cart, handled, file, found, ending>>

\* START TRADE, which refuses an empty inventory.
StartTrade ==
    /\ phase = "turn"
    /\ HasStock
    /\ phase' = "menu"
    /\ cart' = <<>>
    /\ UNCHANGED <<lives, config, stock, exiting, handled, file, found, ending>>

\* Only what is in stock can be added, and only a positive quantity.
Add(product, quantity) ==
    /\ phase = "menu"
    /\ \E i \in DOMAIN stock : stock[i] = product
    /\ quantity > 0
    /\ cart' = Added(cart, product, quantity)
    /\ UNCHANGED <<phase, lives, config, stock, exiting, handled>>
    /\ UNCHANGED <<file, found, ending>>

Remove(product, quantity) ==
    /\ phase = "menu"
    /\ cart' = Removed(cart, product, quantity)
    /\ UNCHANGED <<phase, lives, config, stock, exiting, handled>>
    /\ UNCHANGED <<file, found, ending>>

\* send, with something in the cart: the lines go to trade_<realm>.txt, a file
\* that this program never reads.  The stock is not touched.
Send ==
    /\ phase = "menu"
    /\ cart # <<>>
    /\ phase' = "loop"
    /\ cart' = <<>>
    /\ UNCHANGED <<lives, config, stock, exiting, handled, file, found, ending>>

\* cancel, exit, the end of the input, an error in read().
Cancel ==
    /\ phase = "menu"
    /\ phase' = "loop"
    /\ cart' = <<>>
    /\ UNCHANGED <<lives, config, stock, exiting, handled, file, found, ending>>

----------------------------------------------------------------------------
(* What comes from outside                                                 *)

\* The first SIGINT sets the flag.  Compiled as -std=c99, signal() installs
\* the handler for one delivery and does not restart system calls: read() in
\* the menu fails with EINTR, unless the signal comes between two reads.
Interrupt ==
    /\ phase # "down"
    /\ handled
    /\ handled' = FALSE
    /\ exiting' = TRUE
    /\ \/ UNCHANGED <<phase, cart>>
       \/ phase = "menu" /\ phase' = "loop" /\ cart' = <<>>
    /\ UNCHANGED <<lives, config, stock, file, found, ending>>

\* The second SIGINT, or another signal (SIGPIPE among the farewells).
Killed ==
    /\ phase # "down"
    /\ Ends("killed")
    /\ UNCHANGED <<lives, file, found>>

\* A line of blanks in the menu has no token, but tokens[0] is compared all
\* the same.  It may still point into the line buffer: to blanks, which are
\* no command; to an add or remove, of which only the usage is printed; to a
\* send or cancel of an earlier line, which is then obeyed.  Or it points
\* anywhere, and the process may die.
StaleCommand ==
    /\ phase = "menu"
    /\ UNCHANGED vars \/ Send \/ Cancel \/ Killed

----------------------------------------------------------------------------

Init ==
    /\ phase = "down"
    /\ lives = 0
    /\ config = <<>>
    /\ stock = <<>> /\ cart = <<>>
    /\ exiting = FALSE /\ handled = FALSE
    /\ file = [records |-> Inventory, torn |-> FALSE]
    /\ found = Inventory
    /\ ending = "none"

\* What the process does of itself once it runs.
Progress ==
    \/ Begin \/ Refuse \/ Turn \/ NoCommand
    \/ LeaveLoop \/ EndUnsaved \/ TruncateStock \/ WriteStock

User ==
    \/ Start \/ Exit \/ StartTrade \/ Send \/ Cancel
    \/ \E p \in Products, q \in Ints : Add(p, q) \/ Remove(p, q)

Next == Progress \/ User \/ StaleCommand \/ Interrupt \/ Killed

Spec == Init /\ [][Next]_vars

\* poll() returns after half a second; the rest only computes and writes.
FairSpec == Spec /\ WF_vars(Progress)

----------------------------------------------------------------------------
(* Properties                                                              *)

LifetimeTypeOK ==
    /\ phase \in Phases
    /\ lives \in 0..MaxLives
    /\ config \in Seq(Lines)
    /\ stock \in Seq(Products)
    /\ cart \in Seq(Line) /\ Len(cart) <= MaxLines
    /\ exiting \in BOOLEAN /\ handled \in BOOLEAN
    /\ file \in Stock!StockFiles
    /\ found \in Seq(Products)
    /\ ending \in Endings

IsBeginning(s, t) == Len(s) <= Len(t) /\ s = SubSeq(t, 1, Len(s))

\* Whatever was cut short in whatever life, nothing is in the database or in
\* memory that the first inventory did not have, in its order and once.
StockIsABeginning ==
    /\ IsBeginning(file.records, Inventory)
    /\ IsBeginning(stock, Inventory)

\* A life that ends as maester_run means to, after an interrupt, with or
\* without a stock it could load, leaves the records it found.
OrderlyEndsKeepTheStock == ending = "orderly" => file.records = found

\* Every quantity that can be sent is positive, negative removals included,
\* as long as no sum or difference of its line has overflowed.
OnlyOverflowSpoilsLines ==
    \A i \in DOMAIN cart : cart[i].wrapped \/ cart[i].quantity > 0

\* The interrupt, like EXIT, ends the process, unless the user stays in the
\* trade menu because the signal came between two of its reads.
InterruptEndsTheLoop == exiting ~> phase \in {"menu", "down"}

\* A file without an empty line among its routes is read as it is meant,
\* whatever lines are repeated, unknown or short, and wherever DEFAULT stands
\* (load_maester_config, maester_resolve_route): the first line for a name
\* counts, and one without an address leaves the name to the default.
LoadedRoutesAreTheTable ==
    HasHeader(config) /\ ~HasGap(config) => ReadAsMeant(config)

\* Every file is read as it is meant ("Read routes until EOF", maester.c 199,
\* with the skip of empty lines in 205-207).
RoutesAreReadUntilEOF == HasHeader(config) => ReadAsMeant(config)

\* A cart as Basket sees it.
Amounts(c) ==
    [p \in {c[i].product : i \in DOMAIN c} |->
        c[CHOOSE i \in DOMAIN c : c[i].product = p].quantity]

Shopping == INSTANCE Basket WITH Limit <- MaxLines, amounts <- Amounts(cart)

\* The array with its shifting lines is a function from products to amounts:
\* each request changes the amount of its own product, and that one as asked.
CartIsABasket ==
    /\ Shopping!BasketSpec
    /\ [][\A p \in Products, q \in Ints :
            /\ Add(p, q) => Shopping!Put(p, q)
            /\ Remove(p, q) => Shopping!Take(p, q)]_vars

=============================================================================
