------------------------------ MODULE OshRoutes ------------------------------
(* The route table of the request server (osh_node_proto.c): routes, which    *)
(* the application registers, in lists under their entries, which the server  *)
(* searches for each METHOD request.  Nothing locks the lists: the server may *)
(* stand anywhere in them while a registration links in something new.        *)
(*                                                                            *)
(* Memory is a set of addresses.  A list is its next pointers, since nothing  *)
(* here reads the previous ones; a list of routes starts and ends at the      *)
(* address of its entry, which holds its end marker.                          *)
EXTENDS Naturals

CONSTANTS Addr,       \* what malloc may return
          Top,        \* the end marker of entry_list
          Wild,       \* what memory holds that nobody has written
          Entries,    \* entry numbers
          Methods     \* method numbers

ASSUME RoutesAssumption == /\ Top \notin Addr
                           /\ Wild \notin Addr \cup {Top}
                           /\ Entries \cup Methods \subseteq Nat
                           /\ Entries # {} /\ Methods # {}

VARIABLES
    use,         \* what an address was allocated for
    key,         \* entry number or method there
    next_entry,  \* entry_list
    next_route,  \* route_list of every entry
    reg,         \* osh_node_route_register, the call under way
    registered,  \* routes whose registration has returned ESP_OK
    orphaned,    \* entries that were freed while they were listed
    look         \* the server's search for a route

heap_vars == << use, key, next_entry, next_route >>
reg_vars  == << reg, registered, orphaned >>
vars      == << heap_vars, reg_vars, look >>

Keys  == Entries \cup Methods \cup {Wild}
Route == [entry : Entries, method : Methods, at : Addr]

RegisterSteps == {"none", "find", "new_entry", "place_entry", "publish_entry",
                  "new_route", "place_route", "publish_route"}
LookupSteps   == {"none", "entries", "routes"}

Registration == [step : RegisterSteps, e : Entries, method : Methods,
                 entry : Addr \cup {Top}, route : Addr \cup {Top},
                 pos : Addr \cup {Top, Wild}]
Search       == [step : LookupSteps, e : Entries, method : Methods,
                 entry : Addr \cup {Top, Wild}, route : Addr \cup {Top, Wild},
                 due : SUBSET Route, seen : SUBSET Addr]

RoutesTypeOK ==
    /\ use \in [Addr -> {"free", "entry", "route"}]
    /\ key \in [Addr -> Keys]
    /\ next_entry \in [Addr \cup {Top} -> Addr \cup {Top, Wild}]
    /\ next_route \in [Addr -> Addr \cup {Wild}]
    /\ reg \in Registration
    /\ registered \subseteq Route
    /\ orphaned \subseteq Addr
    /\ look \in Search

AnEntry == CHOOSE e \in Entries : TRUE
AMethod == CHOOSE m \in Methods : TRUE

NoRegistration == [step |-> "none", e |-> AnEntry, method |-> AMethod,
                   entry |-> Top, route |-> Top, pos |-> Top]
NoLookup == [step |-> "none", e |-> AnEntry, method |-> AMethod,
             entry |-> Top, route |-> Top, due |-> {}, seen |-> {}]

(* osh_node_proto_init has initialised the empty entry_list.                  *)
RoutesInit ==
    /\ use = [a \in Addr |-> "free"]
    /\ key = [a \in Addr |-> Wild]
    /\ next_entry = [a \in Addr \cup {Top} |-> IF a = Top THEN Top ELSE Wild]
    /\ next_route = [a \in Addr |-> Wild]
    /\ reg = NoRegistration
    /\ registered = {}
    /\ orphaned = {}
    /\ look = NoLookup

Reboot ==
    /\ use' = [a \in Addr |-> "free"]
    /\ key' = [a \in Addr |-> Wild]
    /\ next_entry' = [a \in Addr \cup {Top} |-> IF a = Top THEN Top ELSE Wild]
    /\ next_route' = [a \in Addr |-> Wild]
    /\ reg' = NoRegistration
    /\ registered' = {}
    /\ orphaned' = {}
    /\ look' = NoLookup

IsEntry(a) == a \in Addr /\ use[a] = "entry"
IsRoute(a) == a \in Addr /\ use[a] = "route"

-----------------------------------------------------------------------------
(* osh_node_route_register, in one task of the application.                   *)
RegisterBegins(e, m) ==
    /\ reg.step = "none"
    /\ reg' = [NoRegistration EXCEPT !.step = "find", !.e = e, !.method = m,
                                     !.pos = next_entry[Top]]
    /\ UNCHANGED << heap_vars, registered, orphaned, look >>

FindNext == /\ IsEntry(reg.pos)
            /\ key[reg.pos] # reg.e
            /\ reg' = [reg EXCEPT !.pos = next_entry[reg.pos]]

FindGivesUp == /\ reg.pos = Top \/ IsEntry(reg.pos)           \* mutant
               /\ reg' = [reg EXCEPT !.step = "new_entry", !.pos = Top]

FindFails == /\ reg.pos = Top
             /\ reg' = [reg EXCEPT !.step = "new_entry"]

FindSucceeds == /\ IsEntry(reg.pos)
                /\ key[reg.pos] = reg.e
                /\ reg' = [reg EXCEPT !.step = "new_route", !.entry = reg.pos]

FindEntry == /\ reg.step = "find"
             /\ FindNext \/ FindFails \/ FindSucceeds
             /\ UNCHANGED << heap_vars, registered, orphaned, look >>

(* A new entry has its number and an empty list before it is linked.          *)
NewEntryWith(a, first) ==
    /\ reg.step = "new_entry"
    /\ use[a] = "free"
    /\ use' = [use EXCEPT ![a] = "entry"]
    /\ key' = [key EXCEPT ![a] = reg.e]
    /\ next_route' = [next_route EXCEPT ![a] = first]
    /\ next_entry' = [next_entry EXCEPT ![a] = Wild]
    /\ reg' = [reg EXCEPT !.step = "place_entry", !.entry = a, !.pos = Top]
    /\ UNCHANGED << registered, orphaned, look >>

NewEntryUnready(a) == NewEntryWith(a, Wild)                    \* mutant
NewEntry(a) == NewEntryWith(a, a)

NewEntryFailsClears == /\ reg.step = "new_entry"              \* mutant
                       /\ orphaned' = orphaned \cup {reg.entry}
                       /\ reg' = NoRegistration
                       /\ UNCHANGED << heap_vars, registered, look >>

NewEntryFails == /\ reg.step = "new_entry"
                 /\ reg' = NoRegistration
                 /\ UNCHANGED << heap_vars, registered, orphaned, look >>

(* vListInsert by the entry's item value, which is never written: the entry   *)
(* may come to stand anywhere.                                                *)
PassEntry == /\ reg.step = "place_entry"
             /\ IsEntry(next_entry[reg.pos])
             /\ reg' = [reg EXCEPT !.pos = next_entry[reg.pos]]
             /\ UNCHANGED << heap_vars, registered, orphaned, look >>

PlaceEntry == /\ reg.step = "place_entry"
              /\ next_entry' = [next_entry EXCEPT ![reg.entry] = next_entry[reg.pos]]
              /\ reg' = [reg EXCEPT !.step = "publish_entry"]
              /\ UNCHANGED << use, key, next_route, registered, orphaned, look >>

PublishEntry == /\ reg.step = "publish_entry"
                /\ next_entry' = [next_entry EXCEPT ![reg.pos] = reg.entry]
                /\ reg' = [reg EXCEPT !.step = "new_route"]
                /\ UNCHANGED << use, key, next_route, registered, orphaned, look >>

-----------------------------------------------------------------------------
NewRoute(a) == /\ reg.step = "new_route"
               /\ use[a] = "free"
               /\ use' = [use EXCEPT ![a] = "route"]
               /\ key' = [key EXCEPT ![a] = reg.method]
               /\ next_route' = [next_route EXCEPT ![a] = Wild]
               /\ reg' = [reg EXCEPT !.step = "place_route", !.route = a,
                                     !.pos = reg.entry]
               /\ UNCHANGED << next_entry, registered, orphaned, look >>

(* With no memory for the route, the entry is freed and stays in its list,    *)
(* even one that an earlier call has made and filled.                         *)
NewRouteFails == /\ reg.step = "new_route"
                 /\ use' = [use EXCEPT ![reg.entry] = "free"]
                 /\ key' = [key EXCEPT ![reg.entry] = Wild]
                 /\ next_entry' = [next_entry EXCEPT ![reg.entry] = Wild]
                 /\ next_route' = [next_route EXCEPT ![reg.entry] = Wild]
                 /\ orphaned' = orphaned \cup {reg.entry}
                 /\ reg' = NoRegistration
                 /\ UNCHANGED << registered, look >>

(* vListInsert by method, after the routes of the same method.                *)
GoesBefore(r, m) == IsRoute(r) /\ key[r] <= m

PassRoute == /\ reg.step = "place_route"
             /\ GoesBefore(next_route[reg.pos], reg.method)
             /\ reg' = [reg EXCEPT !.pos = next_route[reg.pos]]
             /\ UNCHANGED << heap_vars, registered, orphaned, look >>

(* The place found is the first whose next route does not go before the new   *)
(* one, which comes to stand between the two.                                 *)
PlaceRouteBefore(next) ==
    /\ reg.step = "place_route"
    /\ ~ GoesBefore(next_route[reg.pos], reg.method)
    /\ next_route' = [next_route EXCEPT ![reg.route] = next]
    /\ reg' = [reg EXCEPT !.step = "publish_route"]
    /\ UNCHANGED << use, key, next_entry, registered, orphaned, look >>

PlaceRouteLast == PlaceRouteBefore(reg.entry)                      \* mutant
PlaceRouteBeforeFirst == PlaceRouteBefore(next_route[reg.entry])   \* mutant
PlaceRoute == PlaceRouteBefore(next_route[reg.pos])

PublishRoute == /\ reg.step = "publish_route"
                /\ next_route' = [next_route EXCEPT ![reg.pos] = reg.route]
                /\ registered' = registered \cup
                       {[entry |-> reg.e, method |-> reg.method, at |-> reg.route]}
                /\ reg' = NoRegistration
                /\ UNCHANGED << use, key, next_entry, orphaned, look >>

Register == \/ FindEntry
            \/ \E a \in Addr : NewEntry(a) \/ NewRoute(a)
            \/ NewEntryFails \/ NewRouteFails
            \/ PassEntry \/ PlaceEntry \/ PublishEntry
            \/ PassRoute \/ PlaceRoute \/ PublishRoute

-----------------------------------------------------------------------------
(* The search of handle_mdm_pdu and handle_app_pdu, in the server's task.     *)
LookupBegins(e, m) ==
    /\ look.step = "none"
    /\ look' = [NoLookup EXCEPT
                  !.step = "entries", !.e = e, !.method = m,
                  !.entry = next_entry[Top],
                  !.due = {r \in registered : r.entry = e /\ r.method = m}]
    /\ UNCHANGED << heap_vars, reg_vars >>

LookupStep == UNCHANGED << heap_vars, reg_vars >>

PassOtherEntry == /\ look.step = "entries"
                  /\ IsEntry(look.entry)
                  /\ key[look.entry] # look.e
                  /\ look' = [look EXCEPT !.entry = next_entry[look.entry]]
                  /\ LookupStep

EnterEntry == /\ look.step = "entries"
              /\ IsEntry(look.entry)
              /\ key[look.entry] = look.e
              /\ look' = [look EXCEPT !.step = "routes", !.route = next_route[look.entry]]
              /\ LookupStep

LeaveEntryStays == /\ look.step = "routes"                     \* mutant
                   /\ look.route = look.entry
                   /\ look' = [look EXCEPT !.step = "entries"]
                   /\ LookupStep

LeaveEntry == /\ look.step = "routes"
              /\ look.route = look.entry
              /\ look' = [look EXCEPT !.step = "entries", !.route = Top,
                                      !.entry = next_entry[look.entry]]
              /\ LookupStep

(* The handler a route was registered with is not stored in it: route_cb is   *)
(* what memset has left.                                                      *)
RouteCb(r) == "NULL"

(* A route of the method without a handler is passed over.  The branch that   *)
(* calls one is dead code, and no step here.                                  *)
PassRouteInSearch ==
    /\ look.step = "routes"
    /\ look.route # look.entry
    /\ IsRoute(look.route)
    /\ key[look.route] # look.method \/ RouteCb(look.route) = "NULL"
    /\ look' = [look EXCEPT
                  !.route = next_route[look.route],
                  !.seen  = IF key[look.route] = look.method
                            THEN @ \cup {look.route} ELSE @]
    /\ LookupStep

(* NOT_FOUND.                                                                 *)
LookupEnds == /\ look.step = "entries"
              /\ look.entry = Top
              /\ look' = NoLookup
              /\ LookupStep

Lookup == \/ PassOtherEntry \/ EnterEntry \/ LeaveEntry
          \/ PassRouteInSearch
          \/ LookupEnds

-----------------------------------------------------------------------------
(* A traversal is about to use memory that is not what it takes it for: it    *)
(* crashes the chip, or leads anywhere.                                       *)
RegisterAstray ==
    \/ reg.step = "find" /\ reg.pos # Top /\ ~ IsEntry(reg.pos)
    \/ /\ reg.step = "place_entry"
       /\ next_entry[reg.pos] # Top
       /\ ~ IsEntry(next_entry[reg.pos])
    \/ /\ reg.step = "place_route"
       /\ next_route[reg.pos] # reg.entry
       /\ ~ IsRoute(next_route[reg.pos])

LookupAstray ==
    \/ look.step = "entries" /\ look.entry # Top /\ ~ IsEntry(look.entry)
    \/ look.step = "routes" /\ look.route # look.entry /\ ~ IsRoute(look.route)

Crash == /\ RegisterAstray \/ LookupAstray
         /\ Reboot

StraysOn == /\ LookupAstray
            /\ \E a \in Addr \cup {Top} :
                  look' = [look EXCEPT !.step = "entries", !.entry = a]
            /\ LookupStep

RoutesNext == \/ \E e \in Entries, m \in Methods : RegisterBegins(e, m) \/ LookupBegins(e, m)
              \/ Register
              \/ Lookup
              \/ Crash \/ StraysOn

RoutesSafety == RoutesInit /\ [][RoutesNext]_vars

(* The server is not suspended for good in the middle of a search.  Nobody    *)
(* has to register anything.                                                  *)
RoutesSpec == RoutesSafety /\ WF_vars(Lookup)

-----------------------------------------------------------------------------
(* No route has been refused for lack of memory: what is in the lists is      *)
(* still allocated.  A refused entry does no harm.                            *)
Intact == orphaned = {}

(* Whatever is being registered, and wherever the other task stands, the      *)
(* traversals of the unlocked lists meet nothing but entries and routes that  *)
(* are ready to be read.                                                      *)
TraversalsStayInLists == Intact => ~ RegisterAstray /\ ~ LookupAstray

(* Registrations of one number share one entry.                               *)
OneEntryPerNumber ==
    Intact => \A a, b \in Addr : IsEntry(a) /\ IsEntry(b) /\ key[a] = key[b] => a = b

(* A search passes every route that matches it and whose registration had     *)
(* returned ESP_OK when it began, although other registrations link new       *)
(* entries and routes around it, and before it, meanwhile.                    *)
RegisteredIsMatched ==
    [][(LookupEnds /\ Intact) => (\A r \in look.due : r.at \in look.seen)]_vars

(* A search passes no route that matches it twice: a route linked in before   *)
(* or behind it leads it back to none.                                        *)
RoutesPassedOnce ==
    [][(PassRouteInSearch /\ Intact) => look.route \notin look.seen]_vars

(* A search comes to an end, as long as the lists are intact: nothing linked  *)
(* in before or behind it makes it go round.                                  *)
LookupsReturn == []Intact => (look.step # "none" ~> look.step = "none")

(* What a registration lists, the traversals can read from then on            *)
(* (osh_node_proto.c:717, "add entry to list"), also after a later            *)
(* registration has been refused for lack of memory (osh_node_proto.c:744).   *)
ListsStayReadable == ~ RegisterAstray /\ ~ LookupAstray

(* A request for a registered route is answered by its handler, not with      *)
(* NOT_FOUND (osh_node_proto.h:77, "register route callback").                *)
RegisteredRouteIsServed == [][LookupEnds => look.due = {}]_vars
=============================================================================
