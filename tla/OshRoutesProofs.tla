--------------------------- MODULE OshRoutesProofs ---------------------------
(* Proofs about the route table, for memory of any size and any numbers of    *)
(* entries and methods.                                                       *)
EXTENDS OshRoutes, TLAPS

(* What the steps of a registration and of a search have in hand.             *)
InHand ==
    /\ reg.step \in {"place_entry", "publish_entry"} =>
          reg.entry \in Addr /\ reg.pos \in Addr \cup {Top}
    /\ reg.step \in {"new_route", "place_route", "publish_route"} => reg.entry \in Addr
    /\ reg.step \in {"place_route", "publish_route"} =>
          reg.route \in Addr /\ reg.pos \in Addr
    /\ look.step = "entries" => look.entry \in Addr \cup {Top, Wild}
    /\ look.step = "routes" => look.entry \in Addr

TypeInv == RoutesTypeOK /\ InHand

(* The idle registration and the idle search have their types.                *)
LEMMA EmptyRecords ==
  /\ NoRegistration \in Registration
  /\ NoRegistration.step = "none"
  /\ NoLookup \in Search
  /\ NoLookup.step = "none"
<1>1. AnEntry \in Entries /\ AMethod \in Methods
  BY RoutesAssumption DEF AnEntry, AMethod
<1> QED  BY <1>1 DEF NoRegistration, NoLookup, Registration, Search, RegisterSteps, LookupSteps

(* So has the memory of a chip just switched on.                              *)
LEMMA EmptyTable ==
  /\ [a \in Addr |-> "free"] \in [Addr -> {"free", "entry", "route"}]
  /\ [a \in Addr |-> Wild] \in [Addr -> Keys]
  /\ [a \in Addr |-> Wild] \in [Addr -> Addr \cup {Wild}]
  /\ [a \in Addr \cup {Top} |-> IF a = Top THEN Top ELSE Wild]
        \in [Addr \cup {Top} -> Addr \cup {Top, Wild}]
  BY DEF Keys

(* The types hold at the start,                                               *)
LEMMA InitType == RoutesInit => TypeInv
<1> SUFFICES ASSUME RoutesInit PROVE TypeInv
  OBVIOUS
<1>1. /\ use \in [Addr -> {"free", "entry", "route"}]
      /\ key \in [Addr -> Keys]
      /\ next_route \in [Addr -> Addr \cup {Wild}]
      /\ next_entry \in [Addr \cup {Top} -> Addr \cup {Top, Wild}]
  BY EmptyTable DEF RoutesInit
<1> QED  BY <1>1, EmptyRecords DEF RoutesInit, TypeInv, RoutesTypeOK, InHand

(* and after a restart.                                                       *)
LEMMA RebootType == Reboot => TypeInv'
<1> SUFFICES ASSUME Reboot PROVE TypeInv'
  OBVIOUS
<1>1. /\ use' \in [Addr -> {"free", "entry", "route"}]
      /\ key' \in [Addr -> Keys]
      /\ next_route' \in [Addr -> Addr \cup {Wild}]
      /\ next_entry' \in [Addr \cup {Top} -> Addr \cup {Top, Wild}]
  BY EmptyTable DEF Reboot
<1> QED  BY <1>1, EmptyRecords DEF Reboot, TypeInv, RoutesTypeOK, InHand

-----------------------------------------------------------------------------
(* Each step of a registration, told by what it makes of reg.                 *)
LEMMA BeginsReg ==
  ASSUME NEW e \in Entries, NEW m \in Methods, RegisterBegins(e, m), TypeInv
  PROVE  /\ reg' \in Registration
         /\ reg'.step = "find" /\ reg'.pos = next_entry[Top]
<1>1. next_entry[Top] \in Addr \cup {Top, Wild}
  BY DEF TypeInv, RoutesTypeOK
<1> QED  BY <1>1, EmptyRecords DEF RegisterBegins, Registration, RegisterSteps

(* What each step of a registration has in hand afterwards: the comparisons   *)
(* with the listed entries,                                                   *)
LEMMA FindReg ==
  ASSUME FindEntry, TypeInv
  PROVE  /\ reg' \in Registration
         /\ UNCHANGED << heap_vars, registered, orphaned, look >>
         /\ reg.step = "find"
         /\ \/ reg'.step = "find" /\ IsEntry(reg.pos) /\ reg'.pos = next_entry[reg.pos]
            \/ reg'.step = "new_entry"
            \/ reg'.step = "new_route" /\ IsEntry(reg.pos) /\ reg'.entry = reg.pos
<1>1. CASE FindNext
  <2>1. next_entry[reg.pos] \in Addr \cup {Top, Wild} /\ reg.step = "find"
    BY <1>1 DEF TypeInv, RoutesTypeOK, FindNext, IsEntry, FindEntry
  <2> QED  BY <1>1, <2>1 DEF FindNext, FindEntry, TypeInv, RoutesTypeOK, Registration
<1>2. CASE FindFails
  BY <1>2 DEF FindFails, FindEntry, TypeInv, RoutesTypeOK, Registration, RegisterSteps
<1>3. CASE FindSucceeds
  BY <1>3 DEF FindSucceeds, FindEntry, TypeInv, RoutesTypeOK, Registration, RegisterSteps,
              IsEntry
<1> QED  BY <1>1, <1>2, <1>3 DEF FindEntry

(* an entry allocated,                                                        *)
LEMMA NewEntryReg ==
  ASSUME NEW a \in Addr, NewEntry(a), TypeInv
  PROVE  /\ reg' \in Registration
         /\ reg'.step = "place_entry" /\ reg'.entry = a /\ reg'.pos = Top
  BY DEF NewEntry, NewEntryWith, TypeInv, RoutesTypeOK, Registration, RegisterSteps

(* an entry passed by vListInsert,                                            *)
LEMMA PassEntryReg ==
  ASSUME PassEntry, TypeInv
  PROVE  /\ reg' \in Registration
         /\ reg'.step = "place_entry" /\ reg'.entry = reg.entry
         /\ reg'.pos = next_entry[reg.pos] /\ reg'.pos \in Addr
  BY DEF PassEntry, IsEntry, TypeInv, RoutesTypeOK, Registration

(* the place of the new entry found,                                          *)
LEMMA PlaceEntryReg ==
  ASSUME PlaceEntry, TypeInv
  PROVE  /\ reg' \in Registration
         /\ reg'.step = "publish_entry" /\ reg'.entry = reg.entry /\ reg'.pos = reg.pos
  BY DEF PlaceEntry, TypeInv, RoutesTypeOK, Registration, RegisterSteps

(* the new entry linked in,                                                   *)
LEMMA PublishEntryReg ==
  ASSUME PublishEntry, TypeInv
  PROVE  /\ reg' \in Registration
         /\ reg'.step = "new_route" /\ reg'.entry = reg.entry
  BY DEF PublishEntry, TypeInv, RoutesTypeOK, Registration, RegisterSteps

(* a route allocated,                                                         *)
LEMMA NewRouteReg ==
  ASSUME NEW a \in Addr, NewRoute(a), TypeInv
  PROVE  /\ reg' \in Registration
         /\ reg'.step = "place_route" /\ reg'.route = a
         /\ reg'.entry = reg.entry /\ reg'.pos = reg.entry
  BY DEF NewRoute, TypeInv, RoutesTypeOK, Registration, RegisterSteps

(* a route passed by vListInsert,                                             *)
LEMMA PassRouteReg ==
  ASSUME PassRoute, TypeInv
  PROVE  /\ reg' \in Registration
         /\ reg'.step = "place_route" /\ reg'.route = reg.route /\ reg'.entry = reg.entry
         /\ reg'.pos = next_route[reg.pos] /\ IsRoute(reg'.pos)
  BY DEF PassRoute, GoesBefore, IsRoute, TypeInv, RoutesTypeOK, Registration, heap_vars

(* and the place of the new route found.                                      *)
LEMMA PlaceRouteReg ==
  ASSUME PlaceRoute, TypeInv
  PROVE  /\ reg' \in Registration
         /\ reg'.step = "publish_route" /\ reg'.route = reg.route
         /\ reg'.entry = reg.entry /\ reg'.pos = reg.pos
  BY DEF PlaceRoute, PlaceRouteBefore, TypeInv, RoutesTypeOK, Registration, RegisterSteps

-----------------------------------------------------------------------------
(* The steps that leave the search alone keep the types.                      *)
LEMMA RegisterType ==
  ASSUME TypeInv,
         Register \/ (\E e \in Entries, m \in Methods : RegisterBegins(e, m))
  PROVE  TypeInv'
<1> USE DEF TypeInv
<1>1. CASE \E e \in Entries, m \in Methods : RegisterBegins(e, m)
  <2>1. PICK e \in Entries, m \in Methods : RegisterBegins(e, m)
    BY <1>1
  <2>2. UNCHANGED << heap_vars, registered, orphaned, look >>
    BY <2>1 DEF RegisterBegins
  <2> QED  BY <2>1, <2>2, BeginsReg DEF RoutesTypeOK, InHand, heap_vars
<1>2. CASE FindEntry
  BY <1>2, FindReg DEF RoutesTypeOK, InHand, heap_vars, IsEntry
<1>3. CASE \E a \in Addr : NewEntry(a)
  <2>1. PICK a \in Addr : NewEntry(a)
    BY <1>3
  <2>2. reg.e \in Entries
    BY DEF RoutesTypeOK, Registration
  <2>3. RoutesTypeOK'
    BY <2>1, <2>2, NewEntryReg DEF RoutesTypeOK, NewEntry, NewEntryWith, Keys
  <2>4. InHand'
    BY <2>1, NewEntryReg DEF InHand, NewEntry, NewEntryWith
  <2> QED  BY <2>3, <2>4
<1>4. CASE \E a \in Addr : NewRoute(a)
  <2>1. PICK a \in Addr : NewRoute(a)
    BY <1>4
  <2>2. reg.method \in Methods /\ reg.entry \in Addr
    BY <2>1 DEF RoutesTypeOK, Registration, NewRoute, InHand
  <2>3. RoutesTypeOK'
    BY <2>1, <2>2, NewRouteReg DEF RoutesTypeOK, NewRoute, Keys
  <2>4. InHand'
    BY <2>1, <2>2, NewRouteReg DEF InHand, NewRoute
  <2> QED  BY <2>3, <2>4
<1>5. CASE NewEntryFails
  BY <1>5, EmptyRecords DEF NewEntryFails, RoutesTypeOK, InHand, heap_vars
<1>6. CASE NewRouteFails
  <2>1. reg.entry \in Addr
    BY <1>6 DEF NewRouteFails, InHand
  <2>2. RoutesTypeOK'
    BY <1>6, <2>1, EmptyRecords DEF NewRouteFails, RoutesTypeOK, Keys
  <2> QED  BY <1>6, <2>2, EmptyRecords DEF NewRouteFails, InHand
<1>7. CASE PassEntry
  BY <1>7, PassEntryReg DEF PassEntry, RoutesTypeOK, InHand, heap_vars
<1>8. CASE PlaceEntry
  <2>1. reg.entry \in Addr /\ reg.pos \in Addr \cup {Top}
    BY <1>8 DEF PlaceEntry, InHand
  <2> QED  BY <1>8, <2>1, PlaceEntryReg DEF PlaceEntry, RoutesTypeOK, InHand
<1>9. CASE PublishEntry
  <2>1. reg.entry \in Addr /\ reg.pos \in Addr \cup {Top}
    BY <1>9 DEF PublishEntry, InHand
  <2> QED  BY <1>9, <2>1, PublishEntryReg DEF PublishEntry, RoutesTypeOK, InHand
<1>10. CASE PassRoute
  BY <1>10, PassRouteReg DEF PassRoute, RoutesTypeOK, InHand, heap_vars, IsRoute
<1>11. CASE PlaceRoute
  <2>1. reg.entry \in Addr /\ reg.pos \in Addr /\ reg.route \in Addr
    BY <1>11 DEF PlaceRoute, PlaceRouteBefore, InHand
  <2> QED  BY <1>11, <2>1, PlaceRouteReg
           DEF PlaceRoute, PlaceRouteBefore, RoutesTypeOK, InHand
<1>12. CASE PublishRoute
  <2>1. /\ reg.pos \in Addr /\ reg.route \in Addr
        /\ [entry |-> reg.e, method |-> reg.method, at |-> reg.route] \in Route
    BY <1>12 DEF PublishRoute, InHand, RoutesTypeOK, Registration, Route
  <2> QED  BY <1>12, <2>1, EmptyRecords DEF PublishRoute, RoutesTypeOK, InHand
<1> QED  BY <1>1, <1>2, <1>3, <1>4, <1>5, <1>6, <1>7, <1>8, <1>9, <1>10, <1>11, <1>12
            DEF Register

(* Each step of a search.                                                     *)
LEMMA SearchStep ==
  ASSUME TypeInv,
         Lookup \/ (\E e \in Entries, m \in Methods : LookupBegins(e, m))
  PROVE  /\ look' \in Search
         /\ UNCHANGED << heap_vars, reg_vars >>
         /\ \/ look'.step = "none"
            \/ look'.step = "entries" /\ look'.entry = next_entry[Top]
            \/ /\ look'.step = "entries"
               /\ look.entry \in Addr
               /\ look.step \in {"entries", "routes"}
               /\ look.step = "entries" => IsEntry(look.entry)
               /\ look'.entry = next_entry[look.entry]
            \/ /\ look'.step = "routes"
               /\ look'.entry = look.entry
               /\ \/ look.step = "entries" /\ IsEntry(look.entry)
                     /\ look'.route = next_route[look.entry]
                  \/ look.step = "routes" /\ IsRoute(look.route)
                     /\ look'.route = next_route[look.route]
<1> USE DEF TypeInv
<1>1. CASE \E e \in Entries, m \in Methods : LookupBegins(e, m)
  <2>1. PICK e \in Entries, m \in Methods : LookupBegins(e, m)
    BY <1>1
  <2>2. /\ next_entry[Top] \in Addr \cup {Top, Wild}
        /\ {r \in registered : r.entry = e /\ r.method = m} \in SUBSET Route
    BY DEF RoutesTypeOK
  <2> QED  BY <2>1, <2>2, EmptyRecords DEF LookupBegins, Search, LookupSteps
<1>2. CASE PassOtherEntry
  <2>1. next_entry[look.entry] \in Addr \cup {Top, Wild}
    BY <1>2 DEF PassOtherEntry, IsEntry, RoutesTypeOK
  <2> QED  BY <1>2, <2>1 DEF PassOtherEntry, LookupStep, IsEntry, RoutesTypeOK, Search
<1>3. CASE EnterEntry
  <2>1. next_route[look.entry] \in Addr \cup {Top, Wild}
    BY <1>3 DEF EnterEntry, IsEntry, RoutesTypeOK
  <2> QED  BY <1>3, <2>1 DEF EnterEntry, LookupStep, RoutesTypeOK, Search, LookupSteps
<1>4. CASE LeaveEntry
  <2>1. look.entry \in Addr /\ next_entry[look.entry] \in Addr \cup {Top, Wild}
    BY <1>4 DEF LeaveEntry, InHand, RoutesTypeOK
  <2> QED  BY <1>4, <2>1 DEF LeaveEntry, LookupStep, RoutesTypeOK, Search, LookupSteps
<1>5. CASE PassRouteInSearch
  <2>1. /\ next_route[look.route] \in Addr \cup {Top, Wild}
        /\ (IF key[look.route] = look.method
              THEN look.seen \cup {look.route} ELSE look.seen) \in SUBSET Addr
    BY <1>5 DEF PassRouteInSearch, IsRoute, RoutesTypeOK, Search
  <2> DEFINE seen == IF key[look.route] = look.method
                     THEN look.seen \cup {look.route} ELSE look.seen
  <2>2. look' = [look EXCEPT !.route = next_route[look.route], !.seen = seen]
    BY <1>5 DEF PassRouteInSearch
  <2>3. seen \in SUBSET Addr
    BY <2>1
  <2> HIDE DEF seen
  <2> QED  BY <1>5, <2>1, <2>2, <2>3 DEF PassRouteInSearch, LookupStep, RoutesTypeOK, Search
<1>6. CASE LookupEnds
  BY <1>6, EmptyRecords DEF LookupEnds, LookupStep
<1> QED  BY <1>1, <1>2, <1>3, <1>4, <1>5, <1>6 DEF Lookup

(* The steps of a search keep the types of everything.                        *)
LEMMA SearchType ==
  ASSUME TypeInv,
         Lookup \/ (\E e \in Entries, m \in Methods : LookupBegins(e, m))
  PROVE  TypeInv'
<1>1. look'.step = "entries" => look'.entry \in Addr \cup {Top, Wild}
  BY SearchStep DEF Search
<1>2. look'.step = "routes" => look'.entry \in Addr
  BY SearchStep DEF TypeInv, InHand, IsEntry
<1> QED  BY <1>1, <1>2, SearchStep DEF TypeInv, RoutesTypeOK, InHand, heap_vars, reg_vars

(* So does a search that goes astray.                                         *)
LEMMA StraysType ==
  ASSUME TypeInv, StraysOn
  PROVE  TypeInv'
<1>1. look' \in Search /\ look'.step = "entries" /\ UNCHANGED << heap_vars, reg_vars >>
  BY DEF StraysOn, LookupStep, TypeInv, RoutesTypeOK, Search, LookupSteps
<1>2. look'.entry \in Addr \cup {Top, Wild}
  BY <1>1 DEF Search
<1> QED  BY <1>1, <1>2 DEF TypeInv, RoutesTypeOK, InHand, heap_vars, reg_vars

(* Every step keeps the types and what is in hand.                            *)
LEMMA TypeStep == TypeInv /\ [RoutesNext]_vars => TypeInv'
<1> SUFFICES ASSUME TypeInv, [RoutesNext]_vars PROVE TypeInv'
  OBVIOUS
<1>1. CASE UNCHANGED vars
  BY <1>1 DEF vars, heap_vars, reg_vars, TypeInv, RoutesTypeOK, InHand
<1>2. CASE RoutesNext
  BY <1>2, RegisterType, SearchType, StraysType, RebootType DEF RoutesNext, Crash
<1> QED  BY <1>1, <1>2

(* The inductive invariant behind the types: what osh_node_route_register     *)
(* and the dispatchers have in hand is where they can go on.                  *)
THEOREM RoutesTypeInvariant == RoutesSafety => []TypeInv
  BY InitType, TypeStep, PTL DEF RoutesSafety

(* No pointer ever holds anything but an address, an end marker or what       *)
(* memory holds that was not written, even after memory has run out.          *)
THEOREM RoutesTypeCorrect == RoutesSafety => []RoutesTypeOK
<1>1. TypeInv => RoutesTypeOK
  BY DEF TypeInv
<1> QED  BY <1>1, RoutesTypeInvariant, PTL
-----------------------------------------------------------------------------
(* The lists.  An entry or a route that is still being linked in is in none.  *)
ListedEntry(a) == /\ IsEntry(a)
                  /\ ~ (reg.step \in {"place_entry", "publish_entry"} /\ a = reg.entry)

ListedRoute(a) == /\ IsRoute(a)
                  /\ ~ (reg.step \in {"place_route", "publish_route"} /\ a = reg.route)

OnTop(a) == a = Top \/ ListedEntry(a)

(* A place in the list of routes of entry e, given whose list each address is *)
(* in: its end marker, or a route of it.                                      *)
Under(own, e, a) == a = e \/ (ListedRoute(a) /\ own[a] = e)

(* From every place in a list the next one is in the same list.               *)
ListsClosed(own) ==
    /\ \A a \in Addr \cup {Top} : OnTop(a) => OnTop(next_entry[a])
    /\ \A a \in Addr : IsEntry(a) => Under(own, a, next_route[a])
    /\ \A a \in Addr : ListedRoute(a) =>
          IsEntry(own[a]) /\ Under(own, own[a], next_route[a])

(* Neither task has left the lists.                                           *)
RegisterOnLists(own) ==
    /\ reg.step = "find" => OnTop(reg.pos)
    /\ reg.step \in {"place_entry", "publish_entry"} =>
          IsEntry(reg.entry) /\ OnTop(reg.pos)
    /\ reg.step = "publish_entry" => OnTop(next_entry[reg.entry])
    /\ reg.step \in {"new_route", "place_route", "publish_route"} => IsEntry(reg.entry)
    /\ reg.step \in {"place_route", "publish_route"} =>
          /\ IsRoute(reg.route) /\ own[reg.route] = reg.entry
          /\ Under(own, reg.entry, reg.pos)
    /\ reg.step = "publish_route" => Under(own, reg.entry, next_route[reg.route])

LookupOnLists(own) ==
    /\ look.step = "entries" => OnTop(look.entry)
    /\ look.step = "routes" => ListedEntry(look.entry) /\ Under(own, look.entry, look.route)

Lists(own) == ListsClosed(own) /\ RegisterOnLists(own) /\ LookupOnLists(own)

ListsInv == /\ TypeInv
            /\ Intact => \E own \in [Addr -> Addr] : Lists(own)

(* On such lists no task meets anything else.                                 *)
LEMMA ListsImplyStay == ListsInv => TraversalsStayInLists
<1> SUFFICES ASSUME ListsInv, Intact PROVE ~ RegisterAstray /\ ~ LookupAstray
  BY DEF TraversalsStayInLists
<1>1. PICK own \in [Addr -> Addr] : Lists(own)
  BY DEF ListsInv
<1> USE <1>1 DEF Lists
<1>2. ~ LookupAstray
  BY DEF LookupAstray, LookupOnLists, OnTop, ListedEntry, Under, ListedRoute
<1>3. reg.step = "find" => reg.pos = Top \/ IsEntry(reg.pos)
  BY DEF RegisterOnLists, OnTop, ListedEntry
<1>4. reg.step = "place_entry" => next_entry[reg.pos] = Top \/ IsEntry(next_entry[reg.pos])
  BY DEF RegisterOnLists, ListsClosed, OnTop, ListedEntry, ListsInv, TypeInv, InHand
<1>5. reg.step = "place_route" =>
        next_route[reg.pos] = reg.entry \/ IsRoute(next_route[reg.pos])
  BY DEF RegisterOnLists, ListsClosed, Under, ListedRoute, IsEntry, IsRoute
<1> QED  BY <1>2, <1>3, <1>4, <1>5 DEF RegisterAstray

(* The empty table, at the start and after a restart.                         *)
LEMMA EmptyLists ==
  ASSUME use = [a \in Addr |-> "free"],
         next_entry = [a \in Addr \cup {Top} |-> IF a = Top THEN Top ELSE Wild],
         reg = NoRegistration,
         look = NoLookup
  PROVE  \E own \in [Addr -> Addr] : Lists(own)
<1>1. \A a : ~ IsEntry(a) /\ ~ IsRoute(a)
  BY DEF IsEntry, IsRoute
<1>2. next_entry[Top] = Top
  OBVIOUS
<1>3. [a \in Addr |-> a] \in [Addr -> Addr]
  OBVIOUS
<1>4. Lists([a \in Addr |-> a])
  BY <1>1, <1>2, EmptyRecords
     DEF Lists, ListsClosed, RegisterOnLists, LookupOnLists, OnTop, ListedEntry, ListedRoute
<1> QED  BY <1>3, <1>4

(* The lists are closed at the start,                                         *)
LEMMA ListsInit == RoutesInit => ListsInv
  BY InitType, EmptyLists DEF RoutesInit, ListsInv

(* and after a restart.                                                       *)
LEMMA ListsReboot == Reboot => ListsInv'
<1> SUFFICES ASSUME Reboot PROVE (\E own \in [Addr -> Addr] : Lists(own))'
  BY RebootType DEF ListsInv
<1>1. \A a : ~ IsEntry(a)' /\ ~ IsRoute(a)'
  BY DEF IsEntry, IsRoute, Reboot
<1>2. next_entry'[Top] = Top /\ reg'.step = "none" /\ look'.step = "none"
  BY EmptyRecords DEF Reboot
<1>3. [a \in Addr |-> a] \in [Addr -> Addr]
  OBVIOUS
<1>4. Lists([a \in Addr |-> a])'
  BY <1>1, <1>2
     DEF Lists, ListsClosed, RegisterOnLists, LookupOnLists, OnTop, ListedEntry, ListedRoute
<1> QED  BY <1>3, <1>4

-----------------------------------------------------------------------------
(* Steps that change nothing in memory: the lists stay, a task moves on.      *)
LEMMA SearchLists ==
  ASSUME TypeInv, NEW own \in [Addr -> Addr], Lists(own),
         Lookup \/ (\E e \in Entries, m \in Methods : LookupBegins(e, m))
  PROVE  Lists(own)'
<1>1. /\ UNCHANGED << use, next_entry, next_route, reg >>
      /\ \A a : /\ IsEntry(a)' <=> IsEntry(a)
                /\ IsRoute(a)' <=> IsRoute(a)
                /\ ListedEntry(a)' <=> ListedEntry(a)
                /\ ListedRoute(a)' <=> ListedRoute(a)
                /\ OnTop(a)' <=> OnTop(a)
                /\ \A e : Under(own, e, a)' <=> Under(own, e, a)
  BY SearchStep DEF heap_vars, reg_vars, IsEntry, IsRoute, ListedEntry, ListedRoute, OnTop, Under
<1>2. ListsClosed(own)' /\ RegisterOnLists(own)'
  BY <1>1 DEF Lists, ListsClosed, RegisterOnLists
<1>3. LookupOnLists(own)'
  <2>1. look'.step = "entries" => OnTop(look'.entry)
    BY SearchStep DEF Lists, LookupOnLists, ListsClosed, OnTop, TypeInv, RoutesTypeOK
  <2>2. look'.step = "routes" => ListedEntry(look'.entry) /\ Under(own, look'.entry, look'.route)
    <3> SUFFICES ASSUME look'.step = "routes"
                 PROVE  ListedEntry(look'.entry) /\ Under(own, look'.entry, look'.route)
      OBVIOUS
    <3>1. look'.entry = look.entry
      BY SearchStep
    <3>2. CASE /\ look.step = "entries" /\ IsEntry(look.entry)
               /\ look'.route = next_route[look.entry]
      <4>1. ListedEntry(look.entry)
        BY <3>2, RoutesAssumption DEF Lists, LookupOnLists, OnTop, IsEntry
      <4> QED  BY <3>1, <3>2, <4>1 DEF Lists, ListsClosed, IsEntry
    <3>3. CASE /\ look.step = "routes" /\ IsRoute(look.route)
               /\ look'.route = next_route[look.route]
      <4>1. ListedEntry(look.entry) /\ Under(own, look.entry, look.route)
        BY <3>3 DEF Lists, LookupOnLists
      <4>2. ListedRoute(look.route) /\ own[look.route] = look.entry
        BY <3>3, <4>1 DEF Under, ListedEntry, IsEntry, IsRoute
      <4> QED  BY <3>1, <3>3, <4>1, <4>2 DEF Lists, ListsClosed, IsRoute
    <3> QED  BY <3>2, <3>3, SearchStep
  <2> QED  BY <1>1, <2>1, <2>2 DEF LookupOnLists
<1> QED  BY <1>2, <1>3 DEF Lists

-----------------------------------------------------------------------------
(* A search is not disturbed when something more comes to be listed.          *)
LEMMA SearchStays ==
  ASSUME NEW own, NEW own2, LookupOnLists(own), UNCHANGED look,
         \A a : ListedEntry(a) => ListedEntry(a)',
         \A a : ListedRoute(a) => ListedRoute(a)' /\ own2[a] = own[a]
  PROVE  LookupOnLists(own2)'
<1>1. \A a : OnTop(a) => OnTop(a)'
  BY DEF OnTop
<1>2. \A e, a : Under(own, e, a) => Under(own2, e, a)'
  BY DEF Under
<1> QED  BY <1>1, <1>2 DEF LookupOnLists

(* Steps of a registration that write nothing.                                *)
LEMMA ReadingLists ==
  ASSUME TypeInv, NEW own \in [Addr -> Addr], Lists(own),
         \/ \E e \in Entries, m \in Methods : RegisterBegins(e, m)
         \/ FindEntry \/ NewEntryFails \/ PassEntry \/ PassRoute
  PROVE  Lists(own)'
<1>1. UNCHANGED << use, next_entry, next_route, look >>
  BY DEF RegisterBegins, FindEntry, NewEntryFails, PassEntry, PassRoute, heap_vars
<1>2. \/ reg.step = "none" /\ reg'.step = "find" /\ reg'.pos = next_entry[Top]
      \/ /\ reg.step = "find" /\ reg'.step = "find"
         /\ IsEntry(reg.pos) /\ reg'.pos = next_entry[reg.pos]
      \/ reg.step = "find" /\ reg'.step = "new_entry"
      \/ /\ reg.step = "find" /\ reg'.step = "new_route"
         /\ IsEntry(reg.pos) /\ reg'.entry = reg.pos
      \/ reg.step = "new_entry" /\ reg'.step = "none"
      \/ /\ reg.step = "place_entry" /\ reg'.step = "place_entry"
         /\ reg'.entry = reg.entry /\ reg'.pos = next_entry[reg.pos]
      \/ /\ reg.step = "place_route" /\ reg'.step = "place_route"
         /\ reg'.route = reg.route /\ reg'.entry = reg.entry
         /\ reg'.pos = next_route[reg.pos] /\ IsRoute(reg'.pos) /\ reg.pos \in Addr
  <2>1. CASE \E e \in Entries, m \in Methods : RegisterBegins(e, m)
    BY <2>1, BeginsReg DEF RegisterBegins
  <2>2. CASE FindEntry
    BY <2>2, FindReg
  <2>3. CASE NewEntryFails
    BY <2>3, EmptyRecords DEF NewEntryFails
  <2>4. CASE PassEntry
    BY <2>4, PassEntryReg DEF PassEntry
  <2>5. CASE PassRoute
    <3>1. reg.step = "place_route" /\ reg.pos \in Addr
      BY <2>5 DEF PassRoute, TypeInv, InHand
    <3> QED  BY <2>5, <3>1, PassRouteReg
  <2> QED  BY <2>1, <2>2, <2>3, <2>4, <2>5
<1>3. \A a : /\ IsEntry(a)' <=> IsEntry(a)
             /\ IsRoute(a)' <=> IsRoute(a)
             /\ ListedEntry(a)' <=> ListedEntry(a)
             /\ ListedRoute(a)' <=> ListedRoute(a)
             /\ OnTop(a)' <=> OnTop(a)
             /\ \A e : Under(own, e, a)' <=> Under(own, e, a)
  BY <1>1, <1>2 DEF IsEntry, IsRoute, ListedEntry, ListedRoute, OnTop, Under
<1>4. ListsClosed(own)'
  BY <1>1, <1>3 DEF Lists, ListsClosed
<1>5. LookupOnLists(own)'
  BY <1>1, <1>3 DEF Lists, LookupOnLists
<1>6. RegisterOnLists(own)'
  <2>1. \A a \in Addr \cup {Top} : OnTop(a) => OnTop(next_entry[a])
    BY DEF Lists, ListsClosed
  <2>2. reg.step = "place_route" => Under(own, reg.entry, next_route[reg.pos])
    BY DEF Lists, ListsClosed, RegisterOnLists, Under, ListedRoute, IsRoute
  <2>3. reg'.step = "place_route" => Under(own, reg'.entry, reg'.pos)
    BY <1>2, <2>2
  <2>4. reg.step = "place_entry" => reg.pos \in Addr \cup {Top}
    BY DEF TypeInv, InHand
  <2>5. reg'.step \in {"find", "place_entry"} => OnTop(reg'.pos)
    BY <1>2, <2>1, <2>4 DEF Lists, RegisterOnLists, OnTop, IsEntry
  <2>6. /\ reg'.step = "place_entry" => IsEntry(reg'.entry)
        /\ reg'.step = "place_route" =>
              IsEntry(reg'.entry) /\ IsRoute(reg'.route) /\ own[reg'.route] = reg'.entry
        /\ reg'.step = "new_route" => IsEntry(reg'.entry)
    BY <1>2 DEF Lists, RegisterOnLists
  <2> QED  BY <1>1, <1>2, <1>3, <2>3, <2>5, <2>6 DEF RegisterOnLists
<1> QED  BY <1>4, <1>5, <1>6 DEF Lists

-----------------------------------------------------------------------------
(* Steps of a registration that write to memory.                              *)
LEMMA NewEntryLists ==
  ASSUME TypeInv, NEW own \in [Addr -> Addr], Lists(own),
         NEW a \in Addr, NewEntry(a)
  PROVE  Lists(own)'
<1>1. /\ reg.step = "new_entry" /\ reg'.step = "place_entry"
      /\ reg'.entry = a /\ reg'.pos = Top
  BY NewEntryReg DEF NewEntry, NewEntryWith
<1>2. /\ ~ IsEntry(a) /\ ~ IsRoute(a) /\ IsEntry(a)' /\ ~ IsRoute(a)'
      /\ \A b : b # a => (IsEntry(b)' <=> IsEntry(b)) /\ (IsRoute(b)' <=> IsRoute(b))
      /\ \A b \in Addr : b # a => next_route'[b] = next_route[b]
      /\ \A b \in Addr \cup {Top} : b # a => next_entry'[b] = next_entry[b]
      /\ next_route'[a] = a
      /\ UNCHANGED look
  BY DEF NewEntry, NewEntryWith, IsEntry, IsRoute, TypeInv, RoutesTypeOK
<1>3. /\ \A b : ListedEntry(b)' <=> ListedEntry(b)
      /\ \A b : ListedRoute(b)' <=> ListedRoute(b)
      /\ ~ ListedEntry(a) /\ ~ ListedRoute(a)
  BY <1>1, <1>2 DEF ListedEntry, ListedRoute
<1>4. /\ \A b : OnTop(b)' <=> OnTop(b)
      /\ \A e, b : Under(own, e, b)' <=> Under(own, e, b)
  BY <1>3 DEF OnTop, Under
<1>5. ListsClosed(own)'
  <2>1. \A b \in Addr \cup {Top} : OnTop(b)' => OnTop(next_entry[b])'
    BY <1>2, <1>3, <1>4, RoutesAssumption DEF Lists, ListsClosed, OnTop
  <2>2. \A b \in Addr : IsEntry(b)' => Under(own, b, next_route[b])'
    BY <1>2, <1>4 DEF Lists, ListsClosed, Under
  <2>3. \A b \in Addr : ListedRoute(b)' =>
           IsEntry(own[b])' /\ Under(own, own[b], next_route[b])'
    BY <1>2, <1>3, <1>4 DEF Lists, ListsClosed
  <2> QED  BY <2>1, <2>2, <2>3 DEF ListsClosed
<1>6. RegisterOnLists(own)'
  BY <1>1, <1>2 DEF RegisterOnLists, OnTop
<1>7. LookupOnLists(own)'
  BY <1>2, <1>3, SearchStays DEF Lists
<1> QED  BY <1>5, <1>6, <1>7 DEF Lists

(* The pointer of a new entry is written while nobody can reach it.           *)
LEMMA PlaceEntryLists ==
  ASSUME TypeInv, NEW own \in [Addr -> Addr], Lists(own), PlaceEntry
  PROVE  Lists(own)'
<1>1. /\ reg.step = "place_entry" /\ reg'.step = "publish_entry"
      /\ reg'.entry = reg.entry /\ reg'.pos = reg.pos
      /\ reg.entry \in Addr /\ reg.pos \in Addr \cup {Top}
  BY PlaceEntryReg DEF PlaceEntry, TypeInv, InHand
<1>2. /\ \A b \in Addr \cup {Top} : b # reg.entry => next_entry'[b] = next_entry[b]
      /\ next_entry'[reg.entry] = next_entry[reg.pos]
      /\ UNCHANGED << use, next_route, look >>
  BY <1>1 DEF PlaceEntry, TypeInv, RoutesTypeOK
<1>3. \A b : /\ IsEntry(b)' <=> IsEntry(b)
             /\ ListedEntry(b)' <=> ListedEntry(b)
             /\ ListedRoute(b)' <=> ListedRoute(b)
  BY <1>1, <1>2 DEF IsEntry, IsRoute, ListedEntry, ListedRoute
<1>4. /\ \A b : OnTop(b)' <=> OnTop(b)
      /\ \A e, b : Under(own, e, b)' <=> Under(own, e, b)
      /\ ~ OnTop(reg.entry)
  BY <1>1, <1>3, RoutesAssumption DEF OnTop, Under, ListedEntry
<1>5. ListsClosed(own)'
  BY <1>2, <1>3, <1>4 DEF Lists, ListsClosed
<1>6. RegisterOnLists(own)'
  <2>1. IsEntry(reg.entry) /\ OnTop(reg.pos) /\ OnTop(next_entry[reg.pos])
    BY <1>1 DEF Lists, ListsClosed, RegisterOnLists
  <2> QED  BY <1>1, <1>2, <1>3, <1>4, <2>1 DEF RegisterOnLists
<1>7. LookupOnLists(own)'
  BY <1>2, <1>3, SearchStays DEF Lists
<1> QED  BY <1>5, <1>6, <1>7 DEF Lists

(* An entry is linked in when its own pointer already leads on in the list.   *)
LEMMA PublishEntryLists ==
  ASSUME TypeInv, NEW own \in [Addr -> Addr], Lists(own), PublishEntry
  PROVE  Lists(own)'
<1>1. /\ reg.step = "publish_entry" /\ reg'.step = "new_route" /\ reg'.entry = reg.entry
      /\ reg.entry \in Addr /\ reg.pos \in Addr \cup {Top}
  BY PublishEntryReg DEF PublishEntry, TypeInv, InHand
<1>2. /\ \A b \in Addr \cup {Top} : b # reg.pos => next_entry'[b] = next_entry[b]
      /\ next_entry'[reg.pos] = reg.entry
      /\ UNCHANGED << use, next_route, look >>
  BY <1>1 DEF PublishEntry, TypeInv, RoutesTypeOK
<1>3. IsEntry(reg.entry) /\ OnTop(next_entry[reg.entry])
  BY <1>1 DEF Lists, RegisterOnLists
<1>4. \A b : /\ IsEntry(b)' <=> IsEntry(b)
             /\ ListedEntry(b)' <=> ListedEntry(b) \/ b = reg.entry
             /\ ListedRoute(b)' <=> ListedRoute(b)
  BY <1>1, <1>2, <1>3 DEF IsEntry, IsRoute, ListedEntry, ListedRoute
<1>5. /\ \A b : OnTop(b)' <=> OnTop(b) \/ b = reg.entry
      /\ \A e, b : Under(own, e, b)' <=> Under(own, e, b)
  BY <1>4 DEF OnTop, Under
<1>6. ListsClosed(own)'
  <2>1. \A b \in Addr \cup {Top} : OnTop(b)' => OnTop(next_entry[b])'
    BY <1>2, <1>3, <1>5 DEF Lists, ListsClosed
  <2> QED  BY <2>1, <1>2, <1>4, <1>5 DEF Lists, ListsClosed
<1>7. RegisterOnLists(own)'
  BY <1>1, <1>3, <1>4 DEF RegisterOnLists
<1>8. LookupOnLists(own)'
  BY <1>2, <1>4, SearchStays DEF Lists
<1> QED  BY <1>6, <1>7, <1>8 DEF Lists

(* A new route belongs to the entry in hand from the moment it is allocated.  *)
LEMMA NewRouteLists ==
  ASSUME TypeInv, NEW own \in [Addr -> Addr], Lists(own),
         NEW a \in Addr, NewRoute(a),
         NEW own2 \in [Addr -> Addr], own2 = [own EXCEPT ![a] = reg.entry]
  PROVE  Lists(own2)'
<1>1. /\ reg.step = "new_route" /\ reg'.step = "place_route" /\ reg'.route = a
      /\ reg'.entry = reg.entry /\ reg'.pos = reg.entry /\ reg.entry \in Addr
  BY NewRouteReg DEF NewRoute, TypeInv, InHand
<1>2. /\ ~ IsEntry(a) /\ ~ IsRoute(a) /\ IsRoute(a)' /\ ~ IsEntry(a)'
      /\ \A b : b # a => (IsEntry(b)' <=> IsEntry(b)) /\ (IsRoute(b)' <=> IsRoute(b))
      /\ \A b \in Addr : b # a => next_route'[b] = next_route[b]
      /\ UNCHANGED << next_entry, look >>
  BY DEF NewRoute, IsEntry, IsRoute, TypeInv, RoutesTypeOK
<1>3. own2[a] = reg.entry /\ (\A b \in Addr : b # a => own2[b] = own[b])
  BY <1>1
<1>4. /\ \A b : ListedEntry(b)' <=> ListedEntry(b)
      /\ \A b : ListedRoute(b)' <=> ListedRoute(b)
      /\ ~ ListedEntry(a) /\ ~ ListedRoute(a)
      /\ \A b : ListedRoute(b) => own2[b] = own[b] /\ b \in Addr
  BY <1>1, <1>2, <1>3 DEF ListedEntry, ListedRoute, IsRoute
<1>5. /\ \A b : OnTop(b)' <=> OnTop(b)
      /\ \A e, b : Under(own, e, b) => Under(own2, e, b)'
  BY <1>4 DEF OnTop, Under
<1>6. ListsClosed(own2)'
  <2>1. \A b \in Addr \cup {Top} : OnTop(b)' => OnTop(next_entry[b])'
    BY <1>2, <1>5 DEF Lists, ListsClosed
  <2>2. \A b \in Addr : IsEntry(b)' => Under(own2, b, next_route[b])'
    BY <1>2, <1>5 DEF Lists, ListsClosed
  <2>3. ASSUME NEW b \in Addr, ListedRoute(b)'
        PROVE  IsEntry(own2[b])' /\ Under(own2, own2[b], next_route[b])'
    <3>1. ListedRoute(b) /\ b # a /\ own2[b] = own[b]
      BY <2>3, <1>4
    <3>2. IsEntry(own[b]) /\ Under(own, own[b], next_route[b])
      BY <3>1 DEF Lists, ListsClosed
    <3> QED  BY <3>1, <3>2, <1>2, <1>5
  <2> QED  BY <2>1, <2>2, <2>3 DEF ListsClosed
<1>7. RegisterOnLists(own2)'
  <2>1. IsEntry(reg.entry)
    BY <1>1 DEF Lists, RegisterOnLists
  <2> QED  BY <1>1, <1>2, <1>3, <2>1 DEF RegisterOnLists, Under
<1>8. LookupOnLists(own2)'
  BY <1>2, <1>4, SearchStays DEF Lists
<1> QED  BY <1>6, <1>7, <1>8 DEF Lists

(* The same for a route,                                                      *)
LEMMA PlaceRouteLists ==
  ASSUME TypeInv, NEW own \in [Addr -> Addr], Lists(own), PlaceRoute
  PROVE  Lists(own)'
<1>1. /\ reg.step = "place_route" /\ reg'.step = "publish_route"
      /\ reg'.route = reg.route /\ reg'.entry = reg.entry /\ reg'.pos = reg.pos
      /\ reg.entry \in Addr /\ reg.pos \in Addr /\ reg.route \in Addr
  BY PlaceRouteReg DEF PlaceRoute, PlaceRouteBefore, TypeInv, InHand
<1>2. /\ \A b \in Addr : b # reg.route => next_route'[b] = next_route[b]
      /\ next_route'[reg.route] = next_route[reg.pos]
      /\ UNCHANGED << use, next_entry, look >>
  BY <1>1 DEF PlaceRoute, PlaceRouteBefore, TypeInv, RoutesTypeOK
<1>3. /\ IsRoute(reg.route) /\ IsEntry(reg.entry) /\ own[reg.route] = reg.entry
      /\ Under(own, reg.entry, reg.pos)
      /\ ~ IsEntry(reg.route) /\ ~ ListedRoute(reg.route)
  BY <1>1 DEF Lists, RegisterOnLists, IsRoute, IsEntry, ListedRoute
<1>4. Under(own, reg.entry, next_route[reg.pos])
  BY <1>1, <1>3 DEF Lists, ListsClosed, Under
<1>5. \A b : /\ IsEntry(b)' <=> IsEntry(b)
             /\ IsRoute(b)' <=> IsRoute(b)
             /\ ListedEntry(b)' <=> ListedEntry(b)
             /\ ListedRoute(b)' <=> ListedRoute(b)
             /\ OnTop(b)' <=> OnTop(b)
             /\ \A e : Under(own, e, b)' <=> Under(own, e, b)
  BY <1>1, <1>2 DEF IsEntry, IsRoute, ListedEntry, ListedRoute, OnTop, Under
<1>6. ListsClosed(own)'
  BY <1>2, <1>3, <1>5 DEF Lists, ListsClosed
<1>7. RegisterOnLists(own)'
  BY <1>1, <1>2, <1>3, <1>4, <1>5 DEF RegisterOnLists
<1>8. LookupOnLists(own)'
  BY <1>2, <1>5, SearchStays DEF Lists
<1> QED  BY <1>6, <1>7, <1>8 DEF Lists

(* whose owner becomes the entry it is linked under.                          *)
LEMMA PublishRouteLists ==
  ASSUME TypeInv, NEW own \in [Addr -> Addr], Lists(own), PublishRoute
  PROVE  Lists(own)'
<1>1. /\ reg.step = "publish_route" /\ reg'.step = "none"
      /\ reg.entry \in Addr /\ reg.pos \in Addr /\ reg.route \in Addr
  BY EmptyRecords DEF PublishRoute, TypeInv, InHand
<1>2. /\ \A b \in Addr : b # reg.pos => next_route'[b] = next_route[b]
      /\ next_route'[reg.pos] = reg.route
      /\ UNCHANGED << use, next_entry, look >>
  BY <1>1 DEF PublishRoute, TypeInv, RoutesTypeOK
<1>3. /\ IsRoute(reg.route) /\ IsEntry(reg.entry) /\ own[reg.route] = reg.entry
      /\ Under(own, reg.entry, reg.pos) /\ Under(own, reg.entry, next_route[reg.route])
  BY <1>1 DEF Lists, RegisterOnLists
<1>4. \A b : /\ IsEntry(b)' <=> IsEntry(b)
             /\ ListedEntry(b)' <=> ListedEntry(b)
             /\ ListedRoute(b)' <=> ListedRoute(b) \/ b = reg.route
             /\ OnTop(b)' <=> OnTop(b)
  BY <1>1, <1>2, <1>3 DEF IsEntry, IsRoute, ListedEntry, ListedRoute, OnTop
<1>5. /\ \A e, b : Under(own, e, b) => Under(own, e, b)'
      /\ \A e, b : e = reg.entry /\ b = reg.route => Under(own, e, b)'
  BY <1>3, <1>4 DEF Under
<1>6. ListsClosed(own)'
  <2>1. \A b \in Addr \cup {Top} : OnTop(b)' => OnTop(next_entry[b])'
    BY <1>2, <1>4 DEF Lists, ListsClosed
  <2>2. ASSUME NEW b \in Addr, IsEntry(b)'
        PROVE  Under(own, b, next_route[b])'
    <3>1. CASE b = reg.pos
      BY <2>2, <3>1, <1>2, <1>3, <1>4, <1>5 DEF Under, ListedRoute, IsEntry, IsRoute
    <3>2. CASE b # reg.pos
      BY <2>2, <3>2, <1>2, <1>4, <1>5 DEF Lists, ListsClosed
    <3> QED  BY <3>1, <3>2
  <2>3. ASSUME NEW b \in Addr, ListedRoute(b)'
        PROVE  IsEntry(own[b])' /\ Under(own, own[b], next_route[b])'
    <3>1. CASE b = reg.route
      <4>1. reg.route # reg.pos
        BY <1>1, <1>3 DEF Under, ListedRoute, IsEntry, IsRoute
      <4> QED  BY <3>1, <4>1, <1>2, <1>3, <1>4, <1>5
    <3>2. CASE b # reg.route
      <4>1. ListedRoute(b)
        BY <2>3, <3>2, <1>4
      <4>2. IsEntry(own[b]) /\ Under(own, own[b], next_route[b])
        BY <4>1 DEF Lists, ListsClosed
      <4>3. b = reg.pos => own[b] = reg.entry
        BY <4>1, <1>3 DEF Under, ListedRoute, IsEntry, IsRoute
      <4> QED  BY <4>2, <4>3, <1>2, <1>4, <1>5
    <3> QED  BY <3>1, <3>2
  <2> QED  BY <2>1, <2>2, <2>3 DEF ListsClosed
<1>7. RegisterOnLists(own)'
  BY <1>1 DEF RegisterOnLists
<1>8. LookupOnLists(own)'
  BY <1>2, <1>4, SearchStays DEF Lists
<1> QED  BY <1>6, <1>7, <1>8 DEF Lists

-----------------------------------------------------------------------------
(* Every step keeps the lists closed and both tasks on them.                  *)
LEMMA ListsStep == ListsInv /\ [RoutesNext]_vars => ListsInv'
<1> SUFFICES ASSUME ListsInv, [RoutesNext]_vars, orphaned' = {}
             PROVE  \E own \in [Addr -> Addr] : Lists(own)'
  BY TypeStep DEF ListsInv, Intact
<1>1. CASE Crash
  BY <1>1, ListsReboot DEF Crash, ListsInv, Intact
<1>2. CASE NewRouteFails
  BY <1>2 DEF NewRouteFails
<1>3. CASE ~ Crash /\ ~ NewRouteFails
  <2>1. orphaned = {}
    BY <1>3 DEF RoutesNext, RegisterBegins, LookupBegins, Register, FindEntry, NewEntry,
                NewEntryWith, NewRoute, NewEntryFails, PassEntry, PlaceEntry, PublishEntry,
                PassRoute, PlaceRoute, PlaceRouteBefore, PublishRoute, Lookup,
                PassOtherEntry, EnterEntry, LeaveEntry,
                PassRouteInSearch, LookupEnds, LookupStep, StraysOn,
                heap_vars, reg_vars, vars
  <2>2. PICK own \in [Addr -> Addr] : Lists(own)
    BY <2>1 DEF ListsInv, Intact
  <2>3. TypeInv
    BY DEF ListsInv
  <2>4. CASE UNCHANGED vars
    BY <2>2, <2>4
       DEF vars, heap_vars, reg_vars, Lists, ListsClosed, RegisterOnLists, LookupOnLists,
           OnTop, Under, ListedEntry, ListedRoute, IsEntry, IsRoute
  <2>5. CASE Lookup \/ (\E e \in Entries, m \in Methods : LookupBegins(e, m))
    BY <2>2, <2>3, <2>5, SearchLists
  <2>6. CASE \/ \E e \in Entries, m \in Methods : RegisterBegins(e, m)
             \/ FindEntry \/ NewEntryFails \/ PassEntry \/ PassRoute
    BY <2>2, <2>3, <2>6, ReadingLists
  <2>7. CASE (\E a \in Addr : NewEntry(a)) \/ PlaceEntry \/ PublishEntry
    BY <2>2, <2>3, <2>7, NewEntryLists, PlaceEntryLists, PublishEntryLists
  <2>8. CASE \E a \in Addr : NewRoute(a)
    <3>1. PICK a \in Addr : NewRoute(a)
      BY <2>8
    <3>2. [own EXCEPT ![a] = reg.entry] \in [Addr -> Addr]
      BY <2>3, <3>1 DEF TypeInv, InHand, NewRoute
    <3>3. PICK own2 \in [Addr -> Addr] : own2 = [own EXCEPT ![a] = reg.entry]
      BY <3>2
    <3> QED  BY <2>2, <2>3, <3>1, <3>3, NewRouteLists
  <2>9. CASE PlaceRoute \/ PublishRoute
    BY <2>2, <2>3, <2>9, PlaceRouteLists, PublishRouteLists
  <2>10. CASE StraysOn
    BY <2>1, <2>10, ListsImplyStay DEF StraysOn, TraversalsStayInLists, Intact
  <2> QED  BY <1>3, <2>4, <2>5, <2>6, <2>7, <2>8, <2>9, <2>10 DEF RoutesNext, Register
<1> QED  BY <1>1, <1>2, <1>3

(* At every interleaving of osh_node_route_register with a search the lists   *)
(* are closed and both tasks stand on them, until a listed entry is freed.    *)
THEOREM ListsInvariant == RoutesSafety => []ListsInv
  BY ListsInit, ListsStep, PTL DEF RoutesSafety

(* The unlocked lists can be traversed while a registration links into them,  *)
(* as long as no entry was freed in its list.                                 *)
THEOREM TraversalsMeetOnlyLists == RoutesSafety => []TraversalsStayInLists
  BY ListsInvariant, ListsImplyStay, PTL
=============================================================================
