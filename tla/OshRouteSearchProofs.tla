------------------------- MODULE OshRouteSearchProofs -------------------------
(* Proofs about what a search of the route table finds, for memory of any     *)
(* size and any numbers of entries and methods: that registrations of one     *)
(* number share an entry, and that a search passes every route registered     *)
(* before it began.                                                           *)
EXTENDS OshRoutesProofs

(* Following the pointers of next from p one comes to a before one leaves the *)
(* list at its end marker.  This is said without recursion: a is in every set *)
(* of addresses that has p and is closed under next, except at the end.       *)
Leads(next, D, end, p, a) ==
    \A S \in SUBSET D :
       p \in S /\ (\A x \in S \ {end} : next[x] \in S) => a \in S

EntryLeads(p, a)    == Leads(next_entry, Addr \cup {Top}, Top, p, a)
RouteLeads(e, p, a) == Leads(next_route, Addr, e, p, a)

(* No pointer leads to an entry or a route that is not listed yet.            *)
Pointers ==
    /\ \A x \in Addr \cup {Top} : next_entry[x] = Wild \/ OnTop(next_entry[x])
    /\ \A x \in Addr : \/ next_route[x] = Wild
                       \/ IsEntry(next_route[x])
                       \/ ListedRoute(next_route[x])

(* What is listed can be reached.                                             *)
Reached(own) ==
    /\ \A a : ListedEntry(a) => EntryLeads(next_entry[Top], a)
    /\ \A a : ListedRoute(a) =>
          ListedEntry(own[a]) /\ RouteLeads(own[a], next_route[own[a]], a)

(* What a registration knows of the keys.  While it looks for its entry, an   *)
(* entry of that number is still to come; where it makes one there is none.   *)
RegisterKeys ==
    /\ reg.step = "find" =>
          \A a : IsEntry(a) /\ key[a] = reg.e => EntryLeads(reg.pos, a)
    /\ reg.step = "new_entry" => \A a : IsEntry(a) => key[a] # reg.e
    /\ reg.step \in {"place_entry", "publish_entry", "new_route", "place_route",
                     "publish_route"} => key[reg.entry] = reg.e
    /\ reg.step \in {"place_route", "publish_route"} => key[reg.route] = reg.method
    /\ reg.step = "publish_entry" => next_entry[reg.entry] = next_entry[reg.pos]
    /\ reg.step = "publish_route" => next_route[reg.route] = next_route[reg.pos]

SharedEntries == \A a, b : IsEntry(a) /\ IsEntry(b) /\ key[a] = key[b] => a = b

(* A route that was registered is listed under its numbers.                   *)
Filed(own, r) == /\ ListedRoute(r.at)
                 /\ key[r.at] = r.method
                 /\ key[own[r.at]] = r.entry

(* A search has passed a route that is due, or will come to it: it is in the  *)
(* rest of the list of routes in hand, or in an entry behind.                 *)
ToCome(own, r) ==
    /\ look.step = "entries" => EntryLeads(look.entry, own[r.at])
    /\ look.step = "routes" =>
          \/ own[r.at] = look.entry /\ RouteLeads(look.entry, look.route, r.at)
          \/ EntryLeads(next_entry[look.entry], own[r.at])

SearchAhead(own) ==
    \A r \in look.due :
       /\ Filed(own, r) /\ r.entry = look.e /\ r.method = look.method
       /\ r.at \in look.seen \/ ToCome(own, r)

(* From no place does a list lead back to it.                                 *)
NoCycle(own) ==
    /\ \A a : ListedEntry(a) => ~ EntryLeads(next_entry[a], a)
    /\ \A a : ListedRoute(a) => ~ RouteLeads(own[a], next_route[a], a)

(* What a search has passed is not ahead of it.                               *)
Behind(own, s) ==
    /\ look.step = "entries" => ~ EntryLeads(look.entry, own[s])
    /\ look.step = "routes" =>
          /\ own[s] = look.entry => ~ RouteLeads(look.entry, look.route, s)
          /\ ~ EntryLeads(next_entry[look.entry], own[s])

SearchBehind(own) == \A s \in look.seen : ListedRoute(s) /\ Behind(own, s)

Table(own) == /\ Lists(own)
              /\ Pointers
              /\ Reached(own)
              /\ RegisterKeys
              /\ SharedEntries
              /\ \A r \in registered : Filed(own, r)
              /\ SearchAhead(own)
              /\ NoCycle(own)
              /\ SearchBehind(own)

TableInv == /\ TypeInv
            /\ Intact => \E own \in [Addr -> Addr] : Table(own)

-----------------------------------------------------------------------------
(* What is led to, in a list as it stands.                                    *)
LEMMA LeadsHere ==
  ASSUME NEW next, NEW D, NEW end, NEW p
  PROVE  Leads(next, D, end, p, p)
  BY DEF Leads

(* One step on, unless this is it;                                            *)
LEMMA LeadsOn ==
  ASSUME NEW next, NEW D, NEW end, NEW p \in D, NEW a,
         Leads(next, D, end, p, a), p # a
  PROVE  Leads(next, D, end, next[p], a)
<1> SUFFICES ASSUME NEW S \in SUBSET D, next[p] \in S,
                    \A x \in S \ {end} : next[x] \in S
             PROVE  a \in S
  BY DEF Leads
<1>1. S \cup {p} \in SUBSET D /\ p \in S \cup {p}
  OBVIOUS
<1>2. \A x \in (S \cup {p}) \ {end} : next[x] \in S \cup {p}
  OBVIOUS
<1>3. a \in S \cup {p}
  BY <1>1, <1>2 DEF Leads
<1> QED  BY <1>3

(* one step back;                                                             *)
LEMMA LeadsFrom ==
  ASSUME NEW next, NEW D, NEW end, NEW p, NEW a,
         Leads(next, D, end, next[p], a), p # end
  PROVE  Leads(next, D, end, p, a)
  BY DEF Leads

(* to what follows a place that is led to;                                    *)
LEMMA LeadsTo ==
  ASSUME NEW next, NEW D, NEW end, NEW p, NEW a,
         Leads(next, D, end, p, a), a # end
  PROVE  Leads(next, D, end, p, next[a])
  BY DEF Leads

(* and from the end to nothing.                                               *)
LEMMA LeadsEnds ==
  ASSUME NEW next, NEW D, NEW end \in D, NEW a, Leads(next, D, end, end, a)
  PROVE  a = end
<1>1. {end} \in SUBSET D /\ end \in {end} /\ (\A x \in {end} \ {end} : next[x] \in {end})
  OBVIOUS
<1>2. a \in {end}
  BY <1>1 DEF Leads
<1> QED  BY <1>2

(* What is led to stays so while the pointer of n, which nothing leads to, is *)
(* written,                                                                   *)
LEMMA LeadsAside ==
  ASSUME NEW next, NEW next2, NEW D, NEW end, NEW n,
         \A x \in D \ {n} : next2[x] = next[x] /\ next[x] # n,
         NEW p, NEW a, p # n, Leads(next, D, end, p, a)
  PROVE  Leads(next2, D, end, p, a)
<1> SUFFICES ASSUME NEW S \in SUBSET D, p \in S, \A x \in S \ {end} : next2[x] \in S
             PROVE  a \in S
  BY DEF Leads
<1>1. S \ {n} \in SUBSET D /\ p \in S \ {n}
  OBVIOUS
<1>2. ASSUME NEW x \in (S \ {n}) \ {end}
      PROVE  next[x] \in S \ {n}
  <2>1. x \in D \ {n} /\ next2[x] \in S
    OBVIOUS
  <2> QED  BY <2>1
<1>3. a \in S \ {n}
  BY <1>1, <1>2 DEF Leads
<1> QED  BY <1>3

(* and when n is linked in behind q.                                          *)
LEMMA LeadsAround ==
  ASSUME NEW next, NEW next2, NEW D, NEW end, NEW n \in D, NEW q \in D,
         n # end, q # n,
         \A x \in D \ {q} : next2[x] = next[x],
         \A x \in D : next[x] # n,
         next2[q] = n, next[n] = next[q],
         NEW p, NEW a, p # n, Leads(next, D, end, p, a)
  PROVE  Leads(next2, D, end, p, a)
<1> SUFFICES ASSUME NEW S \in SUBSET D, p \in S, \A x \in S \ {end} : next2[x] \in S
             PROVE  a \in S
  BY DEF Leads
<1>1. S \ {n} \in SUBSET D /\ p \in S \ {n}
  OBVIOUS
<1>2. ASSUME NEW x \in (S \ {n}) \ {end}
      PROVE  next[x] \in S \ {n}
  <2>1. x \in D /\ next2[x] \in S /\ next[x] # n
    OBVIOUS
  <2>2. CASE x # q
    BY <2>1, <2>2
  <2>3. CASE x = q
    <3>1. n \in S /\ n # end
      BY <2>1, <2>3
    <3>2. next2[n] \in S /\ next2[n] = next[n]
      BY <3>1
    <3> QED  BY <2>1, <2>3, <3>2
  <2> QED  BY <2>2, <2>3
<1>3. a \in S \ {n}
  BY <1>1, <1>2 DEF Leads
<1> QED  BY <1>3

(* Nothing else comes to be led to.                                           *)
LEMMA LeadsAroundBack ==
  ASSUME NEW next, NEW next2, NEW D, NEW end, NEW n \in D, NEW q \in D,
         n # end, q # n,
         \A x \in D \ {q} : next2[x] = next[x],
         next2[q] = n, next[n] = next[q],
         NEW p, NEW a, a # n, Leads(next2, D, end, p, a)
  PROVE  Leads(next, D, end, p, a)
<1> SUFFICES ASSUME NEW S \in SUBSET D, p \in S, \A x \in S \ {end} : next[x] \in S
             PROVE  a \in S
  BY DEF Leads
<1>1. CASE q \in S \ {end}
  <2>1. S \cup {n} \in SUBSET D /\ p \in S \cup {n}
    OBVIOUS
  <2>2. ASSUME NEW x \in (S \cup {n}) \ {end}
        PROVE  next2[x] \in S \cup {n}
    <3>1. x = q \/ (x = n /\ next2[x] = next[q]) \/ (x \in S \ {end} /\ next2[x] = next[x])
      OBVIOUS
    <3> QED  BY <1>1, <3>1
  <2>3. a \in S \cup {n}
    BY <2>1, <2>2 DEF Leads
  <2> QED  BY <2>3
<1>2. CASE q \notin S \ {end}
  <2>1. \A x \in S \ {end} : next2[x] \in S
    BY <1>2
  <2> QED  BY <2>1 DEF Leads
<1> QED  BY <1>1, <1>2

(* and in a list that has n in no other place n does not lead back to itself. *)
LEMMA NoWayBack ==
  ASSUME NEW next, NEW next2, NEW D, NEW end, NEW n, NEW q \in D,
         \A x \in D \ {q} : next2[x] = next[x],
         \A x \in D : next[x] # n,
         NEW p, p # n, ~ Leads(next, D, end, p, q) \/ q = end,
         NEW L \in SUBSET D, p \in L, \A x \in L : next[x] \in L
  PROVE  ~ Leads(next2, D, end, p, n)
<1>1. PICK S \in SUBSET D : p \in S /\ (\A x \in S \ {end} : next[x] \in S)
                            /\ q \notin S \ {end}
  <2>1. CASE q = end
    BY <2>1
  <2>2. CASE ~ Leads(next, D, end, p, q)
    BY <2>2 DEF Leads
  <2> QED  BY <2>1, <2>2
<1>2. S \ {n} \in SUBSET D /\ p \in S \ {n}
  BY <1>1
<1>3. \A x \in (S \ {n}) \ {end} : next2[x] \in S \ {n}
  BY <1>1
<1> QED  BY <1>2, <1>3 DEF Leads

-----------------------------------------------------------------------------
(* What a step leaves as it was, for the places that are listed already: they *)
(* stay listed, and what can be reached from them is what could.              *)
Kept(own, own2) ==
    /\ \A a : ListedEntry(a) => ListedEntry(a)' /\ key'[a] = key[a]
    /\ \A a : ListedRoute(a) => /\ ListedRoute(a)' /\ key'[a] = key[a]
                                /\ own2[a] = own[a]
    /\ \A p, a : OnTop(p) /\ ListedEntry(a) =>
          /\ EntryLeads(p, a)' <=> EntryLeads(p, a)
          /\ EntryLeads(next_entry[p], a)' <=> EntryLeads(next_entry[p], a)
    /\ \A e, p, a : ListedEntry(e) /\ Under(own, e, p) /\ ListedRoute(a) =>
          /\ RouteLeads(e, p, a)' <=> RouteLeads(e, p, a)
          /\ RouteLeads(e, next_route[p], a)' <=> RouteLeads(e, next_route[p], a)

(* Where so much is kept, what could be reached still can,                    *)
LEMMA KeptReached ==
  ASSUME NEW own, NEW own2, Kept(own, own2), Reached(own)
  PROVE  /\ \A a : ListedEntry(a) => EntryLeads(next_entry[Top], a)'
         /\ \A a : ListedRoute(a) =>
               ListedEntry(own2[a])' /\ RouteLeads(own2[a], next_route[own2[a]], a)'
<1>1. OnTop(Top)
  BY DEF OnTop
<1>2. ASSUME NEW a, ListedRoute(a)
      PROVE  ListedEntry(own2[a])' /\ RouteLeads(own2[a], next_route[own2[a]], a)'
  <2>1. /\ own2[a] = own[a] /\ ListedEntry(own[a])
        /\ RouteLeads(own[a], next_route[own[a]], a)
    BY <1>2 DEF Kept, Reached
  <2>2. Under(own, own[a], own[a])
    BY DEF Under
  <2>3. ListedEntry(own[a])' /\ RouteLeads(own[a], next_route[own[a]], a)'
    BY <1>2, <2>1, <2>2 DEF Kept
  <2> QED  BY <2>1, <2>3
<1> QED  BY <1>1, <1>2 DEF Kept, Reached

(* no list has come to lead back,                                             *)
LEMMA KeptNoCycle ==
  ASSUME NEW own, NEW own2, Kept(own, own2), Reached(own), NoCycle(own)
  PROVE  /\ \A a : ListedEntry(a) => ~ EntryLeads(next_entry[a], a)'
         /\ \A a : ListedRoute(a) => ~ RouteLeads(own2[a], next_route[a], a)'
<1>1. ASSUME NEW a, ListedEntry(a)
      PROVE  ~ EntryLeads(next_entry[a], a)'
  BY <1>1 DEF Kept, NoCycle, OnTop
<1>2. ASSUME NEW a, ListedRoute(a)
      PROVE  ~ RouteLeads(own2[a], next_route[a], a)'
  <2>1. own2[a] = own[a] /\ ListedEntry(own[a]) /\ Under(own, own[a], a)
    BY <1>2 DEF Kept, Reached, Under
  <2>2. ~ RouteLeads(own[a], next_route[a], a)'
    BY <1>2, <2>1 DEF Kept, NoCycle
  <2> QED  BY <2>1, <2>2
<1> QED  BY <1>1, <1>2

(* a registered route is filed as it was,                                     *)
LEMMA KeptFiled ==
  ASSUME NEW own, NEW own2, Kept(own, own2), Reached(own),
         NEW r, Filed(own, r)
  PROVE  Filed(own2, r)'
<1>1. ListedRoute(r.at) /\ ListedEntry(own[r.at])
  BY DEF Filed, Reached
<1>2. own2[r.at] = own[r.at] /\ key'[r.at] = key[r.at] /\ ListedRoute(r.at)'
  BY <1>1 DEF Kept
<1>3. key'[own[r.at]] = key[own[r.at]]
  BY <1>1 DEF Kept
<1> QED  BY <1>2, <1>3 DEF Filed

(* the search still has ahead of it what it had,                              *)
LEMMA KeptAhead ==
  ASSUME NEW own, NEW own2, Kept(own, own2), Reached(own), LookupOnLists(own),
         SearchAhead(own), UNCHANGED look
  PROVE  SearchAhead(own2)'
<1> SUFFICES ASSUME NEW r \in look.due
             PROVE  /\ Filed(own2, r)' /\ r.entry = look.e /\ r.method = look.method
                    /\ r.at \in look.seen \/ ToCome(own2, r)'
  BY DEF SearchAhead
<1>1. /\ Filed(own, r) /\ r.entry = look.e /\ r.method = look.method
      /\ r.at \in look.seen \/ ToCome(own, r)
  BY DEF SearchAhead
<1>2. ListedRoute(r.at) /\ ListedEntry(own[r.at]) /\ own2[r.at] = own[r.at]
  BY <1>1 DEF Filed, Kept, Reached
<1>3. ASSUME ToCome(own, r) PROVE ToCome(own2, r)'
  <2>1. look.step = "entries" => EntryLeads(look.entry, own[r.at])'
    BY <1>2, <1>3 DEF ToCome, Kept, LookupOnLists
  <2>2. ASSUME look.step = "routes"
        PROVE  \/ own[r.at] = look.entry /\ RouteLeads(look.entry, look.route, r.at)'
               \/ EntryLeads(next_entry[look.entry], own[r.at])'
    <3>1. ListedEntry(look.entry) /\ Under(own, look.entry, look.route) /\ OnTop(look.entry)
      BY <2>2 DEF LookupOnLists, OnTop
    <3>2. CASE own[r.at] = look.entry /\ RouteLeads(look.entry, look.route, r.at)
      BY <1>2, <3>1, <3>2 DEF Kept
    <3>3. CASE EntryLeads(next_entry[look.entry], own[r.at])
      BY <1>2, <3>1, <3>3 DEF Kept
    <3> QED  BY <1>3, <2>2, <3>2, <3>3 DEF ToCome
  <2> QED  BY <1>2, <2>1, <2>2 DEF ToCome
<1>4. Filed(own2, r)'
  BY <1>1, KeptFiled
<1> QED  BY <1>1, <1>3, <1>4

(* and behind it what it has passed.                                          *)
LEMMA KeptBehind ==
  ASSUME NEW own, NEW own2, Kept(own, own2), Reached(own), LookupOnLists(own),
         SearchBehind(own), UNCHANGED look
  PROVE  SearchBehind(own2)'
<1> SUFFICES ASSUME NEW s \in look.seen
             PROVE  ListedRoute(s)' /\ Behind(own2, s)'
  BY DEF SearchBehind
<1>1. /\ ListedRoute(s) /\ ListedRoute(s)' /\ ListedEntry(own[s])
      /\ own2[s] = own[s] /\ Behind(own, s)
  BY DEF SearchBehind, Kept, Reached
<1>2. look.step = "entries" => ~ EntryLeads(look.entry, own[s])'
  BY <1>1 DEF Behind, Kept, LookupOnLists
<1>3. ASSUME look.step = "routes"
      PROVE  /\ own[s] = look.entry => ~ RouteLeads(look.entry, look.route, s)'
             /\ ~ EntryLeads(next_entry[look.entry], own[s])'
  <2>1. ListedEntry(look.entry) /\ Under(own, look.entry, look.route) /\ OnTop(look.entry)
    BY <1>3 DEF LookupOnLists, OnTop
  <2>2. ~ EntryLeads(next_entry[look.entry], own[s])'
    BY <1>1, <1>3, <2>1 DEF Behind, Kept
  <2>3. ASSUME own[s] = look.entry PROVE ~ RouteLeads(look.entry, look.route, s)'
    BY <1>1, <1>3, <2>1, <2>3 DEF Behind, Kept
  <2> QED  BY <2>2, <2>3
<1> QED  BY <1>1, <1>2, <1>3 DEF Behind

-----------------------------------------------------------------------------
(* A step that leaves memory alone leaves what can be reached alone.          *)
LEMMA SameLeads ==
  ASSUME UNCHANGED << next_entry, next_route >>
  PROVE  /\ \A p, a : EntryLeads(p, a)' <=> EntryLeads(p, a)
         /\ \A e, p, a : RouteLeads(e, p, a)' <=> RouteLeads(e, p, a)
         /\ \A p, a : EntryLeads(next_entry[p], a)' <=> EntryLeads(next_entry[p], a)
         /\ \A e, p, a : RouteLeads(e, next_route[p], a)' <=> RouteLeads(e, next_route[p], a)
  BY DEF EntryLeads, RouteLeads

(* Nobody has listed an entry at the end marker.                              *)
LEMMA TopLeadsNowhere ==
  ASSUME NEW a, IsEntry(a), EntryLeads(Top, a)
  PROVE  FALSE
<1>1. a = Top
  BY LeadsEnds DEF EntryLeads
<1> QED  BY <1>1, RoutesAssumption DEF IsEntry

(* A search that begins has all that is due ahead of it.                      *)
LEMMA BeginsAhead ==
  ASSUME NEW own, Table(own), UNCHANGED heap_vars, UNCHANGED reg_vars,
         NEW e \in Entries, NEW m \in Methods, LookupBegins(e, m)
  PROVE  SearchAhead(own)'
<1>1. /\ look'.step = "entries" /\ look'.e = e /\ look'.method = m
      /\ look'.entry = next_entry[Top]
      /\ look'.due = {r \in registered : r.entry = e /\ r.method = m}
  BY DEF LookupBegins, NoLookup
<1>2. ASSUME NEW r \in look'.due
      PROVE  Filed(own, r)' /\ r.entry = e /\ r.method = m /\ ToCome(own, r)'
  <2>1. r \in registered /\ r.entry = e /\ r.method = m /\ Filed(own, r)
    BY <1>1, <1>2 DEF Table
  <2>2. EntryLeads(next_entry[Top], own[r.at])
    BY <2>1 DEF Table, Reached, Filed
  <2>3. Filed(own, r)'
    BY <2>1 DEF Filed, ListedRoute, IsRoute, heap_vars, reg_vars
  <2>4. ToCome(own, r)'
    BY <1>1, <2>2 DEF ToCome, EntryLeads, heap_vars
  <2> QED  BY <2>1, <2>3, <2>4
<1> QED  BY <1>1, <1>2 DEF SearchAhead

(* Every step of a search leaves behind only what it has passed: an entry of  *)
(* another number, a route of another method, a list it has read to its end.  *)
LEMMA LookupAhead ==
  ASSUME TypeInv, NEW own, Table(own), Lookup
  PROVE  SearchAhead(own)'
<1>1. /\ UNCHANGED << use, key, next_entry, next_route, reg, registered, orphaned >>
      /\ \A r : Filed(own, r)' <=> Filed(own, r)
  BY DEF Lookup, PassOtherEntry, EnterEntry, LeaveEntry, PassRouteInSearch, LookupEnds,
         LookupStep, heap_vars, reg_vars, Filed, ListedRoute, IsRoute
<1>2. ASSUME NEW r \in look.due
      PROVE  /\ Filed(own, r) /\ r.entry = look.e /\ r.method = look.method
             /\ r.at \in look.seen \/ ToCome(own, r)
             /\ ListedRoute(r.at) /\ IsEntry(own[r.at])
             /\ key[r.at] = look.method /\ key[own[r.at]] = look.e
  BY <1>2 DEF Table, SearchAhead, Filed, Reached, ListedEntry
<1>3. CASE PassOtherEntry
  <2>1. /\ look.step = "entries" /\ IsEntry(look.entry) /\ key[look.entry] # look.e
        /\ look'.step = "entries" /\ look'.entry = next_entry[look.entry]
        /\ look'.due = look.due /\ look'.seen = look.seen
        /\ look'.e = look.e /\ look'.method = look.method
    BY <1>3 DEF PassOtherEntry, TypeInv, RoutesTypeOK, Search
  <2>2. ASSUME NEW r \in look.due, ToCome(own, r)
        PROVE  ToCome(own, r)'
    <3>1. EntryLeads(look.entry, own[r.at]) /\ look.entry # own[r.at]
      BY <1>2, <2>1, <2>2 DEF ToCome
    <3>2. EntryLeads(next_entry[look.entry], own[r.at])
      BY <2>1, <3>1, LeadsOn DEF EntryLeads, IsEntry
    <3> QED  BY <1>1, <2>1, <3>2 DEF ToCome, EntryLeads
  <2> QED  BY <1>1, <1>2, <2>1, <2>2 DEF SearchAhead
<1>4. CASE EnterEntry
  <2>1. /\ look.step = "entries" /\ IsEntry(look.entry) /\ key[look.entry] = look.e
        /\ look'.step = "routes" /\ look'.entry = look.entry
        /\ look'.route = next_route[look.entry]
        /\ look'.due = look.due /\ look'.seen = look.seen
        /\ look'.e = look.e /\ look'.method = look.method
    BY <1>4 DEF EnterEntry, TypeInv, RoutesTypeOK, Search
  <2>2. ASSUME NEW r \in look.due
        PROVE  ToCome(own, r)'
    <3>1. own[r.at] = look.entry
      BY <1>2, <2>1 DEF Table, SharedEntries
    <3>2. RouteLeads(look.entry, next_route[look.entry], r.at)
      BY <1>2, <3>1 DEF Table, Reached
    <3> QED  BY <1>1, <2>1, <3>1, <3>2 DEF ToCome, RouteLeads
  <2> QED  BY <1>1, <1>2, <2>1, <2>2 DEF SearchAhead
<1>5. CASE LeaveEntry
  <2>1. /\ look.step = "routes" /\ look.route = look.entry
        /\ look'.step = "entries" /\ look'.entry = next_entry[look.entry]
        /\ look'.due = look.due /\ look'.seen = look.seen
        /\ look'.e = look.e /\ look'.method = look.method
        /\ IsEntry(look.entry)
    BY <1>5 DEF LeaveEntry, Table, Lists, LookupOnLists, ListedEntry, TypeInv, RoutesTypeOK,
                Search
  <2>2. ASSUME NEW r \in look.due, ToCome(own, r)
        PROVE  ToCome(own, r)'
    <3>1. ~ RouteLeads(look.entry, look.route, r.at)
      <4>1. r.at # look.entry
        BY <1>2, <2>1, <2>2 DEF ListedRoute, IsRoute, IsEntry
      <4> QED  BY <2>1, <4>1, LeadsEnds DEF RouteLeads, IsEntry
    <3>2. EntryLeads(next_entry[look.entry], own[r.at])
      BY <2>1, <2>2, <3>1 DEF ToCome
    <3> QED  BY <1>1, <2>1, <3>2 DEF ToCome, EntryLeads
  <2> QED  BY <1>1, <1>2, <2>1, <2>2 DEF SearchAhead
<1>6. CASE PassRouteInSearch
  <2>1. /\ look.step = "routes" /\ look.route # look.entry /\ IsRoute(look.route)
        /\ look'.step = "routes" /\ look'.entry = look.entry
        /\ look'.route = next_route[look.route]
        /\ look'.due = look.due
        /\ look'.seen = IF key[look.route] = look.method
                          THEN look.seen \cup {look.route} ELSE look.seen
        /\ look'.e = look.e /\ look'.method = look.method
    BY <1>6 DEF PassRouteInSearch, TypeInv, RoutesTypeOK, Search
  <2>2. ASSUME NEW r \in look.due, ToCome(own, r), r.at \notin look'.seen
        PROVE  ToCome(own, r)'
    <3>1. look.route # r.at
      BY <1>2, <2>1, <2>2
    <3>2. CASE own[r.at] = look.entry /\ RouteLeads(look.entry, look.route, r.at)
      <4>1. RouteLeads(look.entry, next_route[look.route], r.at)
        BY <2>1, <3>1, <3>2, LeadsOn DEF RouteLeads, IsRoute
      <4> QED  BY <1>1, <2>1, <3>2, <4>1 DEF ToCome, RouteLeads
    <3>3. CASE EntryLeads(next_entry[look.entry], own[r.at])
      BY <1>1, <2>1, <3>3 DEF ToCome, EntryLeads
    <3> QED  BY <2>1, <2>2, <3>2, <3>3 DEF ToCome
  <2> QED  BY <1>1, <1>2, <2>1, <2>2 DEF SearchAhead
<1>7. CASE LookupEnds
  BY <1>7 DEF LookupEnds, NoLookup, SearchAhead
<1> QED  BY <1>3, <1>4, <1>5, <1>6, <1>7 DEF Lookup

(* A search leaves what it has passed behind: no list leads back to it.       *)
LEMMA LookupBehind ==
  ASSUME TypeInv, NEW own, Table(own), Lookup
  PROVE  SearchBehind(own)'
<1>1. /\ UNCHANGED << use, key, next_entry, next_route, reg >>
      /\ \A a : ListedRoute(a)' <=> ListedRoute(a)
  BY DEF Lookup, PassOtherEntry, EnterEntry, LeaveEntry, PassRouteInSearch, LookupEnds,
         LookupStep, heap_vars, reg_vars, ListedRoute, IsRoute
<1>2. \A s \in look.seen : ListedRoute(s) /\ Behind(own, s)
  BY DEF Table, SearchBehind
<1>3. CASE PassOtherEntry
  <2>1. /\ look.step = "entries" /\ IsEntry(look.entry)
        /\ look'.step = "entries" /\ look'.entry = next_entry[look.entry]
        /\ look'.seen = look.seen
    BY <1>3 DEF PassOtherEntry, TypeInv, RoutesTypeOK, Search
  <2>2. ASSUME NEW s \in look.seen
        PROVE  Behind(own, s)'
    <3>1. ~ EntryLeads(look.entry, own[s]) /\ look.entry # Top
      BY <1>2, <2>1, RoutesAssumption DEF Behind, IsEntry
    <3>2. ~ EntryLeads(next_entry[look.entry], own[s])
      BY <3>1, LeadsFrom DEF EntryLeads
    <3> QED  BY <1>1, <2>1, <3>2 DEF Behind, EntryLeads
  <2> QED  BY <1>1, <1>2, <2>1, <2>2 DEF SearchBehind
<1>4. CASE EnterEntry
  <2>1. /\ look.step = "entries" /\ IsEntry(look.entry)
        /\ look'.step = "routes" /\ look'.entry = look.entry
        /\ look'.route = next_route[look.entry]
        /\ look'.seen = look.seen
    BY <1>4 DEF EnterEntry, TypeInv, RoutesTypeOK, Search
  <2>2. ASSUME NEW s \in look.seen
        PROVE  Behind(own, s)'
    <3>1. ~ EntryLeads(look.entry, own[s]) /\ look.entry # Top
      BY <1>2, <2>1, RoutesAssumption DEF Behind, IsEntry
    <3>2. ~ EntryLeads(next_entry[look.entry], own[s])
      BY <3>1, LeadsFrom DEF EntryLeads
    <3>3. own[s] # look.entry
      BY <3>1, LeadsHere DEF EntryLeads
    <3> QED  BY <1>1, <2>1, <3>2, <3>3 DEF Behind, EntryLeads
  <2> QED  BY <1>1, <1>2, <2>1, <2>2 DEF SearchBehind
<1>5. CASE LeaveEntry
  <2>1. /\ look.step = "routes"
        /\ look'.step = "entries" /\ look'.entry = next_entry[look.entry]
        /\ look'.seen = look.seen
    BY <1>5 DEF LeaveEntry, TypeInv, RoutesTypeOK, Search
  <2> QED  BY <1>1, <1>2, <2>1 DEF SearchBehind, Behind, EntryLeads
<1>6. CASE PassRouteInSearch
  <2>1. /\ look.step = "routes" /\ look.route # look.entry /\ IsRoute(look.route)
        /\ look'.step = "routes" /\ look'.entry = look.entry
        /\ look'.route = next_route[look.route]
        /\ look'.seen \subseteq look.seen \cup {look.route}
    BY <1>6 DEF PassRouteInSearch, TypeInv, RoutesTypeOK, Search
  <2>2. ASSUME NEW s \in look.seen
        PROVE  Behind(own, s)'
    <3>1. own[s] = look.entry => ~ RouteLeads(look.entry, next_route[look.route], s)
      BY <1>2, <2>1, LeadsFrom DEF Behind, RouteLeads
    <3>2. ~ EntryLeads(next_entry[look.entry], own[s])
      BY <1>2, <2>1 DEF Behind
    <3> QED  BY <1>1, <2>1, <3>1, <3>2 DEF Behind, EntryLeads, RouteLeads
  <2>3. ListedRoute(look.route) /\ (\A s : s = look.route => Behind(own, s)')
    <3>1. ListedEntry(look.entry) /\ ListedRoute(look.route) /\ own[look.route] = look.entry
      BY <2>1 DEF Table, Lists, LookupOnLists, Under
    <3>2. /\ ~ RouteLeads(look.entry, next_route[look.route], look.route)
          /\ ~ EntryLeads(next_entry[look.entry], look.entry)
      BY <3>1 DEF Table, NoCycle
    <3>3. \A s : s = look.route => Behind(own, s)'
      BY <1>1, <2>1, <3>1, <3>2 DEF Behind, EntryLeads, RouteLeads
    <3> QED  BY <3>1, <3>3
  <2> QED  BY <1>1, <1>2, <2>1, <2>2, <2>3 DEF SearchBehind
<1>7. CASE LookupEnds
  BY <1>7 DEF LookupEnds, NoLookup, SearchBehind
<1> QED  BY <1>3, <1>4, <1>5, <1>6, <1>7 DEF Lookup

(* The steps of a search keep the table and what it knows.                    *)
LEMMA SearchTable ==
  ASSUME TypeInv, NEW own \in [Addr -> Addr], Table(own),
         Lookup \/ (\E e \in Entries, m \in Methods : LookupBegins(e, m))
  PROVE  Table(own)'
<1>1. UNCHANGED heap_vars /\ UNCHANGED reg_vars
  BY SearchStep
<1>2. /\ UNCHANGED << use, key, next_entry, next_route, reg, registered, orphaned >>
      /\ \A a : /\ IsEntry(a)' <=> IsEntry(a)
                /\ ListedEntry(a)' <=> ListedEntry(a)
                /\ ListedRoute(a)' <=> ListedRoute(a)
                /\ OnTop(a)' <=> OnTop(a)
      /\ \A r : Filed(own, r)' <=> Filed(own, r)
  BY <1>1 DEF heap_vars, reg_vars, IsEntry, IsRoute, ListedEntry, ListedRoute, OnTop, Filed
<1>3. Lists(own)'
  BY SearchLists DEF Table
<1>4. Pointers' /\ SharedEntries'
  BY <1>2 DEF Table, Pointers, SharedEntries
<1>5. Reached(own)' /\ RegisterKeys'
  BY <1>2, SameLeads DEF Table, Reached, RegisterKeys
<1>6. SearchAhead(own)'
  BY <1>1, BeginsAhead, LookupAhead
<1>7. \A r \in registered' : Filed(own, r)'
  BY <1>2 DEF Table
<1>8. NoCycle(own)'
  BY <1>2, SameLeads DEF Table, NoCycle
<1>9. SearchBehind(own)'
  <2>1. CASE Lookup
    BY <2>1, LookupBehind
  <2>2. CASE \E e \in Entries, m \in Methods : LookupBegins(e, m)
    BY <2>2 DEF LookupBegins, NoLookup, SearchBehind
  <2> QED  BY <2>1, <2>2
<1> QED  BY <1>3, <1>4, <1>5, <1>6, <1>7, <1>8, <1>9 DEF Table

-----------------------------------------------------------------------------
(* A registration keeps the numbers it was called with.                       *)
LEMMA KeepsNumbers ==
  ASSUME TypeInv, Register, reg'.step # "none"
  PROVE  reg'.e = reg.e /\ reg'.method = reg.method
<1> USE DEF TypeInv, RoutesTypeOK, Registration
<1>1. CASE FindEntry
  BY <1>1 DEF FindEntry, FindNext, FindFails, FindSucceeds
<1>2. CASE \E a \in Addr : NewEntry(a) \/ NewRoute(a)
  BY <1>2 DEF NewEntry, NewEntryWith, NewRoute
<1>3. CASE NewEntryFails \/ NewRouteFails \/ PublishRoute
  BY <1>3, EmptyRecords DEF NewEntryFails, NewRouteFails, PublishRoute
<1>4. CASE PassEntry \/ PlaceEntry \/ PublishEntry
  BY <1>4 DEF PassEntry, PlaceEntry, PublishEntry
<1>5. CASE PassRoute \/ PlaceRoute
  BY <1>5 DEF PassRoute, PlaceRoute, PlaceRouteBefore
<1> QED  BY <1>1, <1>2, <1>3, <1>4, <1>5 DEF Register

(* What a registration knows of the keys after each comparison.               *)
LEMMA FindKeys ==
  ASSUME TypeInv, NEW own, Table(own), FindEntry
  PROVE  RegisterKeys'
<1>1. /\ UNCHANGED heap_vars /\ reg.step = "find" /\ reg'.e = reg.e
      /\ UNCHANGED << use, key, next_entry, next_route >>
      /\ \A a : IsEntry(a)' <=> IsEntry(a)
      /\ \A a : IsEntry(a) /\ key[a] = reg.e => EntryLeads(reg.pos, a)
  <2>1. UNCHANGED << use, key, next_entry, next_route >> /\ reg.step = "find"
    BY DEF FindEntry, heap_vars
  <2>2. reg'.e = reg.e
    BY DEF FindEntry, FindNext, FindFails, FindSucceeds, TypeInv, RoutesTypeOK, Registration
  <2> QED  BY <2>1, <2>2 DEF Table, RegisterKeys, heap_vars, IsEntry
<1>2. CASE FindNext
  <2>1. reg'.step = "find" /\ reg'.pos = next_entry[reg.pos]
        /\ IsEntry(reg.pos) /\ key[reg.pos] # reg.e
    BY <1>1, <1>2 DEF FindNext, TypeInv, RoutesTypeOK, Registration
  <2>2. ASSUME NEW a, IsEntry(a), key[a] = reg.e
        PROVE  EntryLeads(next_entry[reg.pos], a)
    BY <1>1, <2>1, <2>2, LeadsOn DEF EntryLeads, IsEntry
  <2>3. ASSUME NEW a, IsEntry(a), key[a] = reg.e
        PROVE  EntryLeads(reg.pos, a)'
    BY <1>1, <2>1, <2>2, <2>3 DEF EntryLeads
  <2> QED  BY <1>1, <2>1, <2>3 DEF RegisterKeys
<1>3. CASE FindFails
  <2>1. reg'.step = "new_entry" /\ reg.pos = Top
    BY <1>3 DEF FindFails, TypeInv, RoutesTypeOK, Registration
  <2>2. \A a : IsEntry(a) => key[a] # reg.e
    BY <1>1, <2>1, TopLeadsNowhere
  <2> QED  BY <1>1, <2>1, <2>2 DEF RegisterKeys
<1>4. CASE FindSucceeds
  <2>1. /\ reg'.step = "new_route" /\ reg'.entry = reg.pos
        /\ IsEntry(reg.pos) /\ key[reg.pos] = reg.e
    BY <1>4 DEF FindSucceeds, TypeInv, RoutesTypeOK, Registration
  <2> QED  BY <1>1, <2>1 DEF RegisterKeys
<1> QED  BY <1>2, <1>3, <1>4 DEF FindEntry

(* A step of a registration that writes nothing keeps the table.              *)
LEMMA ReadingTable ==
  ASSUME TypeInv, NEW own \in [Addr -> Addr], Table(own),
         \/ \E e \in Entries, m \in Methods : RegisterBegins(e, m)
         \/ FindEntry \/ NewEntryFails \/ PassEntry \/ PassRoute
  PROVE  Table(own)'
<1>1. UNCHANGED << use, key, next_entry, next_route, registered, orphaned, look >>
  BY DEF RegisterBegins, FindEntry, NewEntryFails, PassEntry, PassRoute, heap_vars
<1>2. \/ reg.step \in {"none", "find", "new_entry"}
           /\ reg'.step \in {"none", "find", "new_entry", "new_route"}
      \/ reg.step = "place_entry" /\ reg'.step = "place_entry" /\ reg'.entry = reg.entry
      \/ /\ reg.step = "place_route" /\ reg'.step = "place_route"
         /\ reg'.route = reg.route /\ reg'.entry = reg.entry
  <2>1. CASE \E e \in Entries, m \in Methods : RegisterBegins(e, m)
    BY <2>1, BeginsReg DEF RegisterBegins
  <2>2. CASE FindEntry
    BY <2>2, FindReg
  <2>3. CASE NewEntryFails
    BY <2>3, EmptyRecords DEF NewEntryFails
  <2>4. CASE PassEntry
    BY <2>4, PassEntryReg DEF PassEntry
  <2>5. CASE PassRoute
    BY <2>5, PassRouteReg DEF PassRoute
  <2> QED  BY <2>1, <2>2, <2>3, <2>4, <2>5
<1>3. \A a : /\ IsEntry(a)' <=> IsEntry(a)
             /\ ListedEntry(a)' <=> ListedEntry(a)
             /\ ListedRoute(a)' <=> ListedRoute(a)
             /\ OnTop(a)' <=> OnTop(a)
  BY <1>1, <1>2 DEF IsEntry, IsRoute, ListedEntry, ListedRoute, OnTop
<1>4. \A r : Filed(own, r)' <=> Filed(own, r)
  BY <1>1, <1>3 DEF Filed
<1>5. Lists(own)'
  BY ReadingLists DEF Table
<1>6. Pointers' /\ SharedEntries' /\ Reached(own)' /\ NoCycle(own)'
  BY <1>1, <1>3, SameLeads DEF Table, Pointers, SharedEntries, Reached, NoCycle
<1>7. SearchAhead(own)' /\ SearchBehind(own)'
  BY <1>1, <1>3, <1>4, SameLeads DEF Table, SearchAhead, ToCome, SearchBehind, Behind
<1>8. RegisterKeys'
  <2>1. CASE \E e \in Entries, m \in Methods : RegisterBegins(e, m)
    <3>1. reg.step = "none" /\ reg'.step = "find" /\ reg'.pos = next_entry[Top]
      BY <2>1, BeginsReg DEF RegisterBegins
    <3>2. \A a : IsEntry(a) => EntryLeads(next_entry[Top], a)
      BY <3>1 DEF Table, Reached, ListedEntry
    <3>3. ASSUME NEW a, IsEntry(a) PROVE EntryLeads(reg.pos, a)'
      BY <1>1, <3>1, <3>2, <3>3 DEF EntryLeads
    <3> QED  BY <1>3, <3>1, <3>3 DEF RegisterKeys
  <2>2. CASE FindEntry
    BY <2>2, FindKeys
  <2>3. CASE NewEntryFails
    BY <2>3, EmptyRecords DEF NewEntryFails, RegisterKeys
  <2>4. CASE PassEntry
    <3>1. /\ reg.step = "place_entry" /\ reg'.step = "place_entry"
          /\ reg'.entry = reg.entry /\ reg'.e = reg.e
      BY <2>4, PassEntryReg, KeepsNumbers DEF PassEntry, Register
    <3> QED  BY <1>1, <3>1 DEF Table, RegisterKeys
  <2>5. CASE PassRoute
    <3>1. /\ reg.step = "place_route" /\ reg'.step = "place_route"
          /\ reg'.entry = reg.entry /\ reg'.route = reg.route
          /\ reg'.e = reg.e /\ reg'.method = reg.method
      BY <2>5, PassRouteReg, KeepsNumbers DEF PassRoute, Register
    <3> QED  BY <1>1, <3>1 DEF Table, RegisterKeys
  <2> QED  BY <2>1, <2>2, <2>3, <2>4, <2>5
<1> QED  BY <1>1, <1>4, <1>5, <1>6, <1>7, <1>8 DEF Table

-----------------------------------------------------------------------------
(* Writing the pointers of a place that nothing leads to disturbs nothing.    *)
EntriesAside(n) ==
    \A x \in Addr \cup {Top} : x # n => next_entry'[x] = next_entry[x] /\ next_entry[x] # n

RoutesAside(n) ==
    \A x \in Addr : x # n => next_route'[x] = next_route[x] /\ next_route[x] # n

(* What is written aside makes no difference to entries,                      *)
LEMMA EntriesKept ==
  ASSUME NEW n, UNCHANGED next_entry \/ EntriesAside(n), NEW p, NEW a, p # n
  PROVE  EntryLeads(p, a)' <=> EntryLeads(p, a)
<1>1. CASE UNCHANGED next_entry
  BY <1>1 DEF EntryLeads
<1>2. CASE EntriesAside(n)
  <2>1. \A x \in (Addr \cup {Top}) \ {n} :
           next_entry'[x] = next_entry[x] /\ next_entry[x] # n
    BY <1>2 DEF EntriesAside
  <2>2. \A x \in (Addr \cup {Top}) \ {n} :
           next_entry[x] = next_entry'[x] /\ next_entry'[x] # n
    BY <2>1
  <2>3. Leads(next_entry, Addr \cup {Top}, Top, p, a)
          => Leads(next_entry', Addr \cup {Top}, Top, p, a)
    BY <2>1, LeadsAside
  <2>4. Leads(next_entry', Addr \cup {Top}, Top, p, a)
          => Leads(next_entry, Addr \cup {Top}, Top, p, a)
    BY <2>2, LeadsAside
  <2> QED  BY <2>3, <2>4 DEF EntryLeads
<1> QED  BY <1>1, <1>2

(* nor to routes,                                                             *)
LEMMA RoutesKept ==
  ASSUME NEW n, UNCHANGED next_route \/ RoutesAside(n), NEW e, NEW p, NEW a, p # n
  PROVE  RouteLeads(e, p, a)' <=> RouteLeads(e, p, a)
<1>1. CASE UNCHANGED next_route
  BY <1>1 DEF RouteLeads
<1>2. CASE RoutesAside(n)
  <2>1. \A x \in Addr \ {n} : next_route'[x] = next_route[x] /\ next_route[x] # n
    BY <1>2 DEF RoutesAside
  <2>2. \A x \in Addr \ {n} : next_route[x] = next_route'[x] /\ next_route'[x] # n
    BY <2>1
  <2>3. Leads(next_route, Addr, e, p, a) => Leads(next_route', Addr, e, p, a)
    BY <2>1, LeadsAside
  <2>4. Leads(next_route', Addr, e, p, a) => Leads(next_route, Addr, e, p, a)
    BY <2>2, LeadsAside
  <2> QED  BY <2>3, <2>4 DEF RouteLeads
<1> QED  BY <1>1, <1>2

(* and so all that was listed is kept.                                        *)
LEMMA KeptAside ==
  ASSUME NEW own, NEW own2, NEW n \in Addr,
         ~ ListedEntry(n), ~ ListedRoute(n),
         UNCHANGED next_entry \/ EntriesAside(n),
         UNCHANGED next_route \/ RoutesAside(n),
         \A a : ListedEntry(a) => ListedEntry(a)' /\ key'[a] = key[a],
         \A a : ListedRoute(a) => ListedRoute(a)' /\ key'[a] = key[a] /\ own2[a] = own[a]
  PROVE  Kept(own, own2)
<1>1. \A p : OnTop(p) => p # n /\ p \in Addr \cup {Top}
  BY RoutesAssumption DEF OnTop, ListedEntry, IsEntry
<1>2. \A e, p : ListedEntry(e) /\ Under(own, e, p) => p # n /\ p \in Addr
  BY DEF Under, ListedEntry, ListedRoute, IsEntry, IsRoute
<1>3. ASSUME NEW p, NEW a, OnTop(p)
      PROVE  /\ EntryLeads(p, a)' <=> EntryLeads(p, a)
             /\ EntryLeads(next_entry[p], a)' <=> EntryLeads(next_entry[p], a)
  <2>1. EntryLeads(p, a)' <=> EntryLeads(p, a)
    BY <1>1, <1>3, EntriesKept
  <2>2. CASE UNCHANGED next_entry
    BY <2>1, <2>2 DEF EntryLeads
  <2>3. CASE EntriesAside(n)
    <3>1. next_entry'[p] = next_entry[p] /\ next_entry[p] # n
      BY <1>1, <1>3, <2>3 DEF EntriesAside
    <3>2. \A x : x # n => (EntryLeads(x, a)' <=> EntryLeads(x, a))
      BY EntriesKept
    <3>3. Leads(next_entry', Addr \cup {Top}, Top, next_entry[p], a)
            <=> Leads(next_entry, Addr \cup {Top}, Top, next_entry[p], a)
      BY <3>1, <3>2 DEF EntryLeads
    <3> QED  BY <2>1, <3>1, <3>3 DEF EntryLeads
  <2> QED  BY <2>2, <2>3
<1>4. ASSUME NEW e, NEW p, NEW a, ListedEntry(e), Under(own, e, p)
      PROVE  /\ RouteLeads(e, p, a)' <=> RouteLeads(e, p, a)
             /\ RouteLeads(e, next_route[p], a)' <=> RouteLeads(e, next_route[p], a)
  <2>1. p # n /\ p \in Addr
    BY <1>2, <1>4
  <2>2. RouteLeads(e, p, a)' <=> RouteLeads(e, p, a)
    BY <2>1, RoutesKept
  <2>3. CASE UNCHANGED next_route
    BY <2>2, <2>3 DEF RouteLeads
  <2>4. CASE RoutesAside(n)
    <3>1. next_route'[p] = next_route[p] /\ next_route[p] # n
      BY <2>1, <2>4 DEF RoutesAside
    <3>2. \A x : x # n => (RouteLeads(e, x, a)' <=> RouteLeads(e, x, a))
      BY RoutesKept
    <3>3. Leads(next_route', Addr, e, next_route[p], a)
            <=> Leads(next_route, Addr, e, next_route[p], a)
      BY <3>1, <3>2 DEF RouteLeads
    <3> QED  BY <2>2, <3>1, <3>3 DEF RouteLeads
  <2> QED  BY <2>3, <2>4
<1> QED  BY <1>3, <1>4 DEF Kept

(* Nothing leads to a place that is free.                                     *)
LEMMA FreeAside ==
  ASSUME Pointers, NEW n \in Addr, use[n] = "free"
  PROVE  /\ \A x \in Addr \cup {Top} : next_entry[x] # n
         /\ \A x \in Addr : next_route[x] # n
         /\ ~ IsEntry(n) /\ ~ IsRoute(n)
<1>1. ~ IsEntry(n) /\ ~ IsRoute(n) /\ n # Wild /\ n # Top
  BY RoutesAssumption DEF IsEntry, IsRoute
<1> QED  BY <1>1 DEF Pointers, OnTop, ListedEntry, ListedRoute

(* A new entry is the only one of its number.                                 *)
LEMMA NewEntryTable ==
  ASSUME TypeInv, NEW own \in [Addr -> Addr], Table(own),
         NEW a \in Addr, NewEntry(a)
  PROVE  Table(own)'
<1>1. /\ reg.step = "new_entry" /\ reg'.step = "place_entry"
      /\ reg'.entry = a /\ reg'.e = reg.e /\ use[a] = "free"
  BY NewEntryReg, KeepsNumbers DEF NewEntry, NewEntryWith, Register
<1>2. /\ \A b : b # a => (IsEntry(b)' <=> IsEntry(b)) /\ (IsRoute(b)' <=> IsRoute(b))
      /\ \A b \in Addr : b # a => next_route'[b] = next_route[b] /\ key'[b] = key[b]
      /\ \A b \in Addr \cup {Top} : b # a => next_entry'[b] = next_entry[b]
      /\ next_route'[a] = a /\ next_entry'[a] = Wild /\ key'[a] = reg.e
      /\ IsEntry(a)' /\ ~ IsRoute(a)'
      /\ UNCHANGED << look, registered >>
  BY DEF NewEntry, NewEntryWith, IsEntry, IsRoute, TypeInv, RoutesTypeOK
<1>3. /\ \A x \in Addr \cup {Top} : next_entry[x] # a
      /\ \A x \in Addr : next_route[x] # a
      /\ ~ IsEntry(a) /\ ~ IsRoute(a)
  BY <1>1, FreeAside DEF Table
<1>4. \A b : /\ ListedEntry(b)' <=> ListedEntry(b)
             /\ ListedRoute(b)' <=> ListedRoute(b)
             /\ OnTop(b)' <=> OnTop(b)
             /\ ListedEntry(b) \/ ListedRoute(b) => b # a /\ b \in Addr
  BY <1>1, <1>2, <1>3 DEF ListedEntry, ListedRoute, OnTop, IsEntry, IsRoute
<1>5. Kept(own, own)
  <2>1. EntriesAside(a) /\ RoutesAside(a)
    BY <1>2, <1>3 DEF EntriesAside, RoutesAside
  <2>2. ~ ListedEntry(a) /\ ~ ListedRoute(a)
    BY <1>4
  <2>3. /\ \A b : ListedEntry(b) => ListedEntry(b)' /\ key'[b] = key[b]
        /\ \A b : ListedRoute(b) => ListedRoute(b)' /\ key'[b] = key[b] /\ own[b] = own[b]
    BY <1>2, <1>4
  <2> QED  BY <2>1, <2>2, <2>3, KeptAside
<1>6. Lists(own)'
  BY NewEntryLists DEF Table
<1>7. Pointers'
  <2>1. \A x \in Addr \cup {Top} : (next_entry[x] = Wild \/ OnTop(next_entry[x]))'
    BY <1>2, <1>4 DEF Table, Pointers
  <2>2. \A x \in Addr : (\/ next_route[x] = Wild \/ IsEntry(next_route[x])
                         \/ ListedRoute(next_route[x]))'
    BY <1>2, <1>3, <1>4 DEF Table, Pointers
  <2> QED  BY <2>1, <2>2 DEF Pointers
<1>8. Reached(own)'
  BY <1>4, <1>5, KeptReached DEF Table, Reached
<1>9. \A b : IsEntry(b) => key[b] # reg.e
  BY <1>1 DEF Table, RegisterKeys
<1>10. SharedEntries'
  <2>1. \A b : IsEntry(b)' /\ b # a => IsEntry(b) /\ key'[b] = key[b] /\ key[b] # key'[a]
    BY <1>2, <1>9 DEF IsEntry
  <2> QED  BY <2>1 DEF Table, SharedEntries
<1>11. RegisterKeys'
  BY <1>1, <1>2 DEF RegisterKeys
<1>12. (\A r \in registered : Filed(own, r))'
  BY <1>2, <1>5, KeptFiled DEF Table
<1>13. SearchAhead(own)'
  BY <1>2, <1>5, KeptAhead DEF Table, Lists
<1>14. NoCycle(own)' /\ SearchBehind(own)'
  BY <1>2, <1>4, <1>5, KeptNoCycle, KeptBehind DEF Table, Lists, NoCycle
<1> QED  BY <1>6, <1>7, <1>8, <1>10, <1>11, <1>12, <1>13, <1>14 DEF Table

(* An entry whose place is found is still in no list.                         *)
LEMMA PlaceEntryTable ==
  ASSUME TypeInv, NEW own \in [Addr -> Addr], Table(own), PlaceEntry
  PROVE  Table(own)'
<1>1. /\ reg.step = "place_entry" /\ reg'.step = "publish_entry"
      /\ reg'.entry = reg.entry /\ reg'.pos = reg.pos /\ reg'.e = reg.e
      /\ reg.entry \in Addr /\ reg.pos \in Addr \cup {Top}
  BY PlaceEntryReg, KeepsNumbers DEF PlaceEntry, Register, TypeInv, InHand
<1>2. /\ \A b \in Addr \cup {Top} : b # reg.entry => next_entry'[b] = next_entry[b]
      /\ next_entry'[reg.entry] = next_entry[reg.pos]
      /\ UNCHANGED << use, key, next_route, look, registered >>
  BY <1>1 DEF PlaceEntry, TypeInv, RoutesTypeOK
<1>3. \A b : /\ IsEntry(b)' <=> IsEntry(b)
             /\ ListedEntry(b)' <=> ListedEntry(b)
             /\ ListedRoute(b)' <=> ListedRoute(b)
             /\ OnTop(b)' <=> OnTop(b)
  BY <1>1, <1>2 DEF IsEntry, IsRoute, ListedEntry, ListedRoute, OnTop
<1>4. IsEntry(reg.entry) /\ OnTop(reg.pos) /\ key[reg.entry] = reg.e
  BY <1>1 DEF Table, Lists, RegisterOnLists, RegisterKeys
<1>5. /\ ~ ListedEntry(reg.entry) /\ ~ ListedRoute(reg.entry) /\ ~ OnTop(reg.entry)
      /\ reg.entry # Wild
  BY <1>1, <1>4, RoutesAssumption DEF ListedEntry, ListedRoute, OnTop, IsEntry, IsRoute
<1>6. EntriesAside(reg.entry)
  BY <1>2, <1>5 DEF EntriesAside, Table, Pointers
<1>7. Kept(own, own)
  <2>1. UNCHANGED next_route
    BY <1>2
  <2>2. /\ \A b : ListedEntry(b) => ListedEntry(b)' /\ key'[b] = key[b]
        /\ \A b : ListedRoute(b) => ListedRoute(b)' /\ key'[b] = key[b] /\ own[b] = own[b]
    BY <1>2, <1>3
  <2> QED  BY <1>1, <1>5, <1>6, <2>1, <2>2, KeptAside
<1>8. Lists(own)'
  BY PlaceEntryLists DEF Table
<1>9. Pointers'
  <2>1. \A x \in Addr \cup {Top} : (next_entry[x] = Wild \/ OnTop(next_entry[x]))'
    BY <1>1, <1>2, <1>3 DEF Table, Pointers
  <2> QED  BY <1>2, <1>3, <2>1 DEF Table, Pointers
<1>10. Reached(own)'
  BY <1>3, <1>7, KeptReached DEF Table, Reached
<1>11. SharedEntries'
  BY <1>2, <1>3 DEF Table, SharedEntries
<1>12. RegisterKeys'
  <2>1. next_entry'[reg.pos] = next_entry[reg.pos]
    BY <1>1, <1>2, <1>4, <1>5
  <2> QED  BY <1>1, <1>2, <1>4, <2>1 DEF RegisterKeys
<1>13. (\A r \in registered : Filed(own, r))'
  BY <1>2, <1>7, KeptFiled DEF Table
<1>14. SearchAhead(own)'
  BY <1>2, <1>7, KeptAhead DEF Table, Lists
<1>15. NoCycle(own)' /\ SearchBehind(own)'
  BY <1>2, <1>3, <1>7, KeptNoCycle, KeptBehind DEF Table, Lists, NoCycle
<1> QED  BY <1>8, <1>9, <1>10, <1>11, <1>12, <1>13, <1>14, <1>15 DEF Table

(* An entry that is linked in is reached from where it stands, and whatever   *)
(* was reached from there is reached through it.                              *)
LEMMA PublishEntryLeads ==
  ASSUME TypeInv, NEW own \in [Addr -> Addr], Table(own), PublishEntry
  PROVE  /\ Kept(own, own)
         /\ EntryLeads(next_entry[Top], reg.entry)'
         /\ \A a : a = reg.entry => ~ EntryLeads(next_entry[a], a)'
<1>1. /\ reg.step = "publish_entry" /\ reg'.step = "new_route" /\ reg'.entry = reg.entry
      /\ reg.entry \in Addr /\ reg.pos \in Addr \cup {Top}
  BY PublishEntryReg DEF PublishEntry, TypeInv, InHand
<1>2. /\ \A b \in Addr \cup {Top} : b # reg.pos => next_entry'[b] = next_entry[b]
      /\ next_entry'[reg.pos] = reg.entry
      /\ UNCHANGED << use, key, next_route, look, registered >>
  BY <1>1 DEF PublishEntry, TypeInv, RoutesTypeOK
<1>3. /\ IsEntry(reg.entry) /\ OnTop(reg.pos)
      /\ next_entry[reg.entry] = next_entry[reg.pos]
  BY <1>1 DEF Table, Lists, RegisterOnLists, RegisterKeys
<1>4. /\ ~ ListedEntry(reg.entry) /\ ~ OnTop(reg.entry)
      /\ reg.entry # Wild /\ reg.entry # Top /\ reg.pos # reg.entry
  BY <1>1, <1>3, RoutesAssumption DEF ListedEntry, OnTop
<1>5. \A x \in Addr \cup {Top} : next_entry[x] # reg.entry
  BY <1>4 DEF Table, Pointers
<1>6. ASSUME NEW p, NEW a, p # reg.entry, a # reg.entry
      PROVE  EntryLeads(p, a)' <=> EntryLeads(p, a)
  <2>1. reg.entry \in Addr \cup {Top}
    BY <1>1
  <2>2. \A x \in (Addr \cup {Top}) \ {reg.pos} : next_entry'[x] = next_entry[x]
    BY <1>2
  <2>3. Leads(next_entry, Addr \cup {Top}, Top, p, a)
          => Leads(next_entry', Addr \cup {Top}, Top, p, a)
    BY <1>1, <1>2, <1>3, <1>4, <1>5, <1>6, <2>1, <2>2, LeadsAround
  <2>4. Leads(next_entry', Addr \cup {Top}, Top, p, a)
          => Leads(next_entry, Addr \cup {Top}, Top, p, a)
    BY <1>1, <1>2, <1>3, <1>4, <1>6, <2>1, <2>2, LeadsAroundBack
  <2> QED  BY <2>3, <2>4 DEF EntryLeads
<1>7. ASSUME NEW p, NEW a, OnTop(p), ListedEntry(a)
      PROVE  EntryLeads(next_entry[p], a)' <=> EntryLeads(next_entry[p], a)
  <2>1. p \in Addr \cup {Top} /\ a # reg.entry
    BY <1>4, <1>7 DEF OnTop, ListedEntry, IsEntry
  <2>2. Leads(next_entry', Addr \cup {Top}, Top, next_entry[p], a)
          <=> Leads(next_entry, Addr \cup {Top}, Top, next_entry[p], a)
    <3>1. \A x : x # reg.entry => (EntryLeads(x, a)' <=> EntryLeads(x, a))
      BY <1>6, <2>1
    <3> QED  BY <1>5, <2>1, <3>1 DEF EntryLeads
  <2>3. CASE p # reg.pos
    BY <1>2, <2>1, <2>2, <2>3 DEF EntryLeads
  <2>4. CASE p = reg.pos
    <3>1. next_entry'[reg.entry] = next_entry[p]
      BY <1>1, <1>2, <1>3, <1>4, <2>4
    <3>2. Leads(next_entry', Addr \cup {Top}, Top, next_entry[p], a)
            => Leads(next_entry', Addr \cup {Top}, Top, reg.entry, a)
      BY <1>4, <3>1, LeadsFrom
    <3>3. Leads(next_entry', Addr \cup {Top}, Top, reg.entry, a)
            => Leads(next_entry', Addr \cup {Top}, Top, next_entry[p], a)
      BY <1>1, <2>1, <3>1, LeadsOn
    <3> QED  BY <1>2, <2>2, <2>4, <3>2, <3>3 DEF EntryLeads
  <2> QED  BY <2>3, <2>4
<1>8. Kept(own, own)
  <2>1. \A b : /\ ListedEntry(b) => ListedEntry(b)' /\ key'[b] = key[b]
               /\ ListedRoute(b) => ListedRoute(b)' /\ key'[b] = key[b]
    BY <1>1, <1>2 DEF ListedEntry, ListedRoute, IsEntry, IsRoute
  <2>2. \A p, a : OnTop(p) /\ ListedEntry(a) => (EntryLeads(p, a)' <=> EntryLeads(p, a))
    BY <1>4, <1>6
  <2>3. \A e, p, a : /\ RouteLeads(e, p, a)' <=> RouteLeads(e, p, a)
                     /\ RouteLeads(e, next_route[p], a)' <=> RouteLeads(e, next_route[p], a)
    BY <1>2 DEF RouteLeads
  <2> QED  BY <1>7, <2>1, <2>2, <2>3 DEF Kept
<1>9. EntryLeads(next_entry[Top], reg.entry)'
  <2>1. CASE reg.pos = Top
    <3>1. next_entry'[Top] = reg.entry
      BY <1>2, <2>1
    <3> QED  BY <1>1, <3>1, LeadsHere DEF EntryLeads
  <2>2. CASE reg.pos # Top
    <3>1. next_entry'[Top] = next_entry[Top] /\ next_entry[Top] # reg.entry
      BY <1>2, <1>5, <2>2
    <3>2. EntryLeads(next_entry[Top], reg.pos)
      BY <1>3, <2>2 DEF Table, Reached, OnTop
    <3>3. Leads(next_entry', Addr \cup {Top}, Top, next_entry[Top], reg.pos)
      <4>1. \A a : a = reg.pos => (EntryLeads(next_entry[Top], a)
                        => Leads(next_entry', Addr \cup {Top}, Top, next_entry[Top], a))
        BY <1>4, <1>6, <3>1 DEF EntryLeads
      <4> QED  BY <3>2, <4>1
    <3>4. Leads(next_entry', Addr \cup {Top}, Top, next_entry[Top], next_entry'[reg.pos])
      BY <2>2, <3>3, LeadsTo
    <3> QED  BY <1>1, <1>2, <3>1, <3>4 DEF EntryLeads
  <2> QED  BY <2>1, <2>2
<1>10. ASSUME NEW a, a = reg.entry
       PROVE  ~ EntryLeads(next_entry[a], a)'
  <2> DEFINE L == {x \in Addr \cup {Top} : OnTop(x)}
  <2>1. /\ L \in SUBSET (Addr \cup {Top}) /\ next_entry[reg.pos] \in L
        /\ \A x \in L : next_entry[x] \in L
    BY <1>1, <1>3 DEF Table, Lists, ListsClosed, OnTop, ListedEntry, IsEntry
  <2> HIDE DEF L
  <2>2. ~ Leads(next_entry, Addr \cup {Top}, Top, next_entry[reg.pos], reg.pos) \/ reg.pos = Top
    BY <1>3 DEF Table, NoCycle, OnTop, EntryLeads
  <2>3. \A x \in (Addr \cup {Top}) \ {reg.pos} : next_entry'[x] = next_entry[x]
    BY <1>2
  <2>4. next_entry[reg.pos] # reg.entry
    BY <1>1, <1>5
  <2>5. ~ Leads(next_entry', Addr \cup {Top}, Top, next_entry[reg.pos], reg.entry)
    BY <1>1, <1>5, <2>1, <2>2, <2>3, <2>4, NoWayBack
  <2>6. next_entry'[reg.entry] = next_entry[reg.pos]
    BY <1>1, <1>2, <1>3, <1>4
  <2> QED  BY <1>10, <2>5, <2>6 DEF EntryLeads
<1> QED  BY <1>8, <1>9, <1>10

(* An entry linked in is listed, and nothing else changes.                    *)
LEMMA PublishEntryTable ==
  ASSUME TypeInv, NEW own \in [Addr -> Addr], Table(own), PublishEntry
  PROVE  Table(own)'
<1>1. /\ reg.step = "publish_entry" /\ reg'.step = "new_route" /\ reg'.entry = reg.entry
      /\ reg'.e = reg.e /\ reg.entry \in Addr /\ reg.pos \in Addr \cup {Top}
  BY PublishEntryReg, KeepsNumbers DEF PublishEntry, Register, TypeInv, InHand
<1>2. /\ \A b \in Addr \cup {Top} : b # reg.pos => next_entry'[b] = next_entry[b]
      /\ next_entry'[reg.pos] = reg.entry
      /\ UNCHANGED << use, key, next_route, look, registered >>
  BY <1>1 DEF PublishEntry, TypeInv, RoutesTypeOK
<1>3. IsEntry(reg.entry) /\ key[reg.entry] = reg.e
  BY <1>1 DEF Table, Lists, RegisterOnLists, RegisterKeys
<1>4. \A b : /\ IsEntry(b)' <=> IsEntry(b)
             /\ ListedEntry(b)' <=> ListedEntry(b) \/ b = reg.entry
             /\ ListedRoute(b)' <=> ListedRoute(b)
             /\ OnTop(b)' <=> OnTop(b) \/ b = reg.entry
  BY <1>1, <1>2, <1>3 DEF IsEntry, IsRoute, ListedEntry, ListedRoute, OnTop
<1>5. /\ Kept(own, own) /\ EntryLeads(next_entry[Top], reg.entry)'
      /\ \A a : a = reg.entry => ~ EntryLeads(next_entry[a], a)'
  BY PublishEntryLeads
<1>6. Lists(own)'
  BY PublishEntryLists DEF Table
<1>7. Pointers'
  <2>1. \A x \in Addr \cup {Top} : (next_entry[x] = Wild \/ OnTop(next_entry[x]))'
    BY <1>2, <1>4 DEF Table, Pointers
  <2> QED  BY <1>2, <1>4, <2>1 DEF Table, Pointers
<1>8. Reached(own)'
  BY <1>1, <1>4, <1>5, KeptReached DEF Table, Reached
<1>9. SharedEntries' /\ RegisterKeys'
  BY <1>1, <1>2, <1>3, <1>4 DEF Table, SharedEntries, RegisterKeys
<1>10. (\A r \in registered : Filed(own, r))'
  BY <1>2, <1>5, KeptFiled DEF Table
<1>11. SearchAhead(own)'
  BY <1>2, <1>5, KeptAhead DEF Table, Lists
<1>12. NoCycle(own)'
  <2>1. /\ \A a : ListedEntry(a) => ~ EntryLeads(next_entry[a], a)'
        /\ \A a : ListedRoute(a) => ~ RouteLeads(own[a], next_route[a], a)'
    BY <1>5, KeptNoCycle DEF Table
  <2> QED  BY <1>4, <1>5, <2>1 DEF NoCycle
<1>13. SearchBehind(own)'
  BY <1>2, <1>5, KeptBehind DEF Table, Lists
<1> QED  BY <1>6, <1>7, <1>8, <1>9, <1>10, <1>11, <1>12, <1>13 DEF Table

-----------------------------------------------------------------------------
(* A new route is in no list yet.                                             *)
LEMMA NewRouteTable ==
  ASSUME TypeInv, NEW own \in [Addr -> Addr], Table(own),
         NEW a \in Addr, NewRoute(a),
         NEW own2 \in [Addr -> Addr], own2 = [own EXCEPT ![a] = reg.entry]
  PROVE  Table(own2)'
<1>1. /\ reg.step = "new_route" /\ reg'.step = "place_route"
      /\ reg'.route = a /\ reg'.entry = reg.entry /\ reg'.e = reg.e
      /\ reg'.method = reg.method /\ use[a] = "free" /\ reg.entry \in Addr
  BY NewRouteReg, KeepsNumbers DEF NewRoute, Register, TypeInv, InHand
<1>2. /\ \A b : b # a => (IsEntry(b)' <=> IsEntry(b)) /\ (IsRoute(b)' <=> IsRoute(b))
      /\ \A b \in Addr : b # a => next_route'[b] = next_route[b] /\ key'[b] = key[b]
      /\ next_route'[a] = Wild /\ key'[a] = reg.method
      /\ IsRoute(a)' /\ ~ IsEntry(a)'
      /\ UNCHANGED << next_entry, look, registered >>
  BY DEF NewRoute, IsEntry, IsRoute, TypeInv, RoutesTypeOK
<1>3. /\ \A x \in Addr \cup {Top} : next_entry[x] # a
      /\ \A x \in Addr : next_route[x] # a
      /\ ~ IsEntry(a) /\ ~ IsRoute(a)
  BY <1>1, FreeAside DEF Table
<1>4. \A b : /\ IsEntry(b)' <=> IsEntry(b)
             /\ ListedEntry(b)' <=> ListedEntry(b)
             /\ ListedRoute(b)' <=> ListedRoute(b)
             /\ OnTop(b)' <=> OnTop(b)
             /\ ListedEntry(b) \/ ListedRoute(b) => b # a /\ b \in Addr
  BY <1>1, <1>2, <1>3 DEF ListedEntry, ListedRoute, OnTop, IsEntry, IsRoute
<1>5. Kept(own, own2)
  <2>1. (UNCHANGED next_entry \/ EntriesAside(a)) /\ (UNCHANGED next_route \/ RoutesAside(a))
    BY <1>2, <1>3 DEF RoutesAside
  <2>2. ~ ListedEntry(a) /\ ~ ListedRoute(a)
    BY <1>4
  <2>3. /\ \A b : ListedEntry(b) => ListedEntry(b)' /\ key'[b] = key[b]
        /\ \A b : ListedRoute(b) => ListedRoute(b)' /\ key'[b] = key[b] /\ own2[b] = own[b]
    BY <1>2, <1>4
  <2>4. ASSUME NEW o, \A b : ListedRoute(b) => o[b] = own[b]
        PROVE  Kept(own, o)
    BY <2>1, <2>2, <2>3, <2>4, KeptAside
  <2> QED  BY <2>3, <2>4
<1>6. Lists(own2)'
  BY NewRouteLists DEF Table
<1>7. Pointers'
  <2>1. \A x \in Addr : (\/ next_route[x] = Wild \/ IsEntry(next_route[x])
                         \/ ListedRoute(next_route[x]))'
    BY <1>2, <1>4 DEF Table, Pointers
  <2> QED  BY <1>2, <1>4, <2>1 DEF Table, Pointers
<1>8. Reached(own2)'
  BY <1>4, <1>5, KeptReached DEF Table, Reached
<1>9. SharedEntries'
  <2>1. \A b : IsEntry(b) => key'[b] = key[b]
    BY <1>2, <1>3 DEF IsEntry
  <2> QED  BY <1>4, <2>1 DEF Table, SharedEntries
<1>10. RegisterKeys'
  <2>1. key[reg.entry] = reg.e /\ reg.entry # a
    BY <1>1, <1>3 DEF Table, RegisterKeys, Lists, RegisterOnLists
  <2> QED  BY <1>1, <1>2, <2>1 DEF RegisterKeys
<1>11. (\A r \in registered : Filed(own2, r))'
  BY <1>2, <1>5, KeptFiled DEF Table
<1>12. SearchAhead(own2)'
  BY <1>2, <1>5, KeptAhead DEF Table, Lists
<1>13. NoCycle(own2)' /\ SearchBehind(own2)'
  BY <1>2, <1>4, <1>5, KeptNoCycle, KeptBehind DEF Table, Lists, NoCycle
<1> QED  BY <1>6, <1>7, <1>8, <1>9, <1>10, <1>11, <1>12, <1>13 DEF Table

(* Nor is one whose place is found.                                           *)
LEMMA PlaceRouteTable ==
  ASSUME TypeInv, NEW own \in [Addr -> Addr], Table(own), PlaceRoute
  PROVE  Table(own)'
<1>1. /\ reg.step = "place_route" /\ reg'.step = "publish_route"
      /\ reg'.entry = reg.entry /\ reg'.route = reg.route /\ reg'.pos = reg.pos
      /\ reg'.e = reg.e /\ reg'.method = reg.method
      /\ reg.entry \in Addr /\ reg.route \in Addr /\ reg.pos \in Addr
  BY PlaceRouteReg, KeepsNumbers DEF PlaceRoute, PlaceRouteBefore, Register, TypeInv, InHand
<1>2. /\ \A b \in Addr : b # reg.route => next_route'[b] = next_route[b]
      /\ next_route'[reg.route] = next_route[reg.pos]
      /\ UNCHANGED << use, key, next_entry, look, registered >>
  BY <1>1 DEF PlaceRoute, PlaceRouteBefore, TypeInv, RoutesTypeOK
<1>3. \A b : /\ IsEntry(b)' <=> IsEntry(b)
             /\ ListedEntry(b)' <=> ListedEntry(b)
             /\ ListedRoute(b)' <=> ListedRoute(b)
             /\ OnTop(b)' <=> OnTop(b)
  BY <1>1, <1>2 DEF IsEntry, IsRoute, ListedEntry, ListedRoute, OnTop
<1>4. /\ IsRoute(reg.route) /\ Under(own, reg.entry, reg.pos) /\ IsEntry(reg.entry)
      /\ key[reg.entry] = reg.e /\ key[reg.route] = reg.method
  BY <1>1 DEF Table, Lists, RegisterOnLists, RegisterKeys
<1>5. /\ ~ ListedEntry(reg.route) /\ ~ ListedRoute(reg.route) /\ ~ IsEntry(reg.route)
      /\ reg.route # Wild /\ reg.pos # reg.route
  BY <1>1, <1>4, RoutesAssumption DEF ListedEntry, ListedRoute, IsEntry, IsRoute, Under
<1>6. RoutesAside(reg.route)
  BY <1>2, <1>5 DEF RoutesAside, Table, Pointers
<1>7. Kept(own, own)
  <2>1. UNCHANGED next_entry
    BY <1>2
  <2>2. /\ \A b : ListedEntry(b) => ListedEntry(b)' /\ key'[b] = key[b]
        /\ \A b : ListedRoute(b) => ListedRoute(b)' /\ key'[b] = key[b] /\ own[b] = own[b]
    BY <1>2, <1>3
  <2> QED  BY <1>1, <1>5, <1>6, <2>1, <2>2, KeptAside
<1>8. Lists(own)'
  BY PlaceRouteLists DEF Table
<1>9. Pointers'
  <2>1. \A x \in Addr : (\/ next_route[x] = Wild \/ IsEntry(next_route[x])
                         \/ ListedRoute(next_route[x]))'
    BY <1>1, <1>2, <1>3 DEF Table, Pointers
  <2> QED  BY <1>2, <1>3, <2>1 DEF Table, Pointers
<1>10. Reached(own)'
  BY <1>3, <1>7, KeptReached DEF Table, Reached
<1>11. SharedEntries'
  BY <1>2, <1>3 DEF Table, SharedEntries
<1>12. RegisterKeys'
  <2>1. next_route'[reg.pos] = next_route[reg.pos]
    BY <1>1, <1>2, <1>5
  <2> QED  BY <1>1, <1>2, <1>4, <2>1 DEF RegisterKeys
<1>13. (\A r \in registered : Filed(own, r))'
  BY <1>2, <1>7, KeptFiled DEF Table
<1>14. SearchAhead(own)'
  BY <1>2, <1>7, KeptAhead DEF Table, Lists
<1>15. NoCycle(own)' /\ SearchBehind(own)'
  BY <1>2, <1>3, <1>7, KeptNoCycle, KeptBehind DEF Table, Lists, NoCycle
<1> QED  BY <1>8, <1>9, <1>10, <1>11, <1>12, <1>13, <1>14, <1>15 DEF Table

(* A route linked in is reached in the list of its entry, and whatever was    *)
(* reached from where it stands is reached through it.                        *)
LEMMA PublishRouteLeads ==
  ASSUME TypeInv, NEW own \in [Addr -> Addr], Table(own), PublishRoute
  PROVE  /\ Kept(own, own)
         /\ \A a : a = reg.route => /\ RouteLeads(own[a], next_route[own[a]], a)'
                                    /\ ~ RouteLeads(own[a], next_route[a], a)'
<1>1. /\ reg.step = "publish_route" /\ reg'.step = "none"
      /\ reg.entry \in Addr /\ reg.route \in Addr /\ reg.pos \in Addr
  BY EmptyRecords DEF PublishRoute, TypeInv, InHand
<1>2. /\ \A b \in Addr : b # reg.pos => next_route'[b] = next_route[b]
      /\ next_route'[reg.pos] = reg.route
      /\ UNCHANGED << use, key, next_entry, look >>
  BY <1>1 DEF PublishRoute, TypeInv, RoutesTypeOK
<1>3. /\ IsRoute(reg.route) /\ IsEntry(reg.entry) /\ own[reg.route] = reg.entry
      /\ Under(own, reg.entry, reg.pos)
      /\ next_route[reg.route] = next_route[reg.pos]
  BY <1>1 DEF Table, Lists, RegisterOnLists, RegisterKeys
<1>4. /\ ~ ListedRoute(reg.route) /\ ~ IsEntry(reg.route) /\ ListedEntry(reg.entry)
      /\ reg.route # Wild /\ reg.pos # reg.route /\ reg.route # reg.entry
  BY <1>1, <1>3, RoutesAssumption DEF ListedRoute, ListedEntry, IsEntry, IsRoute, Under
<1>5. \A x \in Addr : next_route[x] # reg.route
  BY <1>4 DEF Table, Pointers
<1>6. ASSUME NEW e, IsEntry(e), NEW p, NEW a, p # reg.route, a # reg.route
      PROVE  RouteLeads(e, p, a)' <=> RouteLeads(e, p, a)
  <2>1. reg.route # e
    BY <1>4, <1>6
  <2>2. \A x \in Addr \ {reg.pos} : next_route'[x] = next_route[x]
    BY <1>2
  <2>3. Leads(next_route, Addr, e, p, a) => Leads(next_route', Addr, e, p, a)
    BY <1>1, <1>2, <1>3, <1>4, <1>5, <1>6, <2>1, <2>2, LeadsAround
  <2>4. Leads(next_route', Addr, e, p, a) => Leads(next_route, Addr, e, p, a)
    BY <1>1, <1>2, <1>3, <1>4, <1>6, <2>1, <2>2, LeadsAroundBack
  <2> QED  BY <2>3, <2>4 DEF RouteLeads
<1>7. ASSUME NEW e, NEW p, NEW a, ListedEntry(e), Under(own, e, p), ListedRoute(a)
      PROVE  RouteLeads(e, next_route[p], a)' <=> RouteLeads(e, next_route[p], a)
  <2>1. IsEntry(e) /\ p \in Addr /\ e # reg.route /\ a # reg.route
    BY <1>4, <1>7 DEF ListedEntry, ListedRoute, IsEntry, IsRoute, Under
  <2>2. Leads(next_route', Addr, e, next_route[p], a)
          <=> Leads(next_route, Addr, e, next_route[p], a)
    <3>1. \A x : x # reg.route => (RouteLeads(e, x, a)' <=> RouteLeads(e, x, a))
      BY <1>6, <2>1
    <3> QED  BY <1>5, <2>1, <3>1 DEF RouteLeads
  <2>3. CASE p # reg.pos
    BY <1>2, <2>1, <2>2, <2>3 DEF RouteLeads
  <2>4. CASE p = reg.pos
    <3>1. next_route'[reg.route] = next_route[p]
      BY <1>1, <1>2, <1>3, <1>4, <2>4
    <3>2. Leads(next_route', Addr, e, next_route[p], a)
            => Leads(next_route', Addr, e, reg.route, a)
      BY <2>1, <3>1, LeadsFrom
    <3>3. Leads(next_route', Addr, e, reg.route, a)
            => Leads(next_route', Addr, e, next_route[p], a)
      BY <1>1, <2>1, <3>1, LeadsOn
    <3> QED  BY <1>2, <2>2, <2>4, <3>2, <3>3 DEF RouteLeads
  <2> QED  BY <2>3, <2>4
<1>8. Kept(own, own)
  <2>1. \A b : /\ ListedEntry(b) => ListedEntry(b)' /\ key'[b] = key[b]
               /\ ListedRoute(b) => ListedRoute(b)' /\ key'[b] = key[b]
    BY <1>1, <1>2 DEF ListedEntry, ListedRoute, IsEntry, IsRoute
  <2>2. ASSUME NEW e, NEW p, NEW a, ListedEntry(e), Under(own, e, p), ListedRoute(a)
        PROVE  RouteLeads(e, p, a)' <=> RouteLeads(e, p, a)
    <3>1. IsEntry(e) /\ p # reg.route /\ a # reg.route
      BY <1>4, <2>2 DEF Under, ListedEntry
    <3> QED  BY <1>6, <3>1
  <2>3. \A p, a : /\ EntryLeads(p, a)' <=> EntryLeads(p, a)
                  /\ EntryLeads(next_entry[p], a)' <=> EntryLeads(next_entry[p], a)
    BY <1>2 DEF EntryLeads
  <2> QED  BY <1>7, <2>1, <2>2, <2>3 DEF Kept
<1>9. Leads(next_route', Addr, reg.entry, next_route'[reg.entry], reg.route)
  <2>1. CASE reg.pos = reg.entry
    BY <1>2, <2>1, LeadsHere
  <2>2. CASE reg.pos # reg.entry
    <3>1. /\ next_route'[reg.entry] = next_route[reg.entry]
          /\ next_route[reg.entry] # reg.route
      BY <1>1, <1>2, <1>5, <2>2
    <3>2. ListedRoute(reg.pos) /\ own[reg.pos] = reg.entry
      BY <1>3, <2>2 DEF Under
    <3>3. RouteLeads(reg.entry, next_route[reg.entry], reg.pos)
      BY <3>2 DEF Table, Reached
    <3>4. Leads(next_route', Addr, reg.entry, next_route[reg.entry], reg.pos)
      <4>1. \A e, p, a : IsEntry(e) /\ p # reg.route /\ a # reg.route /\ RouteLeads(e, p, a)
                           => Leads(next_route', Addr, e, p, a)
        BY <1>6 DEF RouteLeads
      <4> QED  BY <1>3, <1>4, <3>1, <3>3, <4>1
    <3>5. Leads(next_route', Addr, reg.entry, next_route[reg.entry], next_route'[reg.pos])
      BY <2>2, <3>4, LeadsTo
    <3> QED  BY <1>2, <3>1, <3>5
  <2> QED  BY <2>1, <2>2
<1>10. ASSUME NEW a, a = reg.route
       PROVE  RouteLeads(own[a], next_route[own[a]], a)'
  BY <1>3, <1>9, <1>10 DEF RouteLeads
<1>11. ASSUME NEW a, a = reg.route
       PROVE  ~ RouteLeads(own[a], next_route[a], a)'
  <2> DEFINE L == {x \in Addr : Under(own, reg.entry, x)}
  <2>1. /\ L \in SUBSET Addr /\ next_route[reg.pos] \in L
        /\ \A x \in L : next_route[x] \in L
    <3>1. \A x \in Addr : Under(own, reg.entry, x) => Under(own, reg.entry, next_route[x])
      BY <1>3 DEF Table, Lists, ListsClosed, Under
    <3>2. \A x : Under(own, reg.entry, x) => x \in Addr
      BY <1>1 DEF Under, ListedRoute, IsRoute
    <3> QED  BY <1>1, <1>3, <3>1, <3>2
  <2> HIDE DEF L
  <2>2. \/ ~ Leads(next_route, Addr, reg.entry, next_route[reg.pos], reg.pos)
        \/ reg.pos = reg.entry
    BY <1>3 DEF Table, NoCycle, Under, RouteLeads
  <2>3. \A x \in Addr \ {reg.pos} : next_route'[x] = next_route[x]
    BY <1>2
  <2>4. next_route[reg.pos] # reg.route
    BY <1>1, <1>5
  <2>5. ~ Leads(next_route', Addr, reg.entry, next_route[reg.pos], reg.route)
    BY <1>1, <1>5, <2>1, <2>2, <2>3, <2>4, NoWayBack
  <2>6. next_route'[reg.route] = next_route[reg.pos]
    BY <1>1, <1>2, <1>3, <1>4
  <2> QED  BY <1>3, <1>11, <2>5, <2>6 DEF RouteLeads
<1> QED  BY <1>8, <1>10, <1>11

(* A registration that returns has filed its route.                           *)
LEMMA PublishRouteTable ==
  ASSUME TypeInv, NEW own \in [Addr -> Addr], Table(own), PublishRoute
  PROVE  Table(own)'
<1>1. /\ reg.step = "publish_route" /\ reg'.step = "none"
      /\ reg.entry \in Addr /\ reg.route \in Addr /\ reg.pos \in Addr
  BY EmptyRecords DEF PublishRoute, TypeInv, InHand
<1>2. /\ \A b \in Addr : b # reg.pos => next_route'[b] = next_route[b]
      /\ next_route'[reg.pos] = reg.route
      /\ UNCHANGED << use, key, next_entry, look >>
      /\ registered' = registered \cup
             {[entry |-> reg.e, method |-> reg.method, at |-> reg.route]}
  BY <1>1 DEF PublishRoute, TypeInv, RoutesTypeOK
<1>3. /\ IsRoute(reg.route) /\ IsEntry(reg.entry) /\ own[reg.route] = reg.entry
      /\ key[reg.entry] = reg.e /\ key[reg.route] = reg.method
  BY <1>1 DEF Table, Lists, RegisterOnLists, RegisterKeys
<1>4. \A b : /\ IsEntry(b)' <=> IsEntry(b)
             /\ ListedEntry(b)' <=> ListedEntry(b)
             /\ ListedRoute(b)' <=> ListedRoute(b) \/ b = reg.route
             /\ OnTop(b)' <=> OnTop(b)
  BY <1>1, <1>2, <1>3 DEF IsEntry, IsRoute, ListedEntry, ListedRoute, OnTop
<1>5. /\ Kept(own, own)
      /\ \A a : a = reg.route => /\ RouteLeads(own[a], next_route[own[a]], a)'
                                 /\ ~ RouteLeads(own[a], next_route[a], a)'
  BY PublishRouteLeads
<1>6. Lists(own)'
  BY PublishRouteLists DEF Table
<1>7. Pointers'
  <2>1. \A x \in Addr : (\/ next_route[x] = Wild \/ IsEntry(next_route[x])
                         \/ ListedRoute(next_route[x]))'
    BY <1>2, <1>4 DEF Table, Pointers
  <2> QED  BY <1>2, <1>4, <2>1 DEF Table, Pointers
<1>8. Reached(own)'
  <2>1. ListedEntry(reg.entry)
    BY <1>1, <1>3 DEF ListedEntry
  <2>2. \A a : a = reg.route => ListedEntry(own[a])'
    BY <1>3, <1>4, <2>1
  <2>3. /\ \A a : ListedEntry(a) => EntryLeads(next_entry[Top], a)'
        /\ \A a : ListedRoute(a) =>
              ListedEntry(own[a])' /\ RouteLeads(own[a], next_route[own[a]], a)'
    BY <1>5, KeptReached DEF Table
  <2> QED  BY <1>4, <1>5, <2>2, <2>3 DEF Reached
<1>9. SharedEntries' /\ RegisterKeys'
  BY <1>1, <1>2, <1>4 DEF Table, SharedEntries, RegisterKeys
<1>10. (\A r \in registered : Filed(own, r))'
  <2>1. \A r \in registered : Filed(own, r)'
    BY <1>5, KeptFiled DEF Table
  <2>2. ASSUME NEW r, r = [entry |-> reg.e, method |-> reg.method, at |-> reg.route]
        PROVE  Filed(own, r)'
    <3>1. r.at = reg.route /\ r.method = reg.method /\ r.entry = reg.e
      BY <2>2
    <3> QED  BY <1>2, <1>3, <1>4, <3>1 DEF Filed
  <2> QED  BY <1>2, <2>1, <2>2
<1>11. SearchAhead(own)'
  BY <1>2, <1>5, KeptAhead DEF Table, Lists
<1>12. NoCycle(own)'
  <2>1. /\ \A a : ListedEntry(a) => ~ EntryLeads(next_entry[a], a)'
        /\ \A a : ListedRoute(a) => ~ RouteLeads(own[a], next_route[a], a)'
    BY <1>5, KeptNoCycle DEF Table
  <2> QED  BY <1>4, <1>5, <2>1 DEF NoCycle
<1>13. SearchBehind(own)'
  BY <1>2, <1>5, KeptBehind DEF Table, Lists
<1> QED  BY <1>6, <1>7, <1>8, <1>9, <1>10, <1>11, <1>12, <1>13 DEF Table

-----------------------------------------------------------------------------
(* The empty table is sound,                                                  *)
LEMMA EmptyTableHolds ==
  ASSUME use = [a \in Addr |-> "free"],
         next_entry = [a \in Addr \cup {Top} |-> IF a = Top THEN Top ELSE Wild],
         next_route = [a \in Addr |-> Wild],
         reg = NoRegistration, registered = {}, look = NoLookup
  PROVE  \E own \in [Addr -> Addr] : Table(own)
<1>1. \A a : ~ IsEntry(a) /\ ~ IsRoute(a)
  BY DEF IsEntry, IsRoute
<1>2. PICK own \in [Addr -> Addr] : Lists(own)
  BY EmptyLists
<1>3. Pointers
  BY DEF Pointers, OnTop
<1>4. Reached(own) /\ SharedEntries
  BY <1>1 DEF Reached, ListedEntry, ListedRoute, SharedEntries
<1>5. RegisterKeys
  BY EmptyRecords DEF RegisterKeys
<1>6. SearchAhead(own)
  BY DEF SearchAhead, NoLookup
<1>7. NoCycle(own) /\ SearchBehind(own)
  BY <1>1 DEF NoCycle, ListedEntry, ListedRoute, SearchBehind, NoLookup
<1> QED  BY <1>2, <1>3, <1>4, <1>5, <1>6, <1>7 DEF Table

(* as it is at the start,                                                     *)
LEMMA TableInit == RoutesInit => TableInv
  BY InitType, EmptyTableHolds DEF RoutesInit, TableInv

(* and after a restart.                                                       *)
LEMMA TableReboot == Reboot => TableInv'
<1> SUFFICES ASSUME Reboot PROVE (\E own \in [Addr -> Addr] : Table(own))'
  BY RebootType DEF TableInv
<1>1. \A a : ~ IsEntry(a)' /\ ~ IsRoute(a)'
  BY DEF IsEntry, IsRoute, Reboot
<1>2. (\E own \in [Addr -> Addr] : Lists(own))'
  BY <1>1, ListsReboot DEF ListsInv, Intact, Reboot
<1>3. PICK own \in [Addr -> Addr] : Lists(own)'
  BY <1>2
<1>4. Pointers'
  BY DEF Pointers, OnTop, Reboot
<1>5. Reached(own)' /\ SharedEntries'
  BY <1>1 DEF Reached, ListedEntry, ListedRoute, SharedEntries
<1>6. RegisterKeys'
  BY EmptyRecords DEF RegisterKeys, Reboot
<1>7. SearchAhead(own)'
  BY DEF SearchAhead, NoLookup, Reboot
<1>8. registered' = {}
  BY DEF Reboot
<1>9. NoCycle(own)' /\ SearchBehind(own)'
  BY <1>1 DEF NoCycle, ListedEntry, ListedRoute, SearchBehind, NoLookup, Reboot
<1> QED  BY <1>3, <1>4, <1>5, <1>6, <1>7, <1>8, <1>9 DEF Table

(* Every step keeps the table, until a listed entry is freed.                 *)
LEMMA TableStep == TableInv /\ [RoutesNext]_vars => TableInv'
<1> SUFFICES ASSUME TableInv, [RoutesNext]_vars, orphaned' = {}
             PROVE  \E own \in [Addr -> Addr] : Table(own)'
  BY TypeStep DEF TableInv, Intact
<1>1. CASE Crash
  BY <1>1, TableReboot DEF Crash, TableInv, Intact
<1>2. CASE NewRouteFails
  BY <1>2 DEF NewRouteFails
<1>3. CASE ~ Crash /\ ~ NewRouteFails
  <2>1. orphaned = {}
    BY <1>3 DEF RoutesNext, RegisterBegins, LookupBegins, Register, FindEntry, NewEntry,
                NewEntryWith, NewRoute, NewEntryFails, PassEntry, PlaceEntry, PublishEntry,
                PassRoute, PlaceRoute, PlaceRouteBefore, PublishRoute, Lookup,
                PassOtherEntry, EnterEntry, LeaveEntry,
                PassRouteInSearch, LookupEnds, LookupStep, StraysOn,
                heap_vars, reg_vars, vars
  <2>2. PICK own \in [Addr -> Addr] : Table(own)
    BY <2>1 DEF TableInv, Intact
  <2>3. TypeInv
    BY DEF TableInv
  <2>4. CASE UNCHANGED vars
    <3>1. UNCHANGED << use, key, next_entry, next_route, reg, registered, look >>
      BY <2>4 DEF vars, heap_vars, reg_vars
    <3>2. \A a : /\ IsEntry(a)' <=> IsEntry(a)
                 /\ IsRoute(a)' <=> IsRoute(a)
                 /\ ListedEntry(a)' <=> ListedEntry(a)
                 /\ ListedRoute(a)' <=> ListedRoute(a)
                 /\ OnTop(a)' <=> OnTop(a)
                 /\ \A e : Under(own, e, a)' <=> Under(own, e, a)
      BY <3>1 DEF IsEntry, IsRoute, ListedEntry, ListedRoute, OnTop, Under
    <3>3. Lists(own)'
      BY <2>2, <3>1, <3>2
         DEF Table, Lists, ListsClosed, RegisterOnLists, LookupOnLists
    <3>4. Pointers' /\ Reached(own)' /\ SharedEntries'
      BY <2>2, <3>1, <3>2, SameLeads DEF Table, Pointers, Reached, SharedEntries
    <3>5. RegisterKeys'
      BY <2>2, <3>1, <3>2, SameLeads DEF Table, RegisterKeys, EntryLeads
    <3>6. \A r : Filed(own, r)' <=> Filed(own, r)
      BY <3>1, <3>2 DEF Filed
    <3>7. SearchAhead(own)'
      BY <2>2, <3>1, <3>6 DEF Table, SearchAhead, ToCome, EntryLeads, RouteLeads
    <3>8. NoCycle(own)' /\ SearchBehind(own)'
      BY <2>2, <3>1, <3>2, SameLeads DEF Table, NoCycle, SearchBehind, Behind
    <3> QED  BY <2>2, <3>1, <3>3, <3>4, <3>5, <3>6, <3>7, <3>8 DEF Table
  <2>5. CASE Lookup \/ (\E e \in Entries, m \in Methods : LookupBegins(e, m))
    BY <2>2, <2>3, <2>5, SearchTable
  <2>6. CASE \/ \E e \in Entries, m \in Methods : RegisterBegins(e, m)
             \/ FindEntry \/ NewEntryFails \/ PassEntry \/ PassRoute
    BY <2>2, <2>3, <2>6, ReadingTable
  <2>7. CASE (\E a \in Addr : NewEntry(a)) \/ PlaceEntry \/ PublishEntry
    BY <2>2, <2>3, <2>7, NewEntryTable, PlaceEntryTable, PublishEntryTable
  <2>8. CASE \E a \in Addr : NewRoute(a)
    <3>1. PICK a \in Addr : NewRoute(a)
      BY <2>8
    <3>2. [own EXCEPT ![a] = reg.entry] \in [Addr -> Addr]
      BY <2>3, <3>1 DEF TypeInv, InHand, NewRoute
    <3>3. PICK own2 \in [Addr -> Addr] : own2 = [own EXCEPT ![a] = reg.entry]
      BY <3>2
    <3> QED  BY <2>2, <2>3, <3>1, <3>3, NewRouteTable
  <2>9. CASE PlaceRoute \/ PublishRoute
    BY <2>2, <2>3, <2>9, PlaceRouteTable, PublishRouteTable
  <2>10. CASE StraysOn
    <3>1. ListsInv
      BY <2>2, <2>3 DEF ListsInv, Table
    <3> QED  BY <2>1, <2>10, <3>1, ListsImplyStay DEF StraysOn, TraversalsStayInLists, Intact
  <2> QED  BY <1>3, <2>4, <2>5, <2>6, <2>7, <2>8, <2>9, <2>10 DEF RoutesNext, Register
<1> QED  BY <1>1, <1>2, <1>3

(* Wherever a registration and a search stand, everything listed can be       *)
(* reached, and what a search is due to find is still ahead of it.            *)
THEOREM TableInvariant == RoutesSafety => []TableInv
  BY TableInit, TableStep, PTL DEF RoutesSafety

(* osh_node_route_register never lists two entries of one number.             *)
THEOREM RegistrationsShareEntries == RoutesSafety => []OneEntryPerNumber
<1>1. TableInv => OneEntryPerNumber
  BY DEF TableInv, Table, SharedEntries, OneEntryPerNumber
<1> QED  BY <1>1, TableInvariant, PTL

(* A search that answers NOT_FOUND has passed every route of its numbers whose *)
(* registration had returned when it began, without any lock.                 *)
THEOREM SearchesPassRegistered == RoutesSafety => RegisteredIsMatched
<1>1. ASSUME TableInv, LookupEnds, Intact
      PROVE  \A r \in look.due : r.at \in look.seen
  <2>1. PICK own \in [Addr -> Addr] : Table(own)
    BY <1>1 DEF TableInv
  <2>2. SUFFICES ASSUME NEW r \in look.due, r.at \notin look.seen PROVE FALSE
    OBVIOUS
  <2>3. ListedRoute(r.at) /\ ToCome(own, r)
    BY <2>1, <2>2 DEF Table, SearchAhead, Filed
  <2>4. EntryLeads(Top, own[r.at])
    BY <1>1, <2>3 DEF ToCome, LookupEnds
  <2>5. IsEntry(own[r.at])
    BY <2>1, <2>3 DEF Table, Reached, ListedEntry
  <2> QED  BY <2>4, <2>5, TopLeadsNowhere
<1>2. TableInv /\ [RoutesNext]_vars =>
        [(LookupEnds /\ Intact) => (\A r \in look.due : r.at \in look.seen)]_vars
  BY <1>1
<1> QED  BY <1>2, TableInvariant, PTL DEF RoutesSafety, RegisteredIsMatched

(* Nothing that is linked in during a search leads it back to a route that    *)
(* matched already.                                                           *)
THEOREM SearchesPassOnce == RoutesSafety => RoutesPassedOnce
<1>1. ASSUME TableInv, PassRouteInSearch, Intact
      PROVE  look.route \notin look.seen
  <2>1. PICK own \in [Addr -> Addr] : Table(own)
    BY <1>1 DEF TableInv
  <2>2. SUFFICES ASSUME look.route \in look.seen PROVE FALSE
    OBVIOUS
  <2>3. look.step = "routes" /\ look.route # look.entry
    BY <1>1 DEF PassRouteInSearch
  <2>4. own[look.route] = look.entry
    BY <2>1, <2>3 DEF Table, Lists, LookupOnLists, Under
  <2>5. ~ RouteLeads(look.entry, look.route, look.route)
    BY <2>1, <2>2, <2>3, <2>4 DEF Table, SearchBehind, Behind
  <2> QED  BY <2>5, LeadsHere DEF RouteLeads
<1>2. TableInv /\ [RoutesNext]_vars =>
        [(PassRouteInSearch /\ Intact) => look.route \notin look.seen]_vars
  BY <1>1
<1> QED  BY <1>2, TableInvariant, PTL DEF RoutesSafety, RoutesPassedOnce
=============================================================================
