---------------------------- MODULE OshNamesProofs ----------------------------
(* Proofs about the names, for any set of names and any number of failures    *)
(* and power cuts.                                                            *)
EXTENDS OshNames, TLAPS

-----------------------------------------------------------------------------
(* The inductive invariant.  While the boot has not restored a name, nothing  *)
(* of it is in memory and no update is under way.                             *)
Fresh(k) == \/ boot \in {"nvs", "node_name"}
            \/ boot = "dev_name" /\ k = "dev_name"

FreshNames ==
    /\ boot \in {"nvs", "node_name", "dev_name"} =>
          /\ update = NoUpdate
          /\ failed = {}
          /\ \A k \in Keys : pending[k] = {}
    /\ boot = "network" => failed = {}
    /\ \A k \in Keys : Fresh(k) => node_bb[k] = NULL

Updating(k) == update.at # "none" /\ update.key = k

(* A restored name is in flash too, unless it is being updated or an update   *)
(* has reported an error.                                                     *)
CopiesAgree ==
    \A k \in Keys :
       ~ Fresh(k) /\ k \notin failed /\ ~ Updating(k)
         => node_bb[k] = flash[k] /\ pending[k] = {}

(* What an update has in hand is its argument, or nothing for lack of memory. *)
UpdateInHand ==
    update.at # "none" =>
       /\ update.name # NULL
       /\ update.at = "write" => node_bb[update.key] \in {update.name, NULL}
       /\ update.at = "commit" => node_bb[update.key] = update.name

(* A device name is never anything but the one made of the MAC address; the   *)
(* boot goes on only when it is stored, and nobody else updates it.           *)
DevNameOnlyMac ==
    /\ flash["dev_name"] \in {NULL, MacName}
    /\ node_bb["dev_name"] \in {NULL, MacName}
    /\ pending["dev_name"] \subseteq {MacName}
    /\ Updating("dev_name") => boot = "network" /\ update.name = MacName
    /\ boot = "network" /\ update.at # "none" => update.key = "dev_name"
    /\ boot = "running" => node_bb["dev_name"] = MacName /\ "dev_name" \notin failed

NamesInv == /\ NamesTypeOK
            /\ FreshNames
            /\ CopiesAgree
            /\ UpdateInHand
            /\ DevNameOnlyMac

-----------------------------------------------------------------------------
(* The constants and the records built from them.                             *)
LEMMA NamesFacts ==
  /\ NULL \notin Values
  /\ MacName \in Values
  /\ MacName # NULL
  /\ NoUpdate \in Update
  /\ NoNames \in [Keys -> Values \cup {NULL}]
  /\ \A k \in Keys : NoNames[k] = NULL
  BY NamesAssumption DEF Values, NoUpdate, Update, Keys, NoNames

(* The invariant holds when the chip is switched on for the first time.       *)
LEMMA NamesInitInv == NamesInit => NamesInv
<1> SUFFICES ASSUME NamesInit PROVE NamesInv
  OBVIOUS
<1> USE NamesFacts DEF NamesInit
<1>1. NamesTypeOK
  <2>1. pending \in [Keys -> SUBSET Values]
    OBVIOUS
  <2>2. faults \in 0 .. MaxFaults
    BY NamesAssumption
  <2>3. /\ full \in BOOLEAN /\ nvs_up \in BOOLEAN
        /\ boot \in BootSteps /\ failed \subseteq Keys
    BY DEF BootSteps
  <2> QED  BY <2>1, <2>2, <2>3 DEF NamesTypeOK
<1>2. FreshNames
  BY DEF FreshNames
<1>3. CopiesAgree
  BY DEF CopiesAgree, Fresh
<1>4. UpdateInHand
  BY DEF UpdateInHand, NoUpdate
<1>5. DevNameOnlyMac
  BY DEF DevNameOnlyMac, Updating, NoUpdate, Keys
<1> QED  BY <1>1, <1>2, <1>3, <1>4, <1>5 DEF NamesInv

(* Faults are counted within their bound.                                     *)
LEMMA FaultType ==
  ASSUME NamesTypeOK, Fault \/ UNCHANGED faults
  PROVE  faults' \in 0 .. MaxFaults
  BY NamesAssumption DEF NamesTypeOK, Fault

(* A restart for whatever reason re-establishes the invariant.                *)
LEMMA RestartInv ==
  ASSUME NamesInv, Restart, Fault \/ UNCHANGED faults, full' \in BOOLEAN
  PROVE  NamesInv'
<1> USE NamesFacts DEF Restart
<1>1. NamesTypeOK'
  BY FaultType DEF NamesInv, NamesTypeOK, BootSteps
<1>2. FreshNames'
  BY DEF FreshNames
<1>3. CopiesAgree'
  BY DEF CopiesAgree, Fresh
<1>4. UpdateInHand'
  BY DEF UpdateInHand, NoUpdate
<1>5. DevNameOnlyMac'
  BY DEF NamesInv, DevNameOnlyMac, Updating, NoUpdate, Keys
<1> QED  BY <1>1, <1>2, <1>3, <1>4, <1>5 DEF NamesInv

(* The boot's steps that restore nothing yet.                                 *)
LEMMA InitNvsInv ==
  ASSUME NamesInv, InitNvs \/ InitErases \/ InitFails \/ EraseFails
  PROVE  NamesInv'
<1> USE NamesFacts DEF NamesInv, InitNvs, InitErases, InitFails, EraseFails, flash_vars, ram_vars
<1>1. NamesTypeOK'
  BY FaultType DEF NamesTypeOK, BootSteps
<1>2. FreshNames'
  BY DEF FreshNames, Fresh
<1>3. CopiesAgree'
  BY DEF CopiesAgree, Fresh
<1>4. UpdateInHand'
  BY DEF UpdateInHand
<1>5. DevNameOnlyMac'
  BY DEF DevNameOnlyMac, Updating, Keys
<1> QED  BY <1>1, <1>2, <1>3, <1>4, <1>5

(* Each step keeps the invariant: a name is restored,                         *)
LEMMA RestoreNameInv ==
  ASSUME NamesInv, NEW k \in Keys, RestoreName(k)
  PROVE  NamesInv'
<1> USE NamesFacts DEF NamesInv, RestoreName, AfterRestore, flash_vars
<1>1. NamesTypeOK'
  BY DEF NamesTypeOK, BootSteps
<1>2. FreshNames'
  BY DEF FreshNames, Fresh, Keys, NamesTypeOK
<1>3. CopiesAgree'
  BY DEF CopiesAgree, Fresh, FreshNames, Keys, NamesTypeOK, Updating
<1>4. UpdateInHand'
  BY DEF UpdateInHand, FreshNames, NoUpdate, Keys
<1>5. DevNameOnlyMac'
  BY DEF DevNameOnlyMac, Updating, Keys, FreshNames, NoUpdate, NamesTypeOK
<1> QED  BY <1>1, <1>2, <1>3, <1>4, <1>5

(* an update begins,                                                          *)
LEMMA UpdateBeginsInv ==
  ASSUME NamesInv, NameDevice \/ NameNode
  PROVE  NamesInv'
<1>1. PICK k \in Keys, n \in Values : /\ UpdateBegins(k, n)
                                     /\ \/ boot = "network" /\ k = "dev_name" /\ n = MacName
                                        \/ boot = "running" /\ k = "node_name"
  BY NamesFacts DEF NameDevice, NameNode, Keys, Values
<1> USE NamesFacts, <1>1 DEF NamesInv, UpdateBegins, flash_vars
<1>2. NamesTypeOK'
  BY DEF NamesTypeOK, Update
<1>3. FreshNames'
  BY DEF FreshNames, Fresh
<1>4. CopiesAgree'
  BY DEF CopiesAgree, Fresh, Updating
<1>5. UpdateInHand'
  BY DEF UpdateInHand
<1>6. DevNameOnlyMac'
  BY DEF DevNameOnlyMac, Updating
<1> QED  BY <1>2, <1>3, <1>4, <1>5, <1>6

(* An update has begun, so the boot has restored both names.                  *)
LEMMA UpdatingFacts ==
  ASSUME NamesInv, update.at # "none"
  PROVE  /\ boot \in {"network", "running"}
         /\ update.key \in Keys
         /\ update.name \in Values
         /\ Updating(update.key)
         /\ \A k \in Keys : ~ Fresh(k)
         /\ update \in Update
  BY NamesFacts
     DEF NamesInv, NamesTypeOK, BootSteps, FreshNames, NoUpdate, Update, Updating,
         Fresh, UpdateInHand

(* it replaces the name in memory, or loses it,                               *)
LEMMA UpdateSetsInv ==
  ASSUME NamesInv, UpdateSetsName \/ UpdateLosesName
  PROVE  NamesInv'
<1>1. PICK v \in {update.name, NULL} : node_bb' = [node_bb EXCEPT ![update.key] = v]
  BY DEF UpdateSetsName, UpdateLosesName
<1>2. /\ update.at = "set"
      /\ update' = [update EXCEPT !.at = "write"]
      /\ UNCHANGED << flash_vars, nvs_up, boot, failed >>
      /\ Fault \/ UNCHANGED faults
  BY DEF UpdateSetsName, UpdateLosesName
<1>3. /\ update'.at = "write"
      /\ update'.key = update.key
      /\ update'.name = update.name
      /\ update' \in Update
  BY <1>2, UpdatingFacts DEF Update
<1> USE NamesFacts, UpdatingFacts, <1>1, <1>2, <1>3 DEF NamesInv, flash_vars
<1>4. NamesTypeOK'
  BY FaultType DEF NamesTypeOK
<1>5. FreshNames'
  BY DEF FreshNames, Fresh
<1>6. CopiesAgree'
  BY DEF CopiesAgree, Fresh, Updating, NamesTypeOK
<1>7. UpdateInHand'
  BY DEF UpdateInHand, NamesTypeOK
<1>8. DevNameOnlyMac'
  BY DEF DevNameOnlyMac, Updating, NamesTypeOK
<1> QED  BY <1>4, <1>5, <1>6, <1>7, <1>8

(* it sets the name in flash,                                                 *)
LEMMA UpdateWritesInv ==
  ASSUME NamesInv, UpdateWrites
  PROVE  NamesInv'
<1>1. /\ update'.at = "commit"
      /\ update'.key = update.key
      /\ update'.name = update.name
      /\ update' \in Update
      /\ update.at = "write"
  BY UpdatingFacts DEF UpdateWrites, Update
<1> USE NamesFacts, UpdatingFacts, <1>1 DEF NamesInv, UpdateWrites
<1>4. NamesTypeOK'
  BY DEF NamesTypeOK
<1>5. FreshNames'
  BY DEF FreshNames, Fresh
<1>6. CopiesAgree'
  BY DEF CopiesAgree, Fresh, Updating, NamesTypeOK
<1>7. UpdateInHand'
  BY DEF UpdateInHand, NamesTypeOK
<1>8. DevNameOnlyMac'
  BY DEF DevNameOnlyMac, Updating, NamesTypeOK
<1> QED  BY <1>4, <1>5, <1>6, <1>7, <1>8

(* it commits,                                                                *)
LEMMA UpdateCommitsInv ==
  ASSUME NamesInv, UpdateCommits
  PROVE  NamesInv'
<1>1. update.at = "commit" /\ update'.at = "none"
  BY DEF UpdateCommits, NoUpdate
<1> USE NamesFacts, UpdatingFacts, <1>1 DEF NamesInv, UpdateCommits
<1>4. NamesTypeOK'
  BY DEF NamesTypeOK
<1>5. FreshNames'
  BY DEF FreshNames, Fresh
<1>6. CopiesAgree'
  BY DEF CopiesAgree, Fresh, Updating, NamesTypeOK
<1>7. UpdateInHand'
  BY DEF UpdateInHand
<1>8. DevNameOnlyMac'
  BY DEF DevNameOnlyMac, Updating, NamesTypeOK, UpdateInHand
<1> QED  BY <1>4, <1>5, <1>6, <1>7, <1>8

(* it fails,                                                                  *)
LEMMA UpdateFailsInv ==
  ASSUME NamesInv, UpdateFails
  PROVE  NamesInv'
<1>1. update.at # "none" /\ update'.at = "none" /\ (Fault \/ UNCHANGED faults)
  BY DEF UpdateFails, NoUpdate, WriteFails
<1> USE NamesFacts, UpdatingFacts, <1>1 DEF NamesInv, UpdateFails, flash_vars
<1>4. NamesTypeOK'
  BY FaultType DEF NamesTypeOK
<1>5. FreshNames'
  BY DEF FreshNames, Fresh
<1>6. CopiesAgree'
  BY DEF CopiesAgree, Fresh, Updating, NamesTypeOK
<1>7. UpdateInHand'
  BY DEF UpdateInHand
<1>8. DevNameOnlyMac'
  BY DEF DevNameOnlyMac, Updating, NamesTypeOK
<1> QED  BY <1>4, <1>5, <1>6, <1>7, <1>8

(* and the modules are started.                                               *)
LEMMA StartModulesInv ==
  ASSUME NamesInv, StartModules
  PROVE  NamesInv'
<1> USE NamesFacts DEF NamesInv, StartModules, flash_vars
<1>1. NamesTypeOK'
  BY DEF NamesTypeOK, BootSteps
<1>2. FreshNames'
  BY DEF FreshNames, Fresh
<1>3. CopiesAgree'
  BY DEF CopiesAgree, Fresh, Updating
<1>4. UpdateInHand'
  BY DEF UpdateInHand
<1>5. DevNameOnlyMac'
  BY DEF DevNameOnlyMac, Updating, FreshNames
<1> QED  BY <1>1, <1>2, <1>3, <1>4, <1>5

(* The steps that restart the chip.                                           *)
Restarts == /\ Restart
            /\ Fault \/ UNCHANGED faults
            /\ full' \in BOOLEAN

(* All that ends in a restart leaves the same state behind.                   *)
LEMMA RestartSteps ==
  ASSUME NamesTypeOK,
         PowerCut \/ ModuleFails \/ UpdateAborts \/ (\E k \in Keys : RestoreFails(k))
  PROVE  Restarts
  BY DEF NamesTypeOK, PowerCut, ModuleFails, UpdateAborts, RestoreFails, WriteFails, Restarts

(* Every step keeps the invariant.                                            *)
LEMMA NamesStepInv == NamesInv /\ [NamesNext]_names_vars => NamesInv'
<1> SUFFICES ASSUME NamesInv, [NamesNext]_names_vars PROVE NamesInv'
  OBVIOUS
<1>1. CASE UNCHANGED names_vars
  BY <1>1 DEF NamesInv, NamesTypeOK, FreshNames, Fresh, CopiesAgree, Updating, UpdateInHand,
              DevNameOnlyMac, names_vars, flash_vars, ram_vars
<1>2. CASE InitNvs \/ InitErases \/ InitFails \/ EraseFails
  BY <1>2, InitNvsInv
<1>3. CASE \E k \in Keys : RestoreName(k)
  BY <1>3, RestoreNameInv
<1>4. CASE PowerCut \/ ModuleFails \/ UpdateAborts \/ (\E k \in Keys : RestoreFails(k))
  BY <1>4, RestartSteps, RestartInv DEF NamesInv, Restarts
<1>5. CASE NameDevice \/ NameNode
  BY <1>5, UpdateBeginsInv
<1>6. CASE UpdateSetsName \/ UpdateLosesName
  BY <1>6, UpdateSetsInv
<1>7. CASE UpdateWrites \/ UpdateCommits \/ UpdateFails
  BY <1>7, UpdateWritesInv, UpdateCommitsInv, UpdateFailsInv
<1>8. CASE StartModules
  BY <1>8, StartModulesInv
<1> QED  BY <1>1, <1>2, <1>3, <1>4, <1>5, <1>6, <1>7, <1>8 DEF NamesNext, AppMain, UpdateStep

(* Whatever is cut short or fails, and however often, the names stay as       *)
(* NamesInv says.                                                             *)
THEOREM NamesInvariant == NamesSafety => []NamesInv
  BY NamesInitInv, NamesStepInv, PTL DEF NamesSafety

(* Nothing but a name ends up where a name is kept.                           *)
THEOREM NamesTypeCorrect == NamesSafety => []NamesTypeOK
<1>1. NamesInv => NamesTypeOK
  BY DEF NamesInv
<1> QED  BY <1>1, NamesInvariant, PTL

(* Whenever the modules run, the device has its name in memory and in flash.  *)
LEMMA DevNameFollows == NamesInv => DevNameKnown
  BY NamesFacts DEF NamesInv, DevNameKnown, DevNameOnlyMac, CopiesAgree, Fresh, Updating, Keys

(* Whenever the modules run, the device name is in memory and in flash:       *)
(* osh_node_wifi_init does not return before it has stored one, and nobody    *)
(* changes it later.                                                          *)
THEOREM DevNameAlwaysKnown == NamesSafety => []DevNameKnown
  BY DevNameFollows, NamesInvariant, PTL

(* Memory and flash disagree about a name only during an update, or after one *)
(* that reported an error.                                                    *)
LEMMA CopiesFollow == NamesInv => CopiesDifferOnlyAfterError
  BY DEF NamesInv, CopiesDifferOnlyAfterError, CopiesAgree, Fresh, Updating

(* Memory and flash differ only while osh_node_node_name_update or its        *)
(* sibling is under way or after it reported an error.                        *)
THEOREM CopiesAgreeUnlessReported == NamesSafety => []CopiesDifferOnlyAfterError
  BY CopiesFollow, NamesInvariant, PTL
-----------------------------------------------------------------------------
(* The names implement their store.  Holds is the mapping of holds.           *)
Holds(k) == {flash[k]} \cup pending[k] \cup ({Busy(k)} \ {NULL})

(* The refinement mapping, during an update                                   *)
LEMMA BusyWhenUpdating ==
  ASSUME NamesInv, update.at # "none"
  PROVE  /\ Busy(update.key) = update.name
         /\ Busy(update.key) # NULL
         /\ \A k \in Keys : k # update.key => Busy(k) = NULL
  BY UpdatingFacts, NamesFacts DEF Busy

(* and without one.                                                           *)
LEMMA BusyWhenIdle ==
  ASSUME update.at = "none"
  PROVE  \A k \in Keys : Busy(k) = NULL
  BY DEF Busy

(* What the mapping makes of a typed state.                                   *)
LEMMA MappingFacts ==
  ASSUME NamesInv
  PROVE  /\ node_bb \in [Keys -> Values \cup {NULL}]
         /\ flash \in [Keys -> Values \cup {NULL}]
         /\ pending \in [Keys -> SUBSET Values]
         /\ \A k \in Keys : Holds(k) # {} /\ Holds(k) \subseteq Values \cup {NULL}
         /\ \A k \in Keys : Busy(k) \in Values \cup {NULL}
  BY NamesFacts DEF NamesInv, NamesTypeOK, Holds, Busy, Update

(* An initial state is one of the store.                                      *)
LEMMA InitRefines == NamesInit => Store!StoreInit
<1> SUFFICES ASSUME NamesInit PROVE Store!StoreInit
  OBVIOUS
<1>1. \A k \in Keys : Busy(k) = NULL
  BY BusyWhenIdle DEF NamesInit, NoUpdate
<1>2. \A k \in Keys : Holds(k) = {NULL}
  BY <1>1 DEF Holds, NamesInit, NoNames
<1> QED  BY <1>1, <1>2 DEF Store!StoreInit, NamesInit, NoNames, Holds

(* A restart is a power cut: of what the keys held, some value is left.       *)
LEMMA RestartRefines ==
  ASSUME NamesInv, NamesInv', Restart
  PROVE  Store!PowerCut
<1>1. \A k \in Keys : Busy(k)' = NULL
  BY DEF Restart, NoUpdate, Busy
<1>2. \A k \in Keys : Holds(k)' = {flash'[k]}
  BY <1>1 DEF Restart, Holds
<1>3. \A k \in Keys : Holds(k)' \subseteq Holds(k) /\ Holds(k)' # {}
  BY <1>2 DEF Restart, Holds
<1>4. [k \in Keys |-> Holds(k)']
         \in [Keys -> (SUBSET UNION {Holds(k) : k \in Keys}) \ {{}}]
  BY <1>3
<1>5. node_bb' = [k \in Keys |-> NULL] /\ failed' = {}
  BY DEF Restart, NoNames
<1> QED  BY <1>1, <1>3, <1>4, <1>5 DEF Store!PowerCut, Holds

(* The boot's own steps: nothing that the store sees, or its erasure.         *)
LEMMA EraseRefines ==
  ASSUME NamesInv, NamesInv', InitErases \/ EraseFails
  PROVE  Store!Erase
<1>1. /\ update = NoUpdate /\ UNCHANGED << node_bb, update, failed, pending >>
      /\ \A k \in Keys : pending[k] = {} /\ node_bb[k] = NULL
      /\ \A k \in Keys : flash'[k] = flash[k] \/ flash'[k] = NULL
  BY NamesFacts DEF InitErases, EraseFails, ram_vars, NamesInv, FreshNames, Fresh
<1>2. \A k \in Keys : Busy(k) = NULL /\ Busy(k)' = NULL
  BY <1>1 DEF Busy, NoUpdate
<1>3. \A k \in Keys : Holds(k) = {flash[k]} /\ Holds(k)' = {flash'[k]}
  BY <1>1, <1>2 DEF Holds
<1>4. \A k \in Keys : Holds(k)' = Holds(k) \/ Holds(k)' = {NULL}
  BY <1>1, <1>3
<1>5. [k \in Keys |-> Holds(k)'] \in [Keys -> SUBSET (Values \cup {NULL})]
  <2>1. \A k \in Keys : flash'[k] \in Values \cup {NULL}
    BY DEF NamesInv, NamesTypeOK
  <2> QED  BY <1>3, <2>1
<1>6. node_bb = [k \in Keys |-> NULL]
  BY <1>1, MappingFacts
<1> QED  BY <1>1, <1>2, <1>4, <1>5, <1>6 DEF Store!Erase, Holds

(* Restoring a name is a Restore of the store,                                *)
LEMMA RestoreRefines ==
  ASSUME NamesInv, NamesInv', NEW k \in Keys, RestoreName(k)
  PROVE  Store!Restore(k)
<1>1. /\ update = NoUpdate /\ UNCHANGED << flash, pending, update, failed >>
      /\ node_bb[k] = NULL
      /\ node_bb' = [node_bb EXCEPT ![k] = flash[k]]
      /\ \A j \in Keys : pending[j] = {}
  BY DEF RestoreName, flash_vars, NamesInv, FreshNames, Fresh, Keys
<1>2. \A j \in Keys : Busy(j) = NULL /\ Busy(j)' = NULL
  BY <1>1 DEF Busy, NoUpdate
<1>3. \A j \in Keys : Holds(j) = {flash[j]} /\ Holds(j)' = {flash[j]}
  BY <1>1, <1>2 DEF Holds
<1>4. flash[k] \in Holds(k)
  BY <1>3
<1>5. [j \in Keys |-> Holds(j)'] = [[j \in Keys |-> Holds(j)] EXCEPT ![k] = {flash[k]}]
  BY <1>3
<1>6. [j \in Keys |-> Busy(j)'] = [j \in Keys |-> Busy(j)]
  BY <1>2
<1> QED  BY <1>1, <1>2, <1>4, <1>5, <1>6 DEF Store!Restore, Holds

-----------------------------------------------------------------------------
(* an update that begins is a Request,                                        *)
LEMMA BeginsRefines ==
  ASSUME NamesInv, NamesInv', NEW k \in Keys, NEW n \in Values, UpdateBegins(k, n)
  PROVE  Store!Request(k, n)
<1>1. /\ update.at = "none"
      /\ update' = [at |-> "set", key |-> k, name |-> n]
      /\ UNCHANGED << flash, pending, node_bb, failed >>
  BY DEF UpdateBegins, flash_vars
<1>2. \A j \in Keys : Busy(j) = NULL /\ Busy(j)' = IF j = k THEN n ELSE NULL
  BY <1>1 DEF Busy
<1>3. \A j \in Keys : Holds(j)' = IF j = k THEN Holds(j) \cup {n} ELSE Holds(j)
  BY <1>1, <1>2, NamesFacts DEF Holds
<1>4. [j \in Keys |-> Holds(j)'] = [[j \in Keys |-> Holds(j)] EXCEPT ![k] = @ \cup {n}]
  BY <1>3
<1>5. [j \in Keys |-> Busy(j)'] = [[j \in Keys |-> Busy(j)] EXCEPT ![k] = n]
  BY <1>2
<1> QED  BY <1>1, <1>2, <1>4, <1>5 DEF Store!Request, Holds

(* the change in memory is a Change,                                          *)
LEMMA SetsRefines ==
  ASSUME NamesInv, NamesInv', UpdateSetsName \/ UpdateLosesName
  PROVE  Store!Change(update.key)
<1>1. /\ update.at = "set"
      /\ update' = [update EXCEPT !.at = "write"]
      /\ UNCHANGED << flash, pending, failed >>
      /\ node_bb' \in {[node_bb EXCEPT ![update.key] = v] : v \in {update.name, NULL}}
  BY DEF UpdateSetsName, UpdateLosesName, flash_vars
<1>2. /\ update'.at = "write" /\ update'.key = update.key /\ update'.name = update.name
  BY <1>1, UpdatingFacts DEF Update
<1>3. \A j \in Keys : Busy(j)' = Busy(j)
  BY <1>1, <1>2 DEF Busy
<1>4. \A j \in Keys : Holds(j)' = Holds(j)
  BY <1>1, <1>3 DEF Holds
<1>5. Busy(update.key) = update.name /\ Busy(update.key) # NULL /\ update.key \in Keys
  BY <1>1, BusyWhenUpdating, UpdatingFacts
<1>6. /\ [j \in Keys |-> Holds(j)'] = [j \in Keys |-> Holds(j)]
      /\ [j \in Keys |-> Busy(j)'] = [j \in Keys |-> Busy(j)]
  BY <1>3, <1>4
<1> QED  BY <1>1, <1>5, <1>6 DEF Store!Change, Holds

(* A value that has been set in flash was what the update stores.             *)
LEMMA WritesRefines ==
  ASSUME NamesInv, NamesInv', UpdateWrites
  PROVE  UNCHANGED Store!store_vars
<1>1. /\ update.at = "write"
      /\ node_bb[update.key] = update.name
      /\ pending' = [pending EXCEPT ![update.key] = @ \cup {update.name}]
      /\ update' = [update EXCEPT !.at = "commit"]
      /\ UNCHANGED << flash, node_bb, failed >>
  BY DEF UpdateWrites, NamesInv, UpdateInHand
<1>2. /\ update'.at = "commit" /\ update'.key = update.key /\ update'.name = update.name
  BY <1>1, UpdatingFacts DEF Update
<1>3. \A j \in Keys : Busy(j)' = Busy(j)
  BY <1>1, <1>2 DEF Busy
<1>4. /\ Busy(update.key) = update.name /\ update.name # NULL /\ update.key \in Keys
  BY <1>1, BusyWhenUpdating, UpdatingFacts
<1>5. \A j \in Keys : Holds(j)' = Holds(j)
  BY <1>1, <1>3, <1>4, MappingFacts DEF Holds
<1>6. /\ [j \in Keys |-> Holds(j)'] = [j \in Keys |-> Holds(j)]
      /\ [j \in Keys |-> Busy(j)'] = [j \in Keys |-> Busy(j)]
  BY <1>3, <1>5
<1> QED  BY <1>1, <1>6 DEF Store!store_vars, Holds

(* a commit is a Succeed,                                                     *)
LEMMA CommitsRefines ==
  ASSUME NamesInv, NamesInv', UpdateCommits, NEW k \in Keys, k = update.key
  PROVE  Store!Succeed(k)
<1>1. /\ update.at = "commit"
      /\ node_bb[update.key] = update.name
      /\ flash' = [flash EXCEPT ![update.key] = update.name]
      /\ pending' = [pending EXCEPT ![update.key] = {}]
      /\ update' = NoUpdate
      /\ failed' = failed \ {update.key}
      /\ UNCHANGED node_bb
  BY DEF UpdateCommits, NamesInv, UpdateInHand
<1>2. /\ Busy(update.key) = update.name /\ update.name # NULL /\ update.key \in Keys
      /\ \A j \in Keys : j # update.key => Busy(j) = NULL
  BY <1>1, BusyWhenUpdating, UpdatingFacts
<1>3. \A j \in Keys : Busy(j)' = NULL
  BY <1>1 DEF Busy, NoUpdate
<1>4. \A j \in Keys : Holds(j)' = IF j = update.key THEN {update.name} ELSE Holds(j)
  BY <1>1, <1>2, <1>3, MappingFacts DEF Holds
<1>5. [j \in Keys |-> Holds(j)'] =
         [[j \in Keys |-> Holds(j)] EXCEPT ![update.key] = {update.name}]
  BY <1>4
<1>6. [j \in Keys |-> Busy(j)'] = [[j \in Keys |-> Busy(j)] EXCEPT ![update.key] = NULL]
  BY <1>2, <1>3
<1> QED  BY <1>1, <1>2, <1>5, <1>6 DEF Store!Succeed, Holds

(* and an update that fails is a Fail.                                        *)
LEMMA FailsRefines ==
  ASSUME NamesInv, NamesInv', UpdateFails, NEW k \in Keys, k = update.key
  PROVE  Store!Fail(k)
<1>1. /\ update.at # "none"
      /\ update' = NoUpdate
      /\ failed' = failed \cup {update.key}
      /\ UNCHANGED << node_bb, flash, pending >>
  BY DEF UpdateFails, WriteFails, flash_vars
<1>2. /\ Busy(update.key) # NULL /\ update.key \in Keys
      /\ \A j \in Keys : j # update.key => Busy(j) = NULL
  BY <1>1, BusyWhenUpdating, UpdatingFacts
<1>3. \A j \in Keys : Busy(j)' = NULL
  BY <1>1 DEF Busy, NoUpdate
<1> DEFINE left == {flash[update.key]} \cup pending[update.key]
<1>4. \A j \in Keys : Holds(j)' = IF j = update.key THEN left ELSE Holds(j)
  BY <1>1, <1>2, <1>3 DEF Holds
<1>5. left \in (SUBSET Holds(update.key)) \ {{}}
  BY <1>1, <1>2, <1>3 DEF Holds
<1>6. [j \in Keys |-> Holds(j)'] = [[j \in Keys |-> Holds(j)] EXCEPT ![update.key] = left]
  BY <1>4
<1>7. [j \in Keys |-> Busy(j)'] = [[j \in Keys |-> Busy(j)] EXCEPT ![update.key] = NULL]
  BY <1>2, <1>3
<1> HIDE DEF left
<1> QED  BY <1>1, <1>2, <1>5, <1>6, <1>7 DEF Store!Fail, Holds

(* The store does not see the rest.                                           *)
LEMMA UnseenRefines ==
  ASSUME UNCHANGED << node_bb, flash, pending, update, failed >>
  PROVE  UNCHANGED Store!store_vars
  BY DEF Store!store_vars, Busy

(* Every step is one of the store or a stutter.                               *)
LEMMA NamesStepRefines ==
  ASSUME NamesInv, NamesInv', [NamesNext]_names_vars
  PROVE  [Store!StoreNext]_(Store!store_vars)
<1>1. CASE PowerCut \/ ModuleFails \/ UpdateAborts \/ (\E k \in Keys : RestoreFails(k))
  <2>1. Store!PowerCut
    BY <1>1, RestartSteps, RestartRefines DEF NamesInv, Restarts
  <2> QED  BY <2>1 DEF Store!StoreNext
<1>2. CASE InitErases \/ EraseFails
  BY <1>2, EraseRefines DEF Store!StoreNext
<1>3. CASE \E k \in Keys : RestoreName(k)
  <2>1. PICK k \in Keys : Store!Restore(k)
    BY <1>3, RestoreRefines
  <2> QED  BY <2>1 DEF Store!StoreNext
<1>4. CASE NameDevice \/ NameNode
  <2>1. PICK k \in Keys, n \in Values : UpdateBegins(k, n)
    BY <1>4, NamesFacts DEF NameDevice, NameNode, Keys, Values
  <2>2. Store!Request(k, n)
    BY <2>1, BeginsRefines
  <2> QED  BY <2>2 DEF Store!StoreNext
<1>5. CASE UpdateSetsName \/ UpdateLosesName
  <2>1. update.key \in Keys
    BY <1>5, UpdatingFacts DEF UpdateSetsName, UpdateLosesName
  <2> QED  BY <1>5, <2>1, SetsRefines DEF Store!StoreNext
<1>6. CASE UpdateWrites
  BY <1>6, WritesRefines
<1>7. CASE UpdateCommits
  <2>1. update.key \in Keys
    BY <1>7, UpdatingFacts DEF UpdateCommits
  <2>2. \E k \in Keys : Store!Succeed(k)
    <3>1. PICK k \in Keys : k = update.key
      BY <2>1
    <3> QED  BY <3>1, <1>7, CommitsRefines
  <2> QED  BY <2>2 DEF Store!StoreNext
<1>8. CASE UpdateFails
  <2>1. update.key \in Keys
    BY <1>8, UpdatingFacts DEF UpdateFails, WriteFails
  <2>2. \E k \in Keys : Store!Fail(k)
    <3>1. PICK k \in Keys : k = update.key
      BY <2>1
    <3> QED  BY <3>1, <1>8, FailsRefines
  <2> QED  BY <2>2 DEF Store!StoreNext
<1>9. CASE InitNvs \/ InitFails \/ StartModules \/ UNCHANGED names_vars
  <2>1. UNCHANGED << node_bb, flash, pending, update, failed >>
    BY <1>9 DEF InitNvs, InitFails, StartModules, names_vars, flash_vars, ram_vars
  <2> QED  BY <2>1, UnseenRefines
<1> QED  BY <1>1, <1>2, <1>3, <1>4, <1>5, <1>6, <1>7, <1>8, <1>9
            DEF NamesNext, AppMain, UpdateStep

(* What an update has reported as stored survives any power cut, one that     *)
(* failed leaves the old name or the new one, and no other name changes.      *)
THEOREM NamesImplementStore == NamesSafety => ImplementsStore
<1>1. NamesInv /\ NamesInv' /\ [NamesNext]_names_vars => [Store!StoreNext]_(Store!store_vars)
  BY NamesStepRefines
<1> QED  BY InitRefines, <1>1, NamesInvariant, PTL DEF NamesSafety, ImplementsStore, Store!StoreSafety
=============================================================================
