---------------------------- MODULE OshSetupProofs ----------------------------
(* Proofs about a node that is being set up: what holds of the names by       *)
(* themselves (OshNamesProofs) holds of them here, and the credentials.       *)
EXTENDS OshSetup, OshNamesProofs

(* Every step of the set-up is one of the names or leaves them alone.         *)
LEMMA SetupStepIsNamesStep == [SetupNext]_vars => [NamesNext]_names_vars
<1> SUFFICES ASSUME [SetupNext]_vars PROVE [NamesNext]_names_vars
  OBVIOUS
<1>1. CASE NamesStep
  BY <1>1 DEF NamesStep
<1>2. CASE ResetButton
  BY <1>2 DEF ResetButton, NamesNext, PowerCut
<1>3. CASE PowerOn \/ ReceiveCredentials \/ TryFails \/ TrySucceeds \/ ServiceEnds
  BY <1>3 DEF PowerOn, StartStation, StartService, ReceiveCredentials, TryFails,
              TrySucceeds, ServiceEnds, names_vars
<1>4. CASE EventHandler
  BY <1>4 DEF EventHandler, HandleFail, HandleSuccess, HandleEnd, Receive, names_vars
<1>5. CASE UNCHANGED vars
  BY <1>5 DEF vars, names_vars
<1> QED  BY <1>1, <1>2, <1>3, <1>4, <1>5 DEF SetupNext

(* The names are safe on a node that is being set up, reset and started.      *)
THEOREM SetupKeepsNames == SetupSafety => NamesSafety
<1>1. SetupInit => NamesInit
  BY DEF SetupInit
<1> QED  BY <1>1, SetupStepIsNamesStep, PTL DEF SetupSafety, NamesSafety

(* The names of node.c behave as their store promises, with the               *)
(* provisioning and the reset button of wifi.c and status.c around them.      *)
THEOREM SetupImplementsStore == SetupSafety => ImplementsStore
  BY SetupKeepsNames, NamesImplementStore, PTL

(* The device name is known to the provisioning service that announces it     *)
(* (osh_node_wifi_init_poweron), and the copies of a name agree.              *)
THEOREM SetupNamesDevice == SetupSafety => [](DevNameKnown /\ CopiesDifferOnlyAfterError)
  BY SetupKeepsNames, DevNameAlwaysKnown, CopiesAgreeUnlessReported, PTL

-----------------------------------------------------------------------------
(* Provisioning goes on only while the modules run.                           *)
SetupOffInBoot == boot # "running" => poweron = "none" /\ manager = "off"

SetupInv == NamesInv /\ SetupTypeOK /\ SetupOffInBoot

(* The invariant holds at the start.                                          *)
LEMMA SetupInitInv == SetupInit => SetupInv
<1> SUFFICES ASSUME SetupInit PROVE SetupInv
  OBVIOUS
<1>1. NamesInv /\ NamesTypeOK
  BY NamesInitInv DEF SetupInit, NamesInv
<1>2. events \in Seq(ProvEvents) /\ Len(events) <= EventQueue
  BY SetupAssumption DEF SetupInit
<1>3. /\ creds \in {"none", "good", "bad"}
      /\ poweron \in {"none", "service", "station"}
      /\ manager \in ManagerStates
      /\ retries \in 0 .. MaxRetries - 1
  BY SetupAssumption DEF SetupInit, ManagerStates
<1> QED  BY <1>1, <1>2, <1>3 DEF SetupInv, SetupTypeOK, SetupOffInBoot, SetupInit

(* From "running" the boot goes nowhere but to a restart.                     *)
LEMMA RunningStays == boot = "running" /\ NamesNext => boot' \in {"running", "nvs"}
  BY DEF NamesNext, AppMain, UpdateStep, InitNvs, InitErases, RestoreName, RestoreFails,
         NameDevice, NameNode, StartModules, UpdateBegins, UpdateSetsName, UpdateLosesName,
         UpdateWrites, UpdateCommits, UpdateFails, UpdateAborts, InitFails, EraseFails,
         ModuleFails, PowerCut, Restart, ram_vars, Keys

(* A restart leaves the types of the memory in order.                         *)
LEMMA SetupRestartType ==
  ASSUME SetupRestart, NamesTypeOK', creds' \in {"none", "good", "bad"}
  PROVE  SetupTypeOK' /\ SetupOffInBoot'
<1>1. events' \in Seq(ProvEvents) /\ Len(events') <= EventQueue
  BY SetupAssumption DEF SetupRestart
<1>2. /\ poweron' \in {"none", "service", "station"}
      /\ manager' \in ManagerStates
      /\ retries' \in 0 .. MaxRetries - 1
  BY SetupAssumption DEF SetupRestart, ManagerStates
<1> QED  BY <1>1, <1>2 DEF SetupTypeOK, SetupOffInBoot, SetupRestart

(* The steps of the names keep the invariant.                                 *)
LEMMA NamesStepInSetup ==
  ASSUME SetupInv, NamesStep, NamesInv'
  PROVE  SetupInv'
<1>1. creds' \in {"none", "good", "bad"}
  BY DEF SetupInv, SetupTypeOK, NamesStep, CredsLeft
<1>2. CASE boot' = "nvs"
  BY <1>1, <1>2, SetupRestartType DEF NamesStep, NamesInv, SetupInv
<1>3. CASE boot' # "nvs"
  <2>1. UNCHANGED setup_ram
    BY <1>3 DEF NamesStep
  <2>2. boot = "running" => boot' = "running"
    BY <1>3, RunningStays DEF NamesStep
  <2> QED  BY <1>1, <2>1, <2>2 DEF SetupInv, SetupTypeOK, SetupOffInBoot, setup_ram, NamesInv
<1> QED  BY <1>2, <1>3

(* The queue of the event loop.                                               *)
LEMMA PostType ==
  ASSUME SetupTypeOK, NEW e \in ProvEvents, Post(e)
  PROVE  events' \in Seq(ProvEvents) /\ Len(events') <= EventQueue
  BY SetupAssumption DEF SetupTypeOK, Post

(* So does taking an event from the queue,                                    *)
LEMMA ReceiveType ==
  ASSUME SetupTypeOK, events # << >>, events' = Tail(events)
  PROVE  events' \in Seq(ProvEvents) /\ Len(events') <= EventQueue
  BY SetupAssumption DEF SetupTypeOK

(* so do the steps of the manager                                             *)
LEMMA ManagerStep ==
  ASSUME SetupInv, NamesInv',
         ReceiveCredentials \/ TryFails \/ TrySucceeds \/ ServiceEnds
  PROVE  SetupInv'
<1>1. UNCHANGED << names_vars, poweron, retries >> /\ manager # "off"
  BY DEF ReceiveCredentials, TryFails, TrySucceeds, ServiceEnds
<1>2. events' \in Seq(ProvEvents) /\ Len(events') <= EventQueue
  <2>1. CASE ReceiveCredentials
    BY <2>1 DEF ReceiveCredentials, SetupInv, SetupTypeOK
  <2>2. CASE TryFails \/ TrySucceeds \/ ServiceEnds
    <3>1. PICK e \in ProvEvents : Post(e)
      BY <2>2 DEF TryFails, TrySucceeds, ServiceEnds, ProvEvents
    <3> QED  BY <3>1, PostType DEF SetupInv
  <2> QED  BY <2>1, <2>2
<1>3. creds' \in {"none", "good", "bad"} /\ manager' \in ManagerStates
  BY DEF ReceiveCredentials, TryFails, TrySucceeds, ServiceEnds, SetupInv, SetupTypeOK,
         ManagerStates
<1>4. boot = "running" /\ boot' = "running"
  BY <1>1 DEF SetupInv, SetupOffInBoot, names_vars, ram_vars
<1> QED  BY <1>1, <1>2, <1>3, <1>4 DEF SetupInv, SetupTypeOK, SetupOffInBoot, NamesInv

(* and those of event_handler, whose counter starts again before it reaches   *)
(* the limit.                                                                 *)
LEMMA HandlerStep ==
  ASSUME SetupInv, NamesInv', EventHandler
  PROVE  SetupInv'
<1>1. /\ UNCHANGED << names_vars, poweron >>
      /\ events # << >>
      /\ events' = Tail(events)
  BY DEF EventHandler, HandleFail, HandleSuccess, HandleEnd, Receive
<1>2. events' \in Seq(ProvEvents) /\ Len(events') <= EventQueue
  BY <1>1, ReceiveType DEF SetupInv
<1>3. /\ creds' \in {"none", "good", "bad"}
      /\ manager' \in ManagerStates
      /\ manager = "off" => manager' = "off"
  BY DEF EventHandler, HandleFail, HandleSuccess, HandleEnd, ResetManager, SetupInv,
         SetupTypeOK, ManagerStates
<1>4. retries' \in 0 .. MaxRetries - 1
  BY SetupAssumption
     DEF EventHandler, HandleFail, HandleSuccess, HandleEnd, SetupInv, SetupTypeOK
<1>5. boot' = boot
  BY <1>1 DEF names_vars, ram_vars
<1> QED  BY <1>1, <1>2, <1>3, <1>4, <1>5 DEF SetupInv, SetupTypeOK, SetupOffInBoot, NamesInv

(* Every step keeps the invariant.                                            *)
LEMMA SetupStepInv == SetupInv /\ [SetupNext]_vars => SetupInv'
<1> SUFFICES ASSUME SetupInv, [SetupNext]_vars PROVE SetupInv'
  OBVIOUS
<1>1. NamesInv'
  BY SetupStepIsNamesStep, NamesStepInv DEF SetupInv
<1>2. CASE NamesStep
  BY <1>1, <1>2, NamesStepInSetup
<1>3. CASE ResetButton
  <2>1. creds' \in {"none", "good", "bad"} /\ SetupRestart
    BY <1>3 DEF ResetButton, SetupInv, SetupTypeOK
  <2> QED  BY <1>1, <2>1, SetupRestartType DEF SetupInv, NamesInv
<1>4. CASE PowerOn
  <2>1. /\ UNCHANGED << names_vars, creds, events, retries >>
        /\ boot = "running" /\ boot' = boot
        /\ poweron' \in {"none", "service", "station"}
        /\ manager' \in {manager, "waiting"}
    BY <1>4 DEF PowerOn, StartStation, StartService, names_vars, ram_vars
  <2> QED  BY <1>1, <2>1 DEF SetupInv, SetupTypeOK, SetupOffInBoot, NamesInv, ManagerStates
<1>5. CASE ReceiveCredentials \/ TryFails \/ TrySucceeds \/ ServiceEnds
  BY <1>1, <1>5, ManagerStep
<1>6. CASE EventHandler
  BY <1>1, <1>6, HandlerStep
<1>7. CASE UNCHANGED vars
  BY <1>1, <1>7 DEF vars, names_vars, ram_vars, setup_vars, setup_ram, SetupInv, SetupTypeOK,
                    SetupOffInBoot, NamesInv
<1> QED  BY <1>2, <1>3, <1>4, <1>5, <1>6, <1>7 DEF SetupNext

(* The inductive invariant: the types, the invariant of the names, and that   *)
(* wifi_task and the manager are off until the modules run.                   *)
THEOREM SetupInvariant == SetupSafety => []SetupInv
  BY SetupInitInv, SetupStepInv, PTL DEF SetupSafety

(* Every variable of the set-up keeps its type; the counter of                *)
(* event_handler stays below CONFIG_NODE_WIFI_PROV_RETRIES.                   *)
THEOREM SetupTypeCorrect == SetupSafety => []SetupTypeOK
<1>1. SetupInv => SetupTypeOK
  BY DEF SetupInv
<1> QED  BY <1>1, SetupInvariant, PTL

(* Credentials that have worked are lost only with a restart: a failure that  *)
(* is reported late resets no manager that has succeeded, and the partition   *)
(* is erased only before the modules run.                                     *)
THEOREM WorkingCredentialsAreKept == SetupSafety => WorkingCredentialsStay
<1>1. ASSUME SetupInv, [SetupNext]_vars, manager \in {"done", "ended"}, creds = "good"
      PROVE  creds' = "good" \/ boot' = "nvs"
  <2>1. boot = "running"
    BY <1>1 DEF SetupInv, SetupOffInBoot
  <2>2. CASE NamesStep
    BY <1>1, <2>1, <2>2 DEF NamesStep, CredsLeft
  <2>3. CASE ResetButton
    BY <2>3 DEF ResetButton, Restart
  <2>4. CASE PowerOn \/ ReceiveCredentials \/ TryFails \/ TrySucceeds \/ ServiceEnds
    BY <1>1, <2>4 DEF PowerOn, StartStation, StartService, ReceiveCredentials, TryFails,
                      TrySucceeds, ServiceEnds
  <2>5. CASE EventHandler
    BY <1>1, <2>5 DEF EventHandler, HandleFail, HandleSuccess, HandleEnd, ResetManager
  <2>6. CASE UNCHANGED vars
    BY <1>1, <2>6 DEF vars, setup_vars
  <2> QED  BY <1>1, <2>2, <2>3, <2>4, <2>5, <2>6 DEF SetupNext
<1>2. SetupInv /\ [SetupNext]_vars
        => [(manager \in {"done", "ended"} /\ creds = "good")
              => (creds' = "good" \/ boot' = "nvs")]_vars
  BY <1>1
<1> QED  BY <1>2, SetupInvariant, PTL DEF SetupSafety, WorkingCredentialsStay
=============================================================================
