------------------------------- MODULE OshNames -------------------------------
(* The names of a node (osh_node.c): app_main's boot, which initialises the   *)
(* flash partition, restores both names into the blackboard node_bb and has   *)
(* the network module make a device name if there is none; and the updates,   *)
(* which replace a name in memory first and in flash afterwards.  Power may   *)
(* be cut, and any call may fail, between any two steps.                      *)
(*                                                                            *)
(* The flash library (NVS) is external: a value that was set and not yet      *)
(* committed may or may not be there after a power cut.                       *)
EXTENDS Naturals

CONSTANTS Names,      \* the names the application gives the node
          MacName,    \* the name made of the station's MAC address
          NULL,
          MaxFaults   \* power cuts and failures in a behaviour (bound of the model)

ASSUME NamesAssumption == /\ NULL \notin Names \cup {MacName}
                          /\ MaxFaults \in Nat

Keys   == {"node_name", "dev_name"}
Values == Names \cup {MacName}

VARIABLES
    flash,     \* the committed value of each key, NULL if it is not found
    pending,   \* values that were set for a key and not committed
    full,      \* nvs_flash_init will find no free page
    nvs_up,    \* nvs_flash_init has succeeded
    node_bb,   \* the two names in memory
    boot,      \* next step of app_main, "running" when the modules are started
    update,    \* the name update under way: its next step, its key, its argument
    failed,    \* keys whose last update since power-up reported an error
    faults

flash_vars == << flash, pending, full >>
ram_vars   == << nvs_up, node_bb, boot, update, failed >>
names_vars == << flash_vars, ram_vars, faults >>

BootSteps == {"nvs", "node_name", "dev_name", "network", "running"}

Update   == [at : {"none", "set", "write", "commit"}, key : Keys, name : Values \cup {NULL}]
NoUpdate == [at |-> "none", key |-> "node_name", name |-> NULL]

NamesTypeOK == /\ flash \in [Keys -> Values \cup {NULL}]
               /\ pending \in [Keys -> SUBSET Values]
               /\ full \in BOOLEAN
               /\ nvs_up \in BOOLEAN
               /\ node_bb \in [Keys -> Values \cup {NULL}]
               /\ boot \in BootSteps
               /\ update \in Update
               /\ failed \subseteq Keys
               /\ faults \in 0 .. MaxFaults

NoNames == [k \in Keys |-> NULL]

NamesInit == /\ flash = NoNames
             /\ pending = [k \in Keys |-> {}]
             /\ full = FALSE
             /\ nvs_up = FALSE
             /\ node_bb = NoNames
             /\ boot = "nvs"
             /\ update = NoUpdate
             /\ failed = {}
             /\ faults = 0

Fault == faults < MaxFaults /\ faults' = faults + 1

(* Memory is gone; of what was not committed, some may have reached flash.    *)
Restart == /\ nvs_up' = FALSE
           /\ node_bb' = NoNames
           /\ boot' = "nvs"
           /\ update' = NoUpdate
           /\ failed' = {}
           /\ flash' \in [Keys -> Values \cup {NULL}]
           /\ \A k \in Keys : flash'[k] \in {flash[k]} \cup pending[k]
           /\ pending' = [k \in Keys |-> {}]

(* A power cut, or a restart by a button.                                     *)
PowerCut == /\ Fault
            /\ Restart
            /\ full' \in {full, TRUE}

-----------------------------------------------------------------------------
(* osh_node_init: the partition, then the two names.                          *)
InitNvs == /\ boot = "nvs"
           /\ ~ full
           /\ nvs_up' = TRUE
           /\ boot' = "node_name"
           /\ UNCHANGED << flash_vars, node_bb, update, failed, faults >>

InitLeavesFull ==                                              \* mutant
    /\ boot = "nvs"
    /\ full
    /\ nvs_up' = FALSE
    /\ boot' = "node_name"
    /\ UNCHANGED << flash_vars, node_bb, update, failed, faults >>

InitErases == /\ boot = "nvs"
              /\ full
              /\ flash' = NoNames
              /\ full' = FALSE
              /\ nvs_up' = TRUE
              /\ boot' = "node_name"
              /\ UNCHANGED << pending, node_bb, update, failed, faults >>

(* Erasing takes a while: a failure or a power cut may leave a part.          *)
EraseFails == /\ boot = "nvs"
              /\ full
              /\ Fault
              /\ flash' \in [Keys -> Values \cup {NULL}]
              /\ \A k \in Keys : flash'[k] \in {flash[k], NULL}
              /\ full' \in BOOLEAN
              /\ UNCHANGED << pending, ram_vars >>

(* Only the two errors that call for an erasure are looked at.                *)
InitFails == /\ boot = "nvs"
             /\ Fault
             /\ boot' = "node_name"
             /\ UNCHANGED << flash_vars, nvs_up, node_bb, update, failed >>

AfterRestore(k) == IF k = "node_name" THEN "dev_name" ELSE "network"

(* read_string_from_nvs: a name that is not found is NULL, and no error.      *)
RestoreName(k) == /\ boot = k
                  /\ nvs_up
                  /\ node_bb' = [node_bb EXCEPT ![k] = flash[k]]
                  /\ boot' = AfterRestore(k)
                  /\ UNCHANGED << flash_vars, nvs_up, update, failed, faults >>

(* Any other error aborts, and the chip starts again.                         *)
RestoreFails(k) == /\ boot = k
                   /\ IF nvs_up THEN Fault ELSE UNCHANGED faults
                   /\ Restart
                   /\ UNCHANGED full

-----------------------------------------------------------------------------
(* osh_node_node_name_update and osh_node_dev_name_update: the old name is    *)
(* freed and the new one duplicated, then it is set in flash and committed.   *)
UpdateBegins(k, n) == /\ update.at = "none"
                      /\ update' = [at |-> "set", key |-> k, name |-> n]
                      /\ UNCHANGED << flash_vars, nvs_up, node_bb, boot, failed, faults >>

UpdateSetsName == /\ update.at = "set"
                  /\ node_bb' = [node_bb EXCEPT ![update.key] = update.name]
                  /\ update' = [update EXCEPT !.at = "write"]
                  /\ UNCHANGED << flash_vars, nvs_up, boot, failed, faults >>

(* strdup finds no memory, which nobody notices.                              *)
UpdateLosesName == /\ update.at = "set"
                   /\ Fault
                   /\ node_bb' = [node_bb EXCEPT ![update.key] = NULL]
                   /\ update' = [update EXCEPT !.at = "write"]
                   /\ UNCHANGED << flash_vars, nvs_up, boot, failed >>

UpdateWritesNull ==                                            \* mutant
    /\ update.at = "write"
    /\ pending' = [pending EXCEPT ![update.key] = @ \cup {node_bb[update.key]}]
    /\ update' = [update EXCEPT !.at = "commit"]
    /\ UNCHANGED << flash, full, nvs_up, node_bb, boot, failed, faults >>

UpdateWrites == /\ update.at = "write"
                /\ node_bb[update.key] # NULL
                /\ pending' = [pending EXCEPT ![update.key] = @ \cup {node_bb[update.key]}]
                /\ update' = [update EXCEPT !.at = "commit"]
                /\ UNCHANGED << flash, full, nvs_up, node_bb, boot, failed, faults >>

UpdateSkipsCommit ==                                           \* mutant
    /\ update.at = "commit"
    /\ update' = NoUpdate
    /\ failed' = failed \ {update.key}
    /\ UNCHANGED << flash_vars, nvs_up, node_bb, boot, faults >>

UpdateCommits == /\ update.at = "commit"
                 /\ flash' = [flash EXCEPT ![update.key] = node_bb[update.key]]
                 /\ pending' = [pending EXCEPT ![update.key] = {}]
                 /\ update' = NoUpdate
                 /\ failed' = failed \ {update.key}
                 /\ UNCHANGED << full, nvs_up, node_bb, boot, faults >>

(* What can fail: opening and setting, and setting a NULL always does;        *)
(* committing.                                                                *)
WriteFails == \/ update.at \in {"write", "commit"} /\ Fault
              \/ /\ update.at = "write"
                 /\ node_bb[update.key] = NULL
                 /\ UNCHANGED faults

FailsUnreported == /\ WriteFails                               \* mutant
                   /\ update' = NoUpdate
                   /\ failed' = failed \ {update.key}
                   /\ UNCHANGED << flash_vars, nvs_up, node_bb, boot >>

BootIgnoresError == /\ WriteFails                              \* mutant
                    /\ update' = NoUpdate
                    /\ failed' = failed \cup {update.key}
                    /\ UNCHANGED << flash_vars, nvs_up, node_bb, boot >>

(* The application gets the error; in the boot it aborts.                     *)
UpdateFails == /\ WriteFails
               /\ boot = "running"
               /\ update' = NoUpdate
               /\ failed' = failed \cup {update.key}
               /\ UNCHANGED << flash_vars, nvs_up, node_bb, boot >>

(* A NULL that is written may also crash the chip.                            *)
UpdateAborts == /\ WriteFails
                /\ boot = "network" \/ node_bb[update.key] = NULL
                /\ Restart
                /\ UNCHANGED full

-----------------------------------------------------------------------------
(* osh_node_wifi_init makes a device name if none was restored.               *)
NameDevice == /\ boot = "network"
              /\ node_bb["dev_name"] = NULL
              /\ UpdateBegins("dev_name", MacName)

StartModules == /\ boot = "network"
                /\ update.at = "none"
                /\ node_bb["dev_name"] # NULL
                /\ boot' = "running"
                /\ UNCHANGED << flash_vars, nvs_up, node_bb, update, failed, faults >>

(* An error of any other call of the modules' init functions aborts too.      *)
ModuleFails == /\ boot = "network"
               /\ Fault
               /\ Restart
               /\ UNCHANGED full

(* The application gives the node a name.                                     *)
NameNode == /\ boot = "running"
            /\ \E n \in Names : UpdateBegins("node_name", n)

AppMain == \/ InitNvs
           \/ InitErases
           \/ \E k \in Keys : RestoreName(k) \/ RestoreFails(k)
           \/ NameDevice
           \/ StartModules

UpdateStep == UpdateSetsName \/ UpdateWrites \/ UpdateCommits \/ UpdateFails \/ UpdateAborts

NamesNext == \/ AppMain
             \/ NameNode
             \/ UpdateStep
             \/ UpdateLosesName
             \/ InitFails \/ EraseFails \/ ModuleFails
             \/ PowerCut

NamesSafety == NamesInit /\ [][NamesNext]_names_vars

(* app_main runs and an update that has begun goes on; nobody has to give the *)
(* node a name, and nothing has to fail.                                      *)
NamesSpec == NamesSafety /\ WF_names_vars(AppMain) /\ WF_names_vars(UpdateStep)

-----------------------------------------------------------------------------
(* Whenever the modules run, the device has its name, in memory for the       *)
(* provisioning service and in flash for the next boot, whatever was lost or  *)
(* cut short on the way.                                                      *)
DevNameKnown ==
    boot = "running" => /\ node_bb["dev_name"] = MacName
                        /\ flash["dev_name"] = MacName

(* The two copies of a name differ only while it is being updated or after an *)
(* update that reported an error, although memory is replaced first and       *)
(* nothing is put back when a later call fails.                               *)
CopiesDifferOnlyAfterError ==
    \A k \in Keys :
       boot = "running" /\ k \notin failed /\ ~ (update.at # "none" /\ update.key = k)
         => node_bb[k] = flash[k] /\ pending[k] = {}

(* The value an update is storing.                                            *)
Busy(k) == IF update.at # "none" /\ update.key = k THEN update.name ELSE NULL

Store == INSTANCE OshNameStore WITH
            Key   <- Keys,
            Value <- Values,
            None  <- NULL,
            name  <- node_bb,
            busy  <- [k \in Keys |-> Busy(k)],
            holds <- [k \in Keys |-> {flash[k]} \cup pending[k] \cup ({Busy(k)} \ {NULL})]

(* The names behave as their store promises: an update that returned ESP_OK   *)
(* survives, one that did not leaves the old or the new name.                 *)
ImplementsStore == Store!StoreSafety

(* Once nothing fails any more the node comes up, whatever state the flash    *)
(* and the partition were left in.                                            *)
ComesUp == <>[](boot = "running")
=============================================================================
