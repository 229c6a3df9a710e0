------------------------------- MODULE OshSetup -------------------------------
(* A node from its first power-on to its network credentials: the boot and    *)
(* the names (OshNames), wifi_task's osh_node_wifi_init_poweron, the          *)
(* provisioning branch of event_handler, and the buttons.  Credentials and    *)
(* names share one flash partition.                                           *)
(*                                                                            *)
(* The provisioning manager is external: it announces a service, takes        *)
(* credentials from the owner, stores them and tries them.  Each failed       *)
(* attempt posts CRED_FAIL; the attempts after the first are those that       *)
(* event_handler starts when the station is refused (OshNode).                *)
EXTENDS OshNames, Sequences

CONSTANTS MaxRetries,     \* CONFIG_NODE_WIFI_PROV_RETRIES
          EventQueue      \* events the event loop holds (bound of the model)

ASSUME SetupAssumption == /\ MaxRetries \in Nat \ {0}
                          /\ EventQueue \in Nat \ {0}

VARIABLES creds,     \* the credentials in flash
          poweron,   \* osh_node_wifi_init_poweron: not called yet, or what it started
          manager,   \* the provisioning manager
          events,    \* posted and not handled yet
          retries    \* event_handler's counter of failures

setup_ram  == << poweron, manager, events, retries >>
setup_vars == << creds, setup_ram >>
vars       == << names_vars, setup_vars >>

ManagerStates == {"off", "waiting", "trying", "failed", "done", "ended"}
ProvEvents    == {"CRED_FAIL", "CRED_SUCCESS", "END"}

SetupTypeOK == /\ NamesTypeOK
               /\ creds \in {"none", "good", "bad"}
               /\ poweron \in {"none", "service", "station"}
               /\ manager \in ManagerStates
               /\ events \in Seq(ProvEvents)
               /\ Len(events) <= EventQueue
               /\ retries \in 0 .. MaxRetries - 1

SetupInit == /\ NamesInit
             /\ creds = "none"
             /\ poweron = "none"
             /\ manager = "off"
             /\ events = << >>
             /\ retries = 0

SetupRestart == /\ poweron' = "none"
                /\ manager' = "off"
                /\ events' = << >>
                /\ retries' = 0

-----------------------------------------------------------------------------
(* What an erasure of the partition leaves of the credentials: nothing when   *)
(* it is through, perhaps nothing when it was cut short.                      *)
CredsLeft == IF boot = "nvs" /\ full
             THEN CASE nvs_up'       -> {"none"}
                    [] boot' = "nvs" -> {creds, "none"}
                    [] OTHER         -> {creds}
             ELSE {creds}

(* Everything that goes on in OshNames; a restart takes the memory of this    *)
(* module with it.                                                            *)
NamesStep == /\ NamesNext
             /\ IF boot' = "nvs" THEN SetupRestart ELSE UNCHANGED setup_ram
             /\ creds' \in CredsLeft

(* The reset button, which the modules' initialisation registers, erases the  *)
(* credentials first, if Wi-Fi is initialised.                                *)
ResetButton == /\ Fault
               /\ boot \in {"network", "running"}
               /\ Restart
               /\ SetupRestart
               /\ creds' \in {creds, "none"}
               /\ boot = "running" => creds' = "none"
               /\ UNCHANGED full

-----------------------------------------------------------------------------
(* osh_node_wifi_init_poweron, in wifi_task.                                  *)
StartStation == /\ boot = "running"
                /\ poweron = "none"
                /\ creds # "none"
                /\ poweron' = "station"
                /\ UNCHANGED << names_vars, creds, manager, events, retries >>

StartService == /\ boot = "running"
                /\ poweron = "none"
                /\ creds = "none"
                /\ poweron' = "service"
                /\ manager' = "waiting"
                /\ UNCHANGED << names_vars, creds, events, retries >>

-----------------------------------------------------------------------------
(* The manager.                                                               *)
Post(e) == /\ Len(events) < EventQueue
           /\ events' = Append(events, e)

ReceiveCredentials == /\ manager = "waiting"
                      /\ manager' = "trying"
                      /\ creds' \in {"good", "bad"}
                      /\ UNCHANGED << names_vars, poweron, events, retries >>

TryFails == /\ manager \in {"trying", "failed"}
            /\ manager' = "failed"
            /\ Post("CRED_FAIL")
            /\ UNCHANGED << names_vars, creds, poweron, retries >>

TrySucceeds == /\ manager \in {"trying", "failed"}
               /\ creds = "good"
               /\ manager' = "done"
               /\ Post("CRED_SUCCESS")
               /\ UNCHANGED << names_vars, creds, poweron, retries >>

ServiceEnds == /\ manager = "done"
               /\ manager' = "ended"
               /\ Post("END")
               /\ UNCHANGED << names_vars, creds, poweron, retries >>

(* wifi_prov_mgr_reset_sm_state_on_failure: only a manager that has failed    *)
(* forgets the credentials and takes new ones.                                *)
ResetManager == IF manager = "failed"
                THEN manager' = "waiting" /\ creds' = "none"
                ELSE UNCHANGED << manager, creds >>

-----------------------------------------------------------------------------
(* event_handler, WIFI_PROV_EVENT.                                            *)
Receive(e) == /\ events # << >>
              /\ Head(events) = e
              /\ events' = Tail(events)
              /\ UNCHANGED << names_vars, poweron >>

HandleFailAnew == /\ Receive("CRED_FAIL")                      \* mutant
                  /\ IF 1 >= MaxRetries
                     THEN ResetManager
                     ELSE UNCHANGED << manager, creds >>
                  /\ retries' = 0

HandleFailErases == /\ Receive("CRED_FAIL")                    \* mutant
                    /\ IF retries + 1 >= MaxRetries
                       THEN /\ manager' = "waiting"
                            /\ creds' = "none"
                            /\ retries' = 0
                       ELSE /\ retries' = retries + 1
                            /\ UNCHANGED << manager, creds >>

HandleFailLate == /\ Receive("CRED_FAIL")                      \* mutant
                  /\ IF retries >= MaxRetries
                     THEN ResetManager /\ retries' = 0
                     ELSE /\ retries' = retries + 1
                          /\ UNCHANGED << manager, creds >>

HandleFail == /\ Receive("CRED_FAIL")
              /\ IF retries + 1 >= MaxRetries
                 THEN ResetManager /\ retries' = 0
                 ELSE /\ retries' = retries + 1
                      /\ UNCHANGED << manager, creds >>

HandleSuccess == /\ Receive("CRED_SUCCESS")
                 /\ retries' = 0
                 /\ UNCHANGED << manager, creds >>

HandleEnd == /\ Receive("END")
             /\ manager' = "off"
             /\ UNCHANGED << creds, retries >>

EventHandler == HandleFail \/ HandleSuccess \/ HandleEnd

PowerOn == StartStation \/ StartService

SetupNext == \/ NamesStep
             \/ ResetButton
             \/ PowerOn
             \/ ReceiveCredentials \/ TryFails \/ TrySucceeds \/ ServiceEnds
             \/ EventHandler

SetupSafety == SetupInit /\ [][SetupNext]_vars

(* The boot and wifi_task run, events are handled, and a station that was     *)
(* refused tries again (OshNode, Reconnects).  Nobody owes the node good      *)
(* credentials.                                                               *)
SetupSpec == /\ SetupSafety
             /\ WF_vars(NamesStep /\ (AppMain \/ UpdateStep))
             /\ WF_vars(PowerOn)
             /\ WF_vars(TryFails \/ TrySucceeds)
             /\ WF_vars(EventHandler)

-----------------------------------------------------------------------------
(* Credentials that cannot work are given up, so that the owner can send      *)
(* others: every failure is counted, whatever comes between, until the        *)
(* manager is reset.  Only a restart ends this, and then the bad credentials  *)
(* stay (osh_node_wifi.c:141, "reseting provisioned credentials").            *)
BadCredentialsDropped ==
    (manager = "failed" /\ creds = "bad") ~> (manager = "waiting" \/ boot = "nvs")

(* Credentials that have worked are not thrown away by failures reported      *)
(* late: they go with the reset button, or with the partition.                *)
WorkingCredentialsStay ==
    [][(manager \in {"done", "ended"} /\ creds = "good")
         => (creds' = "good" \/ boot' = "nvs")]_vars
=============================================================================
