------------------------------- MODULE OshLink -------------------------------
(* The Wi-Fi station below the node: the driver with its access point, and    *)
(* the queue of the default event loop.  Neither is under src/; both are      *)
(* modelled from how osh_node_wifi.c uses them: esp_wifi_start posts          *)
(* STA_START, a connection attempt ends in GOT_IP or in STA_DISCONNECTED, and *)
(* a link that is lost posts STA_DISCONNECTED.                                *)
EXTENDS Sequences, Naturals

CONSTANT QueueBound   \* events the queue holds at most (bound of the model)

ASSUME QueueAssumption == QueueBound \in Nat \ {0}

LinkEvents == {"STA_START", "STA_DISCONNECTED", "STA_GOT_IP"}

VARIABLES link,        \* "stopped", "down", "connecting" or "up"
          evq,         \* events posted to the event loop and not handled yet
          provisioned  \* credentials are in flash; survives a restart

link_vars == << link, evq, provisioned >>

LinkTypeOK == /\ link \in {"stopped", "down", "connecting", "up"}
              /\ evq \in Seq(LinkEvents)
              /\ Len(evq) <= QueueBound
              /\ provisioned \in BOOLEAN

LinkInit == /\ link = "stopped"
            /\ evq = << >>
            /\ provisioned \in BOOLEAN

PostEvent(event) == /\ Len(evq) < QueueBound
                    /\ evq' = Append(evq, event)

esp_wifi_start == /\ link = "stopped"
                  /\ link' = "down"
                  /\ PostEvent("STA_START")
                  /\ UNCHANGED provisioned

(* A station that is connected or on its way ignores the call.                *)
esp_wifi_connect == link' = IF link = "down" THEN "connecting" ELSE link

AttemptSucceeds == /\ link = "connecting"
                   /\ link' = "up"
                   /\ PostEvent("STA_GOT_IP")
                   /\ UNCHANGED provisioned

AttemptFails == /\ link = "connecting"
                /\ link' = "down"
                /\ PostEvent("STA_DISCONNECTED")
                /\ UNCHANGED provisioned

LinkLost == /\ link = "up"
            /\ link' = "down"
            /\ PostEvent("STA_DISCONNECTED")
            /\ UNCHANGED provisioned

(* The lease changes: the address is announced again on the same link.        *)
NewAddress == /\ link = "up"
              /\ PostEvent("STA_GOT_IP")
              /\ UNCHANGED << link, provisioned >>

(* The provisioning manager has received credentials, stored them and started *)
(* to connect with them.                                                      *)
Provisioned == /\ link = "stopped"
               /\ link' = "connecting"
               /\ provisioned' = TRUE
               /\ UNCHANGED evq

LinkReboot == /\ link' = "stopped"
              /\ evq' = << >>
=============================================================================
