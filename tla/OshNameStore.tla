----------------------------- MODULE OshNameStore -----------------------------
(* What the node promises about the names it keeps: the name an update has    *)
(* reported as stored is the one the next power-up restores; an update that   *)
(* failed or was cut short leaves the old name or the new one, and no other   *)
(* name changes with it; only an erasure of the whole store forgets names.    *)
CONSTANTS Key, Value, None

VARIABLES name,   \* what the modules see of each name
          busy,   \* the value an update is storing, or None
          holds,  \* what the next power-up may restore
          failed  \* keys whose last update reported an error

store_vars == << name, busy, holds, failed >>

StoreInit == /\ name  = [k \in Key |-> None]
             /\ busy  = [k \in Key |-> None]
             /\ holds = [k \in Key |-> {None}]
             /\ failed = {}

(* From now on the new value may be the one that survives.                    *)
Request(k, v) == /\ busy[k] = None
                 /\ busy'  = [busy EXCEPT ![k] = v]
                 /\ holds' = [holds EXCEPT ![k] = @ \cup {v}]
                 /\ UNCHANGED << name, failed >>

Change(k) == /\ busy[k] # None
             /\ name' \in {[name EXCEPT ![k] = v] : v \in {busy[k], None}}
             /\ UNCHANGED << busy, holds, failed >>

Succeed(k) == /\ busy[k] # None
              /\ name[k] = busy[k]
              /\ holds' = [holds EXCEPT ![k] = {busy[k]}]
              /\ busy'  = [busy EXCEPT ![k] = None]
              /\ failed' = failed \ {k}
              /\ UNCHANGED name

Fail(k) == /\ busy[k] # None
           /\ \E S \in (SUBSET holds[k]) \ {{}} : holds' = [holds EXCEPT ![k] = S]
           /\ busy' = [busy EXCEPT ![k] = None]
           /\ failed' = failed \cup {k}
           /\ UNCHANGED name

PowerCut == /\ name' = [k \in Key |-> None]
            /\ busy' = [k \in Key |-> None]
            /\ failed' = {}
            /\ holds' \in [Key -> (SUBSET UNION {holds[k] : k \in Key}) \ {{}}]
            /\ \A k \in Key : holds'[k] \subseteq holds[k]

(* Erasing comes before anything is restored, and may be cut short.           *)
Erase == /\ name = [k \in Key |-> None]
         /\ busy = [k \in Key |-> None]
         /\ holds' \in [Key -> SUBSET (Value \cup {None})]
         /\ \A k \in Key : \/ holds'[k] = holds[k]
                           \/ holds'[k] = {None}
         /\ UNCHANGED << name, busy, failed >>

Restore(k) == /\ busy[k] = None
              /\ name[k] = None
              /\ \E v \in holds[k] :
                   /\ name'  = [name EXCEPT ![k] = v]
                   /\ holds' = [holds EXCEPT ![k] = {v}]
              /\ UNCHANGED << busy, failed >>

StoreNext == \/ PowerCut
             \/ Erase
             \/ \E k \in Key :
                  \/ \E v \in Value : Request(k, v)
                  \/ Change(k) \/ Succeed(k) \/ Fail(k) \/ Restore(k)

StoreSafety == StoreInit /\ [][StoreNext]_store_vars
=============================================================================
