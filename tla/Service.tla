------------------------------ MODULE Service -------------------------------
(***************************************************************************)
(* What file-managed configuration promises of the balancer, without maps,  *)
(* blocks, plans or write orders: to every VIP key the network gets an      *)
(* answer, the table its packets are spread by, or none.                    *)
(*                                                                         *)
(* Applying a configuration is not atomic (docs/design/31 s.8), but while it *)
(* goes on every answer only ever moves towards the new one: a key that was *)
(* served before has each of its rows replaced by the new row, a key appears *)
(* with its whole table at once, and only keys the new configuration does   *)
(* not have disappear.  It can be abandoned at any point and what was       *)
(* reached stays; it is complete only when every answer is the new one.     *)
(***************************************************************************)
CONSTANTS
    Key, Row,
    Confs, NoConf,
    Missing,       \* no answer
    Wanted(_, _)   \* configuration, key -> its table there, or Missing

VARIABLES
    answer,        \* key -> row -> backend id, or Missing
    applying,      \* the configuration being applied, or NoConf
    involved,      \* configurations the answers may be a mix of
    serving        \* packets are being forwarded

service_vars == <<answer, applying, involved, serving>>

Attempt(c) ==
    /\ applying = NoConf
    /\ applying' = c
    /\ involved' = involved \cup {c}
    /\ UNCHANGED <<answer, serving>>

Towards(c, k) ==
    \/ answer'[k] = answer[k]
    \/ answer'[k] = Wanted(c, k)
    \/ /\ answer[k] # Missing /\ Wanted(c, k) # Missing /\ answer'[k] # Missing
       /\ \A r \in Row : answer'[k][r] \in {answer[k][r], Wanted(c, k)[r]}

Advance ==
    /\ applying # NoConf
    /\ \A k \in Key : Towards(applying, k)
    /\ UNCHANGED <<applying, involved, serving>>

Complete ==
    /\ applying # NoConf
    /\ \A k \in Key : answer[k] = Wanted(applying, k)
    /\ involved' = {applying}
    /\ applying' = NoConf
    /\ UNCHANGED <<answer, serving>>

\* A failure, or the end of the process, which may have been forwarding.
Abandon ==
    /\ applying # NoConf
    /\ applying' = NoConf
    /\ serving' \in {serving, FALSE}
    /\ UNCHANGED <<answer, involved>>

\* Forwarding begins only with one configuration, completely applied.
Serve ==
    /\ applying = NoConf /\ ~serving
    /\ \E c \in Confs : involved = {c} /\ \A k \in Key : answer[k] = Wanted(c, k)
    /\ serving' = TRUE
    /\ UNCHANGED <<answer, applying, involved>>

Cease ==
    /\ applying = NoConf /\ serving
    /\ serving' = FALSE
    /\ UNCHANGED <<answer, applying, involved>>

\* The pins are removed: the next process starts with nothing.
Clear ==
    /\ applying = NoConf /\ ~serving
    /\ answer' = [k \in Key |-> Missing]
    /\ involved' = {}
    /\ UNCHANGED <<applying, serving>>

ServiceInit ==
    /\ answer = [k \in Key |-> Missing]
    /\ applying = NoConf /\ involved = {} /\ serving = FALSE

ServiceNext ==
    \/ \E c \in Confs : Attempt(c)
    \/ Advance \/ Complete \/ Abandon \/ Serve \/ Cease \/ Clear

ServiceSpec == ServiceInit /\ [][ServiceNext]_service_vars
=============================================================================
