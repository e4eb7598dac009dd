----------------------------- MODULE BrokerSession -----------------------------
(***************************************************************************)
(* What the MQTT gateway promises to its owner, with no client, timer or   *)
(* topic in sight: while it is switched on, a session with the broker is   *)
(* restored whenever the broker can be reached for long enough, the owner  *)
(* always knows whether there is one, and none outlives the switching off. *)
(***************************************************************************)
VARIABLES on,         \* the gateway has been started and not stopped
          up,         \* a session with the broker exists and is subscribed
          told,       \* what the owner was told last
          reachable   \* the broker answers and the CA certificate is there

vars == <<on, up, told, reachable>>

Init ==
  /\ on = FALSE
  /\ up = FALSE
  /\ told = FALSE
  /\ reachable \in BOOLEAN

SwitchOn ==
  /\ ~on
  /\ on' = TRUE
  /\ UNCHANGED <<up, told, reachable>>

SwitchOff ==
  /\ on
  /\ on' = FALSE
  /\ up' = FALSE
  /\ told' = FALSE
  /\ UNCHANGED reachable

\* An attempt already under way may succeed after the certificate is gone.
Restore ==
  /\ on
  /\ ~up
  /\ up' = TRUE
  /\ told' = TRUE
  /\ UNCHANGED <<on, reachable>>

Lose ==
  /\ up
  /\ up' = FALSE
  /\ told' = FALSE
  /\ UNCHANGED <<on, reachable>>

\* The world changes; a session that exists is lost by Lose, not by this.
BrokerChanges ==
  /\ reachable' = ~reachable
  /\ UNCHANGED <<on, up, told>>

Next == SwitchOn \/ SwitchOff \/ Restore \/ Lose \/ BrokerChanges

Spec == Init /\ [][Next]_vars /\ WF_vars(reachable /\ Restore)

=============================================================================
