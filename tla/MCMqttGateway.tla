---------------------------- MODULE MCMqttGateway ----------------------------
(***************************************************************************)
(* MqttGateway with the topics of config/app_config.example.json, except   *)
(* that the risk filter ends in a # as a configuration may have it.        *)
(***************************************************************************)
EXTENDS MqttGateway, TLC

MCSubscription ==
  [controllerStatus |-> [filter |-> <<"veda", "hw", "ch", "+", "status">>, qos |-> 1],
   centralStatus    |-> [filter |-> <<"veda", "hw", "status">>, qos |-> 1],
   sensorAlive      |-> [filter |-> <<"veda", "ch", "+", "alive">>, qos |-> 1],
   centralEvent     |-> [filter |-> <<"veda", "qt", "event">>, qos |-> 1],
   risk             |-> [filter |-> <<"veda", "risk", "#">>, qos |-> 1],
   blur             |-> [filter |-> <<"veda", "ch", "+", "blur">>, qos |-> 0]]

MCTopics ==
  {<<"veda", "hw", "status">>, <<"veda", "qt", "event">>, <<"veda", "risk">>} \union
  {<<"veda", "hw", "ch", c, "status">> : c \in {"0", "00", "4", "x"}} \union
  {<<"veda", "ch", c, what>> : c \in {"0", "4"}, what \in {"alive", "blur"}}

MCNumber == "0" :> 0 @@ "00" :> 0 @@ "4" :> 4

MCPayloads ==
  [well : BOOLEAN, ch : {NoChannel, 0, 4}, alive : BOOLEAN, outputs : BOOLEAN, online : BOOLEAN]

MCMessages == [topic : MCTopics, payload : MCPayloads]

\* The filters of the example configuration do not overlap.
ASSUME ExampleFiltersApart == FiltersApart

=============================================================================
