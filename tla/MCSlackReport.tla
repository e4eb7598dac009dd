---------------------------- MODULE MCSlackReport ----------------------------
(* SlackReport with two of the four channels and a handful of reports. *)
EXTENDS SlackReport

=============================================================================
