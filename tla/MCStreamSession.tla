---------------------------- MODULE MCStreamSession ----------------------------
(***************************************************************************)
(* StreamSession with three bindings, the middle one without a window, and *)
(* with two: enough for a receiver in front of and behind one that cannot  *)
(* be started, and for a shot that means a receiver of another layout.     *)
(***************************************************************************)
EXTENDS StreamSession

MCLayouts == {<<"usable", "noWindow", "usable">>, <<"usable", "usable">>, <<"disabled">>}

=============================================================================
