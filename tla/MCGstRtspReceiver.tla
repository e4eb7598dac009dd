--------------------------- MODULE MCGstRtspReceiver ---------------------------
(***************************************************************************)
(* GstRtspReceiver with few outages and build failures, each of which may  *)
(* strike at any stage of any pipeline.                                    *)
(***************************************************************************)
EXTENDS GstRtspReceiver

=============================================================================
