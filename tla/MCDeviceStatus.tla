----------------------------- MODULE MCDeviceStatus -----------------------------
(***************************************************************************)
(* DeviceStatus with two output states and reports of every kind.          *)
(***************************************************************************)
EXTENDS DeviceStatus

\* The red light outshines the green one left on.
MCAlarm == [ledRed |-> TRUE, ledYellow |-> FALSE, ledGreen |-> TRUE, beacon |-> FALSE, buzzer |-> TRUE]

MCSafe == [ledRed |-> FALSE, ledYellow |-> FALSE, ledGreen |-> TRUE, beacon |-> FALSE, buzzer |-> FALSE]

MCOutputs == {MCAlarm, MCSafe}

\* Two channels: one gets feedback, the other snapshots and sensor reports.
MCReports ==
  { [kind |-> "feedbackConfirmed", ch |-> 1, ts |-> 1, out |-> MCAlarm],
    [kind |-> "feedbackFailed", ch |-> 1, ts |-> 1, out |-> MCSafe],
    [kind |-> "snapshotAlive", ch |-> 2, ts |-> 1, out |-> MCAlarm],
    [kind |-> "snapshotDead", ch |-> 2, ts |-> 2, out |-> MCSafe],
    [kind |-> "sensorOffline", ch |-> 2, ts |-> 1, out |-> MCSafe] }

=============================================================================
