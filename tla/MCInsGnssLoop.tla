---------------------------- MODULE MCInsGnssLoop ----------------------------
(* Recordings for TLC.  Inertial measurements come before, between, together  *)
(* with and after the GNSS measurements; in the fourth recording the initial  *)
(* state is later than a measurement, in the fifth there is no measurement.   *)
EXTENDS InsGnssLoop

MCRecordings ==
  { [imu |-> <<2, 4>>, gnss |-> <<1, 3>>, pva |-> <<1>>],
    [imu |-> <<2, 4>>, gnss |-> <<4, 5>>, pva |-> <<1>>],
    [imu |-> <<2, 3, 5>>, gnss |-> <<1, 3, 4>>, pva |-> <<1>>],
    [imu |-> <<1, 5>>, gnss |-> <<2, 4>>, pva |-> <<3>>],
    [imu |-> <<1, 2>>, gnss |-> <<>>, pva |-> <<1>>] }
=============================================================================
