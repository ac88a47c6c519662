------------------------------ MODULE MCResend ------------------------------
(* Values for the constants of Transmission. *)
EXTENDS Transmission

SerialOnly == << "Serial2" >>
BothPorts == << "Serial2", "Udp" >>
MCNameRoom == {1, 2, 4}
=============================================================================
