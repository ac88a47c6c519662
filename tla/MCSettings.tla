----------------------------- MODULE MCSettings -----------------------------
(* Values for the constants of Startup. *)
EXTENDS Startup

(* DeviceKeys leaves out nmeaFilter, which init never loads; FilterKeys    *)
(* has it, to show what becomes of it.                                     *)
PortKeys == Port \cup {"blEnabled", "nmeaSrcBlGps", "wifiStaEnabled"}
DeviceKeys == PortKeys \cup {"wifiStaSsid", "wifiApSsid", "nmea2000Mode"}
FilterKeys == PortKeys \cup {"nmeaFilter"}

(* Bluetooth is off by default, the serial ports are on. *)
MCdefault == [k \in Key |-> k \in Port]

MCNetwork == {"home"}
=============================================================================
