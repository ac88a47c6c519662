------------------------------ MODULE Settings ------------------------------
(***************************************************************************)
(* The preferences of the gateway (class N2KPreferences), the web form     *)
(* handlers that change them (PreferenceRequestHandler), and the devices   *)
(* that follow them: the serial ports Serial1 and Serial2, Bluetooth and   *)
(* the NMEA2000 library.  Preferences are kept in RAM and, one by one, in  *)
(* non-volatile storage; the power may fail between any two writes, and a  *)
(* write may fail, which no setter notices.                                *)
(***************************************************************************)
EXTENDS Bluetooth, SuspendableSerial, Integers, Sequences

CONSTANTS
  Key,      \* the preferences considered, by their name in storage
  default,  \* the default value of each
  MaxFailures, \* bound on the number of writes that fail
  NotStored \* what the storage holds of a preference never written

(* A value only matters as the one or the other of two. *)
Value == BOOLEAN
Port == {"nmeaSrcSerial1", "nmeaSrcSerial2"}

(* The names in storage. *)
Preference ==
  { "blEnabled", "demoEnabled", "logLevel", "wifiStaEnabled", "wifiStaHostname",
    "wifiStaSsid", "wifiStaPassw", "wifiApSsid", "wifiApPassword",
    "wifiUdpPort", "nmeaToSocket", "nmeaToSerial", "nmeaToBl", "nmeaToUDP",
    "n2kToSerial", "nmea2000Mode", "n2kRxFilter", "nmeaSrcBlGps", "nmeaSrcN2k",
    "nmeaSrcSerial1", "nmeaSrcSerial2", "nmeaFilter" }

ASSUME SettingsAssumption ==
  /\ Port \cup {"blEnabled", "nmeaSrcBlGps"} \subseteq Key
  /\ Key \subseteq Preference
  /\ default \in [Key -> Value]
  /\ NotStored \notin Value
  /\ MaxFailures \in Nat

VARIABLES
  ram,     \* the fields of N2KPreferences
  nvs,     \* the namespace "N2k-bridge" of the storage
  todo,    \* the setters still to be called by what is running
  task,    \* what is running
  port,    \* Serial1 and Serial2, by their preference
  bt,      \* the object bluetooth
  n2k,     \* what the NMEA2000 library was last initialized with
  wanted,  \* history: the value last given to each preference by a user
  lost,    \* history: the preferences whose last change was not written
  failures \* history: the number of writes that failed

history == << wanted, lost, failures >>
vars == << ram, nvs, todo, task, port, bt, n2k, history >>

(* "off": no power; "boot": setup(); "form", "form2000": a POST request;   *)
(* "idle": loop() between requests.                                        *)
Task == {"off", "boot", "form", "form2000", "idle"}

(* The setters that N2KPreferences::init calls, in order. *)
InitKeys ==
  << "blEnabled", "logLevel", "nmeaSrcBlGps", "nmeaSrcN2k", "nmeaSrcSerial1",
     "nmeaSrcSerial2", "demoEnabled", "wifiUdpPort", "wifiStaEnabled",
     "wifiStaHostname", "wifiStaSsid", "wifiStaPassw", "wifiApSsid",
     "wifiApPassword", "nmeaToSerial", "nmeaToSocket", "nmeaToBl",
     "nmeaToUDP", "n2kToSerial", "nmea2000Mode", "n2kRxFilter" >>

(* The setters of each form that are followed by executeCallbacks.  The    *)
(* form for WiFi goes on with StationKeys or AccessPointKeys.              *)
FormKeys ==
  { << "demoEnabled", "logLevel" >>,
    << "nmeaToSerial", "nmeaToSocket", "nmeaToBl", "nmeaToUDP",
       "nmeaSrcBlGps", "nmeaSrcN2k", "nmeaSrcSerial1", "nmeaSrcSerial2",
       "nmeaFilter" >>,
    << "blEnabled" >>,
    << "wifiUdpPort", "wifiStaEnabled" >> }

StationKeys == << "wifiStaHostname", "wifiStaSsid", "wifiStaPassw" >>
AccessPointKeys == << "wifiApSsid", "wifiApPassword" >>

Form2000Keys == << "n2kToSerial", "nmea2000Mode", "n2kRxFilter" >>

(* The preferences that InitNMEA2000 passes to the library. *)
LibraryKeys == {"n2kToSerial", "nmea2000Mode"} \cap Key

TypeOK ==
  /\ ram \in [Key -> Value]
  /\ nvs \in [Key -> Value \cup {NotStored}]
  /\ todo \in Seq(Preference)
  /\ task \in Task
  /\ port \in [Port -> PortState]
  /\ bt \in BluetoothState
  /\ n2k \in [LibraryKeys -> Value \cup {NotStored}]
  /\ wanted \in [Key -> Value]
  /\ lost \subseteq Key
  /\ failures \in 0 .. MaxFailures

Init ==
  /\ ram = [k \in Key |-> FALSE]
  /\ nvs = [k \in Key |-> NotStored]
  /\ todo = << >>
  /\ task = "off"
  /\ port = [p \in Port |-> FreshPort]
  /\ bt = FreshBluetooth
  /\ n2k = [k \in LibraryKeys |-> NotStored]
  /\ wanted = default
  /\ lost = {} /\ failures = 0

-----------------------------------------------------------------------------
(* Faulty variant: the value goes to RAM only. *)
SetNotStored(k, value, stored) ==
  /\ nvs' = nvs
  /\ failures' = IF stored THEN failures ELSE failures + 1
  /\ ram' = [ram EXCEPT ![k] = value]
  /\ port' = IF k \in Port THEN [port EXCEPT ![k] = Suspend(@, ~value)] ELSE port

(* Faulty variant: the callback is not called when the write fails. *)
SetGivesUp(k, value, stored) ==
  /\ nvs' = IF stored THEN [nvs EXCEPT ![k] = value] ELSE nvs
  /\ failures' = IF stored THEN failures ELSE failures + 1
  /\ ram' = [ram EXCEPT ![k] = value]
  /\ port' = IF stored /\ k \in Port THEN [port EXCEPT ![k] = Suspend(@, ~value)] ELSE port

(* A setter: the value goes to the storage, if the write succeeds, and to  *)
(* RAM, and the callback of a serial port starts or suspends it.           *)
Set(k, value, stored) ==
  /\ nvs' = IF stored THEN [nvs EXCEPT ![k] = value] ELSE nvs
  /\ failures' = IF stored THEN failures ELSE failures + 1
  /\ ram' = [ram EXCEPT ![k] = value]
  /\ port' = IF k \in Port THEN [port EXCEPT ![k] = Suspend(@, ~value)] ELSE port

(* Setters of preferences that are not considered are skipped: where the   *)
(* next one is in todo, and what then remains.                             *)
IsNext(j) ==
  /\ j \in DOMAIN todo /\ todo[j] \in Key
  /\ \A i \in 1 .. j - 1 : todo[i] \notin Key
Behind(j) == SubSeq(todo, j + 1, Len(todo))
Finished == \A i \in DOMAIN todo : todo[i] \notin Key

(* Whether the next write succeeds. *)
Outcomes == IF failures < MaxFailures THEN BOOLEAN ELSE {TRUE}

(* InitNMEA2000 *)
InitNMEA2000 == n2k' = [k \in LibraryKeys |-> ram[k]]

(* setup(): the static objects are new, the ports begin before             *)
(* prefs.begin() calls init.                                               *)
PowerOn ==
  /\ task = "off"
  /\ task' = "boot"
  /\ todo' = InitKeys
  /\ ram' = [k \in Key |-> FALSE]
  /\ port' = [p \in Port |-> BeginPort(FreshPort)]
  /\ bt' = FreshBluetooth
  /\ n2k' = [k \in LibraryKeys |-> NotStored]
  /\ UNCHANGED << nvs, history >>

(* Faulty variant: no default is given to the getter. *)
LoadedAsIs(k) == nvs[k]

(* The value init gives to k: the stored one, or the default. *)
Loaded(k) == IF nvs[k] = NotStored THEN default[k] ELSE nvs[k]

InitStep ==
  /\ task = "boot"
  /\ \E j \in DOMAIN todo, stored \in Outcomes :
       /\ IsNext(j)
       /\ Set(todo[j], Loaded(todo[j]), stored)
       /\ todo' = Behind(j)
  /\ UNCHANGED << task, bt, n2k, wanted, lost >>

(* bluetooth.begin(), InitNMEA2000 and the rest of setup(). *)
SetupDone ==
  /\ task = "boot" /\ Finished
  /\ bt' = Begin(bt, ram["blEnabled"], ram["nmeaSrcBlGps"])
  /\ InitNMEA2000
  /\ task' = "idle" /\ todo' = << >>
  /\ UNCHANGED << ram, nvs, port, history >>

Post ==
  /\ task = "idle"
  /\ \/ task' = "form" /\ \E keys \in FormKeys : todo' = keys
     \/ task' = "form2000" /\ todo' = Form2000Keys
  /\ UNCHANGED << ram, nvs, port, bt, n2k, history >>

(* The next setter of the form, with what the user filled in. *)
FormStep ==
  /\ task \in {"form", "form2000"}
  /\ \E j \in DOMAIN todo, v \in Value, stored \in Outcomes :
       /\ IsNext(j)
       /\ Set(todo[j], v, stored)
       /\ wanted' = [wanted EXCEPT ![todo[j]] = v]
       /\ lost' = IF stored THEN lost \ {todo[j]} ELSE lost \cup {todo[j]}
       /\ todo' = IF todo[j] # "wifiStaEnabled" THEN Behind(j)
                  ELSE IF v THEN StationKeys ELSE AccessPointKeys
  /\ UNCHANGED << task, bt, n2k >>

(* The form ends with executeCallbacks (faulty variant), or, the form for  *)
(* NMEA2000, with executeNmea2000Callback.                                 *)
FormDoneOneCallback ==
  /\ task \in {"form", "form2000"} /\ Finished
  /\ bt' = PreferencesChanged(bt, ram["blEnabled"], ram["nmeaSrcBlGps"])
  /\ task' = "idle" /\ todo' = << >>
  /\ UNCHANGED << ram, nvs, port, n2k, history >>

FormDone ==
  /\ Finished
  /\ \/ /\ task = "form"
        /\ bt' = PreferencesChanged(bt, ram["blEnabled"], ram["nmeaSrcBlGps"])
        /\ UNCHANGED n2k
     \/ task = "form2000" /\ InitNMEA2000 /\ UNCHANGED bt
  /\ task' = "idle" /\ todo' = << >>
  /\ UNCHANGED << ram, nvs, port, history >>

(* The power fails, or /reboot is requested. *)
PowerOff ==
  /\ task # "off"
  /\ task' = "off"
  /\ todo' = << >>
  /\ UNCHANGED << ram, nvs, port, bt, n2k, history >>

(* /reset and /factoryReset. *)
Reset ==
  /\ task = "idle"
  /\ nvs' = [k \in Key |-> NotStored]
  /\ wanted' = default /\ lost' = {}
  /\ task' = "off"
  /\ todo' = << >>
  /\ UNCHANGED << ram, port, bt, n2k, failures >>

Next ==
  \/ PowerOn \/ InitStep \/ SetupDone \/ Post \/ FormStep \/ FormDone
  \/ PowerOff \/ Reset

Spec == Init /\ [][Next]_vars

-----------------------------------------------------------------------------
(* A preference keeps the value a user gave it, whenever the power fails,  *)
(* until a user changes it or resets the gateway ("Initialize fields from  *)
(* preferences namespace", N2KPreferences.h:65); a write that fails costs  *)
(* the preference it was for, and no other.                                *)
SettingsSurvive == task = "idle" => \A k \in Key \ lost : ram[k] = wanted[k]

(* Between requests a serial port runs exactly when its preference is on   *)
(* (SuspendableHardwareSerial.cpp:8-38, .ino:71-72).                       *)
PortsFollow ==
  task = "idle" => \A p \in Port : port[p].running = ram[p]

(* Between requests the stack is started exactly when its preference is    *)
(* on, and no connection to the GPS remains that the preferences do not    *)
(* ask for (Bluetooth.cpp:44-69).                                          *)
BluetoothFollows ==
  task = "idle" =>
    /\ bt.started = ram["blEnabled"]
    /\ bt.linked => ram["blEnabled"] /\ ram["nmeaSrcBlGps"]

(* Between requests the NMEA2000 library works in the mode, and forwards   *)
(* or not, as the preferences say (InitN2K.h:34-60, .ino:92-93).           *)
LibraryFollows == task = "idle" => \A k \in LibraryKeys : n2k[k] = ram[k]
=============================================================================
