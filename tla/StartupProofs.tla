--------------------------- MODULE StartupProofs ---------------------------
(***************************************************************************)
(* Theorems about Startup, for every set of preferences, any number of     *)
(* failed writes and any times: what survives, which devices follow the    *)
(* preferences, and how setup() finds its network.                         *)
(***************************************************************************)
EXTENDS Startup, SequenceTheorems, TLAPS

KeysOf(keys) == {keys[j] : j \in DOMAIN keys}

(* The preferences that init loads: all but nmeaFilter. *)
LoadedKeys == KeysOf(InitKeys)

(* While the power is on a port is initialized, and runs exactly when its  *)
(* preference in RAM says so: each setter calls its callback.              *)
PortsInv ==
  task # "off" =>
    \A p \in Port :
      port[p] = [initialized |-> TRUE, suspended |-> ~ram[p], running |-> ram[p]]

(* What would be loaded is what the user wanted, and so is what is in RAM, *)
(* except in setup() for what is still to be loaded.                       *)
LoadInv ==
  \A k \in Key \ lost :
    /\ Loaded(k) = wanted[k]
    /\ k \in LoadedKeys =>
         /\ task \in {"idle", "form", "form2000"} => ram[k] = wanted[k]
         /\ task = "boot" => ram[k] = wanted[k] \/ k \in KeysOf(todo)

(* The toggles of Bluetooth are true to the stack and to the connection.   *)
BluetoothTrue(b) ==
  /\ b \in BluetoothState
  /\ b.started = b.blEnabled
  /\ b.linked => b.started /\ b.blGpsEnabled

(* Where no setter of blEnabled or nmeaSrcBlGps was called since they were *)
(* last looked at, the toggles are as the preferences say.                 *)
BluetoothInv ==
  /\ task = "boot" => bt = FreshBluetooth
  /\ BluetoothTrue(bt)
  /\ task \in {"idle", "form2000"} =>
       bt.blEnabled = ram["blEnabled"] /\ bt.blGpsEnabled = ram["nmeaSrcBlGps"]
  /\ task = "form2000" => KeysOf(todo) \subseteq KeysOf(Form2000Keys)

(* The library was told the preferences that only the form for NMEA2000    *)
(* changes.                                                                *)
LibraryInv ==
  /\ task \in {"idle", "form"} => \A k \in LibraryKeys : n2k[k] = ram[k]
  /\ task = "form" => KeysOf(todo) \cap KeysOf(Form2000Keys) = {}

(* Whether the station was asked for decides the way through begin(), and  *)
(* ram does not change on that way: all that init loads is loaded.         *)
WifiInv ==
  /\ WifiTypeOK
  /\ phase \in {"join", "joined", "fallback"} => task = "boot" /\ Finished
  /\ phase = "start" => mode = Off
  /\ phase \in {"start", "ready"} => clock = 0
  /\ clock < JoinTime + ResultWait + Delay
  /\ phase \in {"join", "joined"} => mode = Station /\ ram["wifiStaEnabled"]
  /\ phase = "joined" => WiFiOk
  /\ phase = "fallback" => mode = Station \/ (mode = Off /\ ~ram["wifiStaEnabled"])
  /\ phase = "ready" => mode = AccessPoint \/ (mode = Station /\ WiFiOk)

SettingsInv == TypeOK /\ PortsInv /\ LoadInv /\ BluetoothInv /\ LibraryInv

-----------------------------------------------------------------------------
LEMMA KeyFacts ==
  /\ Port \subseteq Key /\ "blEnabled" \in Key /\ "nmeaSrcBlGps" \in Key
  /\ "wifiStaEnabled" \in Key
  /\ default \in [Key -> Value] /\ NotStored \notin Value /\ MaxFailures \in Nat
BY SettingsAssumption, StartupAssumption

(* The lists of setters in setup() and in the forms. *)
LEMMA ListFacts ==
  /\ InitKeys \in Seq(Preference) /\ Form2000Keys \in Seq(Preference)
  /\ StationKeys \in Seq(Preference) /\ AccessPointKeys \in Seq(Preference)
  /\ FormKeys \subseteq Seq(Preference)
<1>1. FormKeys \subseteq Seq(Preference)
  BY DEF FormKeys, Preference
<1>2. InitKeys \in Seq(Preference)
  BY DEF InitKeys, Preference
<1>. QED  BY <1>1, <1>2 DEF Form2000Keys, StationKeys, AccessPointKeys, Preference

LEMMA Form2000Names == KeysOf(Form2000Keys) = {"n2kToSerial", "nmea2000Mode", "n2kRxFilter"}
<1>1. DOMAIN Form2000Keys = {1, 2, 3}
  BY DEF Form2000Keys
<1>. QED  BY <1>1 DEF KeysOf, Form2000Keys

LEMMA OtherForms ==
  \A keys \in FormKeys \cup {StationKeys, AccessPointKeys} :
    KeysOf(keys) \cap KeysOf(Form2000Keys) = {}
<1>. USE Form2000Names DEF KeysOf
<1>2. KeysOf(StationKeys) \cap KeysOf(Form2000Keys) = {}
  BY DEF StationKeys
<1>3. KeysOf(AccessPointKeys) \cap KeysOf(Form2000Keys) = {}
  BY DEF AccessPointKeys
<1>4. \A keys \in FormKeys : KeysOf(keys) \cap KeysOf(Form2000Keys) = {}
  BY DEF FormKeys
<1>. QED  BY <1>2, <1>3, <1>4

LEMMA AllButFilter == Preference \ {"nmeaFilter"} \subseteq LoadedKeys
<1>1. DOMAIN InitKeys = 1 .. 21
  BY DEF InitKeys
<1>2. /\ InitKeys[1] = "blEnabled" /\ InitKeys[2] = "logLevel"
      /\ InitKeys[3] = "nmeaSrcBlGps" /\ InitKeys[4] = "nmeaSrcN2k"
      /\ InitKeys[5] = "nmeaSrcSerial1" /\ InitKeys[6] = "nmeaSrcSerial2"
      /\ InitKeys[7] = "demoEnabled" /\ InitKeys[8] = "wifiUdpPort"
      /\ InitKeys[9] = "wifiStaEnabled" /\ InitKeys[10] = "wifiStaHostname"
      /\ InitKeys[11] = "wifiStaSsid" /\ InitKeys[12] = "wifiStaPassw"
      /\ InitKeys[13] = "wifiApSsid" /\ InitKeys[14] = "wifiApPassword"
      /\ InitKeys[15] = "nmeaToSerial" /\ InitKeys[16] = "nmeaToSocket"
      /\ InitKeys[17] = "nmeaToBl" /\ InitKeys[18] = "nmeaToUDP"
      /\ InitKeys[19] = "n2kToSerial" /\ InitKeys[20] = "nmea2000Mode"
      /\ InitKeys[21] = "n2kRxFilter"
  BY DEF InitKeys
<1>3. \A j \in 1 .. 21 : InitKeys[j] \in LoadedKeys
  BY <1>1 DEF LoadedKeys, KeysOf
<1>. QED  BY <1>2, <1>3 DEF Preference

LEMMA ShiftFacts ==
  ASSUME NEW n \in Nat, NEW j \in 1 .. n
  PROVE  /\ n - (j + 1) + 1 = n - j
         /\ j + 1 <= n \/ n - j = 0
         /\ \A i \in 1 .. n - j : (j + 1) + i - 1 = j + i
OBVIOUS

(* What is left behind the next setter of todo. *)
LEMMA BehindFacts ==
  ASSUME todo \in Seq(Preference), NEW j, IsNext(j)
  PROVE  /\ Behind(j) \in Seq(Preference)
         /\ KeysOf(Behind(j)) \subseteq KeysOf(todo)
         /\ \A k \in Key : k \in KeysOf(todo) => k = todo[j] \/ k \in KeysOf(Behind(j))
         /\ todo[j] \in Key /\ todo[j] \in KeysOf(todo)
<1>1. j \in 1 .. Len(todo) /\ Len(todo) \in Nat /\ DOMAIN todo = 1 .. Len(todo)
  BY DEF IsNext
<1>2. /\ Behind(j) \in Seq(Preference) /\ Len(Behind(j)) = Len(todo) - j
      /\ \A i \in 1 .. Len(todo) - j : Behind(j)[i] = todo[j + i]
  <2>1. j + 1 \in Int /\ Len(todo) \in Int /\ \A i \in j + 1 .. Len(todo) : todo[i] \in Preference
    BY <1>1
  <2>2. /\ SubSeq(todo, j + 1, Len(todo)) \in Seq(Preference)
        /\ Len(SubSeq(todo, j + 1, Len(todo)))
             = IF j + 1 <= Len(todo) THEN Len(todo) - (j + 1) + 1 ELSE 0
        /\ \A i \in 1 .. Len(todo) - (j + 1) + 1 :
             SubSeq(todo, j + 1, Len(todo))[i] = todo[(j + 1) + i - 1]
    BY <2>1, SubSeqProperties
  <2>3. /\ Len(todo) - (j + 1) + 1 = Len(todo) - j
        /\ j + 1 <= Len(todo) \/ Len(todo) - j = 0
        /\ \A i \in 1 .. Len(todo) - j : (j + 1) + i - 1 = j + i
    BY <1>1, ShiftFacts
  <2>4. Len(SubSeq(todo, j + 1, Len(todo))) = Len(todo) - j
    BY <1>1, <2>2, <2>3
  <2>5. \A i \in 1 .. Len(todo) - j : SubSeq(todo, j + 1, Len(todo))[i] = todo[j + i]
    BY <2>2, <2>3
  <2>. QED  BY <2>2, <2>4, <2>5 DEF Behind
<1>3. KeysOf(Behind(j)) \subseteq KeysOf(todo)
  BY <1>1, <1>2 DEF KeysOf
<1>4. ASSUME NEW k \in Key, k \in KeysOf(todo)
      PROVE  k = todo[j] \/ k \in KeysOf(Behind(j))
  <2>1. PICK i \in 1 .. Len(todo) : todo[i] = k
    BY <1>1, <1>4 DEF KeysOf
  <2>2. ~(i < j)
    BY <1>1, <1>4, <2>1 DEF IsNext
  <2>3. CASE i > j
    <3>1. i - j \in 1 .. Len(todo) - j /\ j + (i - j) = i
      BY <1>1, <2>1, <2>3
    <3>2. Behind(j)[i - j] = k
      BY <1>2, <2>1, <3>1
    <3>3. DOMAIN Behind(j) = 1 .. Len(todo) - j
      BY <1>2
    <3>. QED  BY <3>1, <3>2, <3>3 DEF KeysOf
  <2>. QED  BY <1>1, <2>1, <2>2, <2>3
<1>5. todo[j] \in Key /\ todo[j] \in KeysOf(todo)
  BY DEF IsNext, KeysOf
<1>. QED  BY <1>2, <1>3, <1>4, <1>5
-----------------------------------------------------------------------------
(* The methods of a serial port. *)
LEMMA PortTypes ==
  ASSUME NEW s \in PortState, NEW v \in BOOLEAN
  PROVE  BeginPort(s) \in PortState /\ Suspend(s, v) \in PortState
<1>1. ASSUME NEW q \in PortState  PROVE BeginPort(q) \in PortState
  BY DEF BeginPort, PortState
<1>2. [s EXCEPT !.suspended = FALSE] \in PortState
  BY DEF PortState
<1>3. [s EXCEPT !.suspended = TRUE, !.running = FALSE] \in PortState
  BY DEF PortState
<1>. QED  BY <1>1, <1>2, <1>3 DEF Suspend

LEMMA PortRuns ==
  ASSUME NEW r \in BOOLEAN, NEW v \in BOOLEAN
  PROVE  Suspend([initialized |-> TRUE, suspended |-> ~r, running |-> r], ~v)
           = [initialized |-> TRUE, suspended |-> ~v, running |-> v]
<1>1. CASE r = TRUE /\ v = TRUE    BY <1>1 DEF Suspend, BeginPort
<1>2. CASE r = TRUE /\ v = FALSE   BY <1>2 DEF Suspend, BeginPort
<1>3. CASE r = FALSE /\ v = TRUE   BY <1>3 DEF Suspend, BeginPort
<1>4. CASE r = FALSE /\ v = FALSE  BY <1>4 DEF Suspend, BeginPort
<1>. QED  BY <1>1, <1>2, <1>3, <1>4

LEMMA PortBegins ==
  BeginPort(FreshPort) = [initialized |-> TRUE, suspended |-> TRUE, running |-> FALSE]
<1>1. FreshPort \in PortState /\ FreshPort.suspended = TRUE /\ FreshPort.running = FALSE
  BY DEF FreshPort, PortState
<1>2. BeginPort(FreshPort) \in PortState
  BY <1>1 DEF BeginPort, PortState
<1>3. /\ BeginPort(FreshPort).initialized = TRUE
      /\ BeginPort(FreshPort).suspended = TRUE
      /\ BeginPort(FreshPort).running = FALSE
  BY <1>1 DEF BeginPort, PortState
<1>. QED  BY <1>2, <1>3 DEF PortState

LEMMA BluetoothBegins ==
  ASSUME NEW on \in BOOLEAN, NEW gps \in BOOLEAN
  PROVE  LET b == Begin(FreshBluetooth, on, gps)
         IN  BluetoothTrue(b) /\ b.blEnabled = on /\ b.blGpsEnabled = gps
<1>1. CASE on = TRUE /\ gps = TRUE
  BY <1>1 DEF Begin, ConnectBlGps, FreshBluetooth, BluetoothTrue, BluetoothState
<1>2. CASE on = TRUE /\ gps = FALSE
  BY <1>2 DEF Begin, ConnectBlGps, FreshBluetooth, BluetoothTrue, BluetoothState
<1>3. CASE on = FALSE /\ gps = TRUE
  BY <1>3 DEF Begin, ConnectBlGps, FreshBluetooth, BluetoothTrue, BluetoothState
<1>4. CASE on = FALSE /\ gps = FALSE
  BY <1>4 DEF Begin, ConnectBlGps, FreshBluetooth, BluetoothTrue, BluetoothState
<1>. QED  BY <1>1, <1>2, <1>3, <1>4

(* The callback brings the toggles to the preferences: one lemma for each  *)
(* of the methods it calls, in order.                                      *)
LEMMA BluetoothOn ==
  ASSUME NEW b, BluetoothTrue(b), NEW on \in BOOLEAN, NEW gps \in BOOLEAN
  PROVE  LET c == Begin(b, on, gps)
         IN  /\ BluetoothTrue(c)
             /\ on => c.blEnabled
             /\ gps => c.blGpsEnabled
<1>. DEFINE d == IF on /\ ~b.blEnabled THEN [b EXCEPT !.blEnabled = TRUE, !.started = TRUE] ELSE b
<1>1. BluetoothTrue(d) /\ (on => d.blEnabled)
  BY DEF BluetoothTrue, BluetoothState
<1>2. ASSUME NEW e, BluetoothTrue(e)
      PROVE  /\ BluetoothTrue(ConnectBlGps(e, gps))
             /\ ConnectBlGps(e, gps).blEnabled = e.blEnabled
             /\ gps => ConnectBlGps(e, gps).blGpsEnabled
  BY <1>2 DEF ConnectBlGps, BluetoothTrue, BluetoothState
<1>3. Begin(b, on, gps) = ConnectBlGps(d, gps)
  BY DEF Begin
<1>. QED  BY <1>1, <1>2, <1>3

LEMMA BluetoothConnects ==
  ASSUME NEW b, BluetoothTrue(b), NEW gps \in BOOLEAN
  PROVE  LET c == ConnectBlGps(b, gps)
         IN  BluetoothTrue(c) /\ c.blEnabled = b.blEnabled /\ (gps => c.blGpsEnabled)
BY DEF ConnectBlGps, BluetoothTrue, BluetoothState

LEMMA BluetoothDisconnects ==
  ASSUME NEW b, BluetoothTrue(b), NEW gps \in BOOLEAN, gps => b.blGpsEnabled
  PROVE  LET c == DisconnectBlGps(b, gps)
         IN  BluetoothTrue(c) /\ c.blEnabled = b.blEnabled /\ c.blGpsEnabled = gps
BY DEF DisconnectBlGps, BluetoothTrue, BluetoothState

LEMMA BluetoothEnds ==
  ASSUME NEW b, BluetoothTrue(b), NEW on \in BOOLEAN, NEW gps \in BOOLEAN,
         on => b.blEnabled, b.blGpsEnabled = gps
  PROVE  LET c == End(b, on, gps)
         IN  BluetoothTrue(c) /\ c.blEnabled = on /\ c.blGpsEnabled = gps
<1>1. DisconnectBlGps(b, gps) = b
  BY DEF DisconnectBlGps
<1>. QED  BY <1>1 DEF End, BluetoothTrue, BluetoothState

LEMMA BluetoothChanges ==
  ASSUME NEW b, BluetoothTrue(b), NEW on \in BOOLEAN, NEW gps \in BOOLEAN
  PROVE  LET c == PreferencesChanged(b, on, gps)
         IN  BluetoothTrue(c) /\ c.blEnabled = on /\ c.blGpsEnabled = gps
<1>. DEFINE b1 == Begin(b, on, gps)
            b2 == ConnectBlGps(b1, gps)
            b3 == DisconnectBlGps(b2, gps)
<1>1. BluetoothTrue(b1) /\ (on => b1.blEnabled)
  BY BluetoothOn
<1>2. BluetoothTrue(b2) /\ b2.blEnabled = b1.blEnabled /\ (gps => b2.blGpsEnabled)
  <2>. HIDE DEF b1
  <2>. QED  BY <1>1, BluetoothConnects
<1>3. BluetoothTrue(b3) /\ b3.blEnabled = b2.blEnabled /\ b3.blGpsEnabled = gps
  <2>. HIDE DEF b2
  <2>. QED  BY <1>2, BluetoothDisconnects
<1>4. on => b3.blEnabled
  BY <1>1, <1>2, <1>3
<1>5. PreferencesChanged(b, on, gps) = End(b3, on, gps)
  BY DEF PreferencesChanged
<1>. HIDE DEF b3
<1>. QED  BY <1>3, <1>4, <1>5, BluetoothEnds
-----------------------------------------------------------------------------
(* What a setter does. *)
LEMMA SetEffect ==
  ASSUME TypeOK, PortsInv, task # "off",
         NEW k \in Key, NEW v \in Value, NEW stored \in Outcomes, Set(k, v, stored)
  PROVE  /\ ram' \in [Key -> Value] /\ ram'[k] = v
         /\ \A m \in Key \ {k} : ram'[m] = ram[m]
         /\ nvs' \in [Key -> Value \cup {NotStored}]
         /\ nvs'[k] = IF stored THEN v ELSE nvs[k]
         /\ \A m \in Key \ {k} : nvs'[m] = nvs[m]
         /\ failures' \in 0 .. MaxFailures
         /\ port' \in [Port -> PortState]
         /\ \A p \in Port :
              port'[p] = [initialized |-> TRUE, suspended |-> ~ram'[p], running |-> ram'[p]]
<1>. USE KeyFacts
<1>0. stored \in BOOLEAN /\ (~stored => failures < MaxFailures)
  BY DEF Outcomes
<1>1. ram' \in [Key -> Value] /\ ram'[k] = v /\ \A m \in Key \ {k} : ram'[m] = ram[m]
  BY DEF Set, TypeOK
<1>2. /\ nvs' \in [Key -> Value \cup {NotStored}]
      /\ nvs'[k] = IF stored THEN v ELSE nvs[k]
      /\ \A m \in Key \ {k} : nvs'[m] = nvs[m]
  BY <1>0 DEF Set, TypeOK
<1>3. failures' \in 0 .. MaxFailures
  BY <1>0 DEF Set, TypeOK
<1>4. CASE k \notin Port
  <2>1. port' = port
    BY <1>4 DEF Set
  <2>2. \A p \in Port : ram'[p] = ram[p]
    BY <1>1, <1>4
  <2>3. \A p \in Port :
          port[p] = [initialized |-> TRUE, suspended |-> ~ram[p], running |-> ram[p]]
    BY DEF PortsInv
  <2>. QED  BY <1>1, <1>2, <1>3, <2>1, <2>2, <2>3 DEF TypeOK
<1>5. CASE k \in Port
  <2>1. /\ ram[k] \in BOOLEAN /\ v \in BOOLEAN
        /\ port[k] = [initialized |-> TRUE, suspended |-> ~ram[k], running |-> ram[k]]
    BY <1>5 DEF TypeOK, PortsInv, Value
  <2>2. /\ Suspend(port[k], ~v)
             = [initialized |-> TRUE, suspended |-> ~v, running |-> v]
        /\ Suspend(port[k], ~v) \in PortState
    <3>1. Suspend([initialized |-> TRUE, suspended |-> ~ram[k], running |-> ram[k]], ~v)
            = [initialized |-> TRUE, suspended |-> ~v, running |-> v]
      BY <2>1, PortRuns
    <3>2. [initialized |-> TRUE, suspended |-> ~v, running |-> v] \in PortState
      BY <2>1 DEF PortState
    <3>. QED  BY <2>1, <3>1, <3>2
  <2>3. /\ port' = [port EXCEPT ![k] = Suspend(port[k], ~v)]
        /\ port \in [Port -> PortState]
    BY <1>5 DEF Set, TypeOK
  <2>4. /\ port' \in [Port -> PortState] /\ port'[k] = Suspend(port[k], ~v)
        /\ \A p \in Port \ {k} : port'[p] = port[p]
    BY <1>5, <2>2, <2>3
  <2>5. \A p \in Port \ {k} :
          port[p] = [initialized |-> TRUE, suspended |-> ~ram[p], running |-> ram[p]]
    BY DEF PortsInv
  <2>6. \A p \in Port \ {k} : ram'[p] = ram[p]
    BY <1>1
  <2>7. ASSUME NEW p \in Port
        PROVE  port'[p] = [initialized |-> TRUE, suspended |-> ~ram'[p], running |-> ram'[p]]
    <3>1. CASE p = k   BY <3>1, <1>1, <2>2, <2>4
    <3>2. CASE p # k   BY <3>2, <2>4, <2>5, <2>6
    <3>. QED  BY <3>1, <3>2
  <2>. QED  BY <1>1, <1>2, <1>3, <2>4, <2>7
<1>. QED  BY <1>4, <1>5
-----------------------------------------------------------------------------
(* The invariant holds at first, and every step keeps it. *)
LEMMA SettingsStarts ==
  ASSUME Init
  PROVE  SettingsInv
<1>. USE KeyFacts
<1>1. TypeOK
  <2>1. << >> \in Seq(Preference)
    OBVIOUS
  <2>2. FreshPort \in PortState /\ FreshBluetooth \in BluetoothState
    BY DEF FreshPort, PortState, FreshBluetooth, BluetoothState
  <2>. QED  BY <2>1, <2>2 DEF Init, TypeOK, Task, Value
<1>2. BluetoothTrue(bt)
  BY DEF Init, FreshBluetooth, BluetoothTrue, BluetoothState
<1>. QED
  BY <1>1, <1>2 DEF SettingsInv, Init, PortsInv, LoadInv, Loaded, BluetoothInv, LibraryInv

LEMMA InitStepKeeps ==
  ASSUME SettingsInv, InitStep
  PROVE  SettingsInv'
<1>. USE KeyFacts DEF SettingsInv
<1>1. PICK j \in DOMAIN todo, stored \in Outcomes :
        IsNext(j) /\ Set(todo[j], Loaded(todo[j]), stored) /\ todo' = Behind(j)
  BY DEF InitStep
<1>2. task = "boot" /\ task' = "boot" /\ UNCHANGED << bt, n2k, wanted, lost >>
  BY DEF InitStep
<1>3. /\ Behind(j) \in Seq(Preference) /\ todo[j] \in Key
      /\ \A k \in Key : k \in KeysOf(todo) => k = todo[j] \/ k \in KeysOf(Behind(j))
  BY <1>1, BehindFacts DEF TypeOK
<1>4. Loaded(todo[j]) \in Value
  BY <1>3 DEF Loaded, TypeOK
<1>5. /\ ram' \in [Key -> Value] /\ ram'[todo[j]] = Loaded(todo[j])
      /\ \A m \in Key \ {todo[j]} : ram'[m] = ram[m]
      /\ nvs' \in [Key -> Value \cup {NotStored}]
      /\ nvs'[todo[j]] = IF stored THEN Loaded(todo[j]) ELSE nvs[todo[j]]
      /\ \A m \in Key \ {todo[j]} : nvs'[m] = nvs[m]
      /\ failures' \in 0 .. MaxFailures
      /\ port' \in [Port -> PortState]
      /\ \A p \in Port :
           port'[p] = [initialized |-> TRUE, suspended |-> ~ram'[p], running |-> ram'[p]]
  <2>. HIDE DEF SettingsInv
  <2>1. TypeOK /\ PortsInv /\ task # "off"
    BY <1>2 DEF SettingsInv
  <2>. QED  BY <1>1, <1>3, <1>4, <2>1, SetEffect
<1>6. TypeOK'
  BY <1>1, <1>2, <1>3, <1>5 DEF TypeOK
<1>7. PortsInv'
  BY <1>5 DEF PortsInv
<1>8. LoadInv'
  <2>1. ASSUME NEW m \in Key  PROVE Loaded(m)' = Loaded(m)
    <3>1. CASE m # todo[j]
      BY <1>5, <3>1 DEF Loaded
    <3>2. CASE m = todo[j]
      BY <1>4, <1>5, <3>2 DEF Loaded
    <3>. QED  BY <3>1, <3>2
  <2>2. ASSUME NEW m \in Key \ lost, m \in LoadedKeys
        PROVE  ram'[m] = wanted[m] \/ m \in KeysOf(Behind(j))
    <3>1. Loaded(m) = wanted[m] /\ (ram[m] = wanted[m] \/ m \in KeysOf(todo))
      BY <1>2, <2>2 DEF LoadInv
    <3>. QED  BY <1>3, <1>5, <3>1
  <2>3. KeysOf(todo)' = KeysOf(Behind(j))
    BY <1>1 DEF KeysOf
  <2>. QED  BY <1>2, <2>1, <2>2, <2>3 DEF LoadInv
<1>9. BluetoothInv' /\ LibraryInv'
  BY <1>2 DEF BluetoothInv, LibraryInv
<1>. QED  BY <1>6, <1>7, <1>8, <1>9

LEMMA FormStepKeeps ==
  ASSUME SettingsInv, FormStep
  PROVE  SettingsInv'
<1>. USE KeyFacts DEF SettingsInv
<1>1. PICK j \in DOMAIN todo, v \in Value, stored \in Outcomes :
        /\ IsNext(j)
        /\ Set(todo[j], v, stored)
        /\ wanted' = [wanted EXCEPT ![todo[j]] = v]
        /\ lost' = IF stored THEN lost \ {todo[j]} ELSE lost \cup {todo[j]}
        /\ todo' = IF todo[j] # "wifiStaEnabled" THEN Behind(j)
                   ELSE IF v THEN StationKeys ELSE AccessPointKeys
  BY DEF FormStep
<1>2. task \in {"form", "form2000"} /\ task' = task /\ UNCHANGED << bt, n2k >>
  BY DEF FormStep
<1>3. /\ Behind(j) \in Seq(Preference) /\ KeysOf(Behind(j)) \subseteq KeysOf(todo)
      /\ todo[j] \in Key /\ todo[j] \in KeysOf(todo)
  BY <1>1, BehindFacts DEF TypeOK
<1>5. /\ ram' \in [Key -> Value] /\ ram'[todo[j]] = v
      /\ \A m \in Key \ {todo[j]} : ram'[m] = ram[m]
      /\ nvs' \in [Key -> Value \cup {NotStored}]
      /\ nvs'[todo[j]] = IF stored THEN v ELSE nvs[todo[j]]
      /\ \A m \in Key \ {todo[j]} : nvs'[m] = nvs[m]
      /\ failures' \in 0 .. MaxFailures
      /\ port' \in [Port -> PortState]
      /\ \A p \in Port :
           port'[p] = [initialized |-> TRUE, suspended |-> ~ram'[p], running |-> ram'[p]]
  <2>. HIDE DEF SettingsInv
  <2>1. TypeOK /\ PortsInv /\ task # "off"
    BY <1>2 DEF SettingsInv
  <2>. QED  BY <1>1, <1>3, <2>1, SetEffect
<1>6. TypeOK'
  <2>1. todo' \in Seq(Preference)
    BY <1>1, <1>3, ListFacts
  <2>2. wanted' \in [Key -> Value] /\ lost' \subseteq Key
    BY <1>1, <1>3 DEF TypeOK
  <2>. QED  BY <1>2, <1>5, <2>1, <2>2 DEF TypeOK
<1>7. PortsInv'
  BY <1>5 DEF PortsInv
<1>8. LoadInv'
  <2>1. ASSUME NEW m \in Key \ lost'
        PROVE  Loaded(m)' = wanted'[m] /\ (m \in LoadedKeys => ram'[m] = wanted'[m])
    <3>1. CASE m # todo[j]
      <4>1. m \in Key \ lost /\ wanted'[m] = wanted[m]
        BY <1>1, <2>1, <3>1 DEF TypeOK
      <4>2. Loaded(m) = wanted[m] /\ (m \in LoadedKeys => ram[m] = wanted[m])
        BY <1>2, <4>1 DEF LoadInv
      <4>3. nvs'[m] = nvs[m] /\ ram'[m] = ram[m]
        BY <1>5, <3>1
      <4>. QED  BY <4>1, <4>2, <4>3 DEF Loaded
    <3>2. CASE m = todo[j]
      <4>1. stored /\ wanted'[m] = v
        BY <1>1, <1>3, <2>1, <3>2 DEF TypeOK
      <4>2. nvs'[m] = v /\ ram'[m] = v
        BY <1>5, <3>2, <4>1
      <4>. QED  BY <4>1, <4>2 DEF Loaded
    <3>. QED  BY <3>1, <3>2
  <2>. QED  BY <1>2, <2>1 DEF LoadInv
<1>9. BluetoothInv'
  <2>1. ASSUME task = "form2000"
        PROVE  /\ KeysOf(todo') \subseteq KeysOf(Form2000Keys)
               /\ ram'["blEnabled"] = ram["blEnabled"]
               /\ ram'["nmeaSrcBlGps"] = ram["nmeaSrcBlGps"]
    <3>1. todo[j] \in {"n2kToSerial", "nmea2000Mode", "n2kRxFilter"}
      BY <1>3, <2>1, Form2000Names DEF BluetoothInv
    <3>2. todo' = Behind(j)
      BY <1>1, <3>1
    <3>3. KeysOf(todo) \subseteq KeysOf(Form2000Keys)
      BY <2>1 DEF BluetoothInv
    <3>4. "blEnabled" \in Key \ {todo[j]} /\ "nmeaSrcBlGps" \in Key \ {todo[j]}
      BY <3>1
    <3>. QED  BY <1>3, <1>5, <3>2, <3>3, <3>4
  <2>2. KeysOf(todo)' = KeysOf(todo')
    BY DEF KeysOf
  <2>. QED  BY <1>2, <2>1, <2>2 DEF BluetoothInv
<1>10. LibraryInv'
  <2>1. ASSUME task = "form"
        PROVE  /\ KeysOf(todo') \cap KeysOf(Form2000Keys) = {}
               /\ \A k \in LibraryKeys : ram'[k] = ram[k]
    <3>1. KeysOf(todo) \cap KeysOf(Form2000Keys) = {}
      BY <2>1 DEF LibraryInv
    <3>2. todo' \in {Behind(j), StationKeys, AccessPointKeys}
      BY <1>1
    <3>3. KeysOf(todo') \cap KeysOf(Form2000Keys) = {}
      BY <1>3, <3>1, <3>2, OtherForms
    <3>4. \A k \in LibraryKeys : k \in Key \ {todo[j]}
      BY <1>3, <3>1, Form2000Names DEF LibraryKeys
    <3>. QED  BY <1>5, <3>3, <3>4
  <2>2. KeysOf(todo)' = KeysOf(todo')
    BY DEF KeysOf
  <2>. QED  BY <1>2, <2>1, <2>2 DEF LibraryInv
<1>. QED  BY <1>6, <1>7, <1>8, <1>9, <1>10
LEMMA SettingsKeeps ==
  ASSUME SettingsInv, [Next]_vars
  PROVE  SettingsInv'
<1>. USE KeyFacts DEF SettingsInv
<1>1. CASE PowerOn
  <2>1. BeginPort(FreshPort) = [initialized |-> TRUE, suspended |-> TRUE, running |-> FALSE]
    BY PortBegins
  <2>2. BluetoothTrue(FreshBluetooth)
    BY DEF FreshBluetooth, BluetoothTrue, BluetoothState
  <2>3. TypeOK'
    <3>1. BeginPort(FreshPort) \in PortState
      BY <2>1 DEF PortState
    <3>. QED
      BY <1>1, <2>2, <3>1, ListFacts DEF PowerOn, TypeOK, Task, Value, history, BluetoothTrue
  <2>4. PortsInv'
    BY <1>1, <2>1 DEF PowerOn, PortsInv
  <2>5. LoadInv'
    <3>1. task' = "boot" /\ KeysOf(todo)' = LoadedKeys
      BY <1>1 DEF PowerOn, KeysOf, LoadedKeys
    <3>2. UNCHANGED << nvs, wanted, lost >>
      BY <1>1 DEF PowerOn, history
    <3>. QED  BY <3>1, <3>2 DEF LoadInv, Loaded
  <2>6. BluetoothInv' /\ LibraryInv'
    BY <1>1, <2>2 DEF PowerOn, BluetoothInv, LibraryInv
  <2>. QED  BY <2>3, <2>4, <2>5, <2>6
<1>2. CASE InitStep
  BY <1>2, InitStepKeeps
<1>3. CASE SetupDone
  <2>1. /\ ram["blEnabled"] \in BOOLEAN /\ ram["nmeaSrcBlGps"] \in BOOLEAN
        /\ bt = FreshBluetooth
    BY <1>3 DEF SetupDone, TypeOK, Value, BluetoothInv
  <2>2. /\ BluetoothTrue(bt') /\ bt'.blEnabled = ram["blEnabled"]
        /\ bt'.blGpsEnabled = ram["nmeaSrcBlGps"]
    BY <1>3, <2>1, BluetoothBegins DEF SetupDone
  <2>3. n2k' \in [LibraryKeys -> Value \cup {NotStored}] /\ \A k \in LibraryKeys : n2k'[k] = ram[k]
    BY <1>3 DEF SetupDone, InitNMEA2000, TypeOK, LibraryKeys
  <2>4. TypeOK'
    BY <1>3, <2>2, <2>3 DEF SetupDone, TypeOK, Task, history, BluetoothTrue
  <2>5. PortsInv'
    BY <1>3 DEF SetupDone, PortsInv
  <2>6. LoadInv'
    <3>1. \A k \in Key : k \notin KeysOf(todo)
      BY <1>3 DEF SetupDone, Finished, KeysOf
    <3>2. task = "boot" /\ task' = "idle" /\ UNCHANGED << ram, nvs, wanted, lost >>
      BY <1>3 DEF SetupDone, history
    <3>. QED  BY <3>1, <3>2 DEF LoadInv, Loaded
  <2>7. BluetoothInv' /\ LibraryInv'
    BY <1>3, <2>2, <2>3 DEF SetupDone, BluetoothInv, LibraryInv
  <2>. QED  BY <2>4, <2>5, <2>6, <2>7
<1>4. CASE Post
  <2>1. /\ task = "idle" /\ task' \in {"form", "form2000"}
        /\ UNCHANGED << ram, nvs, port, bt, n2k, wanted, lost, failures >>
    BY <1>4 DEF Post, history
  <2>2. /\ todo' \in Seq(Preference)
        /\ task' = "form" => KeysOf(todo') \cap KeysOf(Form2000Keys) = {}
        /\ task' = "form2000" => todo' = Form2000Keys
    BY <1>4, ListFacts, OtherForms DEF Post
  <2>3. KeysOf(todo)' = KeysOf(todo')
    BY DEF KeysOf
  <2>4. TypeOK'
    BY <2>1, <2>2 DEF TypeOK, Task
  <2>5. PortsInv' /\ LoadInv'
    BY <2>1 DEF PortsInv, LoadInv, Loaded
  <2>6. BluetoothInv' /\ LibraryInv'
    BY <2>1, <2>2, <2>3 DEF BluetoothInv, LibraryInv
  <2>. QED  BY <2>4, <2>5, <2>6
<1>5. CASE FormStep
  BY <1>5, FormStepKeeps
<1>6. CASE FormDone
  <2>1. /\ task \in {"form", "form2000"} /\ task' = "idle" /\ todo' = << >>
        /\ UNCHANGED << ram, nvs, port, wanted, lost, failures >>
    BY <1>6 DEF FormDone, history
  <2>2. /\ BluetoothTrue(bt') /\ bt'.blEnabled = ram["blEnabled"]
        /\ bt'.blGpsEnabled = ram["nmeaSrcBlGps"]
    <3>1. CASE task = "form"
      <4>1. bt' = PreferencesChanged(bt, ram["blEnabled"], ram["nmeaSrcBlGps"])
        BY <1>6, <3>1 DEF FormDone
      <4>2. /\ ram["blEnabled"] \in BOOLEAN /\ ram["nmeaSrcBlGps"] \in BOOLEAN
            /\ BluetoothTrue(bt)
        BY DEF TypeOK, Value, BluetoothInv
      <4>. QED  BY <4>1, <4>2, BluetoothChanges
    <3>2. CASE task = "form2000"
      BY <1>6, <3>2 DEF FormDone, BluetoothInv
    <3>. QED  BY <2>1, <3>1, <3>2
  <2>3. n2k' \in [LibraryKeys -> Value \cup {NotStored}] /\ \A k \in LibraryKeys : n2k'[k] = ram[k]
    <3>1. CASE task = "form"
      BY <1>6, <3>1 DEF FormDone, LibraryInv, TypeOK
    <3>2. CASE task = "form2000"
      BY <1>6, <3>2 DEF FormDone, InitNMEA2000, TypeOK, LibraryKeys
    <3>. QED  BY <2>1, <3>1, <3>2
  <2>4. TypeOK'
    BY <2>1, <2>2, <2>3 DEF TypeOK, Task, BluetoothTrue
  <2>5. PortsInv' /\ LoadInv'
    BY <2>1 DEF PortsInv, LoadInv, Loaded
  <2>6. BluetoothInv' /\ LibraryInv'
    BY <2>1, <2>2, <2>3 DEF BluetoothInv, LibraryInv
  <2>. QED  BY <2>4, <2>5, <2>6
<1>7. CASE PowerOff
  <2>1. /\ task' = "off" /\ todo' = << >>
        /\ UNCHANGED << ram, nvs, port, bt, n2k, wanted, lost, failures >>
    BY <1>7 DEF PowerOff, history
  <2>2. TypeOK'
    BY <2>1 DEF TypeOK, Task
  <2>3. PortsInv' /\ LoadInv' /\ BluetoothInv' /\ LibraryInv'
    BY <2>1 DEF PortsInv, LoadInv, Loaded, BluetoothInv, LibraryInv
  <2>. QED  BY <2>2, <2>3
<1>8. CASE Reset
  <2>1. /\ task' = "off" /\ todo' = << >> /\ nvs' = [k \in Key |-> NotStored]
        /\ wanted' = default /\ lost' = {}
        /\ UNCHANGED << ram, port, bt, n2k, failures >>
    BY <1>8 DEF Reset
  <2>2. TypeOK'
    BY <2>1 DEF TypeOK, Task
  <2>3. PortsInv' /\ LoadInv' /\ BluetoothInv' /\ LibraryInv'
    BY <2>1 DEF PortsInv, LoadInv, Loaded, BluetoothInv, LibraryInv
  <2>. QED  BY <2>2, <2>3
<1>9. CASE UNCHANGED vars
  <2>1. UNCHANGED << ram, nvs, todo, task, port, bt, n2k, wanted, lost, failures >>
    BY <1>9 DEF vars, history
  <2>2. TypeOK'
    BY <2>1 DEF TypeOK
  <2>3. PortsInv' /\ LoadInv' /\ BluetoothInv' /\ LibraryInv'
    BY <2>1 DEF PortsInv, LoadInv, Loaded, BluetoothInv, LibraryInv, KeysOf
  <2>. QED  BY <2>2, <2>3
<1>. QED
  BY <1>1, <1>2, <1>3, <1>4, <1>5, <1>6, <1>7, <1>8, <1>9 DEF Next
-----------------------------------------------------------------------------
(* A step of Startup is a step of Settings, or changes nothing there. *)
LEMMA StartupSteps ==
  ASSUME [StartupNext]_startupVars
  PROVE  [Next]_vars
<1>1. ASSUME BootStep  PROVE [Next]_vars
  BY <1>1 DEF BootStep, WifiBegin, Next
<1>2. ASSUME UNCHANGED startupVars  PROVE [Next]_vars
  BY <1>2 DEF startupVars
<1>. QED  BY <1>1, <1>2 DEF StartupNext, Next

LEMMA Modes == Off # Station /\ Off # AccessPoint /\ Station # AccessPoint
<1>1. Off.wifi = "off" /\ Station.wifi = "WIFI_STA" /\ AccessPoint.wifi = "WIFI_AP"
  BY DEF Off, Station, AccessPoint
<1>. QED  BY <1>1

LEMMA Times == 0 < JoinTime + ResultWait + Delay
<1>1. JoinTime \in Nat /\ ResultWait \in Nat /\ Delay \in Nat /\ Delay # 0
  BY WifiAssumption
<1>. QED  BY <1>1

(* One try more, begun in time, does not take longer than that. *)
LEMMA OneMoreTry ==
  ASSUME NEW t \in Nat, t < JoinTime, NEW wait \in 0 .. ResultWait
  PROVE  t + wait + Delay \in Nat /\ t + wait + Delay < JoinTime + ResultWait + Delay
BY WifiAssumption

LEMMA WifiBeginKeeps ==
  ASSUME SettingsInv, WifiInv, WifiBegin
  PROVE  WifiInv'
<1>. USE DEF WifiInv, WifiTypeOK
<1>0. task = "boot" /\ Finished /\ UNCHANGED << ram, task, todo >> /\ Finished' = Finished
  BY DEF WifiBegin, vars, Finished
<1>1. CASE Start(ram["wifiStaEnabled"])
  <2>1. ram["wifiStaEnabled"] \in BOOLEAN
    BY KeyFacts DEF SettingsInv, TypeOK, Value
  <2>. QED  BY <1>0, <1>1, <2>1, Modes DEF Start
<1>2. CASE WaitForConnectResult
  <2>1. PICK wait \in 0 .. ResultWait : clock' = clock + wait + Delay
    BY <1>2 DEF WaitForConnectResult
  <2>2. clock < JoinTime /\ phase = "join" /\ WiFiOk' \in BOOLEAN /\ UNCHANGED << phase, mode, lease, ipLok >>
    BY <1>2 DEF WaitForConnectResult, Joining
  <2>3. clock' \in Nat /\ clock' < JoinTime + ResultWait + Delay
    BY <2>1, <2>2, OneMoreTry
  <2>. QED  BY <1>0, <2>2, <2>3
<1>3. CASE JoinDone
  BY <1>0, <1>3 DEF JoinDone
<1>4. CASE Joined
  BY <1>0, <1>4, Times DEF Joined
<1>5. CASE Fallback
  BY <1>0, <1>5, Times DEF Fallback
<1>. QED
  BY <1>1, <1>2, <1>3, <1>4, <1>5 DEF WifiBegin, WifiStep

LEMMA WifiStarts ==
  ASSUME WifiInit
  PROVE  WifiInv
BY Times DEF WifiInit, WifiInv, WifiTypeOK

LEMMA WifiKeeps ==
  ASSUME SettingsInv, WifiInv, [StartupNext]_startupVars
  PROVE  WifiInv'
<1>1. ASSUME UNCHANGED wifiVars, phase \in {"start", "ready"}
      PROVE  WifiInv'
  BY <1>1 DEF wifiVars, WifiInv, WifiTypeOK
<1>2. ASSUME task # "boot"  PROVE phase \in {"start", "ready"}
  BY <1>2 DEF WifiInv, WifiTypeOK
<1>3. CASE PowerOn /\ UNCHANGED wifiVars
  BY <1>1, <1>2, <1>3 DEF PowerOn
<1>4. CASE InitStep /\ UNCHANGED wifiVars
  <2>1. ~Finished
    BY <1>4 DEF InitStep, IsNext, Finished
  <2>2. phase \in {"start", "ready"}
    BY <2>1 DEF WifiInv, WifiTypeOK
  <2>. QED  BY <1>1, <1>4, <2>2
<1>5. CASE WifiBegin
  BY <1>5, WifiBeginKeeps
<1>6. CASE phase = "ready" /\ SetupDone /\ UNCHANGED wifiVars
  BY <1>1, <1>6
<1>7. CASE (Post \/ FormStep \/ FormDone) /\ UNCHANGED wifiVars
  <2>1. task # "boot"
    BY <1>7 DEF Post, FormStep, FormDone
  <2>. QED  BY <1>1, <1>2, <1>7, <2>1
<1>8. CASE (PowerOff \/ Reset) /\ RadioOff
  BY <1>8, Times DEF RadioOff, WifiInv, WifiTypeOK
<1>9. CASE NetworkChanges /\ UNCHANGED vars
  BY <1>9 DEF NetworkChanges, WifiInv, WifiTypeOK, vars, Finished
<1>10. CASE UNCHANGED startupVars
  BY <1>10 DEF startupVars, vars, wifiVars, WifiInv, WifiTypeOK, Finished
<1>. QED
  BY <1>3, <1>4, <1>5, <1>6, <1>7, <1>8, <1>9, <1>10 DEF StartupNext, BootStep
-----------------------------------------------------------------------------
THEOREM StartupInvariant == StartupSpec => [](SettingsInv /\ WifiInv)
<1>1. StartupInit => SettingsInv /\ WifiInv
  BY SettingsStarts, WifiStarts DEF StartupInit
<1>2. SettingsInv /\ WifiInv /\ [StartupNext]_startupVars => (SettingsInv /\ WifiInv)'
  BY SettingsKeeps, StartupSteps, WifiKeeps
<1>. QED  BY <1>1, <1>2, PTL DEF StartupSpec

(* Every variable keeps to its values. *)
THEOREM StartupTypes == StartupSpec => []StartupTypeOK
<1>1. SettingsInv /\ WifiInv => StartupTypeOK
  BY DEF SettingsInv, WifiInv, StartupTypeOK
<1>. QED  BY <1>1, StartupInvariant, PTL

(* The preferences survive every failure of the power, but for nmeaFilter, *)
(* which init does not load (N2kPreferences.cpp:37-68).                    *)
THEOREM PreferencesSurvive ==
  "nmeaFilter" \notin Key => (StartupSpec => []SettingsSurvive)
<1>. SUFFICES ASSUME "nmeaFilter" \notin Key  PROVE StartupSpec => []SettingsSurvive
  OBVIOUS
<1>0. Key \subseteq LoadedKeys
  BY AllButFilter, SettingsAssumption
<1>1. SettingsInv /\ WifiInv => SettingsSurvive
  BY <1>0 DEF SettingsInv, LoadInv, SettingsSurvive
<1>. QED  BY <1>1, StartupInvariant, PTL

(* The serial ports, Bluetooth and the NMEA2000 library work as the        *)
(* preferences in RAM say, whichever of them are kept, however many writes *)
(* fail and wherever setup() or a form is cut off (.ino:71-93).            *)
THEOREM PortsAreFollowing == StartupSpec => []PortsFollow
<1>1. SettingsInv /\ WifiInv => PortsFollow
  <2>1. ASSUME SettingsInv, task = "idle", NEW p \in Port
        PROVE  port[p].running = ram[p]
    <3>1. port[p] = [initialized |-> TRUE, suspended |-> ~ram[p], running |-> ram[p]]
      BY <2>1 DEF SettingsInv, PortsInv
    <3>. QED  BY <3>1
  <2>. QED  BY <2>1 DEF PortsFollow
<1>. QED  BY <1>1, StartupInvariant, PTL

THEOREM BluetoothIsFollowing == StartupSpec => []BluetoothFollows
<1>1. SettingsInv /\ WifiInv => BluetoothFollows
  BY DEF SettingsInv, BluetoothInv, BluetoothTrue, BluetoothFollows
<1>. QED  BY <1>1, StartupInvariant, PTL

THEOREM LibraryIsFollowing == StartupSpec => []LibraryFollows
<1>1. SettingsInv /\ WifiInv => LibraryFollows
  BY DEF SettingsInv, LibraryInv, LibraryFollows
<1>. QED  BY <1>1, StartupInvariant, PTL

(* The gateway looks for the network of the user exactly when asked to     *)
(* (WifiConnection.cpp:28).                                                *)
THEOREM StationAsWanted == StartupSpec => []JoinsAsWanted
<1>1. SettingsInv /\ WifiInv => JoinsAsWanted
  <2>1. ASSUME SettingsInv, WifiInv, "wifiStaEnabled" \notin lost,
               phase \in {"join", "joined", "fallback"}
        PROVE  ram["wifiStaEnabled"] = wanted["wifiStaEnabled"]
    <3>1. task = "boot" /\ Finished
      BY <2>1 DEF WifiInv
    <3>2. "wifiStaEnabled" \in Key /\ "wifiStaEnabled" \in LoadedKeys
      BY KeyFacts, AllButFilter DEF Preference
    <3>3. "wifiStaEnabled" \notin KeysOf(todo)
      BY <3>1, <3>2 DEF Finished, KeysOf
    <3>. QED  BY <2>1, <3>1, <3>2, <3>3 DEF SettingsInv, LoadInv
  <2>. QED  BY <2>1, Modes DEF WifiInv, JoinsAsWanted
<1>. QED  BY <1>1, StartupInvariant, PTL

(* setup() waits no longer for the network than it means to, and one try   *)
(* more (WifiConnection.cpp:39), whatever the times are.                   *)
THEOREM SetupNotHeldUp == StartupSpec => []JoinInTime
<1>1. SettingsInv /\ WifiInv => JoinInTime
  BY DEF WifiInv, JoinInTime
<1>. QED  BY <1>1, StartupInvariant, PTL

(* The user can reach a gateway that is set up (WifiConnection.cpp:41-64). *)
THEOREM AlwaysReachable == StartupSpec => []Reachable
<1>1. SettingsInv /\ WifiInv => Reachable
  BY DEF WifiInv, Reachable
<1>. QED  BY <1>1, StartupInvariant, PTL
=============================================================================
