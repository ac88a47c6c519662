--------------------------- MODULE WifiConnection ---------------------------
(***************************************************************************)
(* The class WifiConnection: during setup it tries for 5 seconds to join   *)
(* the network of the user as a station, and otherwise sets up an access   *)
(* point; sentences are then broadcast in UDP packets.                     *)
(* waitForConnectResult, of the WiFi library, waits a while and says       *)
(* whether the station is connected; the network comes and goes.  The      *)
(* preference is a parameter; Startup says where it comes from.            *)
(***************************************************************************)
EXTENDS Integers

CONSTANTS
  JoinTime,    \* 5000 ms
  ResultWait,  \* longest time waitForConnectResult takes
  Delay,       \* 100 ms
  Network      \* the addresses (subnets) the network of the user may give

ASSUME WifiAssumption ==
  /\ {JoinTime, ResultWait} \subseteq Nat
  /\ Delay \in Nat \ {0}

VARIABLES
  phase,       \* where setup is
  clock,       \* time since WiFi.begin, while setup waits for it, then 0
  WiFiOk,      \* WiFi_ok
  mode,        \* WiFi.mode, and with whose credentials
  lease,       \* the address of the gateway as a station, or NoAddress
  ipLok        \* where packets are sent, or NoAddress

wifiVars == << phase, clock, WiFiOk, mode, lease, ipLok >>

NoAddress == "none"
SoftAP == "softAP"  \* the subnet of the access point

(* A mode with the preferences that name the network and its password. *)
Off == [wifi |-> "off", credentials |-> "none"]
Station == [wifi |-> "WIFI_STA", credentials |-> "sta"]
AccessPoint == [wifi |-> "WIFI_AP", credentials |-> "ap"]

WifiTypeOK ==
  /\ phase \in {"start", "join", "joined", "fallback", "ready"}
  /\ clock \in Nat
  /\ WiFiOk \in BOOLEAN
  /\ mode \in {Off, Station, AccessPoint}
  /\ lease \in Network \cup {NoAddress}
  /\ ipLok \in Network \cup {SoftAP, NoAddress}

(* The static object; the radio is off. *)
WifiInit ==
  /\ phase = "start"
  /\ clock = 0
  /\ WiFiOk = FALSE
  /\ mode = Off
  /\ lease = NoAddress
  /\ ipLok = NoAddress

-----------------------------------------------------------------------------
(* Faulty variant: the station is tried although it is disabled. *)
StartAlways(staEnabled) ==
  /\ phase = "start"
  /\ mode' = Station /\ phase' = "join"
  /\ UNCHANGED << clock, WiFiOk, lease, ipLok >>

Start(staEnabled) ==
  /\ phase = "start"
  /\ IF staEnabled
     THEN mode' = Station /\ phase' = "join"
     ELSE mode' = mode /\ phase' = "fallback"
  /\ UNCHANGED << clock, WiFiOk, lease, ipLok >>

(* The condition of the loop (Joining...: faulty variant). *)
JoiningForever == ~WiFiOk
Joining == ~WiFiOk /\ clock < JoinTime

(* The body of the loop; the result is what the station is when it comes. *)
WaitForConnectResult ==
  /\ phase = "join" /\ Joining
  /\ \E wait \in 0 .. ResultWait : clock' = clock + wait + Delay
  /\ WiFiOk' = (lease # NoAddress)
  /\ UNCHANGED << phase, mode, lease, ipLok >>

(* The loop is over (JoinDoneUnchecked: faulty variant). *)
JoinDoneUnchecked ==
  /\ phase = "join" /\ ~Joining
  /\ phase' = "joined"
  /\ UNCHANGED << clock, WiFiOk, mode, lease, ipLok >>

JoinDone ==
  /\ phase = "join" /\ ~Joining
  /\ phase' = IF WiFiOk THEN "joined" ELSE "fallback"
  /\ UNCHANGED << clock, WiFiOk, mode, lease, ipLok >>

(* WiFi.localIP(), which may be gone again. *)
Joined ==
  /\ phase = "joined"
  /\ phase' = "ready"
  /\ ipLok' = lease
  /\ clock' = 0
  /\ UNCHANGED << WiFiOk, mode, lease >>

(* The access point (faulty variants: the address of the access point is   *)
(* taken for a lease; the access point is for a disabled station only).    *)
FallbackLease ==
  /\ phase = "fallback"
  /\ phase' = "ready"
  /\ mode' = AccessPoint
  /\ lease' = SoftAP
  /\ ipLok' = SoftAP
  /\ clock' = 0
  /\ UNCHANGED WiFiOk

FallbackIfDisabled ==
  /\ phase = "fallback" /\ mode # Station
  /\ phase' = "ready"
  /\ mode' = AccessPoint
  /\ lease' = NoAddress
  /\ ipLok' = SoftAP
  /\ clock' = 0
  /\ UNCHANGED WiFiOk

Fallback ==
  /\ phase = "fallback"
  /\ phase' = "ready"
  /\ mode' = AccessPoint
  /\ lease' = NoAddress
  /\ ipLok' = SoftAP
  /\ clock' = 0
  /\ UNCHANGED WiFiOk

(* The network of the user appears, or gives another address, or goes.     *)
(* Once setup is done nothing looks at it any more: what is sent (in       *)
(* sendUdpPackage) goes to ipLok, whatever address the network gave since. *)
NetworkChanges ==
  /\ mode = Station /\ phase # "ready"
  /\ lease' \in (Network \cup {NoAddress}) \ {lease}
  /\ UNCHANGED << phase, clock, WiFiOk, mode, ipLok >>

(* The power is gone. *)
RadioOff ==
  /\ phase' = "start" /\ clock' = 0 /\ WiFiOk' = FALSE
  /\ mode' = Off /\ lease' = NoAddress /\ ipLok' = NoAddress

(* One step of begin(), which is over when there is none. *)
WifiStep(staEnabled) ==
  \/ Start(staEnabled)
  \/ WaitForConnectResult \/ JoinDone \/ Joined \/ Fallback

-----------------------------------------------------------------------------
(* setup() does not wait for the network for more than the 5 seconds and   *)
(* one more try (WifiConnection.cpp:39).                                   *)
JoinInTime == clock < JoinTime + ResultWait + Delay

(* When setup is done the user can reach the gateway: it is an access      *)
(* point, or was told that it is a station of the network.                 *)
Reachable == phase = "ready" => mode = AccessPoint \/ (mode = Station /\ WiFiOk)
=============================================================================
