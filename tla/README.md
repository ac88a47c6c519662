# NMEA2000-WiFi-Gateway: TLA+ models, checks and proofs

The gateway is an ESP32 program (`src/src`) that converts between NMEA2000
(a CAN bus of binary messages, "PGNs") and NMEA0183 (lines of text,
"sentences"). Everything runs in one thread, the Arduino `loop()`; nothing is
preempted. What makes it hard is not threads but *state that several parts
share*, *sentences that get lost*, *timers on a counter that wraps*, *memory that
is read before it is written*, and *settings that must survive a power failure*.

Paths below are relative to the repository, so `Route.cpp` is
`src/src/nmea/Route.cpp` in `PROJECT.json`.

## 1. Inventory

| Component | State | Operations | What is hard | What makes it correct |
|---|---|---|---|---|
| `Route` | names and positions by slot, `size`, `index`, `indexOriginCurrentLeg`, `equalToPrevious`, `valid` | `initialize`, `addWaypoint`, `finalize`, `addCoordinates` | one cursor for two kinds of sentence; lost sentences; members never initialised | a valid route is the plotter's route, with its own positions |
| `N183ToN2k`, routes | a `Route`, the last `BOD` | `HandleRTE`, `HandleWPL`, `HandleBOD`, `sendPGN129285()` | order and loss of sentences; a route spread over several messages | no mixture is announced; it recovers by itself |
| `N183ToN2k`, resend | a *static* `timeUpdated` | `handleLoop` | two instances share it; `millis()` wraps | each valid route is sent again every 5 s, and no more often |
| `N183ToN2k`, navigation | `bod`, `perpendicularCrossed` | `HandleRMC/RMB/GGA/GLL/HDT/VTG/APB`, the PGN senders | reads `gps`, which others write; a message is put together from several sentences | no outdated or missing data goes out; angles are converted with the right sign and range; what goes together belongs together |
| `Gps` | position, course, speed, variation, date, time | setters and getters | shared by `N2kToN183` and both `N183ToN2k` | what is used is recent |
| `N2kToN183` | heading, four times | ten PGN handlers, `Update`, `SendRMC` | expiry and period by `millis()`; switched on and off | RMC in time; nothing outdated |
| `StreamToN183` | buffer and three cursors | `parseMessage`, `loop` | bytes lost or garbled, switched on in mid-sentence | full sentences only; gets back in step |
| `N2KPreferences` | 22 settings in RAM and in flash | setters, `init`, `reset`, callbacks | power fails between two writes | settings survive |
| `PreferenceRequestHandler` | none | the POST forms, `/reset`, `/factoryReset`, `/reboot` | a form is many writes | each write is kept |
| `SuspendableHardwareSerial` | `initialized`, `suspended` | `begin`, `suspend` | called before or after `begin` | runs exactly when its setting is on |
| `Bluetooth` | two toggles | `begin`, `end`, connect and disconnect | two settings changed in any order | stack and GPS link follow the settings |
| `WifiConnection` | target address | `begin`, `sendUdpPackage` | a network that comes and goes during setup | setup ends, and the user can reach the gateway |
| `InitN2K` | the mode of the NMEA2000 library | `InitNMEA2000`, at start and as a callback | two kinds of callback, each form calls one | the library works as the preferences say |
| `demo`, `UdpStream`, `WebSocketStream`, `MulticastStream`, `Hardware`, `Logger` | little or none | pass data on | | not modelled, see section 8 |

How they interact: `loop()` calls in this order `webserver.handleClient` (forms →
`N2KPreferences` → callbacks of the serial ports, Bluetooth, NMEA2000),
`NMEA2000.ParseMessages` (→ `N2kToN183::HandleMsg` → `gps`, sentences),
`N2kToN183::Update` (→ RMC; expires `gps`), two `StreamToN183` (Serial1,
Bluetooth GPS → sentences), two `N183ToN2k::handleLoop` (Serial2, UDP → `gps`,
`Route`, PGNs). Sentences go out through one handler to UDP, Bluetooth, web
socket and console.

`PROJECT.json` lists every hazard at its line with the properties that watch it.

## 2. Modules

| Module | Models | State and actions |
|---|---|---|
| `Route` | class `Route` | a record; each method an operator on it. A result that depends on memory never written is a *set* of results (`NewRoute`, `Finalize`) |
| `RouteReceiver` | `HandleRTE`, `HandleWPL`, `HandleBOD` | `route`, `originID`; one action per handler, for any sentence at any time |
| `RouteFeed` | the plotter the code's comments describe, on a line that may lose sentences, composed with `RouteReceiver` | the sentences of one plan, in a cycle |
| `RouteService` | *abstract*: what a display may rely on | `announced` is nothing, or the plan's waypoints |
| `RoutePages` | `sendPGN129285()`: dividing a route over messages | operators; the loop is a recursive function of the passes it has made |
| `RouteDisplay` | a display behind `RouteFeed`: `RoutePages` applied to the route being received, and the two-point route of each RMB | `shown`; the timer may elapse between any two sentences |
| `ResendTimer` | `handleLoop` and its static timer | any number of instances, in the order of `loop()` |
| `Transmission` | `ResendTimer` composed with `RoutePages` | `messages`: what the last `handleLoop` sent |
| `StreamToN183` | class `StreamToN183` | one action per kind of byte, and one for a byte that a cursor never initialised puts into other memory; `written` are the indices written to |
| `SentenceLine` | a talker and a noisy line, composed with `StreamToN183` | sends sentences byte by byte |
| `Gps`, `SharedGps` | `Gps`, `N2kToN183`, the navigation half of `N183ToN2k`, the order of `loop()` | `stage` is where `loop()` is; one action per handler; a datum is the time it was received |
| `Navigation` | the same handlers by the *values* they compute and keep: variation and course, date and time of day, and PGN 129284 put together from APB, BOD and RMB | angles are parts of a circle, `now` the real time; the boat, the clock and the plotter are the environment |
| `SuspendableSerial`, `Bluetooth` | the classes of those names | records and operators |
| `Settings` | `N2KPreferences`, the forms, power failures, composed with the two above and with `InitNMEA2000` | one action per *setter call*, so that the power may fail between any two, and a write may fail by itself |
| `WifiConnection` | class `WifiConnection` | one action per step of `setupWIFI`, and a network that changes at any time |
| `Startup` | `setup()` as a whole: `Settings` composed with `WifiConnection` | WiFi starts as the preferences loaded just before say |
| `MC*` | | values for constants |
| `*Proofs` | | theorems about the module named; `ResendTimerProofs` is also about `Transmission`, `RouteFeedProofs` about `RouteDisplay` |

Operators whose comment says *faulty variant* are not part of a specification.
Each is a plausible mistake in the operator it stands before; replacing the
operator by it must violate the property it is listed with.

### Data that is abstracted

Names are model values, with the cut to six characters as a function `cut` (in
the runs for `RouteReceiver` it identifies two names). Positions are small
numbers. A byte on a line is a start byte, a `*`, or another. In `SharedGps` a
position, course or heading is the time it was received, or `NA`; in `Navigation`
it is its value, an angle being one of `Circle` parts. The two are kept apart
because no condition of the code depends on a value other than `NA`: when a
datum expires and what it is do not influence each other. In `Navigation` a
datum may therefore expire in any `Update`. A preference is one of two values. Memory never written holds `Garbage` or any
value a run gives (`HeapNames`). A member that is a number or a Boolean (`index` of
`Route`, all cursors of `StreamToN183`) starts with any value of its type.

## 3. What the runs check

| Run | Bounds | Shows |
|---|---|---|
| `receiver` | 3 slots, 3 names of which 2 are cut alike | whatever arrives, a valid route announces only received names, inside the array (`AnnouncedIsReceived`) |
| `feed_reliable` | all routes of 1 to 3 waypoints over 3 names, so that some have a prefix in common and some repeat a name; 2 slots, so that some do not fit; one or two waypoints to a message | no wrong position (`CoordinatesReceived`), nothing announced in between (`InvalidWhileReceiving`), `RouteService` is implemented, and a display never shows a mixture (`ShownIsReal`) |
| `feed_recovers` | loss, power-on in mid-cycle, changes of plan | `Recovers`: the whole route comes back |
| `resend_single` | one instance, period 3, pass 2, uptime below the wrap; all routes of up to 6 waypoints of 3 sizes, all origins | `TimerFires`, `NoFlood`, `ResentInTime`, `AllAnnounced`, `FewestMessages` |
| `line_noisy` | sentences shorter than, as long as and longer than the buffer of 6; any content of the members at power-on, `size_t` up to 9, so that sums wrap | `WritesInBuffer`, `BackInStep` |
| `settings` | both ports, Bluetooth, GPS and four WiFi/NMEA2000 keys, so that both branches of the WiFi form and both kinds of callback occur; one failing write; limit 3, waiting up to 2 for the network. `nmeaFilter`, which is never loaded, is left to `settings_filter` | `SettingsSurvive`, `PortsFollow`, `BluetoothFollows`, `LibraryFollows`, `JoinsAsWanted`, `JoinInTime`, `Reachable`, `BootEnds` |
| `gps` | all messages and sentences, period 2, expiries 2 and 3, pass 1, uptime 6: every timer expires and restarts, RMC is sent three times, and the source goes off and on | `PositionsAreRecent`, `CoursesAreRecent`, `HeadingsAreRecent`, `RMCInTime`, `RMCSpaced` |
| `navigation` | a circle of 8, variation 1, a course and a leg to the north, so that differences wrap around both ways; two legs; the last part of one day and the first of the next; every angle of a sentence may be missing | `MagneticRight`, `MomentsPast`, `LegInStep` |

The bounds are enough for what each property needs: more waypoints than slots,
a route that shares a prefix with the one before, a route that repeats a name,
several periods, two expiries in a row, an angle that wraps, one midnight, a leg
followed by another. A third leg or a second midnight brings no new case: the
gateway remembers one of each.

Runs that TLC finds *violated*, each a disagreement of code and comment:

| Run | The code, against its comment |
|---|---|
| `feed_origin` | the origin of the leg is searched for in an empty list (Route.cpp:57-58, 69, 120), so that the announcement starts with the first waypoint: the origin is not "the 1st" |
| `resend_starved` | the static timer may starve one of two instances: a valid route is not sent "at least every 5 seconds" (N183ToN2k.cpp:83, 94) |
| `true_course` | a magnetic course is made true by *subtracting* the variation (N2kToN183.cpp:265), so that `gps` does not hold the "true COG" (Gps.h:39) |
| `settings_filter` | `init` never loads the NMEA filter (N2kPreferences.cpp:37-62), which is gone after a reboot |

### Limits of what holds, seen while modelling

The properties above are stated as far as the code keeps them. What lies beyond:

- *Lost sentences.* `CoordinatesReceived` and `InvalidWhileReceiving` need a
  reliable line. With `Lossy = TRUE` in `feed_reliable.cfg` TLC shows, in a few
  steps, a route made valid by equal names although a WPL sentence in between was
  lost (Route.cpp:63-65 says "alle WPL messages in between"), and an old route
  that stays valid while the new one comes in because the first RTE sentence was
  lost (Route.h:63 says "always marked invalid"; N183ToN2k.cpp:364).
- *Wrap of `millis()`.* With `Word = 16` and `MaxUptime = 40` in
  `resend_single.cfg` TLC shows two things. In the last period before the wrap
  `timeUpdated+5000` wraps before `millis()` does, and the timer elapses in every
  pass (`NoFlood`). And when no pass falls between the expiry and the wrap,
  the timer rests for a whole turn of the counter, 49 days (`ResentInTime`).
- *Before the first intact sentence.* `BackInStep` starts with an intact sentence.
  Before it `StreamToN183` may hand over a message that is not full: a start byte
  keeps the position of the last `*` (StreamToN183.cpp:22-28), and on zeroed memory
  the first message is three bytes long (StreamToN183.h:13).
- *Outside the buffer.* The zero behind a message of exactly 81 bytes is written
  to `MsgInBuf[81]`, before the length is tested (StreamToN183.cpp:37, 43): into
  padding, or into `MsgInPos` just before that is reset. `WritesInBuffer` allows
  this one write. If the heap has `MsgInStarted` true and `MsgInPos` beyond the
  buffer (StreamToN183.h:13-14), each byte up to the first start byte is written
  somewhere else (line 31), which may be the other members. The action
  `StrayByte` lets them hold anything after that, other objects aside, and
  `WritesInBuffer` starts with the first start byte.
- *Order of switching.* `BluetoothFollows` says that nothing is linked without its
  settings. The converse fails: `connectBlGps` sets its toggle while Bluetooth is
  off and `end` leaves it set (Bluetooth.cpp:62-85).
- *The plotter's position.* `Update` wipes a position that the plotter brought
  whenever the NMEA2000 bus brought none for 4 seconds (N2kToN183.cpp:94-97); the
  route of an RMB sentence then starts nowhere.
- *An origin that stays.* `initialize` does not reset `indexOriginCurrentLeg`, and
  a search that finds nothing keeps the old one (Route.cpp:118-128). The search
  succeeds only when the first RTE sentence of a sequence was lost, since only then
  the old size is still there; from then on every route is announced from that
  slot on, possibly from its middle, until another loss.
- *Names alike in six characters.* After a change to a route whose names differ
  from those of the last one only behind the sixth character, the new route is
  taken for the same and announced with the old positions until the WPL sentences
  have come in (Route.cpp:63-66, 92-101).
- *A cycle in step with the timer.* A route of several RTE sentences is not valid
  while it comes in; when the 5 seconds elapse in that window nothing is sent
  (N183ToN2k.cpp:95-97, 160-163), and the next chance is 5 seconds later.
  `ResentInTime` counts from when the route is valid.
- *Two routes on one display.* Each RMB sends the route from "CURRENT" to "NEXT"
  even when there is a route from RTE and WPL, although the comment at
  N183ToN2k.cpp:205-206 has it for systems without; a display alternates between
  the two. `ShownIsReal` allows both, but no mixture.
- *Variation.* The heading of `HandleHeading` has the sign error of the course
  (N2kToN183.cpp:162). The variation from VTG is a plain difference and may be off
  by a full circle (N183ToN2k.cpp:334); angles computed with it are right, but
  PGN 127250 has no room for the value itself. With no variation known,
  `toMagnetic` works on N2kDoubleNA: about 160 million rounds of its loop, and a
  meaningless result (`MagneticRight` excepts it).
- *Missing angles.* A VTG without the magnetic or the true course, common when a
  talker knows no variation or the boat is at rest, makes the difference of an
  angle and "missing" the variation, or 0 when it has neither (line 334). From
  then on a wrong variation counts as known, until RMC, PGN 127250, PGN 127258 or
  a whole VTG brings another. `MagneticRight` excepts this time (`unfounded`), but
  not a bearing that BOD brought as a magnetic one; without the exception TLC
  finds a wrong angle at the first HDT after such a VTG. Likewise an RMC
  without a course sends what `toMagnetic` makes of the missing value in PGN
  129026 (line 262): garbage, or 0 when the variation is missing too. There is
  no right value to compare it with.
- *Date and time.* Neither expires: when only PGN 129025 is heard, RMC carries
  the last time for ever (N2kToN183.cpp:337). PGN 127258 sets the date alone, so
  that RMC may carry a moment of the future until the next full date
  (`MomentsPast` excepts it), and PGN 129029 made of a GGA just after midnight
  carries yesterday's date.
- *Access point.* It has credentials of its own, not "the same"
  (WifiConnection.cpp:57-63).

## 4. Fairness

Only two specifications assume any. `RouteFeed` assumes weak fairness of
`SendRTE` and `SendWPL`: the plotter repeats its cycle while it is on
(N183ToN2k.cpp:356-357, 392-393), and the gateway handles what has arrived in
the same step. `calm`, after which nothing is lost, is a hypothesis of
`Recovers`, not something assumed to happen. `Startup` assumes weak fairness of
`BootStep`, `setup()` going on while the power is on: there is one thread and
every call returns (`waitForConnectResult` within `ResultWait`). A network that
changes all the time cannot hold it up, since no step of it waits for the network. Bounds on time
(`TimerFires`, `RMCInTime`, `JoinInTime`) are safety properties over a clock and
need no fairness; what they assume instead is `Gap`, the longest pass of the loop.

## 5. What is proved

TLAPS checks these for every value of the constants.

`RouteReceiverProofs` (from `RouteAssumption`, `ReceiverAssumption`):
`TypeCorrect` is `Spec => []TypeOK`; what takes work is that `index` and `size`
never exceed a byte, which needs that `index` stays within the array.
`AnnouncedReceived` is `Spec => []AnnouncedIsReceived`. The property is not
inductive: `valid` is set from `equalToPrevious`, which says nothing of the slots
below `index` by itself. The invariant adds that while `equalToPrevious` holds the
slots below `index` hold received names, and that a valid route's size and origin
lie in the array; then each action preserves each conjunct.

`RouteFeedProofs` (from `RouteAssumption`, `FeedAssumption`, `DisplayAssumption`),
for any number of slots, all routes a plotter may have and any way to spread them
over RTE sentences:

- `FeedTypes`: `FeedTypeOK` on any line, wherever in its cycle the plotter is at
  first. `NoneWhileReceiving`: `InvalidWhileReceiving` where nothing is lost.
- `PositionsReceived`: `CoordinatesReceived`. The code keeps the positions of a
  previous route only as long as names are equal, slot by slot, and this over two
  passes of the same cursor. `FeedInv` therefore says what each slot has by the
  part of the cycle that the plotter is in: before it (`BeforeCycle`) no slot has a
  name with the position of another; while RTE sentences come in (`WhileNaming`)
  the slots up to the cursor have the names of the plan, and those behind it, or
  all if nothing has changed yet, are as before; while WPL sentences come in
  (`WhilePlacing`) the slots behind the cursor that are part of a route not valid
  are the only ones that may be wrong. The cursor is where the cycle is.
- `FeedImplementsService`: `FeedSpec => ImplementsService`, the refinement of
  `RouteService`, from the same invariant: a route becomes valid only with the
  last sentence, and is then the plan as a whole.
- `DisplayIsReal`: `DisplaySpec => []ShownIsReal`. That the route is whole must
  here be known whenever it is valid (`RealRoute`), and that the messages put
  together give what was divided (`SpreadIsShown`, from `RoutePagesProofs`).
  The other theorems hold behind a display too: they are stated of `FeedSafety`,
  which `FeedSpec` and `DisplaySpec` imply by the way they are built (the lemmas
  `FeedIsSafe`, `DisplayIsFed`).
- `LoopAlwaysAgrees`: the closed form `AddWaypoints` is what the loop of
  `HandleRTE` computes; an induction over the names of a sentence.

Their hypotheses are those under which the code keeps the property. `Reliable`:
nothing is lost and the gateway is on before the plotter; TLC shows a wrong
position with `Lossy = TRUE`, and one with `MidCycle = TRUE`, in
`feed_reliable.cfg`. `FreshHeap`: what the constructor finds in the buffers for
the names, which it does not write, is by chance no name that the plotter sends,
or a slot may be taken for one that has its position. `SamePlace`, for the
refinement and the display only: two names that are alike in what is kept of them
are of the same place, because the slot, and the display, have no more than that
to tell them apart. A plotter with names of up to six characters always satisfies
it. None can be dropped: TLC finds `CoordinatesReceived` violated with
`HeapNames = {Garbage, a}`, and with a `cut` that takes `b` and `c` to one name
it finds `ImplementsService` violated, and `ShownIsReal` when `<<b, c>>` and
`<<c, b>>` are the only plans.

`RoutePagesProofs` (from `PagesAssumption`), about every route whose waypoints
each fit in an empty message (`Announceable`: names are cut to six characters, a
message has room for 223 bytes): `PagesComplete` and `PagesFewest`. Both rest on
`Spread`, the state of the loop after `k` passes: messages that hold consecutive
slots, each starting where the one before ended, each but the last so full that
the next waypoint did not fit. For `PagesFewest` the messages are compared with
any other way to part the route: every message but the last contains a cut of it,
a different one each, so there are as many cuts as messages but one.

`ResendTimerProofs` (from `TimerAssumption` and, but for the types, `NoWrap`: the
uptime stays below the wrap): `TimerTypes`, `TimerFiresInTime`, `RouteNotFlooded`,
`SingleInstanceResends`.
The invariant ties the history `sinceFired` to `timeUpdated`
(`uptime - timeUpdated`) and bounds it by the period plus `late`, the time since
the instance that is called next was called. For one instance `quiet` cannot
exceed `sinceFired`. `NoWrap` cannot be dropped (section 3), nor "single"
(`resend_starved`). All of this holds of `Transmission`, the module of the run,
too, which is `ResendTimer` with messages (the lemma `TransmissionsFollowTimer`).
`AlwaysAnnounced` and `AlwaysFewest` are `AllAnnounced` and `FewestMessages`, from
the theorems of `RoutePagesProofs`, for any routes and past the wrap as well.

`SentenceLineProofs` (from `FramerAssumption`, `LineAssumption`):
`WritesStayInBuffer` is `LineSpec => WritesInBuffer`: once the cursor is in the
buffer, no byte and no wrap of a sum takes it out. `OneSentenceIsEnough` is `LineSpec => BackInStep`: the invariant says,
for a sentence that arrived intact up to now behind an intact sentence, exactly
what the cursors and the buffer are: started with `MsgInPos` the bytes sent, no
`*` remembered until it was sent. The first intact sentence may still be
handed over too early; after it the remembered position is gone.

`NavigationProofs` (from `NavigationAssumption`): `NavigationTypes` is
`Spec => []NavTypeOK`. `LegKeepsStep` is `Spec => []LegInStep`; the invariant
says that what BOD and APB left is of this batch or the one before, and of this
one once its sentence has come, and all have come when the next batch starts.
`MomentsNotAhead` is `Spec => []MomentsPast`; the invariant is that a date not
from the variation model is at most today, and with its time of day at most now.
GGA keeps the date and sets the time, so this needs that a date times the length
of a day grows with the date. `MagneticAnglesRight` is `Spec => []MagneticRight`;
the invariant is that the variation in `gps`, unless it is that of a VTG that
lacked an angle, is the local one up to whole circles (VTG leaves a difference
that nothing brings into range) and that the bearings a BOD had are those of its
leg. Then `toMagnetic` gives what the compass
shows, because a multiple of the divisor does not change a remainder; the lemmas
on `\div` and `%` are proved from their definitions.

`SharedGpsProofs` (from `GpsAssumption`), for all periods, expiries, passes and
message orders: `SharedGpsTypes`, `PositionsRecent`, `CoursesRecent`,
`HeadingsRecent`, `RMCNotLate`, `RMCNotFlooded`. That nothing outdated is sent is
not inductive, since a datum is read at other places of `loop()` than where it is
tested for age. `KeptAt` says how old a datum may be *by the place in `loop()`*:
at most the expiry behind `Update`, and one pass more before it. It also says that
a datum is never older than its timer, which is why `Update` may test the timer in
its place. It is one definition for position, course and heading, so that each
action is dealt with once. `RMCInv` bounds `NextRMCSend` from both sides by the
last RMC and the time since it could have been sent.

`StartupProofs` (from `SettingsAssumption`, `StartupAssumption`), for any set of
preferences, any number of failed writes and all times of the network:
`StartupTypes`, `PreferencesSurvive`, `PortsAreFollowing`, `BluetoothIsFollowing`,
`LibraryIsFollowing`, `StationAsWanted`, `SetupNotHeldUp`, `AlwaysReachable`. The
invariant has a part for each device. `LoadInv`: what storage would give at the
next start is what the user wanted, and what is in RAM differs from it only in
`setup()` and for what is still in `todo`. `PortsInv`: a port follows its
preference between any two setters. `BluetoothInv` and `LibraryInv` hold up to the
callback that a form calls at its end, and need that no form changes what the
other callback looks at. `WifiInv`: the way through `setupWIFI` with the time it
has taken. `PreferencesSurvive` has the hypothesis that `nmeaFilter` is not among
the preferences: `init` does not load it (`settings_filter`); the proof checks
that it loads each of the other 21.

Recursive functions (`Pages`, `Displayed`, `Looped`, `Bytes`) are reasoned about by
their least counterexample: `LeastElement`, from the well-foundedness of `<`
on the natural numbers, gives the first number at which a claim fails
(`FirstFailure`), and the step to it contradicts that. This needs no theorem with
an operator as a parameter.

## 6. Only model-checked

`Recovers` and `BootEnds`: liveness under fairness is out of the prover's reach.
Every invariant and every action property that a passing run checks is proved. The
four runs of section 3 that find a violation are counterexamples, which need no
proof; that `ResentInTime` holds of a single instance is proved.

## 7. Plan

Done: all modules of section 2, their runs, and proofs of all their safety
properties and of the refinement. Next, in this order:

1. A safety theorem behind `Recovers`: after one undisturbed cycle on any line the
   route is whole, so that only the fairness of the plotter is left to TLC. The
   same for `BootEnds` with a measure that each step of `setup()` lowers.
2. How far `AnnouncedIsReceived` goes on a lossy line: which slots may have a
   wrong position, and for how long.
3. `demo` as an action of `SharedGps`, when its state space allows.

## 8. Not modelled, and why

`demo` feeds fixed messages to handlers that are modelled. `UdpStream`,
`WebSocketStream`, `MulticastStream`, `Hardware`, `Logger` and `PrintfWrapper`
forward data or do pure I/O. The estimated time of arrival and the speed towards
the waypoint (`calcETA`, `calcVmc`) are floating-point formulas without state. The
value of the heading in `N2kToN183`, which only HDG and VHW carry, is left out;
its age is in `SharedGps`. When the timer of `handleLoop` elapses is in
`ResendTimer`; `SharedGps` lets it elapse in any pass.
`HandleGLL` is never reached (N183ToN2k.cpp:447 compares with "GGL"). The
firmware update belongs to a library. The web page is not part of the firmware.
The libraries (NMEA0183, NMEA2000, Preferences, BluetoothSerial, WiFi) are
modelled by what the code relies on: a setter of `Preferences` stores one value
atomically or not at all, `connect` has no effect while Bluetooth is off,
`AppendN2kPGN129285` refuses what does not fit.
