----------------------------- MODULE DJControllers -----------------------------
(***************************************************************************)
(* The DJ controllers (src/src/DJControllers.cpp) and their detection on   *)
(* the MIDI ports (src/src/Controller/): the thread that scans the ports   *)
(* whenever their counts have changed, the devices that answer from        *)
(* threads of the MIDI library, and the main thread, whose windows handle  *)
(* what is pressed and moved and light the LEDs.                           *)
(*                                                                         *)
(* A device is numbered by when it was plugged in, and its ports by that   *)
(* number: plugged in anew it is another device.  A "single" device has an *)
(* IN port and is known by its name, a "dual" one has both ports and is    *)
(* known by its answer to a query.  Whether a port can be opened twice     *)
(* depends on the system.                                                  *)
(***************************************************************************)
EXTENDS Integers, FiniteSets, Sequences, SequencesExt

CONSTANTS
  Inputs,   \* what is pressed or moved on a controller: its name and a value
  Rows,     \* how many rows the lists of the windows have
  Bounds    \* bounds, one of which each behaviour keeps to: how many devices come and go,
            \* how many answers are late, and how many inputs there are

ASSUME DJControllersAssumption ==
  /\ Rows \in Nat \ {0}
  /\ Bounds \subseteq [plugs : Nat, unplugs : Nat, late : Nat, events : Nat]
  /\ Inputs \subseteq [name : {"play", "enter", "pitch", "volume", "browse", "jog"}, value : Int]

VARIABLES
  exclusive,   \* whether a port that is open cannot be opened once more
  kinds,       \* the kind of each device so far
  plugged,     \* the devices that are there
  answers,     \* the devices that were asked and have not answered yet
  scan,        \* the scan of the ports: its phase and its local variables
  lastIn, lastOut,  \* mLastNumPortsIn, mLastNumPortsOut
  controllers, \* the controllers so far: their ports, 0 where the port is not open
  detected,    \* mControllers of the enumerator
  connected,   \* mControllers of DJControllers
  heard,       \* the controllers whose signals are connected to DJControllers
  inbox,       \* the events queued for the thread of DJControllers
  calls,       \* the handlers queued for the main thread
  told,        \* how many controllerConnected() are queued for the main thread
  opened,      \* whether the windows have been constructed
  windows,     \* the sliders and the chosen row of each window, and how often it has started something
  lit,         \* the devices whose LED is on
  fault,       \* whether the behaviour of the program is no longer defined
  since,       \* history: whether devices came or left since the last scan began
  greeted,     \* history: whether the LEDs have been set
  bounds, late, events, unplugs \* the bounds of this behaviour, and their counters

ports == <<exclusive, kinds, plugged, since>>
scanning == <<scan, lastIn, lastOut, answers>>
lists == <<controllers, detected, connected, heard>>
main == <<calls, told, opened, windows, lit, greeted>>
counters == <<bounds, late, events, unplugs>>
vars == <<ports, scanning, lists, main, inbox, fault, counters>>

Single == -1 \* in place of the OUT port of a controller that has none
Idle == [phase |-> "idle"]

(* Numbers, the least one first. *)
InOrder(S) == [n \in 1..Cardinality(S) |-> CHOOSE m \in S : Cardinality({k \in S : k < m}) = n - 1]

DualsOf(devices) == {device \in devices : kinds[device] = "dual"}
NumIn == Cardinality(plugged)
NumOut == Cardinality(DualsOf(plugged))

(* The controllers keep their ports open for ever. *)
CanOpenIn(device) == exclusive => \A c \in DOMAIN controllers : controllers[c].in # device
CanOpenOut(device) == exclusive => \A c \in DOMAIN controllers : controllers[c].out # device

IsDual(c) == controllers[c].out # Single

(* The slot of DJControllers: the signals are connected, and the window is told, if it exists. *)
NewControllersDetected(new) ==
  /\ connected' = connected \o new
  /\ heard' = heard \cup ToSet(new)
  /\ told' = told + (IF opened THEN Len(new) ELSE 0)

(* addController() for each of the new controllers. *)
AddAll(new) == detected' = detected \o new /\ NewControllersDetected(new)

Window == [tempo |-> 0, volume |-> 100, row |-> 0, started |-> 0]

Init ==
  /\ exclusive \in BOOLEAN /\ bounds \in Bounds
  /\ kinds = <<>> /\ plugged = {} /\ since = {} /\ answers = {}
  /\ scan = [phase |-> "starting"] /\ lastIn = 0 /\ lastOut = 0
  /\ controllers = <<>> /\ detected = <<>> /\ connected = <<>> /\ heard = {}
  /\ inbox = <<>> /\ calls = <<>> /\ told = 0
  /\ opened = FALSE /\ windows = [w \in {"PlayerWindow", "ClassroomWindow"} |-> Window]
  /\ lit = {} /\ fault = FALSE /\ greeted = FALSE /\ late = 0 /\ events = 0 /\ unplugs = 0

-----------------------------------------------------------------------------
(* The devices. *)

PlugIn(kind) ==
  /\ Len(kinds) < bounds.plugs
  /\ kinds' = Append(kinds, kind)
  /\ plugged' = plugged \cup {Len(kinds')}
  /\ since' = since \cup {"came"}
  /\ UNCHANGED <<exclusive, scanning, lists, main, inbox, fault, counters>>

Unplug(device) ==
  /\ unplugs < bounds.unplugs /\ unplugs' = unplugs + 1
  /\ plugged' = plugged \ {device}
  /\ answers' = answers \ {device}
  /\ since' = since \cup {"left"}
  /\ UNCHANGED <<exclusive, kinds, scan, lastIn, lastOut, lists, main, inbox, fault, bounds, late, events>>

(* A controller of this name has a single port. *)
KnownByName(device) == kinds[device] = "single"

(* While a scan listens, whatever a device sends that is known by its name  *)
(* is taken for an answer, as an empty answer is expected of it.            *)
IsAnswer(device, message) == message = "answer" \/ KnownByName(device)

(* The lambda of detectDualPortControllers(), in the thread of the IN port: the *)
(* OUT port is the one that is asked at this moment.  As long as none has been  *)
(* asked the pointer to it is null, and used nevertheless.                      *)
Received(device, message) ==
  LET listened == scan.phase = "asking" /\ device \in scan.ins
  IN  /\ fault' = (listened /\ scan.asked = 0)
      /\ IF listened /\ scan.asked > 0 /\ IsAnswer(device, message)
         THEN /\ controllers' = Append(controllers, [in |-> device, out |-> scan.out])
              /\ scan' = [scan EXCEPT !.found = Append(@, Len(controllers')), !.evt = @ + 1]
         ELSE UNCHANGED <<controllers, scan>>

Answer(device) ==
  /\ device \in answers
  /\ answers' = answers \ {device}
  /\ Received(device, "answer")
  /\ UNCHANGED <<ports, lastIn, lastOut, detected, connected, heard, main, inbox, counters>>

(* Something is pressed or moved.  A controller with a single port lives in *)
(* the thread of DJControllers and is given the message there, one with two *)
(* ports has decoded it already.                                            *)
Input(device, input) ==
  LET of == InOrder({c \in DOMAIN controllers : controllers[c].in = device /\ (IsDual(c) => c \in heard)})
  IN  /\ events < bounds.events /\ events' = events + 1
      /\ inbox' = inbox \o [i \in DOMAIN of |-> [type |-> "input", from |-> of[i], input |-> input]]
      /\ Received(device, "input")
      /\ UNCHANGED <<ports, answers, lastIn, lastOut, detected, connected, heard, main, bounds, late, unplugs>>

(* The erase() of a single iterator. *)
Without(list, c) ==
  IF c \in ToSet(list) THEN RemoveAt(list, CHOOSE i \in DOMAIN list : list[i] = c) ELSE list

(* The library reports an error of the IN port of a device that is gone.  The   *)
(* unplugged() of a single-port controller is queued; that of another is        *)
(* handled at once, but its controllerDisconnected() cannot be queued.          *)
Report(c) ==
  /\ controllers[c].in \notin plugged
  /\ c \in ToSet(detected)
  /\ IF IsDual(c) THEN detected' = Without(detected, c) /\ UNCHANGED inbox
     ELSE /\ \A i \in DOMAIN inbox : inbox[i] # [type |-> "unplugged", from |-> c]
          /\ inbox' = Append(inbox, [type |-> "unplugged", from |-> c])
          /\ UNCHANGED detected
  /\ UNCHANGED <<ports, scanning, controllers, connected, heard, main, fault, counters>>

-----------------------------------------------------------------------------
(* The thread of DJControllers. *)

(* Mutant: the ports of the controllers just found are asked as well. *)
RemainingAll(ins, used) == ins

Remaining(ins, used) == ins \ used

(* The first scan, or a tick of the timer that finds the counts changed: all *)
(* IN ports are opened and those known by their names become controllers.    *)
StartScan ==
  /\ \/ scan.phase = "starting"
     \/ scan.phase = "idle" /\ (lastIn # NumIn \/ lastOut # NumOut)
  /\ LET ins == {device \in plugged : CanOpenIn(device)}
         singles == {device \in ins : KnownByName(device)}
         new == [i \in 1..Cardinality(singles) |->
                  [in |-> InOrder(singles)[i], out |-> Single]]
     IN  /\ controllers' = controllers \o new
         /\ AddAll([i \in DOMAIN new |-> Len(controllers) + i])
         /\ scan' = [phase |-> "asking", ins |-> Remaining(ins, singles), numIn |-> NumIn, numOut |-> NumOut,
                     asked |-> 0, out |-> 0, waiting |-> FALSE, evt |-> 0, found |-> <<>>]
  /\ since' = {}
  /\ UNCHANGED <<exclusive, kinds, plugged, lastIn, lastOut, answers, calls, opened, windows, lit, greeted,
                 inbox, fault, counters>>

(* Mutant: the next port is asked at once. *)
WaitsNever(open) == FALSE

Waits(open) == open

(* The next OUT port is opened and, if that works, asked. *)
Ask ==
  /\ scan.phase = "asking" /\ ~scan.waiting /\ scan.asked < scan.numOut
  /\ LET outs == InOrder(DualsOf(plugged))
         device == IF scan.asked < Len(outs) THEN outs[scan.asked + 1] ELSE 0
         open == device # 0 /\ CanOpenOut(device)
     IN  /\ scan' = [scan EXCEPT !.asked = @ + 1, !.out = IF open THEN device ELSE 0, !.waiting = Waits(open)]
         /\ answers' = IF open THEN answers \cup {device} ELSE answers
  /\ UNCHANGED <<ports, lastIn, lastOut, lists, main, inbox, fault, counters>>

Acquire ==
  /\ scan.phase = "asking" /\ scan.waiting /\ scan.evt > 0
  /\ scan' = [scan EXCEPT !.waiting = FALSE, !.evt = @ - 1]
  /\ UNCHANGED <<ports, lastIn, lastOut, answers, lists, main, inbox, fault, counters>>

(* The answer has come where nobody listens, will not come at all, or is late. *)
Timeout ==
  /\ scan.phase = "asking" /\ scan.waiting /\ scan.evt = 0
  /\ scan' = [scan EXCEPT !.waiting = FALSE]
  /\ IF scan.out \in answers
     THEN late < bounds.late /\ late' = late + 1
     ELSE UNCHANGED late
  /\ UNCHANGED <<ports, lastIn, lastOut, answers, lists, main, inbox, fault, bounds, events, unplugs>>

(* Mutant: the IN ports are counted when the scan has ended. *)
CountedInAtEnd == NumIn

CountedIn == scan.numIn

FinishScan ==
  /\ scan.phase = "asking" /\ ~scan.waiting /\ scan.asked = scan.numOut
  /\ AddAll(scan.found)
  /\ lastIn' = CountedIn /\ lastOut' = NumOut
  /\ scan' = Idle
  /\ UNCHANGED <<ports, answers, controllers, calls, opened, windows, lit, greeted, inbox, fault, counters>>

(* The lambda of addController() and DJControllers::controllerDisconnected(): *)
(* the controller taken off the one list is c, and off the other the one that *)
(* followed c.  Where none followed, the iterator is past the end, where the  *)
(* bytes of c are found or anything.  That the list does not have the         *)
(* controller is undefined as well.                                           *)
ControllerDisconnected(c) ==
  /\ connected' = Without(connected, c)
  /\ heard' = heard \ {c}

Disconnected(c) ==
  LET at == CHOOSE i \in DOMAIN detected : detected[i] = c
      removed == IF at < Len(detected) THEN detected[at + 1] ELSE c
  IN  /\ detected' = Without(detected, c)
      /\ ControllerDisconnected(removed)
      /\ fault' \in {removed \notin ToSet(connected), at = Len(detected)}

HandleUnplugged ==
  /\ scan.phase = "idle" /\ inbox # <<>> /\ Head(inbox).type = "unplugged"
  /\ inbox' = Tail(inbox)
  /\ IF Head(inbox).from \in ToSet(detected)
     THEN Disconnected(Head(inbox).from)
     ELSE UNCHANGED <<detected, connected, heard, fault>>
  /\ UNCHANGED <<ports, scanning, controllers, main, counters>>

(* findCurrentContext(): of the objects from the focused one outwards, the last one's that has any. *)
CurrentContext(chain) ==
  LET contexts == SelectSeq(chain, LAMBDA context : context # "")
  IN  IF contexts = <<>> THEN "" ELSE Last(contexts)

(* What has the focus: a widget of a window or of its dialogs, or of neither. *)
Focused == {<<"", "PlayerWindow">>, <<"", "", "ClassroomWindow">>, <<"">>}

Handlers(context) == IF opened /\ context \in DOMAIN windows THEN <<context>> ELSE <<>>

(* The handlers of the current context are queued. *)
Dispatch ==
  /\ scan.phase = "idle" /\ inbox # <<>> /\ Head(inbox).type = "input"
  /\ inbox' = Tail(inbox)
  /\ IF IsDual(Head(inbox).from) \/ Head(inbox).from \in heard
     THEN \E chain \in Focused :
            calls' = calls \o [i \in DOMAIN Handlers(CurrentContext(chain)) |->
                                [window |-> Handlers(CurrentContext(chain))[i], input |-> Head(inbox).input]]
     ELSE UNCHANGED calls
  /\ UNCHANGED <<ports, scanning, lists, told, opened, windows, lit, greeted, fault, counters>>

-----------------------------------------------------------------------------
(* The main thread. *)

OpenWindows ==
  /\ ~opened /\ opened' = TRUE
  /\ UNCHANGED <<ports, scanning, lists, inbox, calls, told, windows, lit, greeted, fault, counters>>

(* Mutant: only the newest controller is lit. *)
LedTargetsNewest == IF connected = <<>> THEN {} ELSE {Last(connected)}

LedTargets == ToSet(connected)

(* A controller without an OUT port has no LED; an OUT port that is not open is a null pointer. *)
LightUp(cs) ==
  LET outs == {controllers[c].out : c \in cs} \ {Single}
  IN  lit' = lit \cup (outs \ {0}) /\ fault' = (0 \in outs)

(* djControllerConnected(): the LEDs of all controllers are set. *)
SetLeds ==
  /\ told > 0 /\ told' = told - 1
  /\ LightUp(LedTargets)
  /\ greeted' = TRUE
  /\ UNCHANGED <<ports, scanning, lists, inbox, calls, opened, windows, counters>>

Clamped(row) == IF row > Rows - 1 THEN Rows - 1 ELSE IF row < 0 THEN 0 ELSE row

(* A slider's value, of 0..127, as one of 0..100. *)
Percent(value) == (100 * value) \div 127

(* The conversion to int is of the difference here, and rounds it towards zero. *)
PercentFromMiddle(value) ==
  IF 100 * value >= 50 * 127 THEN Percent(value) - 50 ELSE -((50 * 127 - 100 * value) \div 127)

(* The handlers of PlayerWindow: a wheel turned down goes up the list. *)
HandledByPlayer(w, input) ==
  CASE input.name = "play"   -> [w EXCEPT !.started = @ + 1]
    [] input.name = "pitch"  -> [w EXCEPT !.tempo = Percent(input.value) - 50]
    [] input.name = "volume" -> [w EXCEPT !.volume = Percent(input.value)]
    [] input.name = "browse" -> [w EXCEPT !.row = Clamped(@ - input.value)]
    [] OTHER                 -> w

(* The handlers of ClassroomWindow: the list is the one of filters for "browse", of songs for "jog". *)
HandledByClassroom(w, input) ==
  CASE input.name \in {"play", "enter"} -> [w EXCEPT !.started = @ + 1]
    [] input.name = "pitch"             -> [w EXCEPT !.tempo = PercentFromMiddle(input.value)]
    [] input.name = "volume"            -> [w EXCEPT !.volume = Percent(input.value)]
    [] input.name \in {"browse", "jog"} -> [w EXCEPT !.row = Clamped(@ + input.value)]
    [] OTHER                            -> w

HandleCall ==
  /\ calls # <<>> /\ calls' = Tail(calls)
  /\ LET call == Head(calls)
     IN  windows' = [windows EXCEPT ![call.window] =
                      IF call.window = "PlayerWindow" THEN HandledByPlayer(@, call.input)
                                                      ELSE HandledByClassroom(@, call.input)]
  /\ UNCHANGED <<ports, scanning, lists, inbox, told, opened, lit, greeted, fault, counters>>

-----------------------------------------------------------------------------
Devices ==
  \/ \E kind \in {"single", "dual"} : PlugIn(kind)
  \/ \E device \in plugged : Unplug(device) \/ Answer(device)
  \/ \E device \in plugged, input \in Inputs : Input(device, input)
  \/ \E c \in DOMAIN controllers : Report(c)
Scan == StartScan \/ Ask \/ Acquire \/ Timeout \/ FinishScan
Main == OpenWindows \/ SetLeds \/ HandleCall

Next == ~fault /\ (Devices \/ Scan \/ HandleUnplugged \/ Dispatch \/ Main)

Spec == Init /\ [][Next]_vars

-----------------------------------------------------------------------------
(* When the counts agree with those of the last scan, every device has a   *)
(* controller, unless one came and one left since that scan began, or an   *)
(* answer was late: the scan is restarted for what comes in the middle of  *)
(* it, as it counts one kind of ports at its begin and one at its end.     *)
ControllersFound ==
  scan.phase = "idle" /\ lastIn = NumIn /\ lastOut = NumOut /\ since # {"came", "left"} /\ late = 0
    => plugged \subseteq {controllers[c].in : c \in ToSet(detected)}

(* Where a port can be opened only once, no key is handled more than once  *)
(* unless an answer was late: however often the ports are scanned, a       *)
(* device does not become two controllers.                                 *)
KeysHandledOnce ==
  exclusive /\ late = 0 => windows["PlayerWindow"].started + windows["ClassroomWindow"].started <= events

(* If every answer comes while it is waited for, the two ports of a        *)
(* controller are of one device.                                           *)
PairsMatch ==
  late = 0 => \A c \in DOMAIN controllers : IsDual(c) => controllers[c].out = controllers[c].in

(* Once the player window has been told of a controller, and of all that   *)
(* came later, every controller is lit: also those of which it was not     *)
(* told because it did not exist yet.                                      *)
LedsLit ==
  greeted /\ told = 0 /\ late = 0 =>
    \A c \in ToSet(connected) : IsDual(c) => controllers[c].in \in lit
=============================================================================
