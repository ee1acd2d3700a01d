--------------------------- MODULE TabletReports ---------------------------
(***************************************************************************)
(* What the driver of src/tablet_touch_driver makes of a tablet: the       *)
(* parsing of its HID report descriptor (hid_parse.c), the capabilities of *)
(* its input device (wacom.c), and the evaluation of its reports           *)
(* (touch_handler.c, pen_handler.c), one at a time, as TabletDriver shows. *)
(*                                                                         *)
(* The variables mt_info and lmb .. fmb of the touch handler are static:   *)
(* they outlive the device and its input device.  The input core drops the *)
(* events of keys and axes a device has not announced and forgets the keys *)
(* of a device that goes away.                                             *)
(*                                                                         *)
(* A definition named Faulty_X is X with a plausible bug; no specification *)
(* uses it, it serves to show that the properties notice the bug.          *)
(***************************************************************************)
EXTENDS Integers, Sequences

\* The places <<x, y>> of the touch pad and the combinations of buttons that a
\* report can name.
CONSTANTS Places, Buttons

ASSUME ReportsAssumption == Places \subseteq Nat \X Nat /\ Buttons \subseteq Nat

Lifted == <<-1, -1>>
Points == Places \union {Lifted}
MouseKeys == {"left", "right", "middle", "back", "forward"}
PenKeys   == {"touch", "stylus", "stylus2"}

VARIABLES
    stage,            \* "out", "parsing" or "bound"
    hid,              \* page, finger and pen of parse_hid
    features,         \* device_type and pktlen
    mt_info, held,    \* the statics: places of the fingers; the buttons that are 1
    keys,             \* the keys the input core takes for pressed
    reporting_data,
    stroke            \* of a finger that has been alone in the first slot since it
                      \* landed: where, and the sum of the moves reported since

statics     == <<mt_info, held>>
reportsVars == <<stage, hid, features, statics, keys, reporting_data, stroke>>

\* The first slot was empty in the last report / nothing is known of its finger.
AllUp     == <<Lifted>>
NoStroke  == <<>>
Default   == [device_type |-> "pen", pktlen |-> 9]
HidStart  == [page |-> "none", finger |-> FALSE, pen |-> FALSE]

ReportsInit ==
    /\ stage = "out" /\ hid = HidStart
    /\ features = Default
    /\ mt_info = <<Lifted, Lifted>> /\ held = {}
    /\ keys = {} /\ reporting_data = FALSE /\ stroke = NoStroke

-----------------------------------------------------------------------------
\* tablet_probe starts from wacom_features_0xD1 and has the descriptor parsed.
Plug ==
    /\ stage = "out" /\ stage' = "parsing"
    /\ UNCHANGED <<hid, features, statics, keys, reporting_data, stroke>>

\* HID_USAGE_PAGE and HID_COLLECTION_END; the latter leaves pen alone.
HidPage(p) ==
    /\ stage = "parsing" /\ hid' = [hid EXCEPT !.page = p]
    /\ UNCHANGED <<stage, features, statics, keys, reporting_data, stroke>>

HidCollectionEnd ==
    /\ stage = "parsing" /\ hid' = [hid EXCEPT !.page = "none", !.finger = FALSE]
    /\ UNCHANGED <<stage, features, statics, keys, reporting_data, stroke>>

\* HID_USAGE: an item of four bytes names its page itself.  The maxima of the
\* coordinates, which HID_USAGE_X and HID_USAGE_Y set as well, are left out.
PageOf(u) == IF u = "x" THEN "desktop" ELSE "digitizer"

HidUsage(u, long) ==
    /\ stage = "parsing" /\ (long \/ hid.page = PageOf(u))
    /\ hid' = [hid EXCEPT !.finger = @ \/ u = "finger", !.pen = @ \/ u = "stylus"]
    /\ features' =
          CASE u = "x" /\ hid.finger -> [device_type |-> "finger", pktlen |-> 20]
            [] u = "x" /\ ~hid.finger /\ hid.pen -> [features EXCEPT !.device_type = "pen"]
            [] OTHER -> features
    /\ UNCHANGED <<stage, statics, keys, reporting_data, stroke>>

\* The end of the descriptor, or a device that does not deliver it; then
\* setup_input_dev.
ProbeEnds ==
    /\ stage = "parsing" /\ stage' = "bound"
    /\ hid' = HidStart
    /\ UNCHANGED <<features, statics, keys, reporting_data, stroke>>

\* setup_input_dev_capabilities; BTN_MOUSE is BTN_LEFT.
Capabilities ==
    IF features.device_type = "pen" THEN PenKeys \union {"left"}
                                    ELSE MouseKeys \union {"touch"}

\* tablet_disconnect, or a probe that fails: the tablet and its input device go.
Unplug ==
    /\ stage # "out" /\ stage' = "out"
    /\ hid' = HidStart /\ features' = Default
    /\ keys' = {} /\ reporting_data' = FALSE /\ stroke' = NoStroke
    /\ UNCHANGED statics

\* The last reader closes the input device and another opens it: what the
\* fingers do meanwhile is not reported.
Reopen ==
    /\ stage = "bound" /\ stroke' = NoStroke
    /\ UNCHANGED <<stage, hid, features, statics, keys, reporting_data>>

-----------------------------------------------------------------------------
\* button_handler: each button is reported when it is new, and all are released
\* by a report without any.  Other combinations are ignored.
ButtonOf(b) ==
    CASE b = 1 -> {"left"} [] b = 2 -> {"right"} [] b = 3 -> {"middle"}
      [] b = 4 -> {"forward"} [] b = 8 -> {"back"} [] OTHER -> {}

\* The button that is reported and the one that is remembered are different.
Faulty_button_handler(b, before) ==
    LET new == ButtonOf(b) \ held
    IN  /\ held' = IF b = 0 THEN {} ELSE IF b = 4 THEN held \union {"back"}
                                                  ELSE held \union new
        /\ keys' = Capabilities \intersect
                       (IF b = 0 THEN before \ held ELSE before \union new)

button_handler(b, before) ==
    LET new == ButtonOf(b) \ held
    IN  /\ held' = IF b = 0 THEN {} ELSE held \union new
        /\ keys' = Capabilities \intersect
                       (IF b = 0 THEN before \ held ELSE before \union new)

\* mt_info_rel_x and mt_info_rel_y: -1, too, when there is nothing to compare.
Rel(prev, cur) == IF prev = -1 \/ cur = -1 THEN -1 ELSE cur - prev

Move(cur) == <<Rel(mt_info[1][1], cur[1]), Rel(mt_info[1][2], cur[2])>>

\* The wheel click of one_finger_handler.
Pressed(fingers, hard) ==
    IF fingers # 1 THEN keys ELSE IF hard THEN keys \union {"middle"} ELSE keys \ {"middle"}

Plus(p, q) == <<p[1] + q[1], p[2] + q[2]>>

\* The stroke after another move, or the new one of a finger that has landed.
Extend(move, place) ==
    IF stroke = AllUp THEN <<place, move>> ELSE <<stroke[1], Plus(stroke[2], move)>>

\* What irq_touch leaves in mt_info: both handlers assign the places of the report,
\* and mt_info_init resets them when no finger is left.
Faulty_NewPlaces(f) == IF f = <<Lifted, Lifted>> THEN mt_info ELSE f
NewPlaces(f) == f

\* irq_touch for a report with buttons b and places f; what two fingers do to the
\* wheels is left out.
irq_touch(b, hard, f) ==
    LET fingers == Len(SelectSeq(f, LAMBDA p : p # Lifted))
    IN  /\ stage = "bound" /\ features.pktlen = 20
        /\ mt_info' = NewPlaces(f)
        /\ button_handler(b, Pressed(fingers, hard))
        /\ stroke' = CASE f[1] = Lifted -> AllUp
                       [] f[1] # Lifted /\ (fingers = 2 \/ stroke = NoStroke) -> NoStroke
                       [] OTHER -> Extend(Move(f[1]), f[1])
        /\ UNCHANGED <<stage, hid, features, reporting_data>>

-----------------------------------------------------------------------------
\* The pen reports a tip or a button when it is ready, a place when it is near, and
\* is near only within range.
PenStates ==
    {s \in [range : BOOLEAN, proximity : BOOLEAN, ready : BOOLEAN, down : SUBSET PenKeys] :
        /\ s.ready => s.proximity
        /\ s.proximity => s.range}

\* The pen is near, or was when a report came last.
Reporting(s) == reporting_data \/ s.proximity

\* irq_pen; place, pressure, distance and the number of the tool are left out.
irq_pen(s) ==
    /\ stage = "bound"
    /\ LET down == IF s.ready THEN s.down ELSE {}
       IN  keys' = IF Reporting(s) THEN (keys \ PenKeys) \union (down \intersect Capabilities)
                                   ELSE keys
    /\ reporting_data' = (s.range /\ Reporting(s))
    /\ UNCHANGED <<stage, hid, features, statics, stroke>>

-----------------------------------------------------------------------------
HidStep ==
    \/ \E p \in {"desktop", "digitizer", "other"} : HidPage(p)
    \/ \E u \in {"x", "finger", "stylus"}, long \in BOOLEAN : HidUsage(u, long)
    \/ HidCollectionEnd

ReportStep ==
    \/ \E b \in Buttons, hard \in BOOLEAN, f \in Points \X Points : irq_touch(b, hard, f)
    \/ \E s \in PenStates : irq_pen(s)

ReportsNext == Plug \/ HidStep \/ ProbeEnds \/ Unplug \/ Reopen \/ ReportStep

ReportsSpec == ReportsInit /\ [][ReportsNext]_reportsVars

-----------------------------------------------------------------------------
\* No key is left pressed.  A mouse button that a reader sees pressed is one that
\* button_handler will release: its static is set, whichever reports, openings and
\* replacements of the device there have been since.  The middle button is excepted,
\* which hard pressure presses as well and a lighter touch releases.  A pen that has
\* left leaves neither its tip nor its buttons pressed behind.
NoKeyLeftPressed ==
    /\ keys \intersect (MouseKeys \ {"middle"}) \subseteq held
    /\ ~reporting_data => keys \intersect PenKeys = {}

\* While a finger is alone on the pad the moves that are reported add up to its way
\* since it landed, less one on each axis: the -1 that stands for no former place is
\* reported as a move.  No move leads from where another touch has ended.
MovesAddUp ==
    Len(stroke) = 2 => Plus(stroke[1], stroke[2]) = Plus(mt_info[1], <<-1, -1>>)

\* The type of the state.
ReportsTypeOK ==
    /\ stage \in {"out", "parsing", "bound"}
    /\ hid \in [page : {"none", "desktop", "digitizer", "other"},
                finger : BOOLEAN, pen : BOOLEAN]
    /\ features \in [device_type : {"pen", "finger"}, pktlen : {9, 20}]
    /\ mt_info \in Points \X Points /\ held \subseteq MouseKeys
    /\ keys \subseteq MouseKeys \union PenKeys /\ reporting_data \in BOOLEAN
    /\ stroke \in {NoStroke, AllUp} \union (Places \X (Int \X Int))
=============================================================================
