------------------------------ MODULE VideoZoom ------------------------------
(***************************************************************************)
(* The view of a camera on its way from the operator to the camera: a      *)
(* control message sets it at the video server (VideoServer::set_zoom),    *)
(* the server repeats it to the client in unreliable updates, and the      *)
(* client applies the update it holds when it scales its next frame.       *)
(*                                                                         *)
(* Updates are lost and reordered, and the client keeps only the one that  *)
(* arrived last.  The model follows one camera; whether it is the live one *)
(* is the flag live.  Lengths are in units of which FullWidth and          *)
(* FullHeight make the raster of 1280 x 720.                               *)
(***************************************************************************)
EXTENDS Integers, FiniteSets, FiniteSetsExt

CONSTANTS
    FullWidth, FullHeight,
    Settings,   \* values a control message may carry for a field
    CropSides   \* subset of {"left", "right", "top", "bottom"}

ASSUME ZoomConstants ==
    /\ {FullWidth, FullHeight} \subseteq Nat \ {0}
    /\ Settings \subseteq Nat
    /\ CropSides \subseteq {"left", "right", "top", "bottom"}

VARIABLES
    live,      \* the camera is the live one (camera_feed_live_no_)
    linked,    \* client and server have a session with each other
    zoom,      \* VSClient::zoom_
    updates,   \* views in packets on their way to the client
    control,   \* NetworkSession::control: a set of at most one view
    applied    \* the view the cropper and the scaler are set up for

zoom_vars == <<live, linked, zoom, updates, control, applied>>

FullView ==
    [x |-> 0, y |-> 0, width |-> FullWidth, height |-> FullHeight,
     crop |-> [side \in CropSides |-> 0]]

(* The views a camera may have: no control message narrows the window.     *)
Views ==
    {[FullView EXCEPT !.crop = c] : c \in [CropSides -> Settings \cup {0}]}

valid(c) ==
    /\ c.x < FullWidth /\ c.y < FullHeight
    /\ c.x + c.width <= FullWidth /\ c.y + c.height <= FullHeight
    /\ c.width > 0 /\ c.height > 0

ZoomInit ==
    /\ live = FALSE /\ linked = FALSE
    /\ zoom = FullView /\ updates = {}
    /\ control = {} /\ applied = FullView

------------------------------------------------------------------------------
(* set_zoom: what each field of a control message makes of the view.       *)

X_WithX(x) == [zoom EXCEPT !.x = Min({x, FullWidth})]

WithX(x) ==
    LET c == [zoom EXCEPT !.x = Min({x, FullWidth})]
    IN  IF valid(c) THEN c ELSE [c EXCEPT !.x = FullWidth - c.width]

WithY(y) ==
    LET c == [zoom EXCEPT !.y = Min({y, FullHeight})]
    IN  IF valid(c) THEN c ELSE [c EXCEPT !.y = FullHeight - c.height]

(* The new window keeps the middle of the old one where it can.            *)
WithWidth(width) ==
    LET w == Max({FullWidth, Min({width, FullWidth})})
        h == (FullHeight * w) \div FullWidth
        mid_x == zoom.x + zoom.width \div 2
        mid_y == zoom.y + zoom.height \div 2
        c == [zoom EXCEPT !.width = w, !.height = h,
                          !.x = Max({0, mid_x - w \div 2}),
                          !.y = Max({0, mid_y - h \div 2})]
    IN  IF valid(c) THEN c
        ELSE [c EXCEPT !.x = FullWidth - w, !.y = FullHeight - h]

WithCrop(side, v) ==
    [zoom EXCEPT !.crop[side] =
        Min({v, IF side \in {"left", "right"} THEN FullWidth ELSE FullHeight})]

(* A view that is still not valid is replaced by the full one.             *)
Corrected(c) == IF valid(c) THEN c ELSE FullView

(* parse_message of the camera server: a command of the control page is a  *)
(* message that sets one field and leaves the others at NEG1, -1 in the    *)
(* code's unsigned fields.  A zoom is given as a factor.                   *)
NEG1 == FullWidth + FullHeight + 1
Commands == {"x", "y", "zoom"} \cup CropSides

parse_message(command, value) ==
    LET field == IF command = "zoom" THEN "width" ELSE command IN
    [f \in {"x", "y", "width"} \cup CropSides |->
        IF f # field THEN NEG1
        ELSE IF command = "zoom" THEN FullWidth \div value ELSE value]

(* The first field that is set is the one that counts.                     *)
set_zoom(message) ==
    /\ live /\ linked
    /\ LET sets(f) == message[f] # NEG1 IN
       zoom' = Corrected(CASE sets("x") -> WithX(message.x)
                           [] ~sets("x") /\ sets("y") -> WithY(message.y)
                           [] ~sets("x") /\ ~sets("y") /\ sets("width") -> WithWidth(message.width)
                           [] OTHER -> LET side == CHOOSE s \in CropSides : sets(s)
                                       IN  WithCrop(side, message[side]))
    /\ UNCHANGED <<live, linked, updates, control, applied>>

set_live ==
    /\ live' \in BOOLEAN
    /\ UNCHANGED <<linked, zoom, updates, control, applied>>

------------------------------------------------------------------------------
X_send_packet ==
    /\ linked /\ zoom # FullView
    /\ updates' = updates \cup {zoom}
    /\ UNCHANGED <<live, linked, zoom, control, applied>>

(* "send acks": every 25 ms the packet has the view of the moment with it; *)
(* a packet of acks alone leaves room for it (connection.cc:44).           *)
send_packet ==
    /\ linked
    /\ updates' = updates \cup {zoom}
    /\ UNCHANGED <<live, linked, zoom, control, applied>>

LoseUpdate(v) ==
    /\ v \in updates
    /\ updates' = updates \ {v}
    /\ UNCHANGED <<live, linked, zoom, control, applied>>

(* The client keeps whichever update arrives last.  A packet the network   *)
(* repeats is here one more packet with the same view.                     *)
network_receive(v) ==
    /\ v \in updates
    /\ updates' = updates \ {v}
    /\ control' = {v}
    /\ UNCHANGED <<live, linked, zoom, applied>>

(* The next frame is cropped and scaled for the view, as far as the scaler *)
(* accepts it (Scaler::saturate_params).                                   *)
saturate_params(v) ==
    IF \/ v.x + v.width > FullWidth \/ v.y + v.height > FullHeight
       \/ v.width = 0 \/ v.height = 0
    THEN [FullView EXCEPT !.crop = v.crop]
    ELSE v

ScaleWithControl ==
    /\ control # {}
    /\ applied' \in {saturate_params(v) : v \in control}
    /\ control' = {}
    /\ UNCHANGED <<live, linked, zoom, updates>>

(* A session ends at both ends; the next one starts with the full view.    *)
Relink ==
    /\ linked' = ~linked
    /\ zoom' = FullView /\ updates' = {} /\ control' = {}
    /\ UNCHANGED <<live, applied>>

ZoomNext ==
    \/ \E command \in Commands, v \in Settings :
          (command = "zoom" => v > 0) /\ set_zoom(parse_message(command, v))
    \/ set_live
    \/ send_packet
    \/ \E v \in updates : LoseUpdate(v) \/ network_receive(v)
    \/ ScaleWithControl
    \/ Relink

(* The server repeats the view, some packets arrive, none is on its way    *)
(* for ever, and the camera delivers frames.                               *)
ZoomFairness ==
    /\ SF_zoom_vars(send_packet)
    /\ SF_zoom_vars(network_receive(zoom))
    /\ \A u \in Views : WF_zoom_vars(LoseUpdate(u) \/ network_receive(u))
    /\ SF_zoom_vars(ScaleWithControl)

------------------------------------------------------------------------------
(* Once the view is left alone and the ends have sessions again and again, *)
(* the client's frames are cut to it for good: updates that were lost are  *)
(* repeated, and an old one that overtook a new one is overwritten.        *)
ZoomArrives ==
    (<>[][zoom' = zoom]_zoom_vars /\ []<>linked) => <>[](applied = zoom)

(* Moving or widening the window never touches the crops, and setting a    *)
(* crop never touches the window or another crop: set_zoom corrects its    *)
(* own field, so that the correction at its end (videoserver.cc:269),      *)
(* which resets everything, is not needed.                                 *)
CropsSurvive ==
    [][linked' = linked =>
         Cardinality({f \in {"window"} \cup CropSides :
             IF f = "window"
             THEN [zoom' EXCEPT !.crop = zoom.crop] # zoom
             ELSE zoom'.crop[f] # zoom.crop[f]}) <= 1]_zoom_vars
=============================================================================
