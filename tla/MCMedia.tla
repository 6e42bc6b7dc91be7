------------------------------- MODULE MCMedia -------------------------------
(***************************************************************************)
(* The video path and the sound device for TLC.  These parts share no      *)
(* state in the models, so each behaviour runs one of them, the one that   *)
(* part names, and leaves the others as they were in the beginning.        *)
(***************************************************************************)
EXTENDS VideoSource, VideoFeed, VideoZoom, CameraRing, Devices

VARIABLE part
vars == <<part, source_vars, feed_vars, zoom_vars, ring_vars, device_vars>>

Init ==
    /\ part \in {"source", "feed", "zoom", "camera", "devices"}
    /\ SourceInit /\ FeedInit /\ ZoomInit /\ RingInit /\ DevicesInit

Next ==
    /\ UNCHANGED part
    /\ IF part = "source" THEN SourceNext ELSE UNCHANGED source_vars
    /\ IF part = "feed" THEN FeedNext ELSE UNCHANGED feed_vars
    /\ IF part = "zoom" THEN ZoomNext ELSE UNCHANGED zoom_vars
    /\ IF part = "camera" THEN RingNext ELSE UNCHANGED ring_vars
    /\ IF part = "devices" THEN DevicesNext ELSE UNCHANGED device_vars

Fairness ==
    \/ part = "feed" /\ FeedFairness
    \/ part = "zoom" /\ ZoomFairness
    \/ part = "devices" /\ DevicesFairness
    \/ part \in {"source", "camera"}

Spec == Init /\ [][Next]_vars /\ Fairness
=============================================================================
