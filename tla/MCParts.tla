------------------------------- MODULE MCParts -------------------------------
(***************************************************************************)
(* The parts of the servers that share no state in the models, for TLC:    *)
(* each behaviour runs one of them, the one that part names, and leaves    *)
(* the others as they were in the beginning.                               *)
(***************************************************************************)
EXTENDS MCMixServer, EventLoop, HttpStream, WebSocket, Viewer, Control, Rings

VARIABLE part
part_vars == <<part, mix_vars, loop_vars, http_vars, ws_vars, viewer_vars, control_vars, rings_vars>>

PartsInit ==
    /\ part \in {"mix", "loop", "http", "ws", "viewer", "control", "rings"}
    /\ Init /\ LoopInit /\ HttpInit /\ WsInit /\ ViewerInit /\ ControlInit /\ RingsInit

PartsNext ==
    /\ UNCHANGED part
    /\ IF part = "mix" THEN Next ELSE UNCHANGED mix_vars
    /\ IF part = "loop" THEN LoopNext ELSE UNCHANGED loop_vars
    /\ IF part = "http" THEN HttpNext ELSE UNCHANGED http_vars
    /\ IF part = "ws" THEN WsNext ELSE UNCHANGED ws_vars
    /\ IF part = "viewer" THEN ViewerNext ELSE UNCHANGED viewer_vars
    /\ IF part = "control" THEN ControlNext ELSE UNCHANGED control_vars
    /\ IF part = "rings" THEN RingsNext ELSE UNCHANGED rings_vars

PartsSpec == PartsInit /\ [][PartsNext]_part_vars
=============================================================================
