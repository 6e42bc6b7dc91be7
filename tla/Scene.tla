-------------------------------- MODULE Scene ---------------------------------
(***************************************************************************)
(* The scene of the video server (video/compositor.cc) and how its control *)
(* messages edit it (video/video_control.cc).  Layers are drawn from the   *)
(* first to the last.                                                      *)
(***************************************************************************)
EXTENDS Integers, Sequences, FiniteSetsExt

CONSTANTS
    MaxWidth,   \* 1280
    MaxLayers,  \* bound on the layers of a scene
    MaxEdits    \* bound on the edits of a scene in a behaviour

ASSUME SceneConstants == {MaxWidth, MaxLayers, MaxEdits} \subseteq Nat

VARIABLES
    layers,      \* Scene: layers
    inserted,    \* the layers that were not removed, as inserted: a history variable
    edits        \* how often the scene was edited

scene_vars == <<layers, inserted, edits>>

SceneInit == layers = <<>> /\ inserted = <<>> /\ edits = 0

All == <<2>>  \* the name that stands for every layer

(* The elements of a sequence at some of its places, in their order.       *)
Picked(s, places) ==
    LET upto[i \in 0 .. Len(s)] ==
            IF i = 0 THEN <<>>
            ELSE IF i \in places THEN Append(upto[i - 1], s[i]) ELSE upto[i - 1]
    IN  upto[Len(s)]

(* The sequence with an element before its place `at`, or behind its last. *)
Inserted(s, at, e) ==
    [i \in 1 .. Len(s) + 1 |-> IF i < at THEN s[i] ELSE IF i = at THEN e ELSE s[i - 1]]

X_insert(scene, layer) ==
    Inserted(scene, Min({i \in DOMAIN scene : layer.z >= scene[i].z} \cup {Len(scene) + 1}), layer)

insert(scene, layer) ==
    Inserted(scene, Min({i \in DOMAIN scene : layer.z > scene[i].z} \cup {Len(scene) + 1}), layer)

remove(scene, name) ==
    IF name = All THEN <<>> ELSE Picked(scene, {i \in DOMAIN scene : scene[i].name # name})

(* make_layer, numbered to tell layers apart.                              *)
make_layer(m, no) ==
    [type |-> IF m.is_media # 0 THEN "Media" ELSE "Camera", name |-> m.name, x |-> m.x,
     y |-> m.y, width |-> IF m.width < MaxWidth THEN m.width ELSE MaxWidth, z |-> m.z, no |-> no]

AllInserted(scene, new) ==
    LET upto[i \in 0 .. Len(new)] ==
            IF i = 0 THEN scene ELSE insert(upto[i - 1], new[i])
    IN  upto[Len(new)]

AllRemoved(scene, removals) ==
    LET upto[i \in 0 .. Len(removals)] ==
            IF i = 0 THEN scene ELSE remove(upto[i - 1], removals[i].name)
    IN  upto[Len(removals)]

(* insert_preview_layer: a media layer is left out when its file cannot be *)
(* opened, which happens at the places in failures.                        *)
NewLayers(insertions, failures) ==
    LET made == [i \in 1 .. Len(insertions) |-> make_layer(insertions[i], MaxLayers * edits + i)]
    IN  Picked(made, {i \in DOMAIN made : ~(made[i].type = "Media" /\ i \in failures)})

(* The rules of VideoServerController for the scene, and their effect on   *)
(* the history.                                                            *)
Edited(removals, insertions, failures) ==
    /\ edits < MaxEdits /\ Len(layers) + Len(insertions) <= MaxLayers
    /\ edits' = edits + 1
    /\ layers' = AllInserted(AllRemoved(layers, removals), NewLayers(insertions, failures))
    /\ inserted' = AllRemoved(inserted, removals) \o NewLayers(insertions, failures)

(* The scene by itself, edited by any messages (control_messages.hh).      *)
Texts == Seq(Nat)
LayerMessages == [is_media : Nat, name : Texts, filename : Texts, x : Int, y : Int,
                  width : Nat, z : Nat]
RemovalMessages == [name : Texts]

SceneNext ==
    \E removals \in Seq(RemovalMessages), insertions \in Seq(LayerMessages),
       failures \in SUBSET Nat :
        Edited(removals, insertions, failures)

SceneSpec == SceneInit /\ [][SceneNext]_scene_vars

(* The scene is drawn from its first layer to its last: it holds the       *)
(* layers that were inserted and not removed since, a larger z before a    *)
(* smaller, and layers of one z in the order of their insertion.           *)
SceneInOrder ==
    /\ {layers[i] : i \in DOMAIN layers} = {inserted[i] : i \in DOMAIN inserted}
    /\ Len(layers) = Len(inserted)
    /\ \A i, j \in DOMAIN layers : i < j =>
          \/ layers[i].z > layers[j].z
          \/ layers[i].z = layers[j].z /\ layers[i].no < layers[j].no
=============================================================================
