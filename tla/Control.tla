------------------------------ MODULE Control -------------------------------
(***************************************************************************)
(* Control messages and what hears them: the rules of ClientController     *)
(* (control/controller.cc), ServerController (server/server_control.cc)    *)
(* and VideoServerController (video/video_control.cc), each behind its own *)
(* socket, the last of which edits the scene (Scene).                      *)
(*                                                                         *)
(* The other formats are written and read here too, without effect, and so *)
(* are sealed messages and keys as text.  Messages are taken from a few    *)
(* samples that differ from field to field; a datagram holds one of them,  *)
(* or the beginning of one.                                                *)
(***************************************************************************)
EXTENDS Sealing, Scene

CONSTANTS
    Seeds       \* which samples of each format

ASSUME ControlConstants == Seeds \subseteq 0 .. 255

FormatOf(name) ==
    CASE name = "set_cursor_lag" -> set_cursor_lag
      [] name = "set_gain" -> set_gain
      [] name = "set_live" -> set_live_message
      [] name = "client_report" -> client_report
      [] name = "video_control" -> video_control
      [] name = "insert_layer" -> insert_layer
      [] name = "remove_layer" -> remove_layer
      [] name = "atomic_scene_update" -> atomic_scene_update
      [] name = "Packet of audio" -> Packet(AudioFrame)
      [] name = "Packet of video" -> Packet(VideoChunk)
      [] name = "KeyMessage" -> KeyMessage
      [] name \in {"LongLivedKey", "printed key"} -> LongLivedKey
      [] name = "sealed Packet" -> Packet(AudioFrame)
      [] name = "sealed KeyMessage" -> KeyMessage

AudioControls == {"set_cursor_lag", "set_gain"}
SceneControls == {"insert_layer", "remove_layer", "atomic_scene_update"}
VideoControls == {"set_live", "video_control"} \cup SceneControls
SealedFormats == {"sealed Packet", "sealed KeyMessage"}
OtherFormats == {"client_report", "Packet of audio", "Packet of video", "KeyMessage",
                 "LongLivedKey", "printed key"} \cup SealedFormats

(* A value of a type, one of several: they differ in neighbouring fields,  *)
(* and have the smallest and largest numbers and lengths among them.       *)
FlatSample(type, k) ==
    CASE type.kind = "integer" -> <<1, Values(type.size) - 1, Half(type.size)>>[(k % 3) + 1]
      [] type.kind = "signed" -> <<-1, Half(type.size) - 1, -Half(type.size)>>[(k % 3) + 1]
      [] type.kind = "bytes" -> [i \in 1 .. type.size |-> (i + k) % Byte]
      [] type.kind = "buffer" -> [i \in 1 .. k % (type.capacity + 1) |-> (i + k) % Byte]

SampleBy(S(_, _), type, k) ==
    CASE type.kind = "array" ->
            [i \in 1 .. k % (type.capacity + 1) |-> S(type.type, k + i)]
      [] type.kind = "struct" ->
            LET place(name) == CHOOSE i \in DOMAIN type.fields : type.fields[i][1] = name IN
            [name \in ToSet(type.reads) |-> S(TypeOf(type, name), k + place(name))]
      [] type.kind = "flagged" ->
            [flag |-> k % 2 = 1, index |-> <<0, Half(4) - 1>>[(k % 2) + 1],
             plain |-> S(type.plain, k), more |-> IF k % 2 = 1 THEN S(type.more, k) ELSE <<>>]
      [] OTHER -> FlatSample(type, k)

Sample1(type, k) == SampleBy(FlatSample, type, k)
Sample2(type, k) == SampleBy(Sample1, type, k)
Sample3(type, k) == SampleBy(Sample2, type, k)
Sample(type, k) == SampleBy(Sample3, type, k)

VARIABLES
    datagram,    \* what was sent last: its format, the sample, how many bytes of it
    aborted      \* a Parser was destroyed with its error set

control_vars == <<datagram, aborted, scene_vars>>

None == [format |-> "none", seed |-> 0, cut |-> 0]

ControlInit ==
    /\ datagram = None /\ aborted = FALSE
    /\ SceneInit

(* Keys differ in every byte.  Packets are sealed by sessions that have    *)
(* been moved into place, and messages with keys also by others; the label *)
(* of the sender goes with them, and the peer has the keys the other way   *)
(* around.                                                                 *)
KeyOf(seed) == [i \in 1 .. KeyLength |-> (37 * i + 101 * seed) % 256]
Label == <<1>>
SessionOf(d) ==
    LET made == CryptoSession(KeyOf(d.seed), KeyOf(d.seed + 1), d.format = "sealed KeyMessage",
                              <<Values(NonceLength) - 1, d.seed>>) IN
    IF d.format = "sealed Packet" THEN Moved(made) ELSE made
PeerOf(d) == CryptoSession(KeyOf(d.seed + 1), KeyOf(d.seed), FALSE, <<0, 0>>)

MessageOf(d) ==
    IF d.format = "printed key" THEN KeyOf(d.seed) ELSE Sample(FormatOf(d.format), d.seed)

Sealed(d, bytes) ==
    IF d.format \in SealedFormats THEN encrypt(SessionOf(d), Label, bytes).ciphertext
    ELSE bytes

BytesOf(d) ==
    IF d.format = "printed key" THEN printable_key(KeyOf(d.seed))
    ELSE Sealed(d, Written(FormatOf(d.format), MessageOf(d)))

(* What a reader makes of the bytes of a datagram; a session is that of    *)
(* the reader of sealed ones.                                              *)
ReadBy(format, p) == IF p.error THEN p ELSE Parsed(FormatOf(format), p.input)

Reading(d, bytes, session) ==
    IF d.format = "printed key" THEN Base64Key(bytes)
    ELSE ReadBy(d.format, IF d.format \in SealedFormats THEN decrypt(session, bytes, Label)
                          ELSE Result(bytes, <<>>))

Received(d) == Reading(d, SubSeq(BytesOf(d), 1, d.cut), PeerOf(d))

(* A message is sent, whole or cut; a negative cut loses its id as well.   *)
(* What is not about the scene is sent before its first edit, which bounds *)
(* the states.                                                             *)
Say(format, seed) ==
    /\ datagram = None /\ ~aborted
    /\ LET whole == Len(BytesOf([format |-> format, seed |-> seed])) IN
       \E cut \in IF edits = 0 THEN -1 .. whole ELSE {whole} :
          datagram' = [format |-> format, seed |-> seed, cut |-> cut]
    /\ format \in SceneControls \/ edits = 0
    /\ UNCHANGED <<aborted, scene_vars>>

------------------------------------------------------------------------------
(* The rules.  The audio programs' leave an error set when they return,    *)
(* with which the Parser's destructor aborts; the video server's clears it *)
(* except for an empty datagram, in which even the id is missing.          *)
Malformed(got) ==
    /\ datagram.cut < 0 \/ got.error
    /\ aborted' = (datagram.cut < 0 \/ datagram.format \in AudioControls)
    /\ UNCHANGED scene_vars

Heard(got, formats) ==
    /\ datagram.format \in formats
    /\ datagram.cut >= 0 /\ ~got.error
    /\ UNCHANGED aborted

Calls(got) ==
    /\ Heard(got, (AudioControls \cup VideoControls) \ SceneControls)
    /\ UNCHANGED scene_vars

Changes(format, m) ==
    CASE format = "insert_layer" -> [removals |-> <<>>, insertions |-> <<m>>]
      [] format = "remove_layer" -> [removals |-> <<m>>, insertions |-> <<>>]
      [] format = "atomic_scene_update" -> m

EditsScene(got) ==
    /\ Heard(got, SceneControls)
    /\ \E m \in {Changes(datagram.format, got.value)} :
       \E failures \in SUBSET (DOMAIN m.insertions) :
          Edited(m.removals, m.insertions, failures)

Hear ==
    /\ datagram.format \in AudioControls \cup VideoControls
    /\ datagram' = None
    /\ \E got \in {Received(datagram)} : Malformed(got) \/ Calls(got) \/ EditsScene(got)

(* The other formats are read where the other modules say.                 *)
OtherRead ==
    /\ datagram.format \in OtherFormats
    /\ datagram' = None
    /\ UNCHANGED <<aborted, scene_vars>>

ControlNext ==
    \/ \E format \in AudioControls \cup VideoControls \cup OtherFormats, seed \in Seeds :
          Say(format, seed)
    \/ Hear \/ OtherRead

ControlSpec == ControlInit /\ [][ControlNext]_control_vars

------------------------------------------------------------------------------
(* What is written is read as it was, by parsers that name the fields in   *)
(* an order of their own, and takes the length that was announced for it   *)
(* (but for client_report, control_messages.hh:105); of a message that is  *)
(* cut nothing is taken, wherever the cut is.  A sealed message opens only *)
(* in the peer's session, and no text but its own is read as a key.        *)
Announced(d) ==
    CASE d.format = "printed key" -> PrintableLength
      [] d.format \in SealedFormats ->
            serialized_length(FormatOf(d.format), MessageOf(d)) + 1 + NonceLength + Len(Label)
      [] OTHER -> serialized_length(FormatOf(d.format), MessageOf(d))

OpensOnlyForItsPeer(d, bytes) ==
    d.format \in SealedFormats =>
        \A session \in {SessionOf(d)} \cup {PeerOf([d EXCEPT !.seed = other]) :
                                               other \in Seeds \ {d.seed}} :
            Reading(d, bytes, session).error

HasOneText(d, bytes) ==
    d.format = "printed key" =>
        \A i \in 1 .. PrintableLength, letter \in Letters \cup {64} :
            letter # bytes[i] =>
                \A key \in {Base64Key([bytes EXCEPT ![i] = letter])} :
                    key.error \/ key.value # KeyOf(d.seed)

FormatsAgree ==
    datagram.cut >= 0 /\ datagram # None =>
        \A whole \in {BytesOf(datagram)}, got \in {Received(datagram)} :
            /\ got.error <=> datagram.cut < Len(whole)
            /\ datagram.format # "client_report" => Announced(datagram) = Len(whole)
            /\ ~got.error =>
                  /\ got.value = MessageOf(datagram) /\ got.input = <<>>
                  /\ OpensOnlyForItsPeer(datagram, whole) /\ HasOneText(datagram, whole)
=============================================================================
