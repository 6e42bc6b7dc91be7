------------------------------ MODULE Formats -------------------------------
(***************************************************************************)
(* How messages become bytes and bytes messages again: Serializer and      *)
(* Parser (util/parser.hh), the formats of the media protocol              *)
(* (network/formats.cc), of keys (network/keys.cc, crypto/base64.cc) and   *)
(* of control messages (control/control_messages.hh).                      *)
(*                                                                         *)
(* A byte has Byte values, so the limits of buffers are smaller than the   *)
(* code's, which has 256; the order of bytes and of fields, the widths,    *)
(* the lengths announced and what is checked while reading are the code's. *)
(***************************************************************************)
EXTENDS Integers, Sequences, SequencesExt

CONSTANTS
    Byte,            \* how many values a byte has
    OpusCapacity,    \* 60: the longest opus_frame
    FramesPerPacket  \* 8 or 2: the most frames of a packet

ASSUME FormatConstants ==
    Byte \in Nat \ {0, 1} /\ {OpusCapacity, FramesPerPacket} \subseteq 1 .. Byte - 2

(* The types of fields.  A flagged one is a word whose highest bit says    *)
(* whether the fields of more follow those of plain.                       *)
Integer(size) == [kind |-> "integer", size |-> size]
Signed(size) == [kind |-> "signed", size |-> size]
Floating == [kind |-> "bytes", size |-> 4]
Key == [kind |-> "bytes", size |-> 2]  \* 16 in the code
Buffer(capacity, size) == [kind |-> "buffer", capacity |-> capacity, size |-> size]
NetString == Buffer(Byte - 1, 1)
NetArray(type, capacity) == [kind |-> "array", type |-> type, capacity |-> capacity]
Flagged(plain, more) == [kind |-> "flagged", plain |-> plain, more |-> more]

(* A structure: its fields in the order of serialize, their names in the   *)
(* order of parse; serialized_length adds the lengths of objects to fixed. *)
Format(fields, reads, fixed, objects) ==
    [kind |-> "struct", fields |-> fields, reads |-> reads, fixed |-> fixed,
     objects |-> objects]

TypeOf(format, name) == (CHOOSE f \in ToSet(format.fields) : f[1] = name)[2]

------------------------------------------------------------------------------
(* Numbers as digits of a base, the highest first.                         *)
Power(base, n) ==
    LET power[i \in 0 .. n] == IF i = 0 THEN 1 ELSE base * power[i - 1] IN power[n]
Digits(base, v, size) == [i \in 1 .. size |-> (v \div Power(base, size - i)) % base]
ValueOf(base, digits) ==
    LET value[i \in 0 .. Len(digits)] ==
            IF i = 0 THEN 0 ELSE value[i - 1] * base + digits[i] IN
    value[Len(digits)]

Values(size) == Power(Byte, size)
Half(size) == Values(size) \div 2

Total(numbers) ==
    LET sum[i \in 0 .. Len(numbers)] == IF i = 0 THEN 0 ELSE sum[i - 1] + numbers[i] IN
    sum[Len(numbers)]

(* Fields without parts, and those made of other fields, which W writes.   *)
(* Packet is the deepest: a structure with an array of flagged fields that *)
(* are structures.                                                         *)
FlatWritten(type, v) ==
    CASE type.kind = "integer" -> Digits(Byte, v, type.size)
      [] type.kind = "signed" -> Digits(Byte, v % Values(type.size), type.size)
      [] type.kind = "bytes" -> v
      [] type.kind = "buffer" -> Digits(Byte, Len(v), type.size) \o v

WrittenBy(W(_, _), type, v) ==
    CASE type.kind = "array" ->
            <<Len(v)>> \o FlattenSeq([i \in DOMAIN v |-> W(type.type, v[i])])
      [] type.kind = "struct" ->
            FlattenSeq([i \in DOMAIN type.fields |->
                W(type.fields[i][2], v[type.fields[i][1]])])
      [] type.kind = "flagged" ->
            Digits(Byte, (IF v.flag THEN Half(4) ELSE 0) + (v.index % Half(4)), 4)
            \o W(type.plain, v.plain) \o IF v.flag THEN W(type.more, v.more) ELSE <<>>
      [] OTHER -> FlatWritten(type, v)

Written1(type, v) == WrittenBy(FlatWritten, type, v)
Written2(type, v) == WrittenBy(Written1, type, v)
Written3(type, v) == WrittenBy(Written2, type, v)
Written(type, v) == WrittenBy(Written3, type, v)

FlatLength(type, v) ==
    IF type.kind = "buffer" THEN type.size + Len(v) ELSE type.size

LengthBy(L(_, _), type, v) ==
    CASE type.kind = "array" -> 1 + Total([i \in DOMAIN v |-> L(type.type, v[i])])
      [] type.kind = "struct" ->
            type.fixed + Total([i \in DOMAIN type.objects |->
                L(TypeOf(type, type.objects[i]), v[type.objects[i]])])
      [] type.kind = "flagged" ->
            4 + L(type.plain, v.plain) + IF v.flag THEN L(type.more, v.more) ELSE 0
      [] OTHER -> FlatLength(type, v)

Length1(type, v) == LengthBy(FlatLength, type, v)
Length2(type, v) == LengthBy(Length1, type, v)
Length3(type, v) == LengthBy(Length2, type, v)
serialized_length(type, v) == LengthBy(Length3, type, v)

(* Parser: what is left of the input, whether an error is set, and the     *)
(* value that was read.  Nothing is read once an error is set.             *)
Inputs == Seq(0 .. Byte - 1)
Result(input, value) == [input |-> input, error |-> FALSE, value |-> value]
set_error(input) == [input |-> input, error |-> TRUE, value |-> <<>>]

Take(input, n) ==
    IF n > Len(input) THEN set_error(input)
    ELSE Result(SubSeq(input, n + 1, Len(input)), SubSeq(input, 1, n))

TakeInt(input, size) ==
    LET q == Take(input, size) IN
    IF q.error THEN q ELSE Result(q.input, ValueOf(Byte, q.value))

ParsedNext(parser, p) ==
    IF p.error THEN p
    ELSE LET q == parser[p.input] IN
         IF q.error THEN q ELSE Result(q.input, Append(p.value, q.value))

ParsedAll(parsers, input) ==
    LET after[i \in 0 .. Len(parsers)] ==
            IF i = 0 THEN Result(input, <<>>) ELSE ParsedNext(parsers[i], after[i - 1]) IN
    after[Len(parsers)]

FlatParsed(type, input) ==
    LET q == TakeInt(input, type.size) IN
    CASE type.kind = "integer" -> q
      [] type.kind = "signed" ->
            IF q.error \/ q.value < Half(type.size) THEN q
            ELSE Result(q.input, q.value - Values(type.size))
      [] type.kind = "bytes" -> Take(input, type.size)
      [] type.kind = "buffer" ->
            IF q.error THEN q
            ELSE IF q.value > type.capacity THEN set_error(q.input)
            ELSE Take(q.input, q.value)

ArrayParsed(parser, capacity, input) ==
    LET q == TakeInt(input, 1) IN
    IF q.error THEN q
    ELSE IF q.value > capacity THEN set_error(q.input)
    ELSE ParsedAll([i \in 1 .. q.value |-> parser], q.input)

StructParsed(parsers, names, input) ==
    LET q == ParsedAll(parsers, input)
        place(name) == CHOOSE i \in DOMAIN names : names[i] = name IN
    IF q.error THEN q
    ELSE Result(q.input, [name \in ToSet(names) |-> q.value[place(name)]])

FlaggedParsed(plain_parser, more_parser, input) ==
    LET word == TakeInt(input, 4)
        plain == IF word.error THEN word ELSE plain_parser[word.input]
        flag == ~word.error /\ word.value >= Half(4)
        more == IF flag /\ ~plain.error THEN more_parser[plain.input] ELSE plain IN
    IF more.error THEN more
    ELSE Result(more.input, [flag |-> flag, index |-> word.value % Half(4),
                             plain |-> plain.value,
                             more |-> IF flag THEN more.value ELSE <<>>])

ParsedBy(P(_, _), type, input) ==
    LET parser(part) == [s \in Inputs |-> P(part, s)] IN
    CASE type.kind = "array" -> ArrayParsed(parser(type.type), type.capacity, input)
      [] type.kind = "struct" ->
            StructParsed([i \in DOMAIN type.reads |-> parser(TypeOf(type, type.reads[i]))],
                         type.reads, input)
      [] type.kind = "flagged" ->
            FlaggedParsed(parser(type.plain), parser(type.more), input)
      [] OTHER -> FlatParsed(type, input)

Parsed1(type, input) == ParsedBy(FlatParsed, type, input)
Parsed2(type, input) == ParsedBy(Parsed1, type, input)
Parsed3(type, input) == ParsedBy(Parsed2, type, input)
Parsed(type, input) == ParsedBy(Parsed3, type, input)

------------------------------------------------------------------------------
(* network/formats.hh and keys.cc.                                         *)
opus_frame(name) ==
    Format(<<<<name, Buffer(OpusCapacity, 1)>>>>, <<name>>, 0, <<name>>)
AudioFrame == Flagged(opus_frame("frame1"), opus_frame("frame2"))
VideoChunk ==
    Flagged(Format(<<<<"nal_index", Integer(4)>>, <<"data", Buffer(Byte + 1, 2)>>>>,
                   <<"nal_index", "data">>, 4, <<"data">>),
            Format(<<>>, <<>>, 0, <<>>))

Packet(frame) ==
    Format(<<<<"sequence_number", Integer(4)>>, <<"frames", NetArray(frame, FramesPerPacket)>>,
             <<"next_frame_needed", Integer(4)>>,
             <<"packets_received", NetArray(Integer(4), Byte - 2)>>,
             <<"unreliable_data", NetString>>>>,
           <<"sequence_number", "frames", "next_frame_needed", "packets_received",
             "unreliable_data">>,
           8, <<"frames", "packets_received", "unreliable_data">>)

KeyPair ==
    Format(<<<<"downlink", Key>>, <<"uplink", Key>>>>, <<"downlink", "uplink">>,
           2 * Key.size, <<>>)
KeyMessage ==
    Format(<<<<"id", Integer(1)>>, <<"key_pair", KeyPair>>>>, <<"id", "key_pair">>,
           1, <<"key_pair">>)
LongLivedKey ==
    Format(<<<<"key_pair", KeyPair>>, <<"name", NetString>>>>, <<"key_pair", "name">>,
           0, <<"key_pair", "name">>)

------------------------------------------------------------------------------
(* control/control_messages.hh.                                            *)
X_set_cursor_lag ==
    Format(<<<<"feed", NetString>>, <<"name", NetString>>, <<"target_samples", Integer(2)>>,
             <<"min_samples", Integer(2)>>, <<"max_samples", Integer(2)>>>>,
           <<"feed", "name", "min_samples", "target_samples", "max_samples">>,
           6, <<"name", "feed">>)

set_cursor_lag ==
    Format(<<<<"feed", NetString>>, <<"name", NetString>>, <<"target_samples", Integer(2)>>,
             <<"min_samples", Integer(2)>>, <<"max_samples", Integer(2)>>>>,
           <<"feed", "name", "target_samples", "min_samples", "max_samples">>,
           6, <<"name", "feed">>)

set_gain ==
    Format(<<<<"board_name", NetString>>, <<"channel_name", NetString>>,
             <<"gain1", Floating>>, <<"gain2", Floating>>>>,
           <<"board_name", "channel_name", "gain1", "gain2">>,
           8, <<"board_name", "channel_name">>)

set_live_message == Format(<<<<"name", NetString>>>>, <<"name">>, 0, <<"name">>)

client_report ==
    Format(<<<<"resets", Integer(4)>>, <<"target_lag", Integer(2)>>, <<"min_lag", Integer(2)>>,
             <<"max_lag", Integer(2)>>, <<"actual_lag", Floating>>, <<"quality", Floating>>,
             <<"self_gain", Floating>>>>,
           <<"resets", "target_lag", "min_lag", "max_lag", "actual_lag", "quality", "self_gain">>,
           4 + 4 * 2 + 2 * 4, <<>>)

video_control ==
    LET names == <<"x", "y", "width", "height", "crop_left", "crop_right", "crop_top",
                   "crop_bottom">> IN
    Format([i \in DOMAIN names |-> <<names[i], Integer(2)>>], names, 8 * 2, <<>>)

insert_layer ==
    Format(<<<<"is_media", Integer(1)>>, <<"name", NetString>>, <<"filename", NetString>>,
             <<"x", Signed(2)>>, <<"y", Signed(2)>>, <<"width", Integer(2)>>, <<"z", Integer(2)>>>>,
           <<"is_media", "name", "filename", "x", "y", "width", "z">>,
           1 + 4 * 2, <<"name", "filename">>)

remove_layer == Format(<<<<"name", NetString>>>>, <<"name">>, 0, <<"name">>)

atomic_scene_update ==
    Format(<<<<"removals", NetArray(remove_layer, Byte - 1)>>,
             <<"insertions", NetArray(insert_layer, Byte - 1)>>>>,
           <<"removals", "insertions">>, 0, <<"removals", "insertions">>)
=============================================================================
