----------------------------- MODULE FrameCodec ------------------------------
(***************************************************************************)
(* The telemetry frame as the ECU writes it (pack_telemetry() in           *)
(* ecu/src/can_fd_frames.cpp) and as the gateway reads it                  *)
(* (decode_telemetry() in gateway/src/frame_codec.cpp): two copies of one  *)
(* packed structure, each with its own byte order and scale factors.       *)
(* A value is a fraction <<numerator, denominator>>, a frame a sequence of *)
(* bytes.                                                                  *)
(***************************************************************************)
EXTENDS Rational, Sequences, Functions

\* Named, because the bags it brings in have a (+) of their own.
Lists == INSTANCE SequencesExt

Byte == 0 .. 255
Field(n, t, s) == [name |-> n, type |-> t, scale |-> s]

\* struct TelemetryFrame, with the factors of pack_telemetry().
TelemetryFrame ==
    << Field("rpm", "u16", 1),               Field("coolant_temp", "s16", 256),
       Field("oil_pressure", "u16", 1),      Field("battery_voltage", "u16", 100),
       Field("fuel_level", "u16", 10),       Field("vehicle_speed", "u16", 10),
       Field("ambient_temp", "s16", 256),    Field("fault_bitmap", "u32", 1),
       Field("sequence_counter", "u16", 1),  Field("uptime", "u32", 1) >>

\* struct RawTelemetryFrame, with the divisors of decode_telemetry().
RawTelemetryFrame ==
    << Field("rpm", "u16", 1),               Field("coolant_temp", "s16", 256),
       Field("oil_pressure", "u16", 1),      Field("battery_voltage", "u16", 100),
       Field("fuel_level", "u16", 10),       Field("vehicle_speed", "u16", 10),
       Field("ambient_temp", "s16", 256),    Field("fault_bitmap", "u32", 1),
       Field("sequence_counter", "u16", 1),  Field("uptime", "u32", 1) >>

\* static_cast from double: towards zero.
Trunc(n, d) == IF n < 0 THEN -((-n) \div d) ELSE n \div d

\* To network order: host_to_be16(), host_to_be16_signed(), host_to_be32().
U16(v) == <<(v \div 256) % 256, v % 256>>
S16(v) == U16(v % 65536)
U32(v) == U16((v \div 65536) % 65536) \o U16(v % 65536)

\* be16_to_host(), be16_to_host_signed() and be32_to_host().
ReadU16(b) == b[1] * 256 + b[2]
\* Mutation: the gateway reads a Q8.8 temperature as unsigned.
ReadS16Unsigned(b) == ReadU16(b)
ReadS16(b) == LET u == ReadU16(b) IN IF u < 32768 THEN u ELSE u - 65536
ReadU32(b) == ReadU16(SubSeq(b, 1, 2)) * 65536 + ReadU16(SubSeq(b, 3, 4))

SizeOf(type) == IF type = "u32" THEN 4 ELSE 2
Write(type, v) == CASE type = "u16" -> U16(v) [] type = "s16" -> S16(v) [] type = "u32" -> U32(v)
Read(type, b)  == CASE type = "u16" -> ReadU16(b) [] type = "s16" -> ReadS16(b)
                    [] type = "u32" -> ReadU32(b)

\* s gives the value of every field; 24 bytes are reserved.
Pack(s) ==
    Lists!FlattenSeq([i \in DOMAIN TelemetryFrame |->
        LET f == TelemetryFrame[i] IN Write(f.type, Trunc(s[f.name][1] * f.scale, s[f.name][2]))])
    \o [i \in 1 .. 24 |-> 0]

\* A frame shorter than the structure is refused.
Accepts(b) == Len(b) >= 48
Decode(b) ==
    LET offset(i) == SumFunction([j \in 1 .. i - 1 |-> SizeOf(RawTelemetryFrame[j].type)])
        field(i) == LET f == RawTelemetryFrame[i]
                    IN  [name |-> f.name,
                         value |-> Q(Read(f.type, SubSeq(b, offset(i) + 1,
                                                         offset(i) + SizeOf(f.type))), f.scale)]
    IN  [i \in DOMAIN RawTelemetryFrame |-> field(i)]

------------------------------------------------------------------------------
\* A measurement of every field, as a fraction, that its type can hold: of any
\* other value the conversion has no defined result.
Holds(type, v) ==
    CASE type = "u16" -> v >= 0 /\ v < 65536 [] type = "s16" -> -32768 <= v /\ v < 32768
      [] type = "u32" -> v >= 0 /\ v \div 65536 < 65536
IsMeasurement(s) ==
    /\ DOMAIN s = {TelemetryFrame[i].name : i \in DOMAIN TelemetryFrame}
    /\ \A i \in DOMAIN TelemetryFrame :
           LET f == TelemetryFrame[i]
               v == s[f.name]
           IN  v \in Fraction /\ Holds(f.type, Trunc(v[1] * f.scale, v[2]))

\* The gateway shows what the ECU measured: every field of its name, never
\* beyond the value, less than one unit of the wire short of it; counters
\* exactly.  Both sides count 48 bytes, and a truncated frame is refused.
RoundTrip(s) ==
    LET b == Pack(s) IN
    /\ Len(b) = 48 /\ \A i \in 1 .. 48 : b[i] \in Byte
    /\ Accepts(b) /\ ~Accepts(SubSeq(b, 1, 47))
    /\ {Decode(b)[i].name : i \in DOMAIN Decode(b)} = DOMAIN s
    /\ \A i \in DOMAIN Decode(b) :
           LET v == s[Decode(b)[i].name]
               short == v (-) Decode(b)[i].value
               unit == RawTelemetryFrame[i].scale
           IN  IF v[1] >= 0 THEN short[1] >= 0 /\ short[1] * unit < short[2]
                            ELSE short[1] <= 0 /\ -short[1] * unit < short[2]
==============================================================================
