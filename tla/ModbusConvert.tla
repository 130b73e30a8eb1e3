---------------------------- MODULE ModbusConvert ----------------------------
(***************************************************************************)
(* The conversions of the Modbus driver                                    *)
(* (crates/ferredge-proto-modbus/src: convert.rs, codec.rs, types.rs) and  *)
(* the framing of its answers (transport.rs): a command becomes what is    *)
(* read or stored, an answer is recognised as complete, cut to one frame   *)
(* and decoded.                                                            *)
(*                                                                         *)
(* A byte has Base values, so a register has Base^2.  A payload is         *)
(* [type, v], a list [type |-> "List", of, v], v always a sequence of      *)
(* integers.  A number that is no integer, an infinity or NaN has an       *)
(* integer of its own, the same in an F64 payload and in AsF32.  An answer *)
(* is [kind, code, bytes, mbap]; a received frame is how many of its bytes *)
(* were received.  The parsers of rmodbus are external: they return the    *)
(* data of a whole, unexceptional answer of the kind asked for.            *)
(***************************************************************************)
EXTENDS Bridge

CONSTANTS
    Base,           \* values of a byte
    ModbusResource, \* resources of the device: name -> [kind, codec, quantity]
    FrameLimit,     \* max_frame_len: protocol -> bytes
    AsF32,          \* `as f32` of an F64, I64 or U64: number -> bits of the nearest f32
    AsF64           \* `f64::from` of an f32: bits -> number

Word == Base * Base
Wide == Word * Word

\* Widening loses nothing, and what was widened is narrowed to where it came from.
ASSUME ModbusAssumptions ==
    /\ Base \in Nat \ {0, 1} /\ \A p \in DOMAIN FrameLimit : FrameLimit[p] \in Nat
    /\ 0 \in DOMAIN AsF32 /\ AsF32[0] = 0
    /\ \A n \in DOMAIN AsF32 : n \in Int /\ AsF32[n] \in 0..(Wide - 1)
    /\ \A b \in 0..(Wide - 1) : AsF64[b] \in DOMAIN AsF32 /\ AsF64[AsF32[AsF64[b]]] = AsF64[b]

BitCodecs  == {"Bool", "Bits"}
WideCodecs == {"U32Be", "U32Le", "I32Be", "I32Le", "F32Be", "F32Le"}
RawCodecs  == {"Bytes", "Utf8String"}
LeCodecs   == {"U32Le", "I32Le", "F32Le"}
FloatCodecs == {"F32Be", "F32Le"}
Codecs     == BitCodecs \cup WideCodecs \cup RawCodecs \cup {"U16", "I16"}

-----------------------------------------------------------------------------
(* Outbound.                                                               *)

\* ModbusNativePlan, with register_meta of the resource.
ModbusPlan(target, action, payload, register) ==
    [target |-> target, action |-> action, payload |-> payload, register |-> register]

\* ModbusCommandPlanner::plan_ref
ModbusNativePlan(c) ==
    IF c.intent \notin {"Read", "Write"} THEN Err("UnsupportedIntent")
    ELSE IF c.target \notin DOMAIN ModbusResource THEN Err("UnknownResource")
    ELSE Ok(ModbusPlan(c.target, c.intent, IF c.intent = "Read" THEN None ELSE c.payload,
                       ModbusResource[c.target]))

\* bridge_request up to ModbusNativePlan::try_from(&BridgeMessage)
ModbusBridgePlan(c) ==
    IF c.intent \notin {"Read", "Write"} THEN Err("UnsupportedIntent")
    ELSE IF c.target \notin DOMAIN ModbusResource THEN Err("UnknownResource")
    ELSE Then(CommandToRegisterAccess(c, ModbusResource[c.target], 1), LAMBDA m :
           Ok(ModbusPlan(m.command.target, m.command.action, m.command.payload, m.access)))

\* The integers a codec stores: u16, i16, u32 and i32::try_from.
InRange(codec, n) ==
    CASE codec = "U16"               -> n \in 0..(Word - 1)
      [] codec = "I16"               -> n \in -(Word \div 2)..(Word \div 2 - 1)
      [] codec \in {"U32Be", "U32Le"} -> n \in 0..(Wide - 1)
      [] codec \in {"I32Be", "I32Le"} -> n \in -(Wide \div 2)..(Wide \div 2 - 1)
      [] OTHER                       -> TRUE

\* decode_payload_f32_list: every number becomes the nearest f32, its bits here.
Narrowed(codec, v) == IF codec \in FloatCodecs THEN [i \in DOMAIN v |-> AsF32[v[i]]] ELSE v

\* modbus_value_from_payload with the decode_payload_* functions.
ModbusValue(codec, payload) ==
    LET listed  == payload.type = "List"
        entry   == IF listed THEN payload.of ELSE payload.type
        numbers == IF codec \in FloatCodecs THEN {"I64", "U64", "F64"} ELSE {"I64", "U64"}
        fits    == CASE codec = "Bool"       -> payload.type = "Bool"
                     [] codec = "Bits"       -> listed /\ (payload.v = <<>> \/ entry = "Bool")
                     [] codec = "Bytes"      -> payload.type = "Bytes"
                     [] codec = "Utf8String" -> payload.type = "String"
                     [] OTHER -> /\ entry \in numbers \/ (listed /\ payload.v = <<>>)
                                 /\ \A i \in DOMAIN payload.v : InRange(codec, payload.v[i])
    IN  IF fits THEN Ok(Narrowed(codec, payload.v)) ELSE Err("InvalidPayload")

Swap(word) == (word % Base) * Base + word \div Base

\* words_from_*: the high word first; the Le codecs swap the bytes of each word.
WordsOf(codec, n) ==
    LET u == n % Wide IN
    IF codec \in LeCodecs THEN <<Swap(u \div Word), Swap(u % Word)>> ELSE <<u \div Word, u % Word>>

\* Bytes written to registers, two in each; an odd one is padded.
PackWords(bytes) ==
    [i \in 1..((Len(bytes) + 1) \div 2) |->
        bytes[2 * i - 1] * Base + (IF 2 * i <= Len(bytes) THEN bytes[2 * i] ELSE 0)]

\* build_write_request, build_coil_write_request, build_holding_write_request: the
\* coils or registers the frame stores.
ModbusWrite(attributes, payload) ==
    LET codec == attributes.codec IN
    Then(ModbusValue(codec, payload), LAMBDA values :
      IF attributes.kind = "Coil" /\ codec \in BitCodecs THEN Ok(values)
      ELSE IF attributes.kind # "HoldingRegister" \/ codec \in BitCodecs THEN Err("UnsupportedWrite")
      ELSE CASE codec \in {"U16", "I16"} ->
                  IF Len(values) = 1 /\ values[1] >= 0 THEN Ok(values) ELSE Err("InvalidPayload")
             [] codec \in WideCodecs ->
                  Ok(FlattenSeq([i \in DOMAIN values |-> WordsOf(codec, values[i])]))
             [] OTHER -> Ok(PackWords(values)))

\* quantity_for_read
QuantityForRead(attributes) ==
    IF attributes.quantity = 0 THEN Err("InvalidResource")
    ELSE IF attributes.quantity # None THEN Ok(attributes.quantity)
    ELSE CASE attributes.codec \in WideCodecs -> Ok(2)
           [] attributes.codec \in RawCodecs  -> Err("InvalidResource")
           [] OTHER                           -> Ok(1)

\* build_read_request with validate_bit_codec and validate_register_codec.
ModbusRead(attributes) ==
    Then(QuantityForRead(attributes), LAMBDA quantity :
      IF (attributes.kind \in {"Coil", "DiscreteInput"}) # (attributes.codec \in BitCodecs)
      THEN Err("InvalidResource") ELSE Ok(quantity))

\* encode_ref
ModbusEncode(plan) ==
    LET attributes == ModbusResource[plan.target]
        Request(stores, quantity, decoder) ==
            Ok([target |-> plan.target, is_write |-> plan.action = "Write", stores |-> stores,
                quantity |-> quantity, decoder |-> decoder])
    IN  IF plan.action = "Read"
        THEN Then(ModbusRead(attributes), LAMBDA q : Request(<<>>, q, attributes.codec))
        ELSE IF plan.payload = None THEN Err("InvalidBridgeMessage")
        ELSE Then(ModbusWrite(attributes, plan.payload), LAMBDA w : Request(w, Len(w), "Ack"))

ModbusNativeRequest(c) == Then(ModbusNativePlan(c), ModbusEncode)
ModbusBridgeRequest(c) == Then(ModbusBridgePlan(c), ModbusEncode)

-----------------------------------------------------------------------------
(* Framing of answers.                                                     *)

\* The size of an answer: the MBAP header, or the address and the checksum, around
\* function code and data; each byte is two characters in ASCII.
WireSize(proto, answer) ==
    LET body == CASE answer.kind = "exception" -> 2
                  [] answer.kind = "ack"       -> 5
                  [] OTHER                     -> 2 + Len(answer.bytes)
    IN  CASE proto \in {"Tcp", "Udp"} -> 7 + body
          [] proto = "Rtu"            -> 1 + body + 2
          [] proto = "Ascii"          -> 1 + 2 * (1 + body + 1) + 2

\* The length the reader knows of after n bytes: tcp_udp_frame_len, the guess of
\* rmodbus from address, function and count, ascii_frame_end.
KnownSize(proto, answer, n) ==
    LET size == WireSize(proto, answer)
        from == CASE proto \in {"Tcp", "Udp"} -> 6 [] proto = "Rtu" -> 3 [] OTHER -> size
    IN  IF n < from \/ (proto \in {"Tcp", "Udp"} /\ ~answer.mbap) THEN None ELSE size

\* Faulty variant: the last byte is not waited for.
FrameCompleteEarly(proto, answer, n) ==
    LET known == KnownSize(proto, answer, n) IN known # None /\ n + 1 >= known

\* frame_complete
FrameComplete(proto, answer, n) ==
    LET known == KnownSize(proto, answer, n) IN
    known # None /\ n >= known /\ (proto = "Rtu" => n >= 5)

\* trim_frame; a datagram is taken as it is.
TrimFrame(proto, answer, n) ==
    LET known == KnownSize(proto, answer, n) IN
    IF proto # "Udp" /\ known # None /\ known < n THEN known ELSE n

-----------------------------------------------------------------------------
(* Decoding.                                                               *)

\* What the device holds, as bytes; a coil is a bit of a byte.
Unpack(words) == FlattenSeq([i \in DOMAIN words |-> <<words[i] \div Base, words[i] % Base>>])

Signed(n, width) == IF n < width \div 2 THEN n ELSE n - width

\* one_or_list
OneOrList(type, values) ==
    IF Len(values) = 1 THEN [type |-> type, v |-> values] ELSE [type |-> "List", of |-> type, v |-> values]

\* trim_trailing_nuls
TrimNuls(bytes) ==
    LET text == {i \in DOMAIN bytes : bytes[i] # 0} IN
    IF text = {} THEN <<>> ELSE SubSeq(bytes, 1, Max(text))

\* decode_modbus_value and payload_value_from_modbus_value on the units (coils or
\* registers) of the answer.
DecodeValue(decoder, units) ==
    LET pairs == [i \in 1..(Len(units) \div 2) |->
                    LET hi == units[2 * i - 1]  lo == units[2 * i] IN
                    IF decoder \in LeCodecs THEN Swap(hi) * Word + Swap(lo) ELSE hi * Word + lo]
    IN  CASE decoder = "Bool"       -> [type |-> "Bool", v |-> <<units[1]>>]
          [] decoder = "Bits"       -> [type |-> "List", of |-> "Bool", v |-> units]
          [] decoder = "U16"        -> OneOrList("U64", units)
          [] decoder = "I16"        -> OneOrList("I64", [i \in DOMAIN units |-> Signed(units[i], Word)])
          [] decoder \in {"U32Be", "U32Le"} -> OneOrList("U64", pairs)
          [] decoder \in {"I32Be", "I32Le"} ->
               OneOrList("I64", [i \in DOMAIN pairs |-> Signed(pairs[i], Wide)])
          [] decoder \in FloatCodecs ->
               OneOrList("F64", [i \in DOMAIN pairs |-> AsF64[pairs[i]]])
          [] decoder = "Bytes"      -> [type |-> "Bytes", v |-> Unpack(units)]
          [] decoder = "Utf8String" -> [type |-> "String", v |-> TrimNuls(Unpack(units))]

\* A byte of the checksum that was taken for data.
Checksum == -1

\* Faulty variant: the declared size of the data is not compared with the frame.
DataSliceUnchecked(proto, answer, n) ==
    LET data == IF proto \in {"Tcp", "Udp"} THEN 9 ELSE 3 IN
    IF n < data THEN Err("InvalidPayload")
    ELSE Ok(SubSeq(answer.bytes, 1, IF n - data < Len(answer.bytes) THEN n - data ELSE Len(answer.bytes)))

\* response_data_slice: the byte after the function code is taken as the size of
\* the data, which an exception and an acknowledgement do not have.
DataSlice(proto, answer, n) ==
    LET data  == IF proto \in {"Tcp", "Udp"} THEN 9 ELSE 3
        count == IF answer.kind = "data" THEN Len(answer.bytes) ELSE answer.code
    IN  IF n < data \/ n < data + count THEN Err("InvalidPayload")
        ELSE Ok(IF answer.kind = "data" THEN answer.bytes ELSE [i \in 1..count |-> Checksum])

\* build_modbus_response and ModbusResponse::payload on the n bytes of a trimmed
\* frame; decode_ascii_wire_frame needs a whole frame and leaves binary.
ModbusDecode(proto, decoder, answer, n) ==
    LET whole  == n = WireSize(proto, answer) /\ answer.mbap
        binary == IF proto = "Ascii" THEN (n - 3) \div 2 ELSE n
        Text(bytes) == IF decoder = "Utf8String" THEN [type |-> "String", v |-> TrimNuls(bytes)]
                       ELSE [type |-> "Bytes", v |-> bytes]
    IN  IF proto = "Ascii" /\ ~whole THEN Err("InvalidFrame")
        ELSE IF decoder \in RawCodecs
        THEN Then(DataSlice(proto, answer, binary), LAMBDA b : Ok(Text(b)))
        ELSE CASE whole /\ decoder = "Ack" /\ answer.kind = "ack" -> Ok([type |-> "Null", v |-> <<>>])
               [] whole /\ decoder # "Ack" /\ answer.kind = "data" ->
                    Ok(DecodeValue(decoder, answer.units))
               [] OTHER -> Err("InvalidPayload")

\* RoutedMessage::try_from(ModbusDecodedResponse)
ModbusResult(c, payload) ==
    [command_id |-> c.id, payload |-> payload, correlation |-> CorrelationFor(c),
     state |-> "Completed", error |-> None, transport |-> None]
=============================================================================
