------------------------------ MODULE WsFrames ------------------------------
(***************************************************************************)
(* The frames a websocket connection reads: the incremental parser of      *)
(* frame headers (websocket/impl/ws_parser.hpp), the validator of the      *)
(* protocol (ws_protocol_validator.hpp), and the way ws_connection_t       *)
(* drives them with the bytes it finds in its buffer.  Bytes are numbers;  *)
(* a masking key is the sequence of its four bytes, most significant       *)
(* first.                                                                  *)
(***************************************************************************)
EXTENDS Integers, Sequences, SequencesExt, FiniteSets, FiniteSetsExt, Bitwise

Utf8 == INSTANCE TextCodecs

CONSTANTS
  FrameStreams,   \* the frames a peer may send, in their order
  BufferSize      \* bytes that fit into m_input.m_buf

VARIABLES
  frames,        \* the frames the peer sends
  stream,        \* their bytes that were not taken yet, from m_buf or the socket
  remaining,     \* length_remaining of the payload that is being read
  parser,        \* ws_parser_t
  validator,     \* ws_protocol_validator_t
  payload,       \* the payload read so far, unmasked
  verdicts,      \* history: the outcome of each frame, with its header and payload
  reading,       \* what the next bytes are read as: "header", "payload", "skipped"
                 \* (the rest of an invalid payload), or "nothing"
  m_read_state   \* of ws_connection_t

frame_vars ==
  <<frames, stream, remaining, parser, validator, payload, verdicts, reading, m_read_state>>

(***************************************************************************)
(* Opcodes (websocket/message.hpp)                                         *)
(***************************************************************************)

continuation_frame == 0
text_frame == 1
binary_frame == 2
connection_close_frame == 8
ping_frame == 9
pong_frame == 10

is_valid_opcode(opcode) ==
  opcode \in {continuation_frame, text_frame, binary_frame,
              connection_close_frame, ping_frame, pong_frame}

is_control_frame(opcode) == opcode \in {connection_close_frame, ping_frame, pong_frame}

is_data_frame(opcode) == opcode \in {text_frame, binary_frame}

status_code_to_bin(code) == <<Utf8!n_bits_from(code, 8, 8), Utf8!n_bits_from(code, 0, 8)>>

status_code_from_bin(data) == IF Len(data) >= 2 THEN data[1] * 256 + data[2] ELSE 0

(***************************************************************************)
(* message_details_t                                                       *)
(***************************************************************************)

websocket_max_payload_size_without_ext == 125
websocket_short_ext_len_code == 126
websocket_long_ext_len_code == 127
websocket_short_ext_payload_length == 2
websocket_long_ext_payload_length == 8
websocket_masking_key_size == 4
websocket_first_two_bytes_size == 2

no_details ==
  [m_final_flag |-> TRUE, m_rsv_flags |-> <<FALSE, FALSE, FALSE>>,
   m_opcode |-> continuation_frame, m_mask_flag |-> FALSE, m_payload_len |-> 0,
   m_ext_payload_len |-> 0, m_masking_key |-> <<0, 0, 0, 0>>]

\* Mutant: a length that does not fit two bytes is still written in two.
init_payload_len_short(details, length) ==
  IF length > websocket_max_payload_size_without_ext
    THEN [details EXCEPT !.m_payload_len = IF length > 65536
                                             THEN websocket_long_ext_len_code
                                             ELSE websocket_short_ext_len_code,
                         !.m_ext_payload_len = length]
    ELSE [details EXCEPT !.m_payload_len = length]

init_payload_len(details, length) ==
  IF length > websocket_max_payload_size_without_ext
    THEN [details EXCEPT !.m_payload_len = IF length > 65535
                                             THEN websocket_long_ext_len_code
                                             ELSE websocket_short_ext_len_code,
                         !.m_ext_payload_len = length]
    ELSE [details EXCEPT !.m_payload_len = length]

message_details(final_flag, opcode, length) ==
  init_payload_len([no_details EXCEPT !.m_final_flag = final_flag,
                                      !.m_opcode = opcode], length)

payload_len(details) ==
  IF details.m_payload_len > websocket_max_payload_size_without_ext
    THEN details.m_ext_payload_len ELSE details.m_payload_len

(***************************************************************************)
(* Numbers and headers as bytes                                            *)
(***************************************************************************)

read_number_from_big_endian_bytes(data) ==
  FoldLeft(LAMBDA number, byte : number * 256 + byte, 0, data)

write_number_to_big_endian_bytes(number, count) ==
  [i \in 1..count |->
     IF count - i > 3 THEN 0 ELSE (number \div 256 ^ (count - i)) % 256]

Bit(flag, weight) == IF flag THEN weight ELSE 0

write_message_details(details) ==
  LET length == details.m_payload_len
      size == CASE length = websocket_short_ext_len_code ->
                     websocket_short_ext_payload_length
                [] length = websocket_long_ext_len_code ->
                     websocket_long_ext_payload_length
                [] OTHER -> 0
  IN  <<Bit(details.m_final_flag, 128) + Bit(details.m_rsv_flags[1], 64)
          + Bit(details.m_rsv_flags[2], 32) + Bit(details.m_rsv_flags[3], 16)
          + details.m_opcode,
        Bit(details.m_mask_flag, 128) + length>>
      \o write_number_to_big_endian_bytes(details.m_ext_payload_len, size)
      \o (IF details.m_mask_flag THEN details.m_masking_key ELSE <<>>)

mask_unmask_payload(key, text) ==
  [i \in DOMAIN text |-> text[i] ^^ key[((i - 1) % websocket_masking_key_size) + 1]]

(***************************************************************************)
(* ws_parser_t                                                             *)
(***************************************************************************)

expected_data(size) == [m_expected_size |-> size, m_loaded_data |-> <<>>]

all_bytes_loaded(data) == Len(data.m_loaded_data) = data.m_expected_size

add_byte(data, byte) == [data EXCEPT !.m_loaded_data = Append(@, byte)]

ws_parser ==
  [m_current_state |-> "waiting_for_first_2_bytes", m_current_msg |-> no_details,
   m_expected_data |-> expected_data(websocket_first_two_bytes_size)]

Await(p, state, size) ==
  [p EXCEPT !.m_current_state = state, !.m_expected_data = expected_data(size)]

parse_first_2_bytes(details, data) ==
  [details EXCEPT
     !.m_final_flag = data[1] \div 128 = 1,
     !.m_rsv_flags = <<(data[1] \div 64) % 2 = 1, (data[1] \div 32) % 2 = 1,
                       (data[1] \div 16) % 2 = 1>>,
     !.m_opcode = data[1] % 16,
     !.m_mask_flag = data[2] \div 128 = 1,
     !.m_payload_len = data[2] % 128]

process_first_2_bytes(p) ==
  LET msg == parse_first_2_bytes(p.m_current_msg, p.m_expected_data.m_loaded_data)
      new == [p EXCEPT !.m_current_msg = msg]
  IN  IF msg.m_payload_len > websocket_max_payload_size_without_ext
        THEN Await(new, "waiting_for_ext_len",
                   IF msg.m_payload_len = websocket_short_ext_len_code
                     THEN websocket_short_ext_payload_length
                     ELSE websocket_long_ext_payload_length)
      ELSE IF msg.m_mask_flag
        THEN Await(new, "waiting_for_mask_key", websocket_masking_key_size)
      ELSE Await(new, "header_parsed", msg.m_payload_len)

process_extended_length(p) ==
  LET new == [p EXCEPT !.m_current_msg.m_ext_payload_len =
                read_number_from_big_endian_bytes(p.m_expected_data.m_loaded_data)]
  IN  IF new.m_current_msg.m_mask_flag
        THEN Await(new, "waiting_for_mask_key", websocket_masking_key_size)
        ELSE [new EXCEPT !.m_current_state = "header_parsed"]

process_masking_key(p) ==
  [p EXCEPT !.m_current_msg.m_masking_key = p.m_expected_data.m_loaded_data,
            !.m_current_state = "header_parsed"]

parser_process_byte(p, byte) ==
  LET new == [p EXCEPT !.m_expected_data = add_byte(@, byte)]
  IN  CASE ~ all_bytes_loaded(new.m_expected_data) -> new
        [] all_bytes_loaded(new.m_expected_data)
             /\ p.m_current_state = "waiting_for_first_2_bytes" ->
             process_first_2_bytes(new)
        [] all_bytes_loaded(new.m_expected_data)
             /\ p.m_current_state = "waiting_for_ext_len" ->
             process_extended_length(new)
        [] OTHER -> process_masking_key(new)

header_parsed(p) == p.m_current_state = "header_parsed"

\* The bytes are processed until there are no more or the header is complete: the
\* parser it leaves and the number of bytes it took.
parser_execute(p, data) ==
  FoldLeft(LAMBDA r, byte : IF header_parsed(r.parser) THEN r
                            ELSE [parser |-> parser_process_byte(r.parser, byte),
                                  parsed |-> r.parsed + 1],
           [parser |-> p, parsed |-> 0], data)

(***************************************************************************)
(* ws_protocol_validator_t, created with its unmask flag set               *)
(***************************************************************************)

ws_protocol_validator ==
  [m_validation_state |-> "initial_state", m_working_state |-> "empty_state",
   m_previous_data_frame |-> "none", m_current_frame |-> no_details,
   m_expected_close_code |-> expected_data(0), m_utf8_checker |-> Utf8!utf8_checker,
   m_processed_bytes_count |-> 0]

set_validation_state(v, verdict) == [v EXCEPT !.m_validation_state = verdict]

is_state_still_valid(v) ==
  v.m_validation_state \in {"initial_state", "frame_header_is_valid",
                            "payload_part_is_valid", "frame_is_valid"}

validate_frame_header(frame) ==
  CASE ~ is_valid_opcode(frame.m_opcode) -> "invalid_opcode"
    [] is_valid_opcode(frame.m_opcode) ->
       (IF is_control_frame(frame.m_opcode) /\ ~ frame.m_final_flag
          THEN "non_final_control_frame"
        ELSE IF ~ frame.m_mask_flag THEN "empty_mask_from_client_side"
        ELSE IF TRUE \in {frame.m_rsv_flags[i] : i \in 1..3} THEN "non_zero_rsv_flags"
        ELSE IF /\ is_control_frame(frame.m_opcode)
                /\ payload_len(frame) > websocket_max_payload_size_without_ext
          THEN "payload_len_is_too_big"
        ELSE "frame_header_is_valid")

check_previous_frame_type(v, opcode) ==
  CASE v.m_previous_data_frame = "none" /\ opcode = continuation_frame ->
         "continuation_frame_without_data_frame"
    [] v.m_previous_data_frame # "none" /\ is_data_frame(opcode) ->
         "new_data_frame_without_finishing_previous"
    [] OTHER -> "frame_header_is_valid"

process_new_frame(v, frame) ==
  LET header == validate_frame_header(frame)
      verdict == IF header = "frame_header_is_valid"
                   THEN check_previous_frame_type(v, frame.m_opcode) ELSE header
      new == set_validation_state(v, verdict)
  IN  IF verdict # "frame_header_is_valid" THEN new
      ELSE [new EXCEPT
              !.m_previous_data_frame =
                 CASE frame.m_opcode = text_frame /\ ~ frame.m_final_flag -> "text"
                   [] frame.m_opcode = binary_frame /\ ~ frame.m_final_flag -> "binary"
                   [] OTHER -> @,
              !.m_expected_close_code =
                 IF frame.m_opcode = connection_close_frame THEN expected_data(2) ELSE @,
              !.m_current_frame = frame,
              !.m_working_state = "processing_frame",
              !.m_processed_bytes_count = 0]

validate_close_code(v, code) ==
  IF \/ code < 1000 \/ (code > 1011 /\ code < 3000) \/ code > 4999
     \/ code \in {1004, 1005, 1006}
    THEN set_validation_state(v, "invalid_close_code") ELSE v

unmask_byte(v, byte) ==
  byte ^^ v.m_current_frame.m_masking_key
            [(v.m_processed_bytes_count % websocket_masking_key_size) + 1]

WithUtf8Byte(v, byte) ==
  LET checker == Utf8!process_byte(v.m_utf8_checker, byte)
      new == [v EXCEPT !.m_utf8_checker = checker]
  IN  IF Utf8!accepts(checker) THEN new
      ELSE set_validation_state(new, "incorrect_utf8_data")

WithCloseCodeByte(v, byte) ==
  LET new == [v EXCEPT !.m_expected_close_code = add_byte(@, byte)]
  IN  IF all_bytes_loaded(new.m_expected_close_code)
        THEN validate_close_code(new,
               read_number_from_big_endian_bytes(new.m_expected_close_code.m_loaded_data))
        ELSE new

\* Mutant: the continuation of a text is not checked.
process_payload_byte_text_only(v, masked) ==
  LET byte == unmask_byte(v, masked)
      opcode == v.m_current_frame.m_opcode
      new == [v EXCEPT !.m_processed_bytes_count = @ + 1]
  IN  CASE opcode = text_frame -> WithUtf8Byte(new, byte)
        [] opcode = connection_close_frame
             /\ ~ all_bytes_loaded(v.m_expected_close_code) ->
             WithCloseCodeByte(new, byte)
        [] opcode = connection_close_frame
             /\ all_bytes_loaded(v.m_expected_close_code) -> WithUtf8Byte(new, byte)
        [] OTHER -> new

process_payload_byte(v, masked) ==
  LET byte == unmask_byte(v, masked)
      opcode == v.m_current_frame.m_opcode
      new == [v EXCEPT !.m_processed_bytes_count = @ + 1]
  IN  CASE \/ opcode = text_frame
           \/ opcode = continuation_frame /\ v.m_previous_data_frame = "text" ->
             WithUtf8Byte(new, byte)
        [] opcode = connection_close_frame
             /\ ~ all_bytes_loaded(v.m_expected_close_code) ->
             WithCloseCodeByte(new, byte)
        [] opcode = connection_close_frame
             /\ all_bytes_loaded(v.m_expected_close_code) -> WithUtf8Byte(new, byte)
        [] OTHER -> new

\* The bytes are processed up to the first invalid one: the validator, and the
\* data with the processed bytes unmasked.
process_and_unmask_next_payload_part(v, data) ==
  IF ~ is_state_still_valid(v) THEN [validator |-> v, data |-> <<>>]
  ELSE FoldLeft(LAMBDA r, byte :
                  IF r.validator.m_validation_state # "payload_part_is_valid" THEN r
                  ELSE [validator |-> process_payload_byte(r.validator, byte),
                        data |-> Append(r.data, unmask_byte(r.validator, byte))],
                [validator |-> set_validation_state(v, "payload_part_is_valid"),
                 data |-> <<>>], data)

\* The outcome of the frame, and the validator for the next one.
finish_frame(v) ==
  LET ended == v.m_current_frame.m_final_flag
      verdict == IF ended /\ ~ Utf8!finalized(v.m_utf8_checker) THEN "incorrect_utf8_data"
                 ELSE IF is_state_still_valid(v) THEN "frame_is_valid"
                 ELSE v.m_validation_state
  IN  <<verdict,
        [v EXCEPT !.m_validation_state = "initial_state",
                  !.m_working_state = "empty_state",
                  !.m_utf8_checker = IF ended THEN Utf8!reset(@) ELSE @,
                  !.m_previous_data_frame =
                     IF ended /\ ~ is_control_frame(v.m_current_frame.m_opcode)
                       THEN "none" ELSE @]>>

validator_reset(v) ==
  [v EXCEPT !.m_validation_state = "initial_state", !.m_working_state = "empty_state",
            !.m_previous_data_frame = "none", !.m_utf8_checker = Utf8!reset(@)]

(***************************************************************************)
(* ws_connection_t: reading frames                                         *)
(***************************************************************************)

\* The header the peer wrote and the bytes it sent; of a long frame the payload may
\* not have been sent yet.
HeaderOf(frame) ==
  [message_details(frame.final, frame.opcode, frame.length) EXCEPT
     !.m_rsv_flags = frame.rsv, !.m_mask_flag = frame.mask,
     !.m_masking_key = IF frame.mask THEN frame.key ELSE @]

BytesOf(frame) ==
  write_message_details(HeaderOf(frame))
    \o (IF frame.mask THEN mask_unmask_payload(frame.key, frame.payload)
        ELSE frame.payload)

\* The first n bytes are taken.  Bytes behind them that the same read brought stay in
\* the buffer, and whatever is read next begins with them.
Take(n) == stream' = SubSeq(stream, n + 1, Len(stream))

NotReading ==
  /\ frames = <<>>
  /\ stream = <<>>
  /\ remaining = 0
  /\ parser = ws_parser
  /\ validator = ws_protocol_validator
  /\ payload = <<>>
  /\ verdicts = <<>>
  /\ reading = "nothing"
  /\ m_read_state = "read_nothing"

init_read ==
  /\ m_read_state' = "read_any_frame"
  /\ reading' = "header"
  /\ frames' \in FrameStreams
  /\ stream' = FlattenSeq([i \in DOMAIN frames' |-> BytesOf(frames'[i])])
  /\ UNCHANGED <<remaining, parser, validator, payload, verdicts>>

Judged(verdict, details, data) ==
  verdicts' = Append(verdicts, [verdict |-> verdict, details |-> details,
                                payload |-> data, m_read_state |-> m_read_state])

\* The parser is reset, and the next byte is read as the first one of a header.
start_read_header ==
  /\ reading' = "header"
  /\ parser' = ws_parser
  /\ remaining' = 0

start_read_payload(p, length_remaining, validated) ==
  /\ reading' = IF validated THEN "payload" ELSE "skipped"
  /\ parser' = p
  /\ remaining' = length_remaining

\* Nothing is read any more.
StopReading(p) ==
  /\ reading' = "nothing"
  /\ parser' = p
  /\ remaining' = 0

\* What a wrong payload makes of m_read_state: the close frame of the peer is
\* awaited if the peer can still be understood.
handle_invalid_payload(verdict) ==
  m_read_state' = IF verdict # "invalid_close_code" /\ m_read_state = "read_any_frame"
                    THEN "read_only_close_frame" ELSE m_read_state

call_handler_on_current_message(p, v, data) ==
  LET finished == finish_frame(v)
      close == p.m_current_msg.m_opcode = connection_close_frame
  IN  /\ Judged(finished[1], p.m_current_msg, data)
      /\ validator' = finished[2]
      /\ payload' = <<>>
      /\ IF finished[1] = "frame_is_valid" /\ ~ close
           THEN start_read_header /\ UNCHANGED m_read_state
           ELSE /\ StopReading(p)
                /\ IF finished[1] = "frame_is_valid"
                     THEN m_read_state' = IF m_read_state = "read_any_frame"
                                            THEN "read_nothing" ELSE m_read_state
                     ELSE handle_invalid_payload(finished[1])

\* The next header, or first the rest of a payload that is not validated any more.
GoOnUnvalidated(p, length_remaining) ==
  IF length_remaining = 0 THEN start_read_header
  ELSE start_read_payload(p, length_remaining, FALSE)

\* A part of the payload has come; it may be empty.
validate_payload_part(p, v, part, length_remaining) ==
  LET result == process_and_unmask_next_payload_part(v, part)
      verdict == result.validator.m_validation_state
      data == payload \o result.data
  IN  CASE verdict = "payload_part_is_valid" /\ length_remaining = 0 ->
             call_handler_on_current_message(p, result.validator, data)
        [] verdict = "payload_part_is_valid" /\ length_remaining > 0 ->
             /\ validator' = result.validator
             /\ payload' = data
             /\ start_read_payload(p, length_remaining, TRUE)
             /\ UNCHANGED <<verdicts, m_read_state>>
        [] verdict = "incorrect_utf8_data" ->
             /\ Judged(verdict, p.m_current_msg, data)
             /\ handle_invalid_payload(verdict)
             /\ validator' = validator_reset(result.validator)
             /\ payload' = <<>>
             /\ GoOnUnvalidated(p, length_remaining)
        [] OTHER ->
             /\ Judged(verdict, p.m_current_msg, data)
             /\ handle_invalid_payload(verdict)
             /\ validator' = result.validator
             /\ payload' = <<>>
             /\ StopReading(p)

\* The header is complete after `parsed` of the n bytes in the buffer.  The validator
\* gets it, and what the buffer has of the payload is taken with it.
handle_parsed_header(p, parsed, n) ==
  LET v == process_new_frame(validator, p.m_current_msg)
      length == payload_len(p.m_current_msg)
      part == SubSeq(stream, parsed + 1, Min({n, parsed + length}))
  IN  IF v.m_validation_state # "frame_header_is_valid"
        THEN /\ Judged(v.m_validation_state, p.m_current_msg, <<>>)
             /\ validator' = v
             /\ Take(parsed)
             /\ StopReading(p)
             /\ UNCHANGED <<payload, m_read_state>>
      ELSE IF length = 0
        THEN Take(parsed) /\ call_handler_on_current_message(p, v, <<>>)
      ELSE /\ Take(parsed + Len(part))
           /\ validate_payload_part(p, v, part, length - Len(part))

\* Any number of bytes are in the buffer while a header is read, those of further
\* frames included.
consume_header_from_buffer ==
  /\ reading = "header"
  /\ \E n \in 1..Min({BufferSize, Len(stream)}) :
       LET result == parser_execute(parser, SubSeq(stream, 1, n))
       IN  IF header_parsed(result.parser)
             THEN handle_parsed_header(result.parser, result.parsed, n)
             ELSE /\ parser' = result.parser
                  /\ Take(n)
                  /\ UNCHANGED <<remaining, validator, payload, verdicts, reading,
                                 m_read_state>>
  /\ UNCHANGED frames

after_read_payload ==
  /\ reading = "payload"
  /\ \E n \in 1..Min({remaining, Len(stream)}) :
       /\ Take(n)
       /\ validate_payload_part(parser, validator, SubSeq(stream, 1, n), remaining - n)
  /\ UNCHANGED frames

after_read_skipped_payload ==
  /\ reading = "skipped"
  /\ \E n \in 1..Min({remaining, Len(stream)}) :
       Take(n) /\ GoOnUnvalidated(parser, remaining - n)
  /\ UNCHANGED <<frames, validator, payload, verdicts, m_read_state>>

ReadStep ==
  consume_header_from_buffer \/ after_read_payload \/ after_read_skipped_payload

(***************************************************************************)
(* Properties                                                              *)
(***************************************************************************)

\* The frame of which frame i continues the message: the last data frame before it,
\* or 0.
DataBefore(i) == Max({0} \cup {j \in 1..(i - 1) : ~ is_control_frame(frames[j].opcode)})

\* Is a message of the peer unfinished when frame i comes?
MessageOpen(i) == DataBefore(i) # 0 /\ ~ frames[DataBefore(i)].final

\* The first frame of the message that data frame i belongs to.
FirstOfMessage(i) ==
  Max({j \in 1..i : frames[j].opcode \in {text_frame, binary_frame}})

\* The bytes of the message of data frame i up to the end of this frame.
MessageUpTo(i) ==
  FlattenSeq([j \in 1..i |-> IF j < FirstOfMessage(i) \/ is_control_frame(frames[j].opcode)
                               THEN <<>> ELSE frames[j].payload])

\* Is it a text, or the beginning of one?
TextBegins(bytes) ==
  \A n \in 1..Len(bytes) :
    Utf8!accepts(FoldLeft(Utf8!process_byte, Utf8!utf8_checker, SubSeq(bytes, 1, n)))

Text(bytes) ==
  /\ TextBegins(bytes)
  /\ Utf8!finalized(FoldLeft(Utf8!process_byte, Utf8!utf8_checker, bytes))

CloseCodes == 1000..4999 \ ({1004, 1005, 1006} \cup 1012..2999)

\* Does frame i follow the protocol, after frames that do?
Follows(i) ==
  LET f == frames[i]
      control == f.opcode \in {connection_close_frame, ping_frame, pong_frame}
  IN  /\ f.opcode \in {0, 1, 2, 8, 9, 10} /\ f.mask /\ f.rsv = <<FALSE, FALSE, FALSE>>
      /\ control => f.final /\ f.length <= 125
      /\ ~ control => (f.opcode = continuation_frame <=> MessageOpen(i))
      /\ ~ control /\ frames[FirstOfMessage(i)].opcode = text_frame =>
           IF f.final THEN Text(MessageUpTo(i)) ELSE TextBegins(MessageUpTo(i))
      /\ f.opcode = connection_close_frame /\ f.length >= 2 =>
           /\ status_code_from_bin(f.payload) \in CloseCodes
           /\ Text(SubSeq(f.payload, 3, f.length))

\* Frame i comes between the bytes of a character of a text, or the message has
\* had such a frame.
InsideCharacter(i) ==
  \E j \in 1..i :
    /\ is_control_frame(frames[j].opcode)
    /\ MessageOpen(j)
    /\ frames[FirstOfMessage(DataBefore(j))].opcode = text_frame
    /\ ~ Text(MessageUpTo(DataBefore(j)))

\* The header of every frame is read as the peer wrote it and no byte of another
\* frame is taken for one of its bytes, in whatever pieces the bytes come, at the
\* lengths where the form of a header changes, and after a frame that was given up
\* in the middle; a frame is accepted with the payload the peer sent.
FramesReadExactly ==
  \A i \in DOMAIN verdicts :
    /\ verdicts[i].details = HeaderOf(frames[i])
    /\ IsPrefix(verdicts[i].payload, frames[i].payload)
    /\ verdicts[i].verdict = "frame_is_valid" => verdicts[i].payload = frames[i].payload

JudgedRight(i) == verdicts[i].verdict = "frame_is_valid" <=> Follows(i)

\* The frames that follow the protocol are accepted and the others are not, in
\* whatever pieces they come and with control frames between the frames of a
\* message, unless a control frame splits a character, as long as no text of the
\* peer was wrong: what the validator keeps of one frame does not change what it
\* says of the next.
FramesJudgedRight ==
  \A i \in DOMAIN verdicts :
    (\A j \in 1..(i - 1) : verdicts[j].verdict = "frame_is_valid") /\ ~ InsideCharacter(i)
      => JudgedRight(i)

\* What the comment on ws_protocol_validator_t says it checks: a control frame may
\* come after a data frame that is not final.  finish_frame asks the checker of
\* the unfinished text whether it is at the end of a character.
ControlFrameAccepted ==
  \A i \in DOMAIN verdicts :
    (\A j \in 1..(i - 1) : verdicts[j].verdict = "frame_is_valid") => JudgedRight(i)

\* What the comment in validate_payload_part says: after a wrong text the validator
\* is ready for more frames.  The checker keeps its state, and the close frame that
\* the connection waits for is refused if it has a reason.
ReadyAfterWrongText ==
  \A i \in DOMAIN verdicts :
    frames[i].opcode = connection_close_frame => JudgedRight(i)

=============================================================================
