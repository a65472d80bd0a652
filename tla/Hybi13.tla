------------------------------- MODULE Hybi13 -------------------------------
(***************************************************************************)
(* How the server reads frames: the class hybi13 of websocketpp's          *)
(* processors (consume), fed by handle_read_frame with whatever bytes a    *)
(* read of the socket has brought.  No extension is enabled.               *)
(*                                                                         *)
(* A frame is [op, fin, rsv, masked, code, payload]: code is "small",      *)
(* "16bit" or "64bit", the way its size is encoded.  A byte of a payload   *)
(* is [unit, at]: the unit of text it stands for, and the byte of the      *)
(* masking key it has been masked with.                                    *)
(***************************************************************************)
EXTENDS Integers, SequencesExt

CONSTANTS PayloadBasic,     \* limits::payload_size_basic
          PayloadExtended,  \* limits::payload_size_extended
          MaxMessage        \* m_max_message_size

VARIABLES
    chunk,      \* the bytes of m_buf (of the connection) that are not consumed
    parse,      \* m_state
    needed,     \* m_bytes_needed
    basic,      \* m_basic_header: the bytes of it that have been read
    extended,   \* m_extended_header: the bytes of it that have been read
    data,       \* m_data_msg
    control,    \* m_control_msg
    currentMsg, \* whether m_current_msg is the data or the control message
    delivered,  \* the messages that get_message has returned
    error       \* consume has returned an error: nothing more is read

frameVars == <<chunk, parse, needed, basic, extended, data, control, currentMsg, delivered, error>>

DataOps == {"text", "binary", "continuation"}
ControlOps == {"close", "ping", "pong"}
ReservedOps == {"reserved"}
Units == {"plain", "lead", "tail"}
\* What a header can say; the size of a payload fits its code.
Frame == {f \in [op : DataOps \cup ControlOps \cup ReservedOps, fin : BOOLEAN, rsv : BOOLEAN,
                 masked : BOOLEAN, code : {"small", "16bit", "64bit"}, payload : Seq(Units)] :
             /\ f.code = "small" => Len(f.payload) <= PayloadBasic
             /\ f.code = "16bit" => Len(f.payload) <= PayloadExtended}

ExtendedLength(code) == CASE code = "small" -> 0 [] code = "16bit" -> 2 [] code = "64bit" -> 8
FrameBytes(f) ==
    LET head == [op |-> f.op, fin |-> f.fin, rsv |-> f.rsv]
        size == [masked |-> f.masked, code |-> f.code, size |-> Len(f.payload)]
    IN <<head, size>>
       \o [i \in 1 .. ExtendedLength(f.code) + (IF f.masked THEN 4 ELSE 0) |->
                 [at |-> i, size |-> Len(f.payload)]]
       \o [i \in DOMAIN f.payload |-> [unit |-> f.payload[i], at |-> (i - 1) % 4]]

NoMessage == [op |-> "none"]

FramesInit ==
    /\ chunk = <<>>
    /\ parse = "basic"
    /\ needed = 2
    /\ basic = <<>> /\ extended = <<>>
    /\ data = NoMessage /\ control = NoMessage
    /\ currentMsg = "data"
    /\ delivered = <<>>
    /\ error = FALSE

-----------------------------------------------------------------------------

\* consume's loop goes on.
Looping == ~ error /\ (chunk # <<>> \/ needed = 0)

Op == basic[1].op
\* The bytes of the chunk that are wanted.
Wanted == Min({needed, Len(chunk)})
After(n) == SubSeq(chunk, n + 1, Len(chunk))

Fail ==
    /\ error' = TRUE
    /\ UNCHANGED <<chunk, parse, needed, basic, extended, data, control, currentMsg, delivered>>

\* validate_incoming_basic_header.
BasicHeaderIsValid(header) ==
    LET op == header[1].op
        isControl == op \in ControlOps
        newMsg == data = NoMessage
    IN /\ isControl => header[2].code = "small" /\ header[1].fin
       /\ ~ header[1].rsv
       /\ op \notin ReservedOps
       /\ op = "continuation" => ~ newMsg
       /\ op \in DataOps \ {"continuation"} => newMsg
       /\ header[2].masked

\* copy_basic_header_bytes, which may get one byte only.
ReadBasicHeader ==
    /\ parse = "basic" /\ Looping
    /\ LET header == basic \o SubSeq(chunk, 1, Wanted)
       IN IF Len(header) < 2
            THEN /\ basic' = header
                 /\ chunk' = After(Wanted)
                 /\ needed' = needed - Wanted
                 /\ UNCHANGED <<parse, extended, data, control, currentMsg, delivered, error>>
            ELSE IF ~ BasicHeaderIsValid(header)
            THEN Fail
            ELSE /\ basic' = header
                 /\ chunk' = After(Wanted)
                 /\ parse' = "extended"
                 /\ needed' = ExtendedLength(header[2].code) + 4
                 /\ UNCHANGED <<extended, data, control, currentMsg, delivered, error>>

\* get_payload_size.
PayloadSize(header) == IF basic[2].code = "small" THEN basic[2].size ELSE header[1].size

\* validate_incoming_extended_header.
IsMinimal(size) ==
    /\ basic[2].code = "16bit" => size > PayloadBasic
    /\ basic[2].code = "64bit" => size > PayloadExtended

\* A control frame gets a message of its own; a data frame starts one or, with a masking
\* key of its own, continues the one begun.
StartFrame ==
    IF Op \in ControlOps
      THEN /\ control' = [op |-> Op, payload |-> <<>>, key |-> 0, inPoint |-> FALSE]
           /\ currentMsg' = "control"
           /\ UNCHANGED data
      ELSE /\ data' = IF data = NoMessage
                        THEN [op |-> Op, payload |-> <<>>, key |-> 0, inPoint |-> FALSE]
                        ELSE [data EXCEPT !.key = 0]
           /\ currentMsg' = "data"
           /\ UNCHANGED control

TooBig(size) ==
    /\ Op \notin ControlOps
    /\ size + (IF data = NoMessage THEN 0 ELSE Len(data.payload)) > MaxMessage

\* copy_extended_header_bytes.
ReadExtendedHeader ==
    /\ parse = "extended" /\ Looping
    /\ LET header == extended \o SubSeq(chunk, 1, Wanted)
           size == PayloadSize(header)
       IN IF Wanted < needed
            THEN /\ extended' = header
                 /\ chunk' = After(Wanted)
                 /\ needed' = needed - Wanted
                 /\ UNCHANGED <<parse, basic, data, control, currentMsg, delivered, error>>
            ELSE IF ~ IsMinimal(size) \/ TooBig(size)
            THEN Fail
            ELSE /\ extended' = header
                 /\ chunk' = After(Wanted)
                 /\ parse' = "application"
                 /\ needed' = size
                 /\ StartFrame
                 /\ UNCHANGED <<basic, delivered, error>>

-----------------------------------------------------------------------------

CurrentMsg == IF currentMsg = "data" THEN data ELSE control

\* Unmasking with the key where it stands, and where it stands afterwards.
Unmask(bytes, key) ==
    [i \in DOMAIN bytes |-> IF bytes[i].at = (key + i - 1) % 4 THEN bytes[i].unit ELSE "garbled"]

\* Fault: the prepared key is not shifted.
ShiftedNot(key, n) == key

\* circshift_prepared_key.
Shifted(key, n) == (key + n) % 4

\* The validator's state after a unit: whether it is inside a code point; a unit out of
\* place is refused at once.
Misplaced(inPoint, unit) == unit = "garbled" \/ inPoint # (unit = "tail")
Decodes(inPoint, units) ==
    \A i \in DOMAIN units : ~ Misplaced(IF i = 1 THEN inPoint ELSE units[i - 1] = "lead", units[i])
EndsInPoint(inPoint, units) == IF units = <<>> THEN inPoint ELSE Last(units) = "lead"

\* reset_headers.
ResetHeaders ==
    /\ parse' = "basic"
    /\ needed' = 2
    /\ basic' = <<>> /\ extended' = <<>>

\* finalize_message looks for an unfinished code point when the last frame is of type text.
Unfinished(message) == Op = "text" /\ message.inPoint

\* process_payload_bytes, and the end of the frame.
ReadPayload ==
    /\ parse = "application" /\ Looping
    /\ LET units == Unmask(SubSeq(chunk, 1, Wanted), CurrentMsg.key)
           message == [CurrentMsg EXCEPT !.payload = @ \o units,
                                         !.key = Shifted(@, Wanted),
                                         !.inPoint = EndsInPoint(@, units)]
       IN IF \/ CurrentMsg.op = "text" /\ ~ Decodes(CurrentMsg.inPoint, units)
             \/ Wanted = needed /\ basic[1].fin /\ Unfinished(message)
            THEN Fail
            ELSE /\ chunk' = After(Wanted)
                 /\ data' = IF currentMsg = "data" THEN message ELSE data
                 /\ control' = IF currentMsg = "control" THEN message ELSE control
                 /\ IF Wanted < needed
                      THEN needed' = needed - Wanted /\ UNCHANGED <<parse, basic, extended>>
                      ELSE IF basic[1].fin
                      THEN parse' = "ready" /\ needed' = 0 /\ UNCHANGED <<basic, extended>>
                      ELSE ResetHeaders
                 /\ UNCHANGED <<currentMsg, delivered, error>>

\* get_message, called by handle_read_frame.
GetMessage ==
    /\ parse = "ready" /\ ~ error
    /\ delivered' = Append(delivered, [op |-> CurrentMsg.op, payload |-> CurrentMsg.payload])
    /\ data' = IF currentMsg = "data" THEN NoMessage ELSE data
    /\ control' = IF currentMsg = "control" THEN NoMessage ELSE control
    /\ ResetHeaders
    /\ UNCHANGED <<chunk, currentMsg, error>>

ConsumeFrames == ReadBasicHeader \/ ReadExtendedHeader \/ ReadPayload \/ GetMessage
=============================================================================
