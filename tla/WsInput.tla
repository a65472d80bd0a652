------------------------------ MODULE WsInput ------------------------------
(***************************************************************************)
(* What a client sends over one connection, cut into reads by the network: *)
(* a request with its body, then, on a websocket, frames.  HttpRequest and *)
(* Hybi13 take turns at the bytes: handle_read_handshake hands those that  *)
(* follow the request to handle_read_frame.                                *)
(*                                                                         *)
(* Where a read ends is up to the network; what the server makes of the    *)
(* bytes must not depend on it.                                            *)
(***************************************************************************)
EXTENDS HttpRequest

CONSTANTS PayloadBasic, PayloadExtended, MaxMessage,
          Inputs    \* what a client may send: [lines, body, frames]

VARIABLES
    sent,       \* what this client sends
    stream,     \* the bytes of it that have not been read
    upgraded,   \* the connection is a websocket
    parse, basic, extended, data, control, currentMsg, delivered, error,
    frameNeeded \* m_bytes_needed of hybi13

Frames == INSTANCE Hybi13 WITH needed <- frameNeeded

frameOnly == <<parse, frameNeeded, basic, extended, data, control, currentMsg, delivered, error>>
requestOnly == <<lineBuf, headerBytes, headers, needed, body, status>>
vars == <<sent, stream, upgraded, reqVars, frameOnly>>

HeaderLine == [kind : {"request", "host", "upgrade", "other", "junk"}, size : Nat \ {0}]
        \cup [kind : {"length"}, size : Nat \ {0}, n : Nat]

ASSUME SizesAssumption ==
    PayloadBasic \in Nat /\ PayloadExtended \in Nat /\ MaxMessage \in Nat /\ PayloadBasic <= PayloadExtended
ASSUME InputsAssumption ==
    Inputs \subseteq [lines : Seq(HeaderLine), body : Nat, frames : Seq(Frames!Frame)]

FramesOf(input) == FlattenSeq([i \in DOMAIN input.frames |-> Frames!FrameBytes(input.frames[i])])

StreamOf(input) ==
    Bytes(input.lines) \o <<CR, LF>> \o [i \in 1 .. input.body |-> BodyByte] \o FramesOf(input)

Init ==
    /\ RequestInit /\ Frames!FramesInit
    /\ sent \in Inputs
    /\ stream = StreamOf(sent)
    /\ upgraded = FALSE

\* Everything read has been consumed, and more is wanted.
WantsBytes ==
    /\ chunk = <<>>
    /\ IF upgraded THEN ~ error /\ parse # "ready" /\ frameNeeded > 0 ELSE status = "wait"

\* async_read_at_least(1, ...).
Read ==
    /\ WantsBytes
    /\ \E n \in 1 .. Len(stream) :
          /\ chunk' = SubSeq(stream, 1, n)
          /\ stream' = SubSeq(stream, n + 1, Len(stream))
    /\ UNCHANGED <<sent, upgraded, requestOnly, frameOnly>>

ReadRequest ==
    /\ Consume
    /\ UNCHANGED <<sent, stream, upgraded, frameOnly>>

\* m_buf_cursor: the rest of m_buf is read as frames once the response has been written.
Upgrade ==
    /\ status = "ready" /\ Has("upgrade") /\ ~ upgraded
    /\ upgraded' = TRUE
    /\ UNCHANGED <<sent, stream, reqVars, frameOnly>>

ReadFrames ==
    /\ upgraded
    /\ Frames!ConsumeFrames
    /\ UNCHANGED <<sent, stream, upgraded, requestOnly>>

Next == Read \/ ReadRequest \/ Upgrade \/ ReadFrames

Spec == Init /\ [][Next]_vars

-----------------------------------------------------------------------------
(* What the bytes mean, reads aside.                                       *)

HeaderKinds == {"host", "length", "upgrade", "other"}
KindAmong(lines, kinds) == {i \in DOMAIN lines : lines[i].kind \in kinds}

\* The length of the body that the header announces.
Announced(lines) ==
    IF KindAmong(lines, {"length"}) = {} THEN 0 ELSE lines[Min(KindAmong(lines, {"length"}))].n

IsGoodRequest(lines) ==
    /\ KindAmong(lines, {"request"}) = {1}
    /\ KindAmong(lines, HeaderKinds) = 2 .. Len(lines)
    /\ KindAmong(lines, {"host"}) # {}
    /\ Announced(lines) <= MaxBody

\* Of every input: the length is announced once at most; a request that is in order is
\* followed by frames only if its body is as long as that; and its header fits, a byte
\* being counted five times at most.
LengthsAreOnce ==
    \A input \in Inputs : \A i, j \in KindAmong(input.lines, {"length"}) : i = j
BodiesAreWhole ==
    \A input \in Inputs : IsGoodRequest(input.lines) =>
       /\ input.body <= Announced(input.lines)
       /\ input.frames # <<>> => input.body = Announced(input.lines)
HeaderSize(input) == Len(Bytes(input.lines)) + 2
HeadersFit ==
    \A input \in Inputs : IsGoodRequest(input.lines) => 5 * HeaderSize(input) <= MaxHeader

IsControl(f) == f.op \in Frames!ControlOps

\* A frame that the protocol allows after the fragments of an unfinished message.
IsGoodFrame(f, open) ==
    /\ f.masked /\ ~ f.rsv
    /\ f.op \in Frames!DataOps \cup Frames!ControlOps
    /\ IF IsControl(f) THEN f.fin ELSE (f.op = "continuation") = (open # Frames!NoMessage)
    /\ f.code = CASE Len(f.payload) <= PayloadBasic -> "small"
                  [] Len(f.payload) \in PayloadBasic + 1 .. PayloadExtended -> "16bit"
                  [] OTHER -> "64bit"
    /\ IsControl(f) => f.code = "small"

\* Text in which every lead is followed by a tail, and every tail preceded by a lead; at
\* the end of a message no lead is left alone.
IsGoodText(units, mustEnd) ==
    /\ \A i \in DOMAIN units : units[i] = "tail" <=> i > 1 /\ units[i - 1] = "lead"
    /\ mustEnd => units = <<>> \/ Last(units) # "lead"

\* The effect of one more frame: the messages so far, the unfinished one, and whether a
\* frame has been refused.
AddFrame(acc, f) ==
    LET begun == IF IsControl(f) \/ acc.open = Frames!NoMessage
                   THEN [op |-> f.op, payload |-> f.payload]
                   ELSE [acc.open EXCEPT !.payload = @ \o f.payload]
    IN IF acc.failed THEN acc
       ELSE IF \/ ~ IsGoodFrame(f, acc.open)
               \/ ~ IsControl(f) /\ Len(begun.payload) > MaxMessage
               \/ begun.op = "text" /\ ~ IsGoodText(begun.payload, f.fin)
       THEN [acc EXCEPT !.failed = TRUE]
       ELSE IF f.fin
       THEN [out |-> Append(acc.out, begun), failed |-> FALSE,
             open |-> IF IsControl(f) THEN acc.open ELSE Frames!NoMessage]
       ELSE [acc EXCEPT !.open = begun]

Meaning(frames) ==
    FoldLeft(AddFrame, [out |-> <<>>, open |-> Frames!NoMessage, failed |-> FALSE], frames)

\* Of every input: no text of several frames stops inside a character.  finalize_message
\* looks at the opcode of the last frame where it means that of the message, and lets
\* such a text through, although "text messages end on a valid UTF8 code point".
FragmentedTextsEnd ==
    \A input \in Inputs : \A k \in DOMAIN input.frames :
        LET f == input.frames[k]
            open == Meaning(SubSeq(input.frames, 1, k - 1)).open
        IN  f.op = "continuation" /\ f.fin /\ open.op = "text" =>
                open.payload \o f.payload = <<>> \/ Last(open.payload \o f.payload) # "lead"

-----------------------------------------------------------------------------

\* However its bytes arrive, a request is taken as it was written: its lines, its body
\* and not a byte of what follows; and none is refused that is in order.  The body is
\* what Content-Length announces, in a request to upgrade as in any other: a comment in
\* the code excepts the former, the code and HTTP do not.  (MaxHeader is out of reach
\* here: what counts towards it does depend on the reads.)
RequestIsRead ==
    /\ status = "ready" =>
          /\ IsGoodRequest(sent.lines)
          /\ headers = sent.lines
          /\ body = Announced(sent.lines)
          /\ ~ upgraded => chunk \o stream = FramesOf(sent)
    /\ status = "refused" => ~ IsGoodRequest(sent.lines)

\* However their bytes arrive, frames are put together to the messages they mean, up to
\* the first that is not allowed: fragments with control frames in between, masking
\* keys and the text validator survive every cut.  (FragmentedTextsEnd is assumed.)
FramesAreRead ==
    LET meaning == Meaning(sent.frames)
    IN /\ IsPrefix(delivered, meaning.out)
       /\ error => meaning.failed
       /\ upgraded /\ (error \/ (WantsBytes /\ stream = <<>>)) =>
             delivered = meaning.out /\ error = meaning.failed
=============================================================================
