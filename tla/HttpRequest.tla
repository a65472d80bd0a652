---------------------------- MODULE HttpRequest ----------------------------
(***************************************************************************)
(* How the server reads a request: the class request of the websocketpp's  *)
(* http parser (consume), fed by handle_read_handshake with whatever bytes *)
(* a read of the socket has brought.                                       *)
(*                                                                         *)
(* A byte is [line |-> the line it belongs to, at |-> its place in it]; a  *)
(* line is [kind, size] and, for Content-Length, its value n.              *)
(***************************************************************************)
EXTENDS Integers, SequencesExt

CONSTANTS MaxHeader,   \* max_header_size
          MaxBody      \* max_body_size

ASSUME LimitsAssumption == MaxHeader \in Nat /\ MaxBody \in Nat

VARIABLES
    chunk,        \* the bytes of m_buf (of the connection) that are not consumed
    lineBuf,      \* m_buf of the request: the bytes of lines that are not processed
    headerBytes,  \* m_header_bytes
    headers,      \* the lines that have been processed, the request line first
    needed,       \* m_body_bytes_needed
    body,         \* how many bytes m_body has
    status        \* "wait" for a read, "lines": in the loop of consume, "ready", "refused"

reqVars == <<chunk, lineBuf, headerBytes, headers, needed, body, status>>

CR == [line |-> [kind |-> "delimiter", size |-> 2], at |-> 1]
LF == [line |-> [kind |-> "delimiter", size |-> 2], at |-> 2]
BodyByte == [line |-> [kind |-> "body", size |-> 0], at |-> 1]
LineBytes(line) == [i \in 1 .. line.size |-> [line |-> line, at |-> i]]
Bytes(lines) == FlattenSeq([i \in DOMAIN lines |-> LineBytes(lines[i]) \o <<CR, LF>>])

RequestInit ==
    /\ chunk = <<>> /\ lineBuf = <<>>
    /\ headerBytes = 0
    /\ headers = <<>>
    /\ needed = 0 /\ body = 0
    /\ status = "wait"

\* What two bytes delimit lines, and how many bytes a line counts for: header_delimiter is
\* an array of three characters.
Delimiters == {i \in 1 .. Len(lineBuf) - 1 : lineBuf[i] = CR /\ lineBuf[i + 1] = LF}
Counted(n) == n + 3

\* The first line of lineBuf, and what follows it.
Line == SubSeq(lineBuf, 1, Min(Delimiters) - 1)
Rest == SubSeq(lineBuf, Min(Delimiters) + 2, Len(lineBuf))

\* The first line is a request line, the others have a separator; the bytes of a line
\* that has not been put together rightly are neither.
IsRequestLine(bytes) == bytes = LineBytes(bytes[1].line) /\ bytes[1].line.kind = "request"
IsHeader(bytes) ==
    bytes = LineBytes(bytes[1].line) /\ bytes[1].line.kind \in {"host", "length", "upgrade", "other"}

Has(kind) == \E i \in DOMAIN headers : headers[i].kind = kind
Length == headers[CHOOSE i \in DOMAIN headers : headers[i].kind = "length"].n

-----------------------------------------------------------------------------

\* consume copies what has been read, or takes the body from it.
TakeLines ==
    /\ status = "wait" /\ chunk # <<>> /\ needed = 0
    /\ lineBuf' = lineBuf \o chunk
    /\ chunk' = <<>>
    /\ status' = "lines"
    /\ UNCHANGED <<headerBytes, headers, needed, body>>

\* Fault: the bytes that follow the body are taken for a part of it.
TakeBodyAll ==
    /\ status = "wait" /\ chunk # <<>> /\ needed > 0
    /\ body' = body + Len(chunk)
    /\ needed' = needed - Min({needed, Len(chunk)})
    /\ chunk' = <<>>
    /\ status' = IF needed' = 0 THEN "ready" ELSE "wait"
    /\ UNCHANGED <<lineBuf, headerBytes, headers>>

TakeBody ==
    /\ status = "wait" /\ chunk # <<>> /\ needed > 0
    /\ LET processed == Min({needed, Len(chunk)})
       IN /\ body' = body + processed
          /\ needed' = needed - processed
          /\ chunk' = SubSeq(chunk, processed + 1, Len(chunk))
    /\ status' = IF needed' = 0 THEN "ready" ELSE "wait"
    /\ UNCHANGED <<lineBuf, headerBytes, headers>>

Refuse ==
    /\ status' = "refused"
    /\ UNCHANGED <<chunk, lineBuf, headers, needed, body>>

\* No further delimiter: the rest is kept for the next read.  Its bytes are counted
\* again then, and the three for a delimiter are not taken back.
OutOfLines ==
    /\ status = "lines" /\ Delimiters = {}
    /\ IF headerBytes + Counted(Len(lineBuf)) > MaxHeader
         THEN Refuse /\ headerBytes' = headerBytes + Counted(Len(lineBuf))
         ELSE /\ headerBytes' = headerBytes + Counted(0)
              /\ status' = "wait"
              /\ UNCHANGED <<chunk, lineBuf, headers, needed, body>>

\* A line: process for the first one, process_header for the others.
ProcessLine ==
    /\ status = "lines" /\ Delimiters # {} /\ Line # <<>>
    /\ headerBytes' = headerBytes + Counted(Len(Line))
    /\ IF headerBytes' <= MaxHeader /\ (IF headers = <<>> THEN IsRequestLine(Line) ELSE IsHeader(Line))
         THEN /\ headers' = Append(headers, Line[1].line)
              /\ lineBuf' = Rest
              /\ UNCHANGED <<chunk, needed, body, status>>
         ELSE Refuse

\* A blank line: prepare_body, and the bytes of the body that have been read already.
FinishHeader ==
    /\ status = "lines" /\ Delimiters # {} /\ Line = <<>>
    /\ headerBytes' = headerBytes + Counted(0)
    /\ IF \/ headerBytes' > MaxHeader
          \/ headers = <<>> \/ ~ Has("host")
          \/ Has("length") /\ Length > MaxBody
         THEN Refuse
         ELSE LET n == IF Has("length") THEN Length ELSE 0
                  processed == Min({n, Len(Rest)})
              IN /\ body' = processed
                 /\ needed' = n - processed
                 /\ chunk' = SubSeq(Rest, processed + 1, Len(Rest))
                 /\ lineBuf' = <<>>
                 /\ status' = IF needed' = 0 THEN "ready" ELSE "wait"
                 /\ UNCHANGED headers

Consume == TakeLines \/ TakeBody \/ OutOfLines \/ ProcessLine \/ FinishHeader
=============================================================================
