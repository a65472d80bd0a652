----------------------------- MODULE MCWsInput -----------------------------
(***************************************************************************)
(* TLC instance of WsInput: requests of all kinds, and websockets with two *)
(* or three frames.  A payload of up to 2 units has a small size, one of   *)
(* up to 4 a 16 bit one.                                                   *)
(***************************************************************************)
EXTENDS WsInput

Line1(kind, size) == [kind |-> kind, size |-> size]
Start == Line1("request", 3)
Host == Line1("host", 1)
Other == Line1("other", 2)
Junk == Line1("junk", 1)
ToUpgrade == Line1("upgrade", 1)
BodyOf(n) == [kind |-> "length", size |-> 1, n |-> n]

Http(lines, bytes) == [lines |-> lines, body |-> bytes, frames |-> <<>>]
Requests == {
    Http(<<Start, Host>>, 0), Http(<<Start, Other, Host, BodyOf(3)>>, 3),
    Http(<<Start, BodyOf(0), Host>>, 0), Http(<<Start, Host, BodyOf(3)>>, 2),
    Http(<<Start, Host, BodyOf(5)>>, 5), Http(<<Start, Other>>, 0), Http(<<Host, Start>>, 0),
    Http(<<Start, Junk, Host>>, 0), Http(<<>>, 0)}

Frame(op, fin, payload) ==
    [op |-> op, fin |-> fin, rsv |-> FALSE, masked |-> TRUE, payload |-> payload,
     code |-> CASE Len(payload) <= 2 -> "small" [] Len(payload) \in 3 .. 4 -> "16bit" [] OTHER -> "64bit"]
Text == Frame("text", TRUE, <<"lead", "tail", "plain", "lead", "tail">>)
Whole == {
    Text, Frame("binary", TRUE, <<"tail">>), Frame("text", TRUE, <<>>),
    Frame("text", TRUE, <<"plain", "lead">>), Frame("text", TRUE, <<"tail">>),
    Frame("ping", TRUE, <<"tail", "lead">>), Frame("close", TRUE, <<>>)}
Fragments == {
    Frame("text", FALSE, <<"plain", "plain", "lead">>), Frame("continuation", FALSE, <<"tail">>),
    Frame("continuation", TRUE, <<"tail", "plain">>), Frame("binary", FALSE, <<>>)}
Bad == {
    [Frame("text", TRUE, <<"plain">>) EXCEPT !.masked = FALSE],
    [Frame("text", TRUE, <<"plain">>) EXCEPT !.rsv = TRUE],
    [Frame("text", TRUE, <<"plain">>) EXCEPT !.code = "16bit"],
    [Frame("text", TRUE, <<"plain", "plain", "plain">>) EXCEPT !.code = "64bit"],
    Frame("ping", FALSE, <<>>), Frame("ping", TRUE, <<"plain", "plain", "plain">>),
    Frame("reserved", TRUE, <<>>), Frame("binary", TRUE, [i \in 1 .. 7 |-> "plain"])}

Upgraded(frames) == [lines |-> <<Line1("request", 1), Host, ToUpgrade>>, body |-> 0, frames |-> frames]
Sockets ==
    {Upgraded(<<f, g>>) : f \in Whole \cup Fragments, g \in Whole \cup Fragments \cup Bad}
    \cup {Upgraded(<<f, g, h>>) : f \in Fragments, g \in Fragments \cup {Frame("ping", TRUE, <<"plain">>)},
                                  h \in Fragments}

\* Something follows a body, or a request without one: of a request to upgrade and of
\* others, whose client goes on without waiting for the response.
Followed == {
    [lines |-> <<Start, Host, BodyOf(3), ToUpgrade>>, body |-> 3, frames |-> <<Text>>],
    [lines |-> <<Start, Host, BodyOf(3)>>, body |-> 3, frames |-> <<Text>>],
    [lines |-> <<Start, BodyOf(0), Host>>, body |-> 0, frames |-> <<Text>>],
    [lines |-> <<Start, Host>>, body |-> 0, frames |-> <<Text>>]}

MCInputs == Requests \cup Sockets \cup Followed

ASSUME LengthsAreOnce /\ BodiesAreWhole /\ HeadersFit /\ FragmentedTextsEnd
=============================================================================
