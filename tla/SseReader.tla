------------------------------ MODULE SseReader -----------------------------
(***************************************************************************)
(* A client of the SSE endpoint (transports/http.py, http_stream_events),  *)
(* reading what the endpoint's generator writes (router.py).  The network  *)
(* cuts the text into chunks anywhere.                                     *)
(*                                                                         *)
(* The text is a sequence of line ends and of the halves of lines: of the  *)
(* "event: " line, which the client ignores, and of the data line of the   *)
(* n-th event, so that a chunk may end within a line or between the two    *)
(* line ends that close an event.                                          *)
(***************************************************************************)
EXTENDS Integers, SequencesExt

CONSTANT MaxSent  \* bound: events the server sends

ASSUME SseReaderAssumption == MaxSent \in Nat

VARIABLES
  written,   \* the events the server has written
  wire,      \* their text, as far as it has not arrived
  buffer,    \* the client's buffer
  yielded    \* what the client has yielded

readerVars == <<written, wire, buffer, yielded>>

LineEnd == <<"end", 0>>

\* The text of one event, the json of which has no line ends.
Text(n) ==
  <<<<"event", n>>, LineEnd, <<"data", n>>, <<"rest", n>>, LineEnd, LineEnd>>

\* Where buffer.split("\n\n", 1) cuts: the first of two line ends in a row.
Separators(b) == {i \in 1 .. Len(b) - 1 : b[i] = LineEnd /\ b[i + 1] = LineEnd}

Cut(b) == CHOOSE i \in Separators(b) : \A j \in Separators(b) : i <= j

(* _parse_sse: the data lines, joined; a line begins where another ended.  *)
(* A line that has lost its half is no json, and the event is its text.    *)
ParseSse(b) ==
  LET starts == {i \in DOMAIN b : b[i][1] = "data" /\ (i = 1 \/ b[i - 1] = LineEnd)} IN
  {IF i < Len(b) /\ b[i + 1] = <<"rest", b[i][2]>> THEN b[i][2] ELSE 0 : i \in starts}

-----------------------------------------------------------------------------
ReaderInit == written = 0 /\ wire = <<>> /\ buffer = <<>> /\ yielded = <<>>

WriteEvent ==
  /\ written < MaxSent
  /\ written' = written + 1
  /\ wire' = wire \o Text(written')
  /\ UNCHANGED <<buffer, yielded>>

\* Mutant: what the last chunk left is dropped.
ReceiveAnew ==
  /\ Separators(buffer) = {}
  /\ \E n \in 1 .. Len(wire) :
       /\ buffer' = SubSeq(wire, 1, n)
       /\ wire' = SubSeq(wire, n + 1, Len(wire))
  /\ UNCHANGED <<written, yielded>>

\* The next chunk, once the buffer holds no whole event.
Receive ==
  /\ Separators(buffer) = {}
  /\ \E n \in 1 .. Len(wire) :
       /\ buffer' = buffer \o SubSeq(wire, 1, n)
       /\ wire' = SubSeq(wire, n + 1, Len(wire))
  /\ UNCHANGED <<written, yielded>>

YieldEvent ==
  LET at == Cut(buffer)
      event == ParseSse(SubSeq(buffer, 1, at - 1)) IN
  /\ Separators(buffer) # {}
  /\ buffer' = SubSeq(buffer, at + 2, Len(buffer))
  /\ yielded' = yielded \o SetToSeq(event)
  /\ UNCHANGED <<written, wire>>

ReaderNext == WriteEvent \/ Receive \/ YieldEvent

ReaderSpec == ReaderInit /\ [][ReaderNext]_readerVars

-----------------------------------------------------------------------------
(* However the text is cut, the client yields the events that were sent,   *)
(* in their order, each once and whole; and once everything has arrived    *)
(* and is read, none is missing.                                           *)
StreamReadInOrder ==
  /\ yielded = [i \in 1 .. Len(yielded) |-> i]
  /\ wire = <<>> /\ Separators(buffer) = {} => Len(yielded) = written
=============================================================================
