------------------------------ MODULE Framing -------------------------------
(* One direction of a worker's TCP connection: FrameWriter and FrameReader     *)
(* (protocol.hpp) over TcpConnection (transport.cpp), fed by the threads that   *)
(* write to it and ending in the decoders of Wire.                             *)
(*                                                                             *)
(* "down" runs from the coordinator to the worker.  Its writers are the        *)
(* connection thread answering frames and the callers of issue_warm; every     *)
(* frame goes through send_frame, which holds the connection's send_mutex.     *)
(* "up" runs from the worker to the coordinator.  Its writers are the thread   *)
(* of connect() and run() and whoever calls request_shutdown(); they write     *)
(* to the connection directly and hold no lock.                                *)
(*                                                                             *)
(* The stream is a sequence of tagged words: two for a header, the payload,    *)
(* one for the checksum.  The tag stands for two facts about bytes: a payload  *)
(* does not look like a header, and crc32 tells apart the payloads that occur. *)
EXTENDS Wire

CONSTANTS
  Hellos, Acks, Reports, Topics, Results,   \* bodies of the messages sent
  MaxPayload,   \* kMaxPayload
  MaxFrames,    \* per writer: bound on the frames it sends
  MaxShort,     \* bound on the sends that take less than they are given
  MaxLost       \* bound on the words a break loses

VARIABLES
  dir,          \* the direction, fixed from the start
  cur,          \* per writer: the message it is writing
  rest,         \* per writer: the write_all calls left of its frame
  pos,          \* per writer: the place of its frame in started, 0 before
  holder,       \* who holds send_mutex
  begun,        \* per writer: frames it has set out to write
  shorts,       \* short sends so far
  stream,       \* words sent and not yet received
  open,         \* the connection is up
  phase,        \* what the reader does next, or why it left
  head,         \* the header it has read
  payload,      \* the payload it has read
  started,      \* history: messages in the order of their first word
  done,         \* history: places in started whose write returned true
  accepted,     \* history: the frames the reader returned
  overlapped    \* history: a word was written inside another writer's frame

vars == <<dir, cur, rest, pos, holder, begun, shorts, stream, open, phase, head,
          payload, started, done, accepted, overlapped>>

wvars == <<cur, rest, pos, holder, begun, shorts, started, done, overlapped>>
rvars == <<phase, head, payload, accepted>>

Writers == {"answers", "caller"}
NoMsg   == [type |-> "none"]
NoHead  == [type |-> "none", len |-> 0]
Left    == {"bad", "eof", "unwelcome"}

-----------------------------------------------------------------------------
(* Messages and frames *)

Plain(type)       == [type |-> type]
Msgs(type, bodies) == {[type |-> type, body |-> b] : b \in bodies}

known_type ==
  {"HELLO", "HELLO_ACK", "REPORT", "WARM_TOPIC", "WARM_RESULT", "PING", "PONG",
   "SHUTDOWN", "ERROR", "READY"}

\* The worker connects, then reports, answers commands and pings; another of
\* its threads asks for shutdown.
UpMessages(w) ==
  IF w = "caller" THEN {Plain("SHUTDOWN")}
  ELSE IF begun[w] = 0 THEN Msgs("HELLO", Hellos)
  ELSE Msgs("REPORT", Reports) \cup Msgs("WARM_RESULT", Results) \cup {Plain("PONG")}

\* The coordinator answers the HELLO first (with ERROR when it cannot decode it)
\* and other frames later; issue_warm picks the worker from the moment it is
\* registered, which is before the answer is sent.
DownMessages(w) ==
  IF w = "caller" THEN Msgs("WARM_TOPIC", Topics)
  ELSE IF begun[w] = 0 THEN Msgs("HELLO_ACK", Acks) \cup {Plain("ERROR")}
  ELSE {Plain("PONG"), Plain("ERROR")}

Messages(w) == IF dir = "up" THEN UpMessages(w) ELSE DownMessages(w)

Encode(m) ==
  CASE m.type = "HELLO"       -> encode_hello(m.body)
    [] m.type = "HELLO_ACK"   -> encode_hello_ack(m.body)
    [] m.type = "REPORT"      -> encode_report(m.body)
    [] m.type = "WARM_TOPIC"  -> encode_warm_topic(m.body)
    [] m.type = "WARM_RESULT" -> encode_warm_result(m.body)
    [] OTHER                  -> <<>>

\* A frame whose handler takes nothing from its payload is handled by its type.
Decode(type, words_) ==
  LET s == [i \in DOMAIN words_ |-> words_[i][2]]
  IN  CASE type = "HELLO"       -> decode_hello(s)
        [] type = "HELLO_ACK"   -> decode_hello_ack(s)
        [] type = "REPORT"      -> decode_report(s)
        [] type = "WARM_TOPIC"  -> decode_warm_topic(s)
        [] type = "WARM_RESULT" -> decode_warm_result(s)
        [] OTHER                -> Got(<<>>, 1)

\* Everything that may be sent, in either direction.
Sendable ==
  Msgs("HELLO", Hellos) \cup Msgs("HELLO_ACK", Acks) \cup Msgs("REPORT", Reports)
    \cup Msgs("WARM_TOPIC", Topics) \cup Msgs("WARM_RESULT", Results)
    \cup {Plain("PONG"), Plain("ERROR"), Plain("SHUTDOWN")}

ASSUME BoundsAssumption ==
  {MaxPayload, MaxShort, MaxLost} \subseteq Nat /\ MaxFrames \in [Writers -> Nat]

ASSUME BodiesAssumption ==
  /\ \A h \in Hellos : IsHello(h)
  /\ \A p \in Reports : IsReport(p)
  /\ Acks \subseteq HelloAcks /\ Topics \subseteq WarmTopics /\ Results \subseteq WarmResults

Data(m)  == LET s == Encode(m) IN [i \in DOMAIN s |-> <<"data", s[i]>>]
Magic    == <<"magic", 0>>
crc32(p) == <<"crc", p>>

Header(m) == <<Magic, <<"head", [type |-> m.type, len |-> Len(Data(m))]>> >>

\* Mutant: the payload written with its checksum, and the checksum again.
Chunks_TwoChecksums(m) ==
  <<Header(m), Data(m), <<crc32(Data(m))>>, <<crc32(Data(m))>> >>

\* The write_all calls of FrameWriter::write; an empty payload has none.
Chunks(m) ==
  <<Header(m)>> \o (IF Data(m) = <<>> THEN <<>> ELSE <<Data(m)>>)
    \o << <<crc32(Data(m))>> >>

HeaderOk(h) ==
  /\ h[1] = Magic
  /\ h[2][1] = "head"
  /\ h[2][2].type \in known_type
  /\ h[2][2].len <= MaxPayload

\* Mutant: the checksum is read and not compared.
ChecksumOk_Ignored(p, c) == TRUE

ChecksumOk(p, c) == c = crc32(p)

-----------------------------------------------------------------------------
Init ==
  /\ dir \in {"up", "down"}
  /\ cur = [w \in Writers |-> NoMsg]
  /\ rest = [w \in Writers |-> <<>>]
  /\ pos = [w \in Writers |-> 0]
  /\ holder = "none"
  /\ begun = [w \in Writers |-> 0]
  /\ shorts = 0
  /\ stream = <<>>
  /\ open = TRUE
  /\ phase = "header"
  /\ head = NoHead
  /\ payload = <<>>
  /\ started = <<>>
  /\ done = {}
  /\ accepted = <<>>
  /\ overlapped = FALSE

Idle(w) == rest[w] = <<>>

\* Mutant: send_frame without its lock_guard.
Locks_Nothing(w) == holder' = holder

\* send_frame takes the mutex for the whole frame; the worker has none.
Locks(w)   == /\ dir = "down" => holder = "none"
              /\ holder' = IF dir = "down" THEN w ELSE holder
Unlocks(w) == holder' = IF holder = w THEN "none" ELSE holder

BeginWrite(w) ==
  /\ Idle(w)
  /\ begun[w] < MaxFrames[w]
  /\ Locks(w)
  /\ \E m \in Messages(w) :
       /\ Len(Encode(m)) <= MaxPayload
       /\ cur' = [cur EXCEPT ![w] = m]
       /\ rest' = [rest EXCEPT ![w] = Chunks(m)]
  /\ begun' = [begun EXCEPT ![w] = @ + 1]
  /\ UNCHANGED <<dir, pos, shorts, stream, open, started, done, overlapped>>
  /\ UNCHANGED rvars

\* write returns false before it sends a word of an oversized frame.
RefuseWrite(w) ==
  /\ Idle(w)
  /\ begun[w] < MaxFrames[w]
  /\ dir = "down" => holder = "none"
  /\ \E m \in Messages(w) : Len(Encode(m)) > MaxPayload
  /\ begun' = [begun EXCEPT ![w] = @ + 1]
  /\ UNCHANGED <<dir, cur, rest, pos, holder, shorts, stream, open, started,
                 done, overlapped>>
  /\ UNCHANGED rvars

MidFrame(w) == ~Idle(w) /\ pos[w] # 0

\* How many of n words a send takes: all, or, to keep the choices few, only the
\* first or all but the last.
Sizes(n) == {n} \cup ({1, n - 1} \ {0})

\* One send: it takes k words of what write_all still has to pass on.
Send(w) ==
  /\ ~Idle(w)
  /\ open
  /\ \E k \in Sizes(Len(Head(rest[w]))) :
       LET chunk == Head(rest[w])
           left  == SubSeq(chunk, k + 1, Len(chunk))
           after == (IF left = <<>> THEN <<>> ELSE <<left>>) \o Tail(rest[w])
           place == IF pos[w] = 0 THEN Len(started) + 1 ELSE pos[w]
           last  == after = <<>>
       IN  /\ left # <<>> => shorts < MaxShort
           /\ shorts' = IF left # <<>> THEN shorts + 1 ELSE shorts
           /\ stream' = stream \o SubSeq(chunk, 1, k)
           /\ rest' = [rest EXCEPT ![w] = after]
           /\ started' = IF pos[w] = 0 THEN Append(started, cur[w]) ELSE started
           /\ pos' = [pos EXCEPT ![w] = IF last THEN 0 ELSE place]
           /\ cur' = [cur EXCEPT ![w] = IF last THEN NoMsg ELSE @]
           /\ done' = IF last THEN done \cup {place} ELSE done
           /\ IF last THEN Unlocks(w) ELSE holder' = holder
  /\ overlapped' = (overlapped \/ \E v \in Writers \ {w} : MidFrame(v))
  /\ UNCHANGED <<dir, begun, open>>
  /\ UNCHANGED rvars

\* send fails, write returns false, the lock is released.
SendFails(w) ==
  /\ ~Idle(w)
  /\ ~open
  /\ rest' = [rest EXCEPT ![w] = <<>>]
  /\ cur' = [cur EXCEPT ![w] = NoMsg]
  /\ pos' = [pos EXCEPT ![w] = 0]
  /\ Unlocks(w)
  /\ UNCHANGED <<dir, begun, shorts, stream, open, started, done, overlapped>>
  /\ UNCHANGED rvars

\* An end closes or dies: nothing more is sent, and of what was sent only a
\* part may still arrive.
Break ==
  /\ open
  /\ open' = FALSE
  /\ \E lost \in 0..MaxLost : stream' = SubSeq(stream, 1, Len(stream) - lost)
  /\ UNCHANGED <<dir, wvars, rvars>>

-----------------------------------------------------------------------------
(* FrameReader::read: three read_exact calls, each waiting for all its words. *)

Need == CASE phase = "header"  -> 2
          [] phase = "payload" -> head.len
          [] phase = "check"   -> 1

Reading  == phase \notin Left
Take(n)  == SubSeq(stream, 1, n)
Consume(n) == stream' = SubSeq(stream, n + 1, Len(stream))

ReadHeader ==
  /\ phase = "header"
  /\ Len(stream) >= 2
  /\ Consume(2)
  /\ IF HeaderOk(Take(2))
     THEN phase' = "payload" /\ head' = stream[2][2]
     ELSE phase' = "bad" /\ head' = head
  /\ UNCHANGED <<dir, wvars, open, payload, accepted>>

\* Mutant: read_exact of no bytes takes recv's 0 for the end of the stream.
ReadPayload_EmptyIsEof ==
  /\ phase = "payload"
  /\ Len(stream) >= head.len
  /\ Consume(head.len)
  /\ payload' = Take(head.len)
  /\ phase' = IF head.len = 0 THEN "eof" ELSE "check"
  /\ UNCHANGED <<dir, wvars, open, head, accepted>>

ReadPayload ==
  /\ phase = "payload"
  /\ Len(stream) >= head.len
  /\ Consume(head.len)
  /\ payload' = Take(head.len)
  /\ phase' = "check"
  /\ UNCHANGED <<dir, wvars, open, head, accepted>>

\* What the receiver's handler gets out of a frame.
Handled(frame) == Decode(frame.type, frame.payload)

\* connect() leaves unless its first frame is a HELLO_ACK that accepts it.
Welcome(frame) ==
  \/ dir = "up"
  \/ accepted # <<>>
  \/ /\ frame.type = "HELLO_ACK"
     /\ \E ack \in {Handled(frame)} : ack.ok /\ ack.v.accepted

\* The frame is returned to the loop that handles it.
ReadCheck ==
  /\ phase = "check"
  /\ Len(stream) >= 1
  /\ Consume(1)
  /\ LET frame == [type |-> head.type, payload |-> payload]
     IN  IF ChecksumOk(payload, stream[1])
         THEN /\ accepted' = Append(accepted, frame)
              /\ phase' = IF Welcome(frame) THEN "header" ELSE "unwelcome"
         ELSE accepted' = accepted /\ phase' = "bad"
  /\ head' = NoHead
  /\ payload' = <<>>
  /\ UNCHANGED <<dir, wvars, open>>

ReadEof ==
  /\ Reading
  /\ ~open
  /\ Len(stream) < Need
  /\ phase' = "eof"
  /\ UNCHANGED <<dir, wvars, stream, open, head, payload, accepted>>

Read == ReadHeader \/ ReadPayload \/ ReadCheck \/ ReadEof

Next ==
  \/ \E w \in Writers : BeginWrite(w) \/ RefuseWrite(w) \/ Send(w) \/ SendFails(w)
  \/ Break
  \/ Read

Spec == Init /\ [][Next]_vars

\* A thread inside write and the reading thread keep running.
FairSpec ==
  /\ Spec
  /\ \A w \in Writers : WF_vars(Send(w) \/ SendFails(w))
  /\ WF_vars(Read)

-----------------------------------------------------------------------------
(* Properties *)

TypeOK ==
  /\ dir \in {"up", "down"}
  /\ cur \in [Writers -> {NoMsg} \cup (UNION {Messages(w) : w \in Writers})
                          \cup Msgs("HELLO", Hellos) \cup Msgs("HELLO_ACK", Acks)]
  /\ \A w \in Writers : /\ Len(rest[w]) \in 0..3
                         /\ pos[w] \in 0..Len(started)
  /\ holder \in Writers \cup {"none"}
  /\ \A w \in Writers : begun[w] \in 0..MaxFrames[w]
  /\ shorts \in 0..MaxShort
  /\ open \in BOOLEAN
  /\ phase \in {"header", "payload", "check"} \cup Left
  /\ head.len \in 0..MaxPayload
  /\ done \subseteq DOMAIN started
  /\ overlapped \in BOOLEAN

\* FrameReader::read returns only frames that were written, whole and in the
\* order in which they were begun: not a frame cut off by a lost connection, nor
\* one with the words of the worker's other, unsynchronised, thread inside it.
FramesArriveIntact ==
  /\ Len(accepted) <= Len(started)
  /\ \A i \in DOMAIN accepted : /\ accepted[i].type = started[i].type
                                /\ accepted[i].payload = Data(started[i])

\* Repeated groups are bounded where they are decoded and not where they are
\* encoded.
WithinBounds(m) ==
  CASE m.type = "HELLO" -> /\ Len(m.body.devices) <= MaxItems
                           /\ Len(m.body.actions) <= MaxActions
                           /\ Len(m.body.observed) <= MaxItems
    [] m.type = "REPORT"     -> Len(m.body.objects) <= MaxItems
    [] m.type = "WARM_TOPIC" -> Len(m.body.cmds) <= MaxItems
    [] OTHER -> TRUE

NormalSeq(os) == [i \in DOMAIN os |-> Normal(os[i])]

\* The message as its receiver should have it.
AsReceived(m) ==
  CASE m.type = "HELLO"  -> [m.body EXCEPT !.observed = NormalSeq(@)]
    [] m.type = "REPORT" -> [m.body EXCEPT !.objects = NormalSeq(@)]
    [] OTHER -> m.body

\* The handlers get back from decode_* what encode_* was given, object fields,
\* optional parts and dependency generations included, up to void optional parts
\* that arrive as absent; a message is refused exactly when one of its repeated
\* groups exceeds the decoder's bound.
DecodeInvertsEncode ==
  \A i \in DOMAIN accepted :
    LET m == started[i]
        r == Handled(accepted[i])
    IN  /\ r.ok <=> WithinBounds(m)
        /\ r.ok /\ "body" \in DOMAIN m => r.v = AsReceived(m)

\* The reader loses its place in the stream only through the worker's two
\* writers: frames sent under send_mutex, frames refused for their size and
\* messages refused by their decoder all leave the next frame readable.
StreamStaysInSync == phase = "bad" => dir = "up" /\ overlapped

\* A frame whose write returned true reaches its handler, unless the connection
\* breaks, the worker's writers collide, or connect() has given up.
WrittenIsRead ==
  \A i \in 1..(MaxFrames["answers"] + MaxFrames["caller"]) :
    (i \in done) ~> \/ Len(accepted) >= i
                    \/ ~open
                    \/ overlapped
                    \/ phase = "unwelcome"
=============================================================================
