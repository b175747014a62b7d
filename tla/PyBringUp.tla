----------------------------- MODULE PyBringUp -----------------------------
(***************************************************************************)
(* gip_init of tools/gip_init.py: drain, IDENTIFY, the authentication      *)
(* handshake, AUDIO_FORMAT, POWER.  One thread talks over EP1 to a device  *)
(* that answers when it likes, or not at all; every wait has a deadline,   *)
(* which may pass at any moment.                                           *)
(*                                                                         *)
(* A message's contents are its name.  What the device sends is a sequence *)
(* of packets: whole messages, or chunks of one unit of data each.         *)
(***************************************************************************)
EXTENDS GipWire

CONSTANTS
  Units,      \* chunks in a long answer of the device
  MaxFaults   \* bound: reads that fail and lose their packet, and chunks the device sends twice

ASSUME UnitsAssumption == Units \in Nat \ {0, 1}
ASSUME FaultsAssumption == MaxFaults \in Nat

VARIABLES
  (* gip_init and gip_auth_handshake *)
  step,     \* what gip_init is at; "done" when it has returned, "dead" when it has raised
  phase,    \* "send", or what it waits for: "wait", and in a chunked send "chunk", "last"
  seqRef,   \* seq_ref[0]
  v2,       \* state.v2
  script,   \* the messages hashed into state.transcript
  rx,       \* the locals of the receiving loop: chunk_buf is there, what it holds, chunk_recvd
  offset,   \* _gip_auth_send_chunked's offset
  result,   \* of the handshake
  wire,     \* the header last written to EP1 OUT
  (* the device and the endpoints *)
  outq, inq,
  dev,      \* script, bytes of a chunked payload, packets to send, the chunk awaiting its ACK
  (* history *)
  taken,    \* the answer last handed to the handshake: at which step, to which, whole
  late,     \* a wait for an acknowledgement has expired, or the drain has left something
  lost, resent

hostVars == <<step, phase, seqRef, v2, script, rx, offset, result, wire>>
devVars  == <<dev, resent>>
bringUpVars == <<hostVars, outq, inq, devVars, taken, late, lost>>

---------------------------------------------------------------------------
(* Messages. *)

MaxPkt    == 58     \* GIP_PKT_MAX_LEN
SecretLen == 274    \* the payload of HOST_SECRET

\* The payload the host sends at a step: builders at lines 239-275 and 812-835.
PayloadLen ==
  [identify |-> 0, hello |-> 58, hello2 |-> 54, ch |-> 14, cert |-> 14, pubkey |-> 14,
   hostkey |-> 82, secret |-> SecretLen, finish |-> 50, cf |-> 14, complete |-> 2,
   format |-> 3, power |-> 1]

AuthSteps == {"hello", "hello2", "ch", "cert", "pubkey", "hostkey", "secret", "finish", "cf",
              "complete"}

Cmd(s) ==
  IF s \in AuthSteps THEN 6
  ELSE [identify |-> 4, format |-> 8, power |-> 5][s]

\* Steps whose message goes into the transcript when it is sent, and when it
\* is received.
HashedSent == {"hello", "hello2", "hostkey", "secret", "finish"}
HashedReceived == {"ch", "cert", "pubkey"}

\* What the device says to each message of the handshake.  An acknowledgement of
\* less than two bytes is "short".
Answers(s) ==
  CASE s = "hello" -> {"ack", "upgrade", "short"}
    [] s = "hello2" -> {"ack", "short"}
    [] s = "cert" -> {"rsacert", "badcert"}
    [] s \in {"ch", "pubkey", "cf"} -> {"data"}
    [] OTHER -> {"ack"}

\* Only an acknowledgement fits into a packet; everything else comes in chunks.
Long(kind) == kind \notin {"ack", "upgrade", "short"}

Packet(type, kind, to) ==
  [type |-> type, kind |-> kind, to |-> to, chunk |-> "no", at |-> 0, ack |-> FALSE]

GipAck == Packet("ack", "none", "none")
Other  == Packet("other", "none", "none")
NoPacket == Packet("none", "none", "none")

\* The i-th chunk of an answer: the first and the last ask for an ACK.
ChunkOf(type, kind, to, i) ==
  [Packet(type, kind, to) EXCEPT
     !.chunk = IF i = 1 /\ type = "auth" THEN "start" ELSE "data", !.at = i,
     !.ack = (type = "auth" /\ i \in {1, Units})]

Chunks(type, kind, to) == [i \in 1 .. Units |-> ChunkOf(type, kind, to, i)]
EndChunk(type, kind, to) == [Packet(type, kind, to) EXCEPT !.chunk = "end"]

NoHeader == [cmd |-> 0, opts |-> 0, seq |-> 0, len |-> 0, off |-> NoOffset]
SilentDevice == [script |-> <<>>, got |-> 0, send |-> <<>>, await |-> NoPacket]
NothingTaken == [step |-> "none", to |-> "none", whole |-> TRUE]
NoRx == [on |-> FALSE, got |-> {}, recvd |-> 0]

---------------------------------------------------------------------------
BringUpInit ==
  /\ step = "drain" /\ phase = "wait"
  /\ seqRef = 1 /\ v2 = FALSE /\ script = <<>>
  /\ rx = NoRx /\ offset = 0 /\ result = "none"
  /\ wire = NoHeader
  /\ outq = <<>>
  \* An announcement, and an answer a previous run of the driver did not wait for.
  /\ inq \in {<<>>, <<Other>>, <<Packet("auth", "ack", "previous")>>}
  /\ dev = SilentDevice /\ taken = NothingTaken
  /\ late = FALSE /\ lost = 0 /\ resent = 0

---------------------------------------------------------------------------
(* Sending.  A packet is its header and the step it belongs to. *)

Header(opts, len, off) ==
  [cmd |-> Cmd(step), opts |-> opts, seq |-> seqRef, len |-> len, off |-> off]

Write(h, s, part) ==
  /\ wire' = h
  /\ outq' = Append(outq, [what |-> s, part |-> part, ack |-> (h.opts \div OptAck) % 2 = 1])

\* Where the handshake goes from a step once its answer is in, or without one.
Following(s) ==
  CASE s = "hello" -> "ch"
    [] s = "hello2" -> "ch"
    [] s = "ch" -> "cert"
    [] s = "cert" -> IF v2 THEN "pubkey" ELSE "secret"
    [] s = "pubkey" -> "hostkey"
    [] s \in {"hostkey", "secret"} -> "finish"
    [] s = "finish" -> "cf"
    [] s = "cf" -> "complete"
    [] s = "format" -> "power"
    [] s = "power" -> "done"
    [] OTHER -> "format"

\* The start of a step: each receiving loop has locals of its own.
GoTo(s) ==
  /\ step' = s
  /\ phase' = "send"
  /\ rx' = NoRx

\* gip_send: an error is reported and the step goes on.
GipSend ==
  /\ step \in {"identify", "format", "power"} /\ phase = "send"
  /\ \/ Write(Header(Client + Internal, PayloadLen[step], NoOffset), step, "all")
     \/ UNCHANGED <<wire, outq>>
  /\ seqRef' = seqRef + 1
  /\ phase' = "wait"
  /\ UNCHANGED <<step, v2, script, rx, offset, result, inq, devVars, taken, late, lost>>

\* _gip_auth_send_simple and transcript_sent.
SendSimple ==
  /\ step \in AuthSteps \ {"secret", "complete"} /\ phase = "send"
  /\ Write(Header(Client + Internal + OptAck, PayloadLen[step], NoOffset), step, "all")
  /\ seqRef' = seqRef + 1
  /\ script' = IF step \in HashedSent THEN Append(script, step) ELSE script
  /\ phase' = "wait"
  /\ UNCHANGED <<step, v2, rx, offset, result, inq, devVars, taken, late, lost>>

\* _gip_auth_send_no_ack of AUTH COMPLETE; the handshake returns True.
SendComplete ==
  /\ step = "complete" /\ phase = "send"
  /\ Write(Header(Client + Internal, PayloadLen[step], NoOffset), step, "all")
  /\ seqRef' = seqRef + 1
  /\ GoTo("format")
  /\ UNCHANGED <<v2, script, offset, result, inq, devVars, taken, late, lost>>

\* dev.write raises in the handshake, where nothing catches it: the driver ends.
AuthWriteFails ==
  /\ step \in AuthSteps
  /\ phase = "wait" => inq # <<>> /\ Head(inq).ack
  /\ step' = "dead"
  /\ UNCHANGED <<phase, seqRef, v2, script, rx, offset, result, wire, outq, inq, devVars,
                 taken, late, lost>>

---------------------------------------------------------------------------
(* _gip_auth_send_chunked and _wait_for_gip_ack. *)

ChunkHeader(ack, start, len, off) ==
  Header(Client + Internal + Chunk + ack + start, len, off)

\* The first chunk gives the total where the others give their offset.
SendFirstChunk ==
  /\ step = "secret" /\ phase = "send"
  /\ Write(ChunkHeader(OptAck, ChunkStart, MaxPkt, SecretLen), step, "chunk")
  /\ offset' = MaxPkt
  /\ phase' = "chunk"
  /\ UNCHANGED <<step, seqRef, v2, script, rx, result, inq, devVars, taken, late, lost>>

\* A chunk is sent when the one before is acknowledged; the last asks for an ACK.
SendNextChunk ==
  /\ step = "secret" /\ phase = "chunk" /\ inq # <<>> /\ Head(inq) = GipAck
  /\ LET remaining == SecretLen - offset
         size == IF remaining < MaxPkt THEN remaining ELSE MaxPkt IN
       /\ Write(ChunkHeader(IF size = remaining THEN OptAck ELSE 0, 0, size, offset), step,
                "chunk")
       /\ offset' = offset + size
       /\ phase' = IF size = remaining THEN "last" ELSE "chunk"
  /\ inq' = Tail(inq)
  /\ UNCHANGED <<step, seqRef, v2, script, rx, result, devVars, taken, late, lost>>

\* Whatever else comes in while an ACK is waited for is dropped.
AckIgnores ==
  /\ step = "secret" /\ phase \in {"chunk", "last"} /\ inq # <<>> /\ Head(inq) # GipAck
  /\ inq' = Tail(inq)
  /\ UNCHANGED <<hostVars, outq, devVars, taken, late, lost>>

\* No ACK: the remaining chunks are not sent.
ChunkAckExpires ==
  /\ step = "secret" /\ phase = "chunk"
  /\ phase' = "last"
  /\ UNCHANGED <<step, seqRef, v2, script, rx, offset, result, wire, outq, inq, devVars, taken,
                 late, lost>>

\* The last ACK, or its deadline; an empty chunk ends the transfer.
SendEndChunk ==
  /\ step = "secret" /\ phase = "last"
  /\ \/ inq # <<>> /\ Head(inq) = GipAck /\ inq' = Tail(inq)
     \/ UNCHANGED inq
  /\ Write(ChunkHeader(0, 0, 0, SecretLen), step, "end")
  /\ seqRef' = seqRef + 1
  /\ script' = Append(script, step)
  /\ phase' = "wait"
  /\ UNCHANGED <<step, v2, rx, offset, result, devVars, taken, late, lost>>

---------------------------------------------------------------------------
(* _recv_auth_pkt, and what the handshake does with the payload. *)

\* _send_gip_ack_for_chunk, when the chunk asks for it.
Acknowledge(p) ==
  IF p.ack
  THEN Write([cmd |-> 1, opts |-> Client + Internal, seq |-> 1, len |-> 9, off |-> NoOffset],
             "gipack", "all")
  ELSE UNCHANGED <<wire, outq>>

\* The handshake returns False.
Fail == result' = "failed" /\ GoTo("format") /\ UNCHANGED <<v2, script>>

\* Mutant of HelloAnswered: the restart keeps what was hashed for v1.
HelloAnsweredKeeping(p) ==
  \/ /\ p.kind = "short"
     /\ Fail
  \/ /\ p.kind # "short"
     /\ v2' = (p.kind = "upgrade")
     /\ GoTo(IF v2' THEN "hello2" ELSE "ch")
     /\ UNCHANGED <<script, result>>

\* The device may ask for v2, which starts afresh.
HelloAnswered(p) ==
  \/ /\ p.kind = "short"
     /\ Fail
  \/ /\ p.kind # "short"
     /\ v2' = (p.kind = "upgrade")
     /\ script' = IF v2' THEN <<>> ELSE script
     /\ GoTo(IF v2' THEN "hello2" ELSE "ch")
     /\ UNCHANGED result

\* Whatever comes acknowledges, but the options of an answer to the hello of v2
\* are looked at: IndexError when it has none.
Acknowledged(p) ==
  \/ /\ step = "hello2" /\ p.kind = "short"
     /\ step' = "dead"
     /\ UNCHANGED <<phase, v2, script, rx, result>>
  \/ /\ step # "hello2" \/ p.kind # "short"
     /\ GoTo(Following(step))
     /\ UNCHANGED <<v2, script, result>>

\* What is not the message sent is hashed all the same, and then differs.
Hashed(p, whole) == Append(script, IF whole THEN p.to ELSE "torn")

\* CLIENT_HELLO, the certificate, the public key.  A certificate without an
\* RSA key ends v1; bytes that are no point of the curve raise in v2.  Those
\* looked for may all be there in a payload with a hole.
DataAnswered(p, whole) ==
  \/ /\ step = "ch" /\ ~Long(p.kind)
     /\ Fail
  \/ /\ step = "cert" /\ ~v2 /\ (p.kind # "rsacert" \/ ~whole)
     /\ Fail
  \/ /\ step = "pubkey" /\ (p.to # "pubkey" \/ ~whole)
     /\ step' = "dead"
     /\ UNCHANGED <<phase, v2, script, rx, result>>
  \/ /\ CASE step = "ch" -> Long(p.kind)
          [] step = "cert" -> v2 \/ p.kind = "rsacert"
          [] step = "pubkey" -> p.to = "pubkey"
     /\ script' = Hashed(p, whole)
     /\ GoTo(Following(step))
     /\ UNCHANGED <<v2, result>>

\* CLIENT_FINISH is compared with the host's transcript; a mismatch is printed.
FinishAnswered(p, whole) ==
  /\ result' = IF p.to = "cf" /\ whole /\ dev.script = script THEN "verified" ELSE "mismatch"
  /\ GoTo(Following(step))
  /\ UNCHANGED <<v2, script>>

\* _recv_auth_pkt returns: p is the packet that completes the payload.
Answered(p, got) ==
  LET whole == p.chunk = "no" \/ got = 1 .. Units IN
    /\ taken' = [step |-> step, to |-> p.to, whole |-> whole]
    /\ \/ step = "hello" /\ HelloAnswered(p)
       \/ step \in HashedReceived /\ DataAnswered(p, whole)
       \/ step = "cf" /\ FinishAnswered(p, whole)
       \/ step \in {"hello2", "hostkey", "secret", "finish"} /\ Acknowledged(p)

Receiving == step \in AuthSteps /\ phase = "wait" /\ inq # <<>>

\* Not an AUTH packet, or a chunk whose start was missed.
RecvIgnores ==
  /\ Receiving
  /\ Head(inq).type # "auth" \/ (Head(inq).chunk \in {"data", "end"} /\ ~rx.on)
  /\ inq' = Tail(inq)
  /\ UNCHANGED <<hostVars, outq, devVars, taken, late, lost>>

\* Mutant of RecvWhole: an acknowledgement of GIP is taken for an answer.
RecvWholeAny ==
  /\ Receiving
  /\ Head(inq).type \in {"auth", "ack"} /\ Head(inq).chunk = "no"
  /\ Answered(Head(inq), {})
  /\ inq' = Tail(inq)
  /\ UNCHANGED <<seqRef, offset, wire, outq, devVars, late, lost>>

RecvWhole ==
  /\ Receiving
  /\ Head(inq).type = "auth" /\ Head(inq).chunk = "no"
  /\ Answered(Head(inq), {})
  /\ inq' = Tail(inq)
  /\ UNCHANGED <<seqRef, offset, wire, outq, devVars, late, lost>>

RecvStart ==
  /\ Receiving
  /\ Head(inq).chunk = "start"
  /\ rx' = [on |-> TRUE, got |-> {Head(inq).at}, recvd |-> 1]
  /\ Acknowledge(Head(inq))
  /\ inq' = Tail(inq)
  /\ UNCHANGED <<step, phase, seqRef, v2, script, offset, result, devVars, taken, late, lost>>

\* Mutant of RecvChunk: the chunk before the last completes the payload.
RecvChunkEarly ==
  /\ Receiving
  /\ Head(inq).type = "auth" /\ Head(inq).chunk = "data" /\ rx.on
  /\ LET p == Head(inq) IN
       /\ Acknowledge(p)
       /\ IF p.at < Units - 1
          THEN /\ rx' = [on |-> TRUE, got |-> rx.got \cup {p.at}, recvd |-> p.at]
               /\ UNCHANGED <<step, phase, v2, script, result, taken>>
          ELSE Answered(p, rx.got \cup {p.at})
  /\ inq' = Tail(inq)
  /\ UNCHANGED <<seqRef, offset, devVars, late, lost>>

\* A further chunk; the end of this one counts as what has been received.
RecvChunk ==
  /\ Receiving
  /\ Head(inq).type = "auth" /\ Head(inq).chunk = "data" /\ rx.on
  /\ LET p == Head(inq) IN
       /\ Acknowledge(p)
       /\ IF p.at < Units
          THEN /\ rx' = [on |-> TRUE, got |-> rx.got \cup {p.at}, recvd |-> p.at]
               /\ UNCHANGED <<step, phase, v2, script, result, taken>>
          ELSE Answered(p, rx.got \cup {p.at})
  /\ inq' = Tail(inq)
  /\ UNCHANGED <<seqRef, offset, devVars, late, lost>>

\* An empty chunk ends the payload where it is.
RecvEnd ==
  /\ Receiving
  /\ Head(inq).type = "auth" /\ Head(inq).chunk = "end" /\ rx.on
  /\ Answered(Head(inq), rx.got)
  /\ inq' = Tail(inq)
  /\ UNCHANGED <<seqRef, offset, wire, outq, devVars, late, lost>>

\* A read fails; the loops take that for nothing having come.
ReadFails ==
  /\ step \in AuthSteps /\ phase # "send" /\ inq # <<>> /\ lost + resent < MaxFaults
  /\ inq' = Tail(inq)
  /\ lost' = lost + 1
  /\ UNCHANGED <<hostVars, outq, devVars, taken, late>>

\* The deadline: only the waits for an acknowledgement go on.
RecvExpires ==
  /\ step \in AuthSteps /\ phase = "wait"
  /\ IF step \in {"hostkey", "secret", "finish"}
     THEN GoTo(Following(step)) /\ late' = TRUE /\ UNCHANGED <<v2, script, result>>
     ELSE Fail /\ UNCHANGED late
  /\ UNCHANGED <<seqRef, offset, wire, outq, inq, devVars, taken, lost>>

---------------------------------------------------------------------------
(* _drain_buffer, _receive_identify_response, gip_recv. *)

DrainTakes ==
  /\ step = "drain" /\ inq # <<>>
  /\ inq' = Tail(inq)
  /\ UNCHANGED <<hostVars, outq, devVars, taken, late, lost>>

\* Nothing came for 100 ms, an error, or the deadline.
DrainEnds ==
  /\ step = "drain"
  /\ GoTo("identify")
  /\ late' = (inq # <<>>)
  /\ UNCHANGED <<seqRef, v2, script, offset, result, wire, outq, inq, devVars, taken, lost>>

Identifying == step = "identify" /\ phase = "wait"

\* Mutant of IdentifyTakes: the offsets are added up.
IdentifyTakesSum ==
  /\ Identifying /\ inq # <<>>
  /\ Head(inq).type = "identify" => Head(inq).chunk = "data" /\ ~Head(inq).ack
  /\ rx' = IF Head(inq).type = "identify" THEN [rx EXCEPT !.recvd = @ + Head(inq).at] ELSE rx
  /\ inq' = Tail(inq)
  /\ UNCHANGED <<step, phase, seqRef, v2, script, offset, result, wire, outq, devVars, taken,
                 late, lost>>

\* Any packet that does not end the response.
IdentifyTakes ==
  /\ Identifying /\ inq # <<>>
  /\ Head(inq).type = "identify" => Head(inq).chunk = "data" /\ ~Head(inq).ack
  /\ rx' = IF Head(inq).type = "identify"
            THEN [rx EXCEPT !.recvd = IF @ < Head(inq).at THEN Head(inq).at ELSE @] ELSE rx
  /\ inq' = Tail(inq)
  /\ UNCHANGED <<step, phase, seqRef, v2, script, offset, result, wire, outq, devVars, taken,
                 late, lost>>

\* A chunk asks for an ACK.  The total is not known yet and counts as 0; what
\* remains is negative, struct.pack('<H') raises, and nothing catches it.
IdentifyAckRaises ==
  /\ Identifying /\ inq # <<>>
  /\ Head(inq).type = "identify" /\ Head(inq).ack
  /\ step' = "dead"
  /\ inq' = Tail(inq)
  /\ UNCHANGED <<phase, seqRef, v2, script, rx, offset, result, wire, outq, devVars, taken,
                 late, lost>>

\* gip_auth_handshake begins, or returns False at once for want of the
\* cryptography package.
Authenticate ==
  \/ GoTo("hello") /\ UNCHANGED result
  \/ GoTo("format") /\ result' = "failed"

\* A response in one packet, or the empty chunk.
IdentifyEnds ==
  /\ Identifying /\ inq # <<>>
  /\ Head(inq).type = "identify" /\ Head(inq).chunk # "data"
  /\ inq' = Tail(inq)
  /\ Authenticate
  /\ UNCHANGED <<seqRef, v2, script, offset, wire, outq, devVars, taken, late, lost>>

\* An error, the deadline, or a pause after some data.
IdentifyGivesUp ==
  /\ Identifying
  /\ Authenticate
  /\ UNCHANGED <<seqRef, v2, script, offset, wire, outq, inq, devVars, taken, late, lost>>

\* gip_recv after AUDIO_FORMAT and POWER: one packet, whatever it is, or none.
GipRecv ==
  /\ step \in {"format", "power"} /\ phase = "wait"
  /\ \/ inq # <<>> /\ inq' = Tail(inq)
     \/ UNCHANGED inq
  /\ GoTo(Following(step))
  /\ UNCHANGED <<seqRef, v2, script, offset, result, wire, outq, devVars, taken, late, lost>>

---------------------------------------------------------------------------
(* The device. *)

\* It hashes what it takes part in; a hello starts afresh.
DevHashed(s) ==
  IF s \in {"hello", "hello2"} THEN <<s>>
  ELSE IF s \in HashedSent \cup HashedReceived THEN Append(dev.script, s)
  ELSE dev.script

\* It answers a message: at once, or in chunks with or without an empty one.
Reply(s) ==
  IF s \notin AuthSteps
  THEN IF s = "identify"
       THEN {<<Packet("identify", "data", s)>>,
             Chunks("identify", "data", s) \o <<EndChunk("identify", "data", s)>>,
             <<[ChunkOf("identify", "data", s, 1) EXCEPT !.ack = TRUE]>>}
       ELSE {<<Other>>}
  ELSE IF s = "complete" THEN {<<>>}
  ELSE {<<Packet("auth", k, s)>> : k \in {a \in Answers(s) : ~Long(a)}}
       \cup {Chunks("auth", k, s) : k \in {a \in Answers(s) : Long(a)}}
       \cup {Chunks("auth", k, s) \o <<EndChunk("auth", k, s)>> : k \in {a \in Answers(s) : Long(a)}}

DevHandles(s) ==
  \/ \E r \in Reply(s) :
       dev' = [dev EXCEPT !.script = DevHashed(s), !.send = @ \o r]
  \/ UNCHANGED dev

\* It takes the next packet, acknowledges it when asked to, and a chunk perhaps
\* without being asked, and handles a message once it is complete.  It may also
\* stay silent.
DevTake ==
  /\ outq # <<>>
  /\ LET m == Head(outq) IN
       /\ \/ (m.ack \/ m.part = "chunk") /\ inq' = Append(inq, GipAck)
          \/ ~m.ack /\ UNCHANGED inq
       /\ \/ m.what = "gipack" /\ dev' = [dev EXCEPT !.await = NoPacket]
          \/ m.what # "gipack" /\ m.part = "all" /\ DevHandles(m.what)
          \/ /\ m.part = "chunk"
             /\ dev' = [dev EXCEPT !.got = IF @ + MaxPkt > SecretLen THEN SecretLen ELSE @ + MaxPkt]
          \/ /\ m.part = "end"
             /\ IF dev.got = SecretLen THEN DevHandles(m.what) ELSE UNCHANGED dev
  /\ outq' = Tail(outq)
  /\ UNCHANGED <<hostVars, resent, taken, late, lost>>

\* It sends, and after a chunk that asks for an ACK it waits for it.
DevSend ==
  /\ dev.send # <<>> /\ dev.await = NoPacket
  /\ inq' = Append(inq, Head(dev.send))
  /\ dev' = [dev EXCEPT !.send = Tail(@),
                        !.await = IF Head(dev.send).ack THEN Head(dev.send) ELSE NoPacket]
  /\ UNCHANGED <<hostVars, outq, resent, taken, late, lost>>

\* It has waited long enough for an ACK, and sends the chunk again.
DevResend ==
  /\ dev.await # NoPacket /\ lost + resent < MaxFaults
  /\ inq' = Append(inq, dev.await)
  /\ resent' = resent + 1
  /\ UNCHANGED <<hostVars, outq, dev, taken, late, lost>>

---------------------------------------------------------------------------
Host ==
  \/ DrainTakes \/ DrainEnds
  \/ GipSend \/ GipRecv
  \/ IdentifyTakes \/ IdentifyAckRaises \/ IdentifyEnds \/ IdentifyGivesUp
  \/ SendSimple \/ SendComplete \/ AuthWriteFails
  \/ SendFirstChunk \/ SendNextChunk \/ AckIgnores \/ ChunkAckExpires \/ SendEndChunk
  \/ RecvIgnores \/ RecvWhole \/ RecvStart \/ RecvChunk \/ RecvEnd \/ ReadFails \/ RecvExpires

Device == DevTake \/ DevSend \/ DevResend

BringUp == Host \/ Device

---------------------------------------------------------------------------
(* What is in the queues and in a header. *)

LongSteps  == {"ch", "cert", "pubkey", "cf"}
ShortSteps == {"hello", "hello2", "hostkey", "secret", "finish"}

\* The order of the handshake; what a previous run has left comes first.
Rank(s) ==
  CASE s = "previous" -> 0
    [] s = "hello"    -> 1
    [] s = "hello2"   -> 2
    [] s = "ch"       -> 3
    [] s = "cert"     -> 4
    [] s = "pubkey"   -> 5
    [] s = "hostkey"  -> 6
    [] s = "secret"   -> 7
    [] s = "finish"   -> 8
    [] s = "cf"       -> 9
    [] OTHER          -> 10

\* The packets of the handshake and the others, and the messages of the host.
WholeAnswers ==
  [type : {"auth"}, kind : {"ack", "upgrade", "short"}, to : ShortSteps \cup {"previous"},
   chunk : {"no"}, at : {0}, ack : {FALSE}]

ChunkAnswers ==
  {x \in [type : {"auth"}, kind : {"rsacert", "badcert", "data"}, to : LongSteps,
          chunk : {"start", "data", "end"}, at : 0 .. Units, ack : BOOLEAN] :
     /\ x.chunk = "start" => x.at = 1
     /\ x.chunk = "data" => x.at >= 2}

OtherPackets ==
  [type : {"ack", "other", "none", "identify"}, kind : {"none", "data"}, to : {"none", "identify"},
   chunk : {"no", "data", "end"}, at : 0 .. Units, ack : BOOLEAN]

Packets == WholeAnswers \cup ChunkAnswers \cup OtherPackets

Messages ==
  {m \in [what : AuthSteps \cup {"identify", "format", "power", "gipack"},
          part : {"all", "chunk", "end"}, ack : BOOLEAN] :
     m.part # "all" => m.what = "secret"}

Headers ==
  {h \in [cmd : Nat, opts : Nat, seq : Nat, len : Nat, off : Nat \cup {NoOffset}] :
     IsChunk(h.opts) <=> h.off # NoOffset}

Channels ==
  /\ inq \in Seq(Packets) /\ outq \in Seq(Messages)
  /\ dev \in [script : Seq(AuthSteps), got : Nat, send : Seq(Packets), await : Packets]
  /\ dev.await = NoPacket \/ dev.await.ack

---------------------------------------------------------------------------
Steps == {"drain", "identify", "format", "power", "done", "dead", "off"} \cup AuthSteps

BringUpTypeOK ==
  /\ step \in Steps
  /\ phase \in {"send", "wait", "chunk", "last"}
  /\ v2 \in BOOLEAN
  /\ script \in Seq(AuthSteps \cup {"torn"})
  /\ rx \in [on : BOOLEAN, got : SUBSET (1 .. Units), recvd : 0 .. Units]
  /\ offset \in 0 .. SecretLen
  /\ result \in {"none", "verified", "mismatch", "failed"}
  /\ late \in BOOLEAN /\ {lost, resent} \subseteq 0 .. MaxFaults

\* Nothing in an answer says what it answers: the handshake takes AUTH packets
\* in the order in which they come.  Every payload is nevertheless taken for
\* the answer to the message just sent, unless a wait for an acknowledgement
\* was given up, and the acknowledgement came later, or the drain at the start
\* left the answer to a previous run.  Even then no such answer is taken for a
\* certificate or a public key, and one in the place of CLIENT_HELLO ends the
\* handshake: what the keys are made from is what was asked for.
AnswersPaired ==
  taken.step # taken.to => late /\ (taken.step \in HashedReceived => result = "failed")

\* The payload handed to the handshake is all of what the device sent: chunks
\* sent twice do no harm, nor does an empty one after the last, and only a
\* failed read makes a hole.
PayloadWhole == taken.whole \/ lost > 0

\* What either version of the handshake hashes, in its order.
Transcript ==
  IF v2 THEN <<"hello2", "ch", "cert", "pubkey", "hostkey", "finish">>
  ELSE <<"hello", "ch", "cert", "secret", "finish">>

\* The handshake reports a mismatch only when a message went missing, and reports
\* success only when both sides have hashed every message of one version, whole
\* and in its order: no late acknowledgement, no answer of a previous run and no
\* payload with a hole gets past the comparison.
VerdictRight ==
  /\ result = "mismatch" => late \/ lost > 0
  /\ result = "verified" => script = Transcript

\* The device reads each header as it was meant.
PacketReadBack == ReadBack(wire)
===========================================================================
