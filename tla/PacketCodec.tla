----------------------------- MODULE PacketCodec ----------------------------
(***************************************************************************)
(* One path from the packer of one side to the unpacker of the other:      *)
(* packet_packer.go fills packets with the frames that are queued, going   *)
(* by the lengths that MinLength announces; the packets are written, lost, *)
(* delayed and reordered; path.handlePacketImpl infers their numbers and   *)
(* unpacks them.  Crypto packets and stored packets are included.          *)
(*                                                                         *)
(* A config fixes who sends, how far the handshake is and what is queued;  *)
(* the flow control windows are large enough for all the data.             *)
(***************************************************************************)
EXTENDS WireFormat, FiniteSets

CONSTANTS
  Configs,        \* who sends (pers), at which encryption level, whether the handshake is
                  \* complete; the frames that may be queued (control, acks, retransmission),
                  \* at most limit of them; the bytes to send (data), on the crypto stream if
                  \* crypto, and how many of them this path may send (volume); the streams
                  \* of the path; the operations (ops);
                  \* the packet numbers first..last, the least unacked one, at most behind
                  \* of them ahead of the receiver and at most flight of them in the network
  Overhead,       \* bytes that sealing adds
  SizeReduction,  \* by which packets that are not forward-secure are smaller
  MaxQueued       \* bound: frames queued at a time

None == [type |-> "none"]

VARIABLES
  config,
  control,        \* controlFrames
  ack, stop,      \* ackFrame and stopWaiting of the path; stop: 0 or least unacked
  retransmission, \* retransmissionQueue of the framer
  data,           \* what the stream has still to send: offset, bytes, FIN
  stored,         \* packetsNotSentYet of the path
  next, leastUnacked,
  net,            \* packets in the network
  lost,           \* a lost packet that is to be retransmitted as it was: None or the packet
  largestRcvd,
  queued,         \* number of frames and packets that were queued so far
  failed,         \* the packer returned one of its errors
  outcome         \* what was packed and what was unpacked, of the last packet

vars == <<config, control, ack, stop, retransmission, data, stored, next, leastUnacked, net,
          lost, largestRcvd, queued, failed, outcome>>

Init ==
  /\ config \in Configs
  /\ control = <<>> /\ ack = None /\ stop = 0 /\ retransmission = <<>> /\ stored = <<>>
  /\ data = [id |-> IF config.crypto THEN 1 ELSE 5, offset |-> 0, bytes |-> config.data,
             fin |-> config.data > 0 /\ ~ config.crypto, volume |-> config.volume]
  /\ next = config.first /\ leastUnacked = config.least /\ largestRcvd = config.first - 1
  /\ net = {} /\ lost = None /\ queued = 0 /\ failed = FALSE /\ outcome = None

-----------------------------------------------------------------------------
(* stream_framer.go: what to send of the stream.                            *)

HasCryptoStreamFrame == data.id = 1 /\ data.bytes > 0

\* The state of the framer as the functions below pass it on
Framer(q, d, frames, len) == [q |-> q, d |-> d, frames |-> frames, len |-> len]

maybeSplitOffFrame(f, n) ==
  [sent |-> [f EXCEPT !.fin = FALSE, !.data = n],
   kept |-> [f EXCEPT !.offset = @ + n, !.data = @ - n]]

RECURSIVE maybePopFramesForRetransmission(_, _)
maybePopFramesForRetransmission(s, maxLen) ==
  LET f == [Head(s.q) EXCEPT !.dataLen = TRUE]
      room == maxLen - s.len - StreamFrameMinLength(f)
      split == maybeSplitOffFrame(f, room)
  IN IF s.q = <<>> \/ room <= 0 THEN s
     ELSE IF room < f.data
     THEN Framer(<<split.kept>> \o Tail(s.q), s.d, Append(s.frames, split.sent), maxLen)
     ELSE maybePopFramesForRetransmission(
            Framer(Tail(s.q), s.d, Append(s.frames, f), s.len + StreamFrameMinLength(f) + f.data), maxLen)

\* streamScheduler.send
send(s, maxLen) ==
  LET f == [type |-> "stream", id |-> s.d.id, offset |-> s.d.offset, dataLen |-> TRUE]
      room == maxLen - s.len - StreamFrameMinLength(f)
      n == Min({room, s.d.bytes})
      fin == s.d.fin /\ n = s.d.bytes
  IN IF s.d.id = 1 \/ room <= 0 \/ (n = 0 /\ ~ fin) THEN s
     ELSE Framer(s.q, [s.d EXCEPT !.offset = @ + n, !.bytes = @ - n, !.fin = @ /\ ~ fin],
                 Append(s.frames, f @@ [fin |-> fin, data |-> n]), s.len + StreamFrameMinLength(f) + n)

\* The same for the frames of the path's streams, wherever they are in the queue
RECURSIVE maybePopFramesForRetransmissionOfPath(_, _, _)
maybePopFramesForRetransmissionOfPath(s, maxLen, i) ==
  LET f == [s.q[i] EXCEPT !.dataLen = TRUE]
      room == maxLen - s.len - StreamFrameMinLength(f)
      split == maybeSplitOffFrame(f, room)
  IN IF i > Len(s.q) THEN s
     ELSE IF f.id \notin config.streams THEN maybePopFramesForRetransmissionOfPath(s, maxLen, i + 1)
     ELSE IF room <= 0 THEN s
     ELSE IF room < f.data
     THEN Framer([s.q EXCEPT ![i] = split.kept], s.d, Append(s.frames, split.sent), maxLen)
     ELSE maybePopFramesForRetransmissionOfPath(
            Framer(RemoveAt(s.q, i), s.d, Append(s.frames, f), s.len + StreamFrameMinLength(f) + f.data),
            maxLen, i)

\* Data only while the path has a volume left, or when all of it fits
maybePopNormalFramesOfPath(s, maxLen) ==
  LET f == [type |-> "stream", id |-> s.d.id, offset |-> s.d.offset, dataLen |-> TRUE]
      room == maxLen - s.len - StreamFrameMinLength(f)
      n == IF s.d.volume > 0 \/ s.d.bytes < room THEN Min({room, s.d.bytes}) ELSE 0
      fin == s.d.fin /\ n = s.d.bytes
  IN IF s.d.id \notin config.streams \/ room <= 0 \/ (n = 0 /\ ~ fin) THEN s
     ELSE Framer(s.q, [s.d EXCEPT !.offset = @ + n, !.bytes = @ - n, !.fin = @ /\ ~ fin, !.volume = @ - n],
                 Append(s.frames, f @@ [fin |-> fin, data |-> n]), s.len + StreamFrameMinLength(f) + n)

PopStreamFramesOfPath(maxLen) ==
  maybePopNormalFramesOfPath(
    maybePopFramesForRetransmissionOfPath(Framer(retransmission, data, <<>>, 0), maxLen, 1), maxLen)

PopStreamFrames(maxLen) ==
  send(maybePopFramesForRetransmission(Framer(retransmission, data, <<>>, 0), maxLen), maxLen)

PopCryptoStreamFrame(maxLen) ==
  LET f == [type |-> "stream", id |-> 1, offset |-> data.offset, dataLen |-> FALSE, fin |-> FALSE]
  IN f @@ [data |-> Min({maxLen - StreamFrameMinLength(f), data.bytes})]

-----------------------------------------------------------------------------
(* packet_packer.go                                                         *)

canSendData == config.level = "forward" \/ (config.level = "secure" /\ config.pers = "client")

getPublicHeader ==
  [conn |-> 9, truncate |-> FALSE, packet |-> next, reset |-> FALSE,
   len |-> GetPacketNumberLengthForPublicHeader(next, leastUnacked),
   nonce |-> config.pers = "server" /\ config.level = "secure",
   version |-> IF config.pers = "client" /\ config.level # "forward" THEN 2 ELSE 0,
   multipath |-> config.complete, path |-> IF config.complete THEN 1 ELSE 0]

StopWaitingFrame == [type |-> "stop_waiting", leastUnacked |-> stop, packet |-> next,
                     len |-> getPublicHeader.len]

maxSize == MaxPacketSize - Overhead - GetLength(getPublicHeader, config.pers)

Sum(frames) == FoldLeft(LAMBDA n, f : n + MinLength(f), 0, frames)

\* The control frames from the last one on, while they fit
RECURSIVE TakeControl(_, _, _)
TakeControl(queue, frames, max) ==
  IF queue = <<>> \/ Sum(Append(frames, Last(queue))) > max THEN [queue |-> queue, frames |-> frames]
  ELSE TakeControl(Front(queue), Append(frames, Last(queue)), max)

\* Stream frames, of the path's streams or of all, are taken up to a length that is
\* raised by extra, since the last one is written without its length.
Compose(withStop, ofPath, extra) ==
  LET first == (IF withStop THEN <<StopWaitingFrame>> ELSE <<>>) \o (IF ack # None THEN <<ack>> ELSE <<>>)
      taken == TakeControl(control, first, maxSize)
      maxLen == maxSize + extra - Sum(taken.frames)
      popped == IF canSendData
                THEN IF ofPath THEN PopStreamFramesOfPath(maxLen) ELSE PopStreamFrames(maxLen)
                ELSE Framer(retransmission, data, <<>>, 0)
      fs == popped.frames
  IN [ok |-> Sum(taken.frames) <= maxSize,
      frames |-> taken.frames \o (IF fs = <<>> THEN fs
                                  ELSE Append(Front(fs), [Last(fs) EXCEPT !.dataLen = FALSE])),
      control |-> taken.queue, retransmission |-> popped.q, data |-> popped.d]

PingAlone ==
  [ok |-> TRUE, frames |-> <<[type |-> "ping"]>>, control |-> Tail(control),
   retransmission |-> retransmission, data |-> data]

IsPing == control # <<>> /\ Head(control).type = "ping"

composeNextPacket(withStop) == IF IsPing THEN PingAlone ELSE Compose(withStop, FALSE, 0)


composeNextPacketOfStream == IF IsPing THEN PingAlone ELSE Compose(stop # 0, FALSE, 2)
composeNextPacketOfPath == IF IsPing THEN PingAlone ELSE Compose(stop # 0, TRUE, 2)

Bytes(p) ==
  PublicHeaderWrite(p.hdr, p.pers) \o FlattenSeq([i \in DOMAIN p.frames |-> Write(p.frames[i])])

Packet(frames) == [pers |-> config.pers, level |-> config.level, hdr |-> getPublicHeader, frames |-> frames]

writeAndSealPacket(frames) ==
  LET p == Packet(frames) IN
  IF (\A i \in DOMAIN frames : Writable(frames[i])) /\ Len(Bytes(p)) + Overhead <= MaxPacketSize
  THEN /\ net' = net \cup {p} /\ next' = next + 1 /\ UNCHANGED failed
  ELSE failed' = TRUE /\ UNCHANGED <<net, next>>

MayPack(op) ==
  /\ op \in config.ops /\ ~ failed /\ Cardinality(net) < config.flight
  /\ next <= config.last /\ next - largestRcvd <= config.behind

\* A packet of the frames c, or an error, or nothing if there are no frames or
\* only a STOP_WAITING frame
PackFrames(c, withStop) ==
  /\ control' = c.control /\ retransmission' = c.retransmission /\ data' = c.data
  /\ IF ~ c.ok THEN failed' = TRUE /\ UNCHANGED <<net, next, ack, stop>>
     ELSE IF c.frames = <<>> \/ (Len(c.frames) = 1 /\ withStop)
     THEN stop' = (IF withStop THEN stop ELSE 0) /\ UNCHANGED <<net, next, failed, ack>>
     ELSE stop' = 0 /\ ack' = None /\ writeAndSealPacket(c.frames)

packCryptoPacket(queue) ==
  LET f == PopCryptoStreamFrame(maxSize - SizeReduction) IN
  /\ writeAndSealPacket(<<f>>)
  /\ data' = [data EXCEPT !.offset = @ + f.data, !.bytes = @ - f.data]
  /\ control' = queue
  /\ UNCHANGED <<retransmission, ack, stop>>

PackPacket ==
  /\ MayPack("pack")
  /\ IF HasCryptoStreamFrame THEN packCryptoPacket(control) ELSE PackFrames(composeNextPacket(FALSE), FALSE)
  /\ UNCHANGED <<config, stored, leastUnacked, lost, largestRcvd, queued, outcome>>

PackPacketOfStream ==
  /\ MayPack("of_stream")
  /\ IF HasCryptoStreamFrame THEN packCryptoPacket(control) ELSE PackFrames(composeNextPacketOfStream, stop # 0)
  /\ UNCHANGED <<config, stored, leastUnacked, lost, largestRcvd, queued, outcome>>

PackPacketOfPath ==
  /\ MayPack("of_path")
  /\ IF HasCryptoStreamFrame THEN packCryptoPacket(control) ELSE PackFrames(composeNextPacketOfPath, stop # 0)
  /\ UNCHANGED <<config, stored, leastUnacked, lost, largestRcvd, queued, outcome>>

\* PackPacket with a PING before all other control frames: it goes out alone.
PackPing ==
  LET ping == [type |-> "ping"] IN
  /\ MayPack("ping")
  /\ IF HasCryptoStreamFrame THEN packCryptoPacket(<<ping>> \o control)
     ELSE PackFrames([ok |-> TRUE, frames |-> <<ping>>, control |-> control,
                      retransmission |-> retransmission, data |-> data], FALSE)
  /\ UNCHANGED <<config, stored, leastUnacked, lost, largestRcvd, queued, outcome>>

PackConnectionClose(f) ==
  /\ MayPack("close") /\ writeAndSealPacket(<<f>>)
  /\ UNCHANGED <<config, control, ack, stop, retransmission, data, stored, leastUnacked, lost,
                 largestRcvd, queued, outcome>>

\* A packet of the handshake is sent again whole, behind a STOP_WAITING frame.
RetransmittedFrames ==
  <<StopWaitingFrame>> \o SelectSeq(lost.frames, LAMBDA f : f.type \notin {"ack", "stop_waiting"})

PackHandshakeRetransmission ==
  /\ MayPack("handshake") /\ lost # None /\ stop # 0
  /\ stop' = 0 /\ lost' = None
  /\ writeAndSealPacket(RetransmittedFrames)
  /\ UNCHANGED <<config, control, ack, retransmission, data, stored, leastUnacked, largestRcvd, queued,
                 outcome>>

PackAckPacket ==
  /\ MayPack("pack_ack") /\ ack # None
  /\ ack' = None /\ stop' = 0
  /\ writeAndSealPacket(<<ack>> \o (IF stop # 0 THEN <<StopWaitingFrame>> ELSE <<>>))
  /\ UNCHANGED <<config, control, retransmission, data, stored, leastUnacked, lost, largestRcvd, queued, outcome>>

\* The frames of a packet for later: STOP_WAITING included, as it is now.
StoreFrames ==
  LET c == composeNextPacket(stop # 0) IN
  /\ MayPack("store") /\ Len(stored) < 2
  /\ control' = c.control /\ retransmission' = c.retransmission /\ data' = c.data
  /\ failed' = ~ c.ok
  /\ IF c.frames = <<>> \/ (Len(c.frames) = 1 /\ stop # 0)
     THEN UNCHANGED <<stored, ack, stop>>
     ELSE stored' = Append(stored, c.frames) /\ ack' = None /\ stop' = 0
  /\ UNCHANGED <<config, next, leastUnacked, net, lost, largestRcvd, queued, outcome>>

PackPacketWithStoreFrames ==
  /\ MayPack("store")
  /\ \/ HasCryptoStreamFrame /\ packCryptoPacket(control) /\ UNCHANGED stored
     \/ ~ HasCryptoStreamFrame /\ IsPing /\ PackFrames(PingAlone, FALSE) /\ UNCHANGED stored
     \/ /\ ~ HasCryptoStreamFrame /\ ~ IsPing /\ stored # <<>>
        /\ stored' = Tail(stored) /\ stop' = 0 /\ ack' = None
        /\ writeAndSealPacket(Head(stored))
        /\ UNCHANGED <<control, retransmission, data>>
  /\ UNCHANGED <<config, leastUnacked, lost, largestRcvd, queued, outcome>>

-----------------------------------------------------------------------------
(* What is queued for the packer.                                           *)

QueueControlFrame(f) ==
  /\ queued < config.limit /\ Len(control) < MaxQueued
  /\ control' = Append(control, f) /\ queued' = queued + 1
  /\ UNCHANGED <<config, ack, stop, retransmission, data, stored, next, leastUnacked, net, lost, largestRcvd,
                 failed, outcome>>

QueueAck(f) ==
  /\ queued < config.limit /\ ack = None
  /\ ack' = f /\ queued' = queued + 1
  /\ UNCHANGED <<config, control, stop, retransmission, data, stored, next, leastUnacked, net,
                 lost, largestRcvd, failed, outcome>>

QueueStopWaiting ==
  /\ "stop" \in config.ops /\ queued < config.limit /\ stop = 0
  /\ stop' = leastUnacked /\ queued' = queued + 1
  /\ UNCHANGED <<config, control, ack, retransmission, data, stored, next, leastUnacked, net,
                 lost, largestRcvd, failed, outcome>>

AddFrameForRetransmission(f) ==
  /\ queued < config.limit /\ Len(retransmission) < MaxQueued
  /\ retransmission' = Append(retransmission, f) /\ queued' = queued + 1
  /\ UNCHANGED <<config, control, ack, stop, data, stored, next, leastUnacked, net, lost, largestRcvd,
                 failed, outcome>>

\* Everything received was acked, or everything sent was retransmitted.
SetLeastUnacked(n) ==
  /\ "least" \in config.ops /\ leastUnacked < n /\ leastUnacked' = n
  /\ UNCHANGED <<config, control, ack, stop, retransmission, data, stored, next, net, lost, largestRcvd,
                 queued, failed, outcome>>

-----------------------------------------------------------------------------
(* The network and the receiver.                                            *)

\* getRetransmission hands out the lost packets of the handshake, until it is complete.
Lose(p) ==
  /\ "lose" \in config.ops /\ net' = net \ {p}
  /\ lost' = IF p.level # "forward" /\ ~ config.complete THEN p ELSE lost
  /\ UNCHANGED <<config, control, ack, stop, retransmission, data, stored, next, leastUnacked,
                 largestRcvd, queued, failed, outcome>>

\* The packet opens only under the number it was sealed with.
Opened(p, h) ==
  IF h.ok /\ InferPacketNumber(h.frame.len, largestRcvd, h.frame.packet) = p.hdr.packet
  THEN Unpack(h.rest, [h.frame EXCEPT !.packet = p.hdr.packet], p.level # "initial")
  ELSE Failed

Unpacked(p, got) ==
  /\ net' = net \ {p}
  /\ largestRcvd' = IF got.ok THEN Max({largestRcvd, p.hdr.packet}) ELSE largestRcvd
  /\ outcome' = IF "numbers" \in config.ops THEN None
                ELSE [type |-> "outcome", sent |-> p.frames, got |-> got]
  /\ UNCHANGED <<config, control, ack, stop, retransmission, data, stored, next, leastUnacked,
                 lost, queued, failed>>

handlePacketImpl(p) == Unpacked(p, Opened(p, ParsePublicHeader(Bytes(p), p.pers, TRUE)))

Next ==
  \/ \E f \in config.control : QueueControlFrame(f)
  \/ \E f \in config.acks : QueueAck(f)
  \/ QueueStopWaiting
  \/ \E f \in config.retransmission : AddFrameForRetransmission(f)
  \/ \E n \in {largestRcvd + 1, next} : SetLeastUnacked(n)
  \/ PackPacket \/ PackPacketOfStream \/ PackPacketOfPath \/ PackPing \/ PackHandshakeRetransmission
  \/ \E f \in config.control : f.type = "connection_close" /\ PackConnectionClose(f)
  \/ PackAckPacket \/ StoreFrames \/ PackPacketWithStoreFrames
  \/ \E p \in net : Lose(p) \/ handlePacketImpl(p)

Spec == Init /\ [][Next]_vars

-----------------------------------------------------------------------------
(* Properties.                                                              *)

\* What a frame says, in the terms of both sides: sets of packets for the ranges
\* of ACK and CLOSE_PATH frames, nothing of how the frame is written
Acked(f) == {p \in f.lowest..f.largest : AcksPacket(f, p)}

\* The packet blocks of all ranges are more than a frame has.
Overfull(f) == FoldLeft(LAMBDA n, i : n + Blocks(f, i + 1), 0, [i \in 1..Len(f.ranges) - 1 |-> i]) >= B - 1

\* A time is rounded down, by less than one part in 2^MantissaBits.
Rounded(sent, got) == got <= sent /\ (sent >= MaxFloat \/ (sent - got) * 2^MantissaBits <= sent)

SameFrame(sent, got) ==
  CASE sent.type \in {"ack", "close_path"} ->
         /\ got.type = sent.type /\ got.path = sent.path
         /\ Acked(got) = {p \in Acked(sent) : p >= got.lowest}
         /\ got.largest = sent.largest /\ (got.lowest = sent.lowest \/ Overfull(sent))
         /\ sent.type = "ack" => Rounded(sent.delay, got.delay)
    [] sent.type = "stop_waiting" -> got.type = sent.type /\ got.leastUnacked = sent.leastUnacked
    [] sent.type = "paths" ->
         /\ got.type = sent.type /\ Len(got.paths) = Len(sent.paths)
         /\ \A i \in DOMAIN sent.paths :
              /\ Rounded(sent.paths[i].rtt, got.paths[i].rtt) /\ got.paths[i].id = sent.paths[i].id
              /\ got.paths[i].ip = sent.paths[i].ip /\ got.paths[i].port = sent.paths[i].port
    [] OTHER -> got = sent



\* A packet in flight that is less than half an epoch away from the largest received
\* one gets its own number back from the truncated one, whatever was lost or acked
\* in between.
NumbersInferred ==
  \A p \in net :
    delta(largestRcvd + 1, p.hdr.packet) < B^2 \div 2 =>
      InferPacketNumber(p.hdr.len, largestRcvd, p.hdr.packet % B^(p.hdr.len)) = p.hdr.packet

=============================================================================
