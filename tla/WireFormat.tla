----------------------------- MODULE WireFormat -----------------------------
(***************************************************************************)
(* internal/wire: how frames are written and parsed, and how long the      *)
(* packer takes them to be.                                                *)
(*                                                                         *)
(* A packet on the wire is a sequence.  Its numbers are sequences of bytes *)
(* in big-endian order, B being the number of values of a byte: B = 256 is *)
(* the program's, a small B lets every length and every limit be reached   *)
(* by small numbers.  A byte is a record: of its value, or, where its bits *)
(* have meanings (the type byte of a frame, the public flags of a header), *)
(* of what they say.  A frame is a record too.  Parsers return the frame   *)
(* and the rest of the packet, or fail: then ok is FALSE.                  *)
(***************************************************************************)
EXTENDS PacketNumber, Sequences, SequencesExt

CONSTANTS
  MaxPacketSize,  \* largest packet, header and tag of the cipher included
  NonceLen        \* length of a diversification nonce

Byte(v) == [v |-> v]
Put(v, n) == [i \in 1..n |-> Byte((v \div B^(n - i)) % B)]
Take(b, n) == FoldLeft(LAMBDA a, byte : a * B + byte.v, 0, SubSeq(b, 1, n))
Drop(b, n) == SubSeq(b, n + 1, Len(b))
Payload(n) == [i \in 1..n |-> Byte(0)]
IsNumber(byte) == DOMAIN byte = {"v"}

Parsed(frame, rest) == [ok |-> TRUE, frame |-> frame, rest |-> rest]
Failed == [ok |-> FALSE]

\* The length fields of a type byte hold half of 2, 4 and 6, and 0 for 1.
LengthBits(len) == IF len = 1 THEN 0 ELSE len \div 2
LengthOf(bits) == IF bits = 0 THEN 1 ELSE 2 * bits

-----------------------------------------------------------------------------
(* Times: 16-bit floats.  A byte has an even number of bits.                *)

RECURSIVE Log2(_)
Log2(n) == IF n <= 1 THEN 0 ELSE 1 + Log2(n \div 2)

ExponentBits == IF B = 256 THEN 5 ELSE Log2(B)
MantissaBits == 2 * Log2(B) - ExponentBits
MaxFloat == (2^(MantissaBits + 1) - 1) * 2^(2^ExponentBits - 2)

RECURSIVE Normalise(_, _, _)
Normalise(value, exponent, offset) ==
  IF offset = 0 THEN value + exponent * 2^MantissaBits
  ELSE IF value >= 2^(MantissaBits + offset)
  THEN Normalise(value \div 2^offset, exponent + offset, offset \div 2)
  ELSE Normalise(value, exponent, offset \div 2)

writeUfloat16(value) ==
  Put(IF value < 2^(MantissaBits + 1) THEN value
      ELSE IF value >= MaxFloat THEN B^2 - 1
      ELSE Normalise(value, 0, 2^(ExponentBits - 1)), 2)

readUfloat16(b) ==
  LET v == Take(b, 2)
      exponent == (v \div 2^MantissaBits) - 1
  IN IF v < 2^(MantissaBits + 1) THEN v
     ELSE (v - exponent * 2^MantissaBits) * 2^exponent

-----------------------------------------------------------------------------
(* STREAM frames.                                                           *)

StreamIDLength(id) == IF id < B THEN 1 ELSE IF id < B^2 THEN 2 ELSE IF id < B^3 THEN 3 ELSE 4

OffsetLength(offset) ==
  IF offset = 0 THEN 0 ELSE CHOOSE n \in 2..8 : /\ offset < B^n \/ n = 8
                                                /\ \A k \in 2..n - 1 : offset >= B^k

StreamFrameWrite(f) ==
  <<[type |-> "stream", fin |-> f.fin, dataLen |-> f.dataLen,
     offset |-> IF f.offset = 0 THEN 0 ELSE OffsetLength(f.offset) - 1,
     id |-> StreamIDLength(f.id) - 1]>>
  \o Put(f.id, StreamIDLength(f.id)) \o Put(f.offset, OffsetLength(f.offset))
  \o (IF f.dataLen THEN Put(f.data, 2) ELSE <<>>) \o Payload(f.data)

StreamFrameMinLength(f) ==
  1 + StreamIDLength(f.id) + OffsetLength(f.offset) + (IF f.dataLen THEN 2 ELSE 0)

ParseStreamFrame(b) ==
  LET t == b[1]
      idLen == t.id + 1
      offLen == IF t.offset = 0 THEN 0 ELSE t.offset + 1
      afterID == Drop(b, 1 + idLen)
      afterOffset == Drop(afterID, offLen)
      rest == IF t.dataLen THEN Drop(afterOffset, 2) ELSE afterOffset
      data == IF t.dataLen THEN Take(afterOffset, 2) ELSE Len(rest)
      f == [type |-> "stream", id |-> Take(Tail(b), idLen), fin |-> t.fin,
            dataLen |-> t.dataLen, offset |-> Take(afterID, offLen), data |-> data]
  IN IF \/ t.dataLen /\ (data > MaxPacketSize \/ data > Len(rest))
        \/ ~ t.fin /\ data = 0
     THEN Failed ELSE Parsed(f, Drop(rest, data))

-----------------------------------------------------------------------------
(* The ranges of ACK and CLOSE_PATH frames, which both write in the same    *)
(* way: highest first, each but the first as a gap of one byte and a length.*)
(* A gap that does not fit is written as several blocks, all but the last   *)
(* of length 0.                                                             *)

HasMissingRanges(f) == f.ranges # <<>>

RangeLength(r) == r.last - r.first + 1
Gap(f, i) == f.ranges[i - 1].first - f.ranges[i].last - 1

\* Blocks for the i-th range
Blocks(f, i) ==
  LET gap == Gap(f, i) IN
  IF gap % (B - 1) = 0 THEN gap \div (B - 1) ELSE 1 + (gap \div (B - 1))

\* How many ranges fit into the B - 1 blocks that a frame may have
RECURSIVE WritableRanges(_, _, _)
WritableRanges(f, i, blocks) ==
  IF i > Len(f.ranges) \/ blocks + Blocks(f, i) >= B - 1 THEN i - 1
  ELSE WritableRanges(f, i + 1, blocks + Blocks(f, i))

numWritableNackRanges(f) ==
  FoldLeft(LAMBDA n, i : n + Blocks(f, i), 1, [k \in 1..WritableRanges(f, 2, 0) - 1 |-> k + 1])

getMissingSequenceNumberDeltaLen(f) ==
  GetPacketNumberLength(
    IF HasMissingRanges(f)
    THEN CHOOSE n \in {RangeLength(f.ranges[i]) : i \in DOMAIN f.ranges} :
           \A i \in DOMAIN f.ranges : RangeLength(f.ranges[i]) <= n
    ELSE f.largest - f.lowest + 1)


LastGap(gap) == 1 + ((gap - 1) % (B - 1))

RangeWrite(f, i, len) ==
  LET n == Blocks(f, i)
      block(k) == IF k = n THEN Put(LastGap(Gap(f, i)), 1) \o Put(RangeLength(f.ranges[i]), len)
                  ELSE Put(B - 1, 1) \o Put(0, len)
  IN FlattenSeq([k \in 1..n |-> block(k)])

FirstBlock(f, len) ==
  Put(IF HasMissingRanges(f) THEN RangeLength(f.ranges[1]) ELSE f.largest - f.lowest + 1, len)

RangesWrite(f, len) ==
  FlattenSeq([i \in 1..WritableRanges(f, 2, 0) - 1 |-> RangeWrite(f, i + 1, len)])

RangesMinLength(f) ==
  LET len == getMissingSequenceNumberDeltaLen(f) IN
  IF HasMissingRanges(f) THEN (1 + len) * numWritableNackRanges(f) ELSE len

\* The loop over the blocks: long says that the last block had length 0, done
\* that the last range has a length.
RECURSIVE ReadRanges(_, _, _, _, _, _)
ReadRanges(b, blocks, len, ranges, long, done) ==
  LET gap == Take(b, 1)
      length == Take(Tail(b), len)
      last == ranges[Len(ranges)]
      longer == [first |-> last.first - gap - length, last |-> last.last - gap]
      next == [first |-> last.first - gap - length, last |-> last.first - gap - 1]
  IN IF blocks = 0
     THEN [ranges |-> IF done THEN ranges ELSE SubSeq(ranges, 1, Len(ranges) - 1), rest |-> b]
     ELSE ReadRanges(Drop(b, 1 + len), blocks - 1, len,
                     IF long THEN [ranges EXCEPT ![Len(ranges)] = longer]
                     ELSE Append(ranges, next),
                     length = 0, IF long THEN done \/ length > 0 ELSE length > 0)

validateAckRanges(f) ==
  \/ f.ranges = <<>>
  \/ /\ Len(f.ranges) > 1 /\ f.ranges[1].last = f.largest
     /\ \A i \in DOMAIN f.ranges : f.ranges[i].first <= f.ranges[i].last
     /\ \A i \in 2..Len(f.ranges) : f.ranges[i - 1].first > f.ranges[i].last + 1

Validated(f, rest) == IF validateAckRanges(f) THEN Parsed(f, rest) ELSE Failed

WithMissing(f, read) ==
  Validated([f EXCEPT !.ranges = read.ranges, !.lowest = Last(read.ranges).first], read.rest)

WithoutMissing(f, first, rest) ==
  Validated([f EXCEPT !.lowest = IF f.largest = 0 THEN 0 ELSE f.largest + 1 - first], rest)

\* b is what follows the first block, and first the length in that block.
ParseBlocks(b, f, missing, blocks, len, first) ==
  IF \/ missing /\ blocks = 0
     \/ f.largest > 0 /\ first < 1
     \/ first > f.largest
  THEN Failed
  ELSE IF missing
  THEN WithMissing(f, ReadRanges(b, blocks, len, <<[first |-> f.largest - first + 1, last |-> f.largest]>>,
                                 FALSE, FALSE))
  ELSE WithoutMissing(f, first, b)

\* b is what follows the number of blocks and the largest acked packet.
ParseRanges(b, f, missing, blocks, len) ==
  ParseBlocks(Drop(b, len), f, missing, blocks, len, Take(b, len))

AcksPacket(f, p) ==
  /\ p \in f.lowest..f.largest
  /\ HasMissingRanges(f) =>
       \E i \in DOMAIN f.ranges : p \in f.ranges[i].first..f.ranges[i].last

-----------------------------------------------------------------------------
(* ACK and CLOSE_PATH frames.  A frame whose first gap alone takes more     *)
(* blocks than a frame may have cannot be written: see Writable.            *)

AckFrameWrite(f) ==
  LET largestLen == GetPacketNumberLength(f.largest)
      deltaLen == getMissingSequenceNumberDeltaLen(f)
  IN <<[type |-> "ack", missing |-> HasMissingRanges(f), path |-> f.path # 0,
        largest |-> LengthBits(largestLen), delta |-> LengthBits(deltaLen)]>>
     \o (IF f.path # 0 THEN Put(f.path, 1) ELSE <<>>)
     \o Put(f.largest, largestLen) \o writeUfloat16(f.delay)
     \o (IF HasMissingRanges(f) THEN Put(numWritableNackRanges(f) - 1, 1) ELSE <<>>)
     \o FirstBlock(f, deltaLen) \o RangesWrite(f, deltaLen)
     \o Put(0, 1)                                      \* no timestamps

AckFrameMinLength(f) ==
  1 + 2 + 1 + GetPacketNumberLength(f.largest) + RangesMinLength(f) + (IF f.path # 0 THEN 1 ELSE 0)

WithoutTimestamps(parsed) ==
  IF parsed.ok THEN Parsed(parsed.frame, Tail(parsed.rest)) ELSE Failed

ParseAckFrame(b) ==
  LET t == b[1]
      atLargest == Drop(b, IF t.path THEN 2 ELSE 1)
      atDelay == Drop(atLargest, LengthOf(t.largest))
      atBlocks == Drop(atDelay, 2)
      f == [type |-> "ack", path |-> IF t.path THEN b[2].v ELSE 0,
            largest |-> Take(atLargest, LengthOf(t.largest)), lowest |-> 0, ranges |-> <<>>,
            delay |-> readUfloat16(atDelay)]
      parsed == ParseRanges(IF t.missing THEN Tail(atBlocks) ELSE atBlocks, f, t.missing,
                            IF t.missing THEN Take(atBlocks, 1) ELSE 0, LengthOf(t.delta))
  IN WithoutTimestamps(parsed)

ClosePathFrameWrite(f) ==
  LET largestLen == GetPacketNumberLength(f.largest)
      deltaLen == getMissingSequenceNumberDeltaLen(f)
  IN <<[type |-> "close_path"]>> \o Put(f.path, 1)
     \o <<[missing |-> HasMissingRanges(f), largest |-> LengthBits(largestLen),
           delta |-> LengthBits(deltaLen)]>>
     \o (IF HasMissingRanges(f) THEN Put(numWritableNackRanges(f) - 1, 1) ELSE <<>>)
     \o Put(f.largest, largestLen) \o FirstBlock(f, deltaLen) \o RangesWrite(f, deltaLen)

ClosePathFrameMinLength(f) == 3 + GetPacketNumberLength(f.largest) + RangesMinLength(f)

ParseClosePathFrame(b) ==
  LET flags == b[3]
      atLargest == Drop(b, IF flags.missing THEN 4 ELSE 3)
      f == [type |-> "close_path", path |-> b[2].v, lowest |-> 0, ranges |-> <<>>,
            largest |-> Take(atLargest, LengthOf(flags.largest))]
  IN ParseRanges(Drop(atLargest, LengthOf(flags.largest)), f, flags.missing,
                 IF flags.missing THEN b[4].v ELSE 0, LengthOf(flags.delta))

-----------------------------------------------------------------------------
(* Frames whose fields have fixed lengths, and the frames that end with a   *)
(* reason phrase.  STOP_WAITING is written relative to the number of its    *)
(* packet, in as many bytes as the header uses for it.                      *)

RstStreamFrame == << <<"id", 4>>, <<"offset", 8>>, <<"code", 4>> >>
WindowUpdateFrame == << <<"id", 4>>, <<"offset", 8>> >>
BlockedFrame == << <<"id", 4>> >>
PingFrame == <<>>
GoawayFrame == << <<"code", 4>>, <<"id", 4>>, <<"reason", 2>> >>
ConnectionCloseFrame == << <<"code", 4>>, <<"reason", 2>> >>

Layout(type) ==
  CASE type = "rst" -> RstStreamFrame [] type = "window_update" -> WindowUpdateFrame
    [] type = "blocked" -> BlockedFrame [] type = "ping" -> PingFrame
    [] type = "goaway" -> GoawayFrame [] type = "connection_close" -> ConnectionCloseFrame

Reason(f) == IF "reason" \in DOMAIN f THEN f.reason ELSE 0

FixedWrite(f) ==
  <<[type |-> f.type]>>
  \o FlattenSeq([i \in DOMAIN Layout(f.type) |-> Put(f[Layout(f.type)[i][1]], Layout(f.type)[i][2])])
  \o Payload(Reason(f))

FixedMinLength(f) ==
  FoldLeft(LAMBDA n, field : n + field[2], 1 + Reason(f), Layout(f.type))

ParseFixed(b) ==
  LET fields == Layout(b[1].type)
      start(i) == FoldLeft(LAMBDA n, field : n + field[2], 1, SubSeq(fields, 1, i - 1))
      f == [n \in {"type"} \cup {fields[i][1] : i \in DOMAIN fields} |->
              IF n = "type" THEN b[1].type
              ELSE LET i == CHOOSE j \in DOMAIN fields : fields[j][1] = n
                   IN Take(Drop(b, start(i)), fields[i][2])]
      rest == Drop(b, start(Len(fields) + 1))
  IN IF Reason(f) > MaxPacketSize \/ Reason(f) > Len(rest) THEN Failed
     ELSE Parsed(f, Drop(rest, Reason(f)))

StopWaitingFrameWrite(f) == <<[type |-> "stop_waiting"]>> \o Put(f.packet - f.leastUnacked, f.len)
StopWaitingFrameMinLength(f) == 1 + f.len

ParseStopWaitingFrame(b, packet, len) ==
  LET leastUnackedDelta == Take(Tail(b), len) IN
  IF leastUnackedDelta >= packet THEN Failed
  ELSE Parsed([type |-> "stop_waiting", leastUnacked |-> packet - leastUnackedDelta], Drop(b, 1 + len))

-----------------------------------------------------------------------------
(* Addresses.  MinLength of a PATHS frame forgets the byte with the number  *)
(* of addresses and the addresses themselves, six bytes each.               *)

IPLen(version) == IF version = 4 THEN 4 ELSE 16

AddAddressFrameWrite(f) ==
  <<[type |-> "add_address"]>> \o Put(f.version, 1)
  \o Payload(IPLen(f.version) - 4) \o Put(f.ip, 4) \o Put(f.port, 2)

ParseAddAddressFrame(b) ==
  LET len == IPLen(b[2].v) IN
  IF b[2].v \notin {4, 6} THEN Failed
  ELSE Parsed([type |-> "add_address", version |-> b[2].v, ip |-> Take(Drop(b, 2 + len - 4), 4),
               port |-> Take(Drop(b, 2 + len), 2)], Drop(b, 2 + len + 2))

AddAddressFrameMinLength(f) == 1 + 1 + IPLen(f.version) + 2

PathsFrameWrite(f) ==
  <<[type |-> "paths"]>> \o Put(B - 1, 1) \o Put(Len(f.paths), 1)
  \o Put(IF f.ips THEN Len(f.paths) ELSE 0, 1)
  \o FlattenSeq([i \in DOMAIN f.paths |->
       Put(f.paths[i].id, 1) \o writeUfloat16(f.paths[i].rtt)
       \o (IF f.ips THEN Put(f.paths[i].ip, 4) \o Put(f.paths[i].port, 2) ELSE <<>>)])

ParsePathsFrame(b) ==
  LET ips == b[4].v > 0
      size == IF ips THEN 9 ELSE 3
      entry(i) == LET e == Drop(b, 4 + (i - 1) * size) IN
        [id |-> e[1].v, rtt |-> readUfloat16(Tail(e)),
         ip |-> IF ips THEN Take(Drop(e, 3), 4) ELSE 0, port |-> IF ips THEN Take(Drop(e, 7), 2) ELSE 0]
  IN IF b[3].v > b[2].v \/ b[4].v > b[3].v THEN Failed
     ELSE Parsed([type |-> "paths", ips |-> ips, paths |-> [i \in 1..b[3].v |-> entry(i)]],
                 Drop(b, 4 + b[3].v * size))

\* Computed in a byte: exact up to 84 paths.
PathsFrameMinLength(f) == 1 + 1 + 1 + 3 * Len(f.paths)

-----------------------------------------------------------------------------
(* All frames, and the public header.                                       *)

Write(f) ==
  CASE f.type = "stream" -> StreamFrameWrite(f) [] f.type = "ack" -> AckFrameWrite(f)
    [] f.type = "close_path" -> ClosePathFrameWrite(f)
    [] f.type = "stop_waiting" -> StopWaitingFrameWrite(f)
    [] f.type = "add_address" -> AddAddressFrameWrite(f)
    [] f.type = "paths" -> PathsFrameWrite(f)
    [] OTHER -> FixedWrite(f)

MinLength(f) ==
  CASE f.type = "stream" -> StreamFrameMinLength(f) [] f.type = "ack" -> AckFrameMinLength(f)
    [] f.type = "close_path" -> ClosePathFrameMinLength(f)
    [] f.type = "stop_waiting" -> StopWaitingFrameMinLength(f)
    [] f.type = "add_address" -> AddAddressFrameMinLength(f)
    [] f.type = "paths" -> PathsFrameMinLength(f)
    [] OTHER -> FixedMinLength(f)

\* Write returns an error otherwise.
Writable(f) ==
  /\ f.type = "stream" => f.data > 0 \/ f.fin
  /\ f.type \in {"ack", "close_path"} /\ HasMissingRanges(f) => numWritableNackRanges(f) > 1
  /\ f.type = "stop_waiting" => f.packet > 0 /\ f.leastUnacked <= f.packet

hasPacketNumber(h, sentBy) == ~ h.reset /\ ~ (h.version # 0 /\ sentBy = "server")

PublicHeaderWrite(h, pers) ==
  <<[version |-> h.version # 0, reset |-> h.reset, conn |-> ~ h.truncate, nonce |-> h.nonce,
     multipath |-> h.multipath,
     number |-> IF hasPacketNumber(h, pers) THEN LengthBits(h.len) ELSE 0]>>
  \o (IF h.truncate THEN <<>> ELSE Put(h.conn, 8))
  \o (IF h.version # 0 /\ pers = "client" THEN Put(h.version, 4) ELSE <<>>)
  \o (IF h.nonce THEN Payload(NonceLen) ELSE <<>>)
  \o (IF h.multipath THEN Put(h.path, 1) ELSE <<>>)
  \o (IF hasPacketNumber(h, pers) THEN Put(h.packet, h.len) ELSE <<>>)

GetLength(h, pers) ==
  1 + (IF hasPacketNumber(h, pers) THEN h.len ELSE 0) + (IF h.truncate THEN 0 ELSE 8)
    + (IF h.version # 0 THEN 4 ELSE 0) + (IF h.nonce THEN NonceLen ELSE 0)
    + (IF h.multipath THEN 1 ELSE 0)

PeekConnectionID(b) == IF b[1].conn THEN Take(Tail(b), 8) ELSE 0

\* A connection ID is not 0 and a server needs one; known says that the version
\* of the connection is.  A server sets the version flag in a list of its versions.
ParsePublicHeader(b, sentBy, known) ==
  LET t == b[1]
      nonce == t.nonce /\ sentBy = "server" /\ ~ t.version /\ ~ t.reset
      list == t.version /\ ~ t.reset /\ sentBy = "server"
      atVersion == Drop(b, (IF t.conn THEN 9 ELSE 1) + (IF nonce THEN NonceLen ELSE 0))
      atPath == IF t.version /\ ~ t.reset THEN Drop(atVersion, 4) ELSE atVersion
      atNumber == IF t.multipath THEN Tail(atPath) ELSE atPath
      len == IF list \/ t.reset THEN 0 ELSE LengthOf(t.number)
      h == [conn |-> PeekConnectionID(b), truncate |-> ~ t.conn, nonce |-> nonce, reset |-> t.reset]
      regular == [version |-> IF t.version /\ ~ t.reset THEN Take(atVersion, 4) ELSE 0, len |-> len,
                  packet |-> Take(atNumber, len), multipath |-> t.multipath,
                  path |-> IF t.multipath THEN atPath[1].v ELSE 0]
      versions == [i \in 1..Len(atVersion) \div 4 |-> Take(Drop(atVersion, 4 * (i - 1)), 4)]
  IN IF \/ ~ known /\ ~ t.version /\ ~ t.reset
        \/ IF t.conn THEN h.conn = 0 ELSE sentBy = "client"
        \/ list /\ Len(atVersion) % 4 # 0
     THEN Failed
     ELSE IF list THEN Parsed(h @@ [versions |-> versions], <<>>)
     ELSE Parsed(h @@ regular, Drop(atNumber, len))

-----------------------------------------------------------------------------
(* packet_unpacker.go: all the frames of a packet, or the first error.      *)

ParseFrame(b, h) ==
  LET type == b[1].type IN
  CASE type = "stream" -> ParseStreamFrame(b) [] type = "ack" -> ParseAckFrame(b)
    [] type = "close_path" -> ParseClosePathFrame(b)
    [] type = "stop_waiting" -> ParseStopWaitingFrame(b, h.packet, h.len)
    [] type = "add_address" -> ParseAddAddressFrame(b)
    [] type = "paths" -> ParsePathsFrame(b)
    [] OTHER -> ParseFixed(b)

RECURSIVE ParseFrames(_, _, _, _)

\* After the frame p: only the crypto stream may be in a packet that is not secure.
ParseMore(p, h, secure, frames) ==
  IF ~ p.ok \/ (p.frame.type = "stream" /\ p.frame.id # 1 /\ ~ secure) THEN Failed
  ELSE ParseFrames(p.rest, h, secure, Append(frames, p.frame))

ParseFrames(b, h, secure, frames) ==
  IF b = <<>> THEN [ok |-> TRUE, frames |-> frames]
  ELSE IF b[1] = Byte(0) THEN ParseFrames(Tail(b), h, secure, frames)    \* PADDING
  ELSE IF IsNumber(b[1]) THEN Failed
  ELSE ParseMore(ParseFrame(b, h), h, secure, frames)

Unpack(b, h, secure) == IF b = <<>> THEN Failed ELSE ParseFrames(b, h, secure, <<>>)

=============================================================================
