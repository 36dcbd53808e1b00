--------------------------- MODULE MCPacketCodec ----------------------------
(***************************************************************************)
(* Packets of at most 60 bytes, of bytes with 8 values: 7 blocks in an ACK *)
(* frame, gaps of more than 7 packets in several blocks, 64 numbers in two *)
(* bytes.                                                                  *)
(***************************************************************************)
EXTENDS PacketCodec, TLC

AckRange(low, high) == [first |-> low, last |-> high]

\* The ranges with these lengths and gaps, from the lowest on, highest first
RangesOf(lens, gaps, start) ==
  FoldLeft(LAMBDA rs, i : LET low == IF i = 1 THEN start ELSE rs[1].last + gaps[i - 1] + 1
                          IN <<AckRange(low, low + lens[i] - 1)>> \o rs,
           <<>>, [i \in DOMAIN lens |-> i])

WithRanges(f, rs) ==
  f @@ [largest |-> rs[1].last, lowest |-> Last(rs).first,
        ranges |-> IF Len(rs) = 1 THEN <<>> ELSE rs]

Shapes == UNION {[lens : [1..n -> {1, 9}], gaps : [1..n - 1 -> {1, 7, 8, 15}]] : n \in 1..4}
AckShape(delay) == [type |-> "ack", path |-> 1, delay |-> delay]

Acks == {WithRanges(AckShape(5), RangesOf(s.lens, s.gaps, 1)) : s \in Shapes}
Delayed == {WithRanges(AckShape(d), RangesOf(<<2, 1>>, <<1>>, 70)) : d \in 0..70 \cup 500..520 \cup 955..965}
SmallAcks == {WithRanges([AckShape(5) EXCEPT !.path = 0], RangesOf(<<1>>, <<>>, 3)),
              WithRanges(AckShape(5), RangesOf(<<1, 9, 9, 1>>, <<8, 1, 15>>, 1))}
ClosePaths == {WithRanges([type |-> "close_path", path |-> 3], RangesOf(s.lens, s.gaps, 1)) :
                 s \in {t \in Shapes : Len(t.lens) < 4}}

WindowUpdate == [type |-> "window_update", id |-> 70, offset |-> 1000]
Rst == [type |-> "rst", id |-> 5, offset |-> 600, code |-> 6]
Blocked == [type |-> "blocked", id |-> 9]
Ping == [type |-> "ping"]
Others == {[type |-> "goaway", id |-> 3, code |-> 9, reason |-> 7],
           [type |-> "connection_close", code |-> 9, reason |-> 0],
           [type |-> "add_address", version |-> 4, ip |-> 100, port |-> 44],
           [type |-> "add_address", version |-> 6, ip |-> 100, port |-> 44]}
Entry(id, ip) == [id |-> id, rtt |-> 77, ip |-> ip, port |-> ip]
Paths == {[type |-> "paths", ips |-> FALSE, paths |-> <<Entry(0, 0), Entry(1, 0)>>],
          [type |-> "paths", ips |-> TRUE, paths |-> <<Entry(0, 11), Entry(3, 12)>>]}

Stream(id, offset, n, fin) ==
  [type |-> "stream", id |-> id, offset |-> offset, data |-> n, fin |-> fin, dataLen |-> FALSE]

Base == [pers |-> "server", level |-> "forward", complete |-> TRUE, control |-> {}, acks |-> {},
         retransmission |-> {}, data |-> 0, crypto |-> FALSE, volume |-> 0, streams |-> {}, ops |-> {"pack"}, first |-> 1, last |-> 5, limit |-> 1,
         behind |-> 20, least |-> 1, flight |-> 1]

MCConfigs ==
  { \* every shape of ranges, every kind of delay
    [Base EXCEPT !.acks = Acks \cup Delayed, !.control = ClosePaths \cup Paths],
    \* frames of all kinds in one packet, with and without stream data
    [Base EXCEPT !.control = Others \cup {WindowUpdate, Rst, Blocked, Ping}, !.acks = SmallAcks, !.limit = 3],
    [Base EXCEPT !.pers = "client", !.level = "secure", !.complete = FALSE, !.data = 45, !.limit = 3,
                 !.control = {WindowUpdate, Rst, Ping}, !.acks = SmallAcks, !.last = 2],
    \* STOP_WAITING and retransmissions, around the room that is left
    [Base EXCEPT !.acks = SmallAcks, !.data = 30, !.limit = 3, !.first = 60, !.last = 62,
                 !.retransmission = {Stream(5, 0, 20, FALSE), Stream(70, 600, 40, TRUE), Stream(9, 64, 0, TRUE)},
                 !.ops = {"of_stream", "pack_ack", "stop"}],
    \* packets that wait for the congestion window, while the header may grow
    [Base EXCEPT !.control = {WindowUpdate, Ping}, !.data = 100, !.limit = 2, !.first = 31, !.least = 1,
                 !.ops = {"pack", "store", "least"}, !.last = 34, !.behind = 40],
    \* the handshake: nothing but crypto data, and no stream data from a server
    [Base EXCEPT !.level = "initial", !.complete = FALSE, !.data = 90, !.crypto = TRUE, !.pers = "client",
                 !.limit = 2, !.acks = SmallAcks, !.ops = {"pack", "lose", "stop", "handshake"}],
    [Base EXCEPT !.level = "secure", !.complete = FALSE, !.data = 60, !.crypto = TRUE, !.limit = 2,
                 !.acks = SmallAcks, !.control = {WindowUpdate} \cup {f \in Others : f.type = "connection_close"},
                 !.first = 30, !.last = 34, !.ops = {"pack", "lose", "stop", "handshake", "close"}],
    \* the streams of the path, with less volume than data
    [Base EXCEPT !.data = 80, !.volume = 20, !.streams = {5, 9}, !.limit = 3, !.last = 3,
                 !.control = {WindowUpdate, Ping}, !.ops = {"of_path", "ping", "stop"},
                 !.retransmission = {Stream(5, 0, 20, FALSE), Stream(70, 600, 40, TRUE), Stream(9, 64, 0, TRUE)}],
    \* packet numbers around the end of the first epoch
    [Base EXCEPT !.data = 1000000, !.ops = {"pack", "lose", "least", "numbers"}, !.first = 50, !.least = 50,
                 !.last = 66, !.behind = 32, !.flight = 2] }

=============================================================================
