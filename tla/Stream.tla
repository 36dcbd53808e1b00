------------------------------- MODULE Stream -------------------------------
(***************************************************************************)
(* stream.go: one stream, used by four goroutines: an application that     *)
(* reads, one that writes, one that closes, resets and sets deadlines, and *)
(* the run loop of the session, which adds received frames, reports errors *)
(* and, through the stream framer, fetches the data to send.               *)
(*                                                                         *)
(* Every section under the mutex is one step; so is everything between two *)
(* of them that other goroutines cannot observe.  readChan and writeChan   *)
(* are channels with room for one token.  What the frame sorter does is    *)
(* the subject of StreamFrameSorter: here frames have one byte, arrive in  *)
(* order, and the last one carries FIN.  A behaviour has a reader or a     *)
(* writer, which share nothing but the flags.                              *)
(***************************************************************************)
EXTENDS Naturals

CONSTANTS
  Uses,         \* what the application may do with the stream: "read", "write"
  FinFrame,     \* bound: frames the peer sends; the last one has FIN
  MaxRead,      \* bound: bytes asked for by one Read
  MaxWrite,     \* bound: bytes of one Write
  MaxSent,      \* bound: bytes sent
  MaxFrame,     \* bound: bytes of a STREAM frame sent
  MaxTime,      \* bound: values of the clock; 0 is the zero time
  RemoteResets  \* whether the peer may reset the stream

ASSUME StreamAssumption ==
  /\ Uses \subseteq {"read", "write"}
  /\ FinFrame \in Nat /\ MaxRead \in Nat /\ MaxWrite \in Nat
  /\ MaxSent \in Nat /\ MaxFrame \in Nat \ {0}
  /\ MaxTime \in Nat /\ RemoteResets \in BOOLEAN

VARIABLES
  use,              \* which direction this behaviour is about; never changes
  err,              \* whether err is set
  cancelled, finishedReading, finishedWriting, resetLocally, resetRemotely,
  finSent, rstSent,
  collected,        \* garbageCollectStreams has removed the stream
  now,              \* the clock
  arrived,          \* frames in the frameQueue, read ones included
  readOffset, readChan, readDeadline,
  reader,           \* where Read is, and its local variables
  dataForWriting,   \* bytes waiting to be sent, 0 for nil
  writeOffset, writeChan, writeDeadline,
  writer,           \* where Write is, and its local variables
  framer,           \* where maybePopNormalFrames is, and its local variables
  written,          \* history variable: bytes Write reported as written
  rstOffset         \* history variable: ByteOffset of the RST_STREAM frame

flags == <<use, err, cancelled, resetLocally, resetRemotely, rstSent, rstOffset>>
reading == <<arrived, readOffset, readChan, readDeadline, reader, finishedReading>>
writing == <<dataForWriting, writeOffset, writeChan, writeDeadline, writer,
             written, finishedWriting>>
sending == <<framer, finSent>>
vars == <<flags, reading, writing, sending, collected, now>>

Init ==
  /\ use \in Uses
  /\ err = FALSE /\ cancelled = FALSE
  /\ finishedReading = FALSE /\ finishedWriting = FALSE
  /\ resetLocally = FALSE /\ resetRemotely = FALSE
  /\ finSent = FALSE /\ rstSent = FALSE /\ collected = FALSE
  /\ now = 1
  /\ arrived = 0 /\ readOffset = 0 /\ readChan = 0 /\ readDeadline = 0
  /\ reader = [at |-> "idle", left |-> 0, any |-> FALSE, timer |-> 0]
  /\ dataForWriting = 0 /\ writeOffset = 0 /\ writeChan = 0 /\ writeDeadline = 0
  /\ writer = [at |-> "idle", len |-> 0, timer |-> 0]
  /\ framer = [at |-> "idle", len |-> 0]
  /\ written = 0
  /\ rstOffset = 0

Expired(deadline) == deadline > 0 /\ now >= deadline

-----------------------------------------------------------------------------
(* Read.  left is what is still to be read, any whether something was, and  *)
(* timer the deadline with which the wait began.                            *)

HasFrame == arrived > readOffset

ReadBegin(n) ==
  /\ reader.at = "idle"
  /\ ~ cancelled /\ ~ resetLocally /\ ~ finishedReading
  /\ reader' = [at |-> "loop", left |-> n, any |-> FALSE, timer |-> 0]
  /\ UNCHANGED <<flags, arrived, readOffset, readChan, readDeadline,
                 finishedReading, writing, sending, collected, now>>

\* Reasons to return without waiting: no more frames after some were read, an
\* error, or the deadline
StopsReading ==
  \/ reader.at = "loop" /\ ~ HasFrame /\ reader.any
  \/ resetLocally \/ cancelled
  \/ Expired(readDeadline)

\* The section under the mutex, at the start of the loop or after a wake-up
ReadLocked ==
  /\ reader.at \in {"loop", "woken"}
  /\ reader' = [reader EXCEPT
                  !.at = IF StopsReading THEN "idle"
                         ELSE IF HasFrame THEN "frame" ELSE "wait",
                  !.timer = readDeadline]
  /\ UNCHANGED <<flags, arrived, readOffset, readChan, readDeadline,
                 finishedReading, writing, sending, collected, now>>

ReadWoken ==
  /\ reader.at = "wait"
  /\ \/ readChan = 1 /\ readChan' = 0
     \/ Expired(reader.timer) /\ UNCHANGED readChan
  /\ reader' = [reader EXCEPT !.at = "woken"]
  /\ UNCHANGED <<flags, arrived, readOffset, readDeadline, finishedReading,
                 writing, sending, collected, now>>

ReadFrame ==
  LET fin == readOffset + 1 = FinFrame IN
  /\ reader.at = "frame"
  /\ readOffset' = readOffset + 1
  /\ finishedReading' = fin
  /\ reader' = [reader EXCEPT
                  !.at = IF fin \/ reader.left = 1 THEN "idle" ELSE "loop",
                  !.left = @ - 1, !.any = TRUE]
  /\ UNCHANGED <<flags, arrived, readChan, readDeadline, writing, sending,
                 collected, now>>

-----------------------------------------------------------------------------
(* Write *)

WriteWaits == writer' = [writer EXCEPT !.at = "wait", !.timer = writeDeadline]
WriteReturns == writer' = [writer EXCEPT !.at = "idle"]

WriteAllowed == ~ resetLocally /\ ~ err /\ ~ finishedWriting

\* The data of an earlier Write that timed out are replaced.
WriteBegin(n) ==
  /\ writer.at = "idle"
  /\ WriteAllowed
  /\ dataForWriting' = n
  /\ writer' = [at |-> IF Expired(writeDeadline) THEN "idle" ELSE "wait",
                len |-> n, timer |-> writeDeadline]
  /\ UNCHANGED <<flags, reading, writeOffset, writeChan, writeDeadline, written,
                 finishedWriting, sending, collected, now>>

WriteWoken ==
  /\ writer.at = "wait"
  /\ \/ writeChan = 1 /\ writeChan' = 0
     \/ Expired(writer.timer) /\ UNCHANGED writeChan
  /\ writer' = [writer EXCEPT !.at = "woken"]
  /\ UNCHANGED <<flags, reading, dataForWriting, writeOffset, writeDeadline,
                 written, finishedWriting, sending, collected, now>>

\* Mutant: an error is reported as if everything had been sent.
Reported_All == writer.len

\* What Write reports unless it timed out: all of its data when no error came up,
\* and otherwise what the framer fetched before the error.
Reported == writer.len - dataForWriting

WriteLocked ==
  /\ writer.at = "woken"
  /\ \/ Expired(writeDeadline) /\ WriteReturns /\ UNCHANGED written
     \/ /\ ~ Expired(writeDeadline)
        /\ dataForWriting = 0 \/ err
        /\ WriteReturns
        /\ written' = written + Reported
     \/ /\ ~ Expired(writeDeadline)
        /\ dataForWriting > 0 /\ ~ err
        /\ WriteWaits
        /\ UNCHANGED written
  /\ UNCHANGED <<flags, reading, dataForWriting, writeOffset, writeChan,
                 writeDeadline, finishedWriting, sending, collected, now>>

-----------------------------------------------------------------------------
(* The application's other calls *)

Close ==
  /\ finishedWriting' = TRUE
  /\ UNCHANGED <<flags, reading, dataForWriting, writeOffset, writeChan,
                 writeDeadline, writer, written, sending, collected, now>>

SetReadDeadline(t) ==
  /\ readDeadline' = t
  /\ readChan' = IF t < readDeadline THEN 1 ELSE readChan
  /\ UNCHANGED <<flags, arrived, readOffset, reader, finishedReading, writing,
                 sending, collected, now>>

SetWriteDeadline(t) ==
  /\ writeDeadline' = t
  /\ writeChan' = IF t < writeDeadline THEN 1 ELSE writeChan
  /\ UNCHANGED <<flags, reading, dataForWriting, writeOffset, writer, written,
                 finishedWriting, sending, collected, now>>

-----------------------------------------------------------------------------
(* Errors: Reset, RegisterRemoteError, Cancel *)

SetErr == err' = TRUE

\* shouldSendReset, after the flag of the caller was set
SendReset ==
  IF ~ rstSent /\ ~ (finishedWriting /\ finSent)
  THEN rstSent' = TRUE /\ rstOffset' = writeOffset
  ELSE UNCHANGED <<rstSent, rstOffset>>

SignalBoth ==
  /\ writeChan' = IF err THEN writeChan ELSE 1
  /\ readChan' = IF err THEN readChan ELSE 1

ErrorLeaves ==
  UNCHANGED <<arrived, readOffset, readDeadline, reader, finishedReading,
              dataForWriting, writeOffset, writeDeadline, writer, written,
              finishedWriting, sending, collected, now>>

Reset ==
  /\ ~ resetLocally
  /\ resetLocally' = TRUE
  /\ SetErr
  /\ SignalBoth
  /\ SendReset
  /\ UNCHANGED <<use, cancelled, resetRemotely>>
  /\ ErrorLeaves

\* The run loop does one thing at a time, and nothing for a stream it removed.
RunLoopIdle == framer.at = "idle" /\ ~ collected

RegisterRemoteError ==
  /\ RunLoopIdle /\ RemoteResets
  /\ ~ resetRemotely
  /\ resetRemotely' = TRUE
  /\ SetErr
  /\ writeChan' = IF err THEN writeChan ELSE 1
  /\ SendReset
  /\ UNCHANGED <<use, cancelled, resetLocally, readChan>>
  /\ ErrorLeaves

Cancel ==
  /\ RunLoopIdle
  /\ cancelled' = TRUE
  /\ SetErr
  /\ SignalBoth
  /\ UNCHANGED <<use, resetLocally, resetRemotely, rstSent, rstOffset>>
  /\ ErrorLeaves

-----------------------------------------------------------------------------
(* The run loop: received frames, garbage collection, and the framer *)

\* Mutant: the reader is only woken by the frame that ends the stream.
signalRead_OnlyFin == readChan' = IF arrived + 1 = FinFrame THEN 1 ELSE readChan

signalRead == readChan' = 1

AddStreamFrame ==
  /\ RunLoopIdle
  /\ arrived < FinFrame
  /\ arrived' = arrived + 1
  /\ signalRead
  /\ UNCHANGED <<flags, readOffset, readDeadline, reader, finishedReading,
                 writing, sending, collected, now>>

finished ==
  LET wroteFin == finishedWriting /\ finSent IN
  \/ cancelled
  \/ finishedReading /\ (wroteFin \/ rstSent)
  \/ resetRemotely /\ (wroteFin \/ rstSent)

garbageCollect ==
  /\ RunLoopIdle
  /\ finished
  /\ collected' = TRUE
  /\ UNCHANGED <<flags, reading, writing, sending, now>>

\* Mutant: a closed stream has no data.
lenOfDataForWriting_Closed ==
  /\ RunLoopIdle
  /\ framer' = [at |-> "data",
                len |-> IF err \/ finishedWriting THEN 0 ELSE dataForWriting]
  /\ UNCHANGED <<flags, reading, writing, finSent, collected, now>>

lenOfDataForWriting ==
  /\ RunLoopIdle
  /\ framer' = [at |-> "data", len |-> IF err THEN 0 ELSE dataForWriting]
  /\ UNCHANGED <<flags, reading, writing, finSent, collected, now>>

signalWrite == writeChan' = 1

\* Data that came up since lenOfDataForWriting is not fetched: the window was
\* not looked at.
getDataForWriting(maxBytes) ==
  /\ framer.at = "data"
  /\ framer' = [framer EXCEPT !.at = "fin"]
  /\ IF framer.len = 0 \/ err \/ dataForWriting = 0
     THEN UNCHANGED <<dataForWriting, writeOffset, writeChan>>
     ELSE IF dataForWriting > maxBytes
     THEN /\ dataForWriting' = dataForWriting - maxBytes
          /\ writeOffset' = writeOffset + maxBytes
          /\ UNCHANGED writeChan
     ELSE /\ dataForWriting' = 0
          /\ writeOffset' = writeOffset + dataForWriting
          /\ signalWrite
  /\ UNCHANGED <<flags, reading, writeDeadline, writer, written,
                 finishedWriting, finSent, collected, now>>

\* Mutant: FIN does not wait for data that was written meanwhile.
shouldSendFin_WithData == finishedWriting /\ ~ finSent /\ ~ err

shouldSendFin == finishedWriting /\ ~ finSent /\ ~ err /\ dataForWriting = 0

decideFin ==
  /\ framer.at = "fin"
  /\ framer' = [framer EXCEPT !.at = IF shouldSendFin THEN "send fin" ELSE "idle"]
  /\ UNCHANGED <<flags, reading, writing, finSent, collected, now>>

sentFin ==
  /\ framer.at = "send fin"
  /\ finSent' = TRUE
  /\ framer' = [framer EXCEPT !.at = "idle"]
  /\ UNCHANGED <<flags, reading, writing, collected, now>>

-----------------------------------------------------------------------------
Tick ==
  /\ now < MaxTime
  /\ now' = now + 1
  /\ UNCHANGED <<flags, reading, writing, sending, collected>>

ReadStep == ReadLocked \/ ReadWoken \/ ReadFrame
WriteStep == WriteWoken \/ WriteLocked
FramerStep ==
  \/ lenOfDataForWriting
  \/ \E n \in 1 .. MaxFrame : getDataForWriting(n)
  \/ decideFin
  \/ sentFin

\* The application and the peer, in one direction
Reading ==
  \/ \E n \in 1 .. MaxRead : ReadBegin(n)
  \/ ReadStep
  \/ \E t \in 0 .. MaxTime : SetReadDeadline(t)
  \/ AddStreamFrame

Writing ==
  \/ \E n \in 1 .. MaxWrite : writeOffset + n <= MaxSent /\ WriteBegin(n)
  \/ WriteStep
  \/ \E t \in 0 .. MaxTime : SetWriteDeadline(t)

\* Reader and writer meet only in the flags, which both directions set.
Next ==
  \/ use = "read" /\ Reading
  \/ use = "write" /\ Writing
  \/ Close
  \/ Reset \/ RegisterRemoteError \/ Cancel
  \/ garbageCollect
  \/ FramerStep
  \/ Tick

Spec == Init /\ [][Next]_vars

\* Goroutines that can run do run; the run loop keeps asking the stream for data
\* (the peer keeps the windows open, see FlowControlExchange); time passes.
\* Nothing is assumed of the application or of the peer.
FairSpec == Spec /\ WF_vars(ReadStep) /\ WF_vars(WriteStep)
                 /\ WF_vars(FramerStep) /\ WF_vars(Tick)

-----------------------------------------------------------------------------
(* Properties *)

\* A Read that waits has a token in its channel as soon as there is a frame, or
\* the stream was cancelled or reset by this side: no wake-up is lost between
\* leaving the mutex and receiving from the channel.  (A Read is not woken by a
\* reset of the peer, nor by anything after it.)  The same for a Write that waits
\* until its data was fetched, or an error.
CallersWake ==
  /\ /\ reader.at = "wait"
     /\ HasFrame \/ (~ resetRemotely /\ (cancelled \/ resetLocally))
     => readChan = 1
  /\ writer.at = "wait" /\ (dataForWriting = 0 \/ err) => writeChan = 1

\* What Write reported as written, also when an error cut it short, has been
\* fetched by the framer: no byte is reported that was never sent.
WrittenIsSent == written <= writeOffset

\* The offset of FIN and the ByteOffset of a RST_STREAM frame are the final size of
\* the stream: however Write, Close and a reset race with the framer, which looks
\* at the stream four times to build one frame, no data is sent behind them.
NothingAfterTheEnd ==
  /\ [](rstSent => writeOffset = rstOffset)
  /\ [][finSent \/ framer.at = "send fin" => writeOffset' = writeOffset]_vars

\* Every Write returns, whatever is closed, reset, cancelled or removed while it
\* waits.
WriteEnds == writer.at = "wait" ~> writer.at = "idle"

=============================================================================
