---------------------------- MODULE StreamProofs ----------------------------
(***************************************************************************)
(* Proofs about Stream: for any lengths, frames, deadlines and resets no   *)
(* wake-up of a waiting call is lost, nothing is reported as written that  *)
(* was not sent, and nothing is sent behind FIN or a reset.                *)
(***************************************************************************)
EXTENDS Stream, Integers, TLAPS

TypeOK ==
  /\ readChan \in {0, 1} /\ writeChan \in {0, 1}
  /\ writer.len \in Nat /\ framer.len \in Nat
  /\ DOMAIN reader = {"at", "left", "any", "timer"}
  /\ DOMAIN writer = {"at", "len", "timer"}
  /\ DOMAIN framer = {"at", "len"}
  /\ dataForWriting \in Nat /\ writeOffset \in Nat /\ written \in Nat

\* What the properties need of each other: an error has one of three causes, and
\* SignalBoth relies on it; a Write that has not returned accounts for the bytes it
\* has not reported; a FIN is only decided on when nothing can be written any more;
\* and a reset comes with an error, which stops the framer.
Inv ==
  /\ TypeOK
  /\ err <=> (cancelled \/ resetLocally \/ resetRemotely)
  /\ CallersWake
  /\ WrittenIsSent
  /\ writer.at # "idle" =>
       /\ dataForWriting <= writer.len
       /\ written + (writer.len - dataForWriting) <= writeOffset
  /\ finSent \/ framer.at = "send fin" => finishedWriting /\ dataForWriting = 0
  /\ rstSent => err /\ writeOffset = rstOffset

\* A new stream satisfies the invariant.
LEMMA InitInv == Init => Inv
BY StreamAssumption DEF Init, Inv, TypeOK, CallersWake, WrittenIsSent, HasFrame

\* The calls and wake-ups of a reader
LEMMA ReadingInv == Inv /\ Reading => Inv'
<1> SUFFICES ASSUME Inv, Reading PROVE Inv'
  OBVIOUS
<1> USE StreamAssumption DEF Inv, TypeOK, CallersWake, WrittenIsSent, HasFrame, flags, writing, sending
<1>1. ASSUME NEW n \in 1 .. MaxRead, ReadBegin(n) PROVE Inv'
  BY <1>1 DEF ReadBegin
<1>2. CASE ReadLocked
  BY <1>2 DEF ReadLocked, StopsReading
<1>3. CASE ReadWoken
  BY <1>3 DEF ReadWoken
<1>4. CASE ReadFrame
  BY <1>4 DEF ReadFrame
<1>5. ASSUME NEW t \in 0 .. MaxTime, SetReadDeadline(t) PROVE Inv'
  BY <1>5 DEF SetReadDeadline
<1>6. CASE AddStreamFrame
  BY <1>6 DEF AddStreamFrame, signalRead
<1> QED
  BY <1>1, <1>2, <1>3, <1>4, <1>5, <1>6 DEF Reading, ReadStep

\* The calls and wake-ups of a writer
LEMMA WritingInv == Inv /\ Writing => Inv'
<1> SUFFICES ASSUME Inv, Writing PROVE Inv'
  OBVIOUS
<1>1. ASSUME NEW n \in 1 .. MaxWrite, WriteBegin(n) PROVE Inv'
  <2>1. n \in Nat /\ n > 0
    BY StreamAssumption
  <2>2. ~ finishedWriting /\ ~ err
    BY <1>1 DEF WriteBegin, WriteAllowed
  <2>3. /\ writer'.len = n /\ dataForWriting' = n
        /\ DOMAIN writer' = {"at", "len", "timer"}
    BY <1>1 DEF WriteBegin
  <2>4. UNCHANGED <<flags, reading, writeOffset, writeChan, written, finishedWriting, sending>>
    BY <1>1 DEF WriteBegin
  <2>5. TypeOK'
    BY <2>1, <2>3, <2>4 DEF Inv, TypeOK, flags, reading, sending
  <2>6. CallersWake'
    <3>1. dataForWriting' # 0 /\ ~ err'
      BY <2>1, <2>2, <2>3, <2>4 DEF flags
    <3> QED
      BY <2>4, <3>1 DEF Inv, CallersWake, HasFrame, flags, reading
  <2>7. WrittenIsSent' /\ written' + (writer'.len - dataForWriting') <= writeOffset'
    <3>1. written \in Nat /\ writeOffset \in Nat /\ written <= writeOffset
      BY DEF Inv, TypeOK, WrittenIsSent
    <3>2. written' = written /\ writeOffset' = writeOffset
      BY <2>4
    <3> QED
      BY <2>1, <2>3, <3>1, <3>2 DEF WrittenIsSent
  <2>8. dataForWriting' <= writer'.len
    BY <2>1, <2>3
  <2>9. ~ finSent' /\ framer'.at # "send fin"
    BY <2>2, <2>4 DEF Inv, sending
  <2> QED
    BY <2>2, <2>4, <2>5, <2>6, <2>7, <2>8, <2>9 DEF Inv, flags
<1>2. CASE WriteWoken
  BY <1>2 DEF WriteWoken, Inv, TypeOK, CallersWake, WrittenIsSent, HasFrame, flags,
              reading, sending
<1>3. CASE WriteLocked
  <2>1. /\ writer'.at \in {"idle", "wait"} /\ writer'.len = writer.len
        /\ DOMAIN writer' = {"at", "len", "timer"}
    BY <1>3 DEF WriteLocked, WriteReturns, WriteWaits, Inv, TypeOK
  <2>2. \/ written' = written
        \/ writer'.at = "idle" /\ written' = written + (writer.len - dataForWriting)
    BY <1>3 DEF WriteLocked, WriteReturns, Reported, Inv, TypeOK
  <2>3. writer'.at = "wait" => dataForWriting > 0 /\ ~ err
    BY <1>3 DEF WriteLocked, WriteReturns, Inv, TypeOK
  <2>4. /\ written \in Nat /\ writer.len \in Nat /\ dataForWriting \in Nat
        /\ written <= writeOffset /\ writeOffset \in Nat
        /\ dataForWriting <= writer.len
        /\ written + (writer.len - dataForWriting) <= writeOffset
    BY <1>3 DEF WriteLocked, Inv, TypeOK, WrittenIsSent
  <2>5. /\ written' \in Nat /\ written' <= writeOffset
        /\ writer'.at = "idle" \/ written' = written
    BY <2>2, <2>4
  <2>6. UNCHANGED <<flags, reading, dataForWriting, writeOffset, writeChan, finishedWriting, sending>>
    BY <1>3 DEF WriteLocked
  <2>7. TypeOK'
    BY <2>1, <2>4, <2>5, <2>6 DEF Inv, TypeOK, reading, sending
  <2>8. CallersWake'
    <3>1. writer'.at = "wait" => dataForWriting' # 0 /\ ~ err'
      BY <2>3, <2>4, <2>6 DEF flags
    <3> QED
      BY <2>6, <3>1 DEF Inv, CallersWake, HasFrame, flags, reading
  <2>9. WrittenIsSent'
    BY <2>5, <2>6 DEF WrittenIsSent
  <2>10. writer'.at # "idle" =>
           /\ dataForWriting' <= writer'.len
           /\ written' + (writer'.len - dataForWriting') <= writeOffset'
    BY <2>1, <2>4, <2>5, <2>6
  <2> QED
    BY <2>6, <2>7, <2>8, <2>9, <2>10 DEF Inv, flags, sending
<1>4. ASSUME NEW t \in 0 .. MaxTime, SetWriteDeadline(t) PROVE Inv'
  BY <1>4 DEF SetWriteDeadline, Inv, TypeOK, CallersWake, WrittenIsSent, HasFrame, flags,
              reading, sending
<1> QED
  BY <1>1, <1>2, <1>3, <1>4 DEF Writing, WriteStep

\* Closing, the three kinds of errors, and the end of the stream
LEMMA ErrorsInv == Inv /\ (Close \/ Reset \/ RegisterRemoteError \/ Cancel \/ garbageCollect \/ Tick) => Inv'
<1> SUFFICES ASSUME Inv, Close \/ Reset \/ RegisterRemoteError \/ Cancel \/ garbageCollect \/ Tick PROVE Inv'
  OBVIOUS
<1> USE StreamAssumption DEF Inv, TypeOK, CallersWake, WrittenIsSent, HasFrame
<1>1. CASE Close
  BY <1>1 DEF Close, flags, reading, sending
<1>2. CASE Reset
  BY <1>2 DEF Reset, SetErr, SignalBoth, SendReset, ErrorLeaves, sending
<1>3. CASE RegisterRemoteError
  BY <1>3 DEF RegisterRemoteError, SetErr, SendReset, ErrorLeaves, sending
<1>4. CASE Cancel
  BY <1>4 DEF Cancel, SetErr, SignalBoth, ErrorLeaves, sending
<1>5. CASE garbageCollect
  BY <1>5 DEF garbageCollect, flags, reading, writing, sending
<1>6. CASE Tick
  BY <1>6 DEF Tick, flags, reading, writing, sending
<1> QED
  BY <1>1, <1>2, <1>3, <1>4, <1>5, <1>6

\* The four looks of the framer
LEMMA FramerInv == Inv /\ FramerStep => Inv'
<1> SUFFICES ASSUME Inv, FramerStep PROVE Inv'
  OBVIOUS
<1> USE StreamAssumption DEF Inv, TypeOK, CallersWake, WrittenIsSent, HasFrame, flags, reading
<1>1. CASE lenOfDataForWriting
  BY <1>1 DEF lenOfDataForWriting, writing, RunLoopIdle
<1>2. ASSUME NEW n \in 1 .. MaxFrame, getDataForWriting(n) PROVE Inv'
  BY <1>2 DEF getDataForWriting, signalWrite
<1>3. CASE decideFin
  BY <1>3 DEF decideFin, shouldSendFin, writing
<1>4. CASE sentFin
  BY <1>4 DEF sentFin, writing
<1> QED
  BY <1>1, <1>2, <1>3, <1>4 DEF FramerStep

\* Every reachable state satisfies the invariant.
THEOREM Invariance == Spec => []Inv
<1>1. Inv /\ [Next]_vars => Inv'
  <2> SUFFICES ASSUME Inv, [Next]_vars PROVE Inv'
    OBVIOUS
  <2>1. CASE Next
    BY <2>1, ReadingInv, WritingInv, ErrorsInv, FramerInv DEF Next
  <2>2. CASE UNCHANGED vars
    BY <2>2 DEF vars, flags, reading, writing, sending, Inv, TypeOK, CallersWake,
                WrittenIsSent, HasFrame
  <2> QED
    BY <2>1, <2>2
<1> QED
  BY InitInv, <1>1, PTL DEF Spec

\* No wake-up of a Read or a Write that waits is lost between leaving the mutex and
\* receiving from readChan or writeChan.
THEOREM NoLostWakeUp == Spec => []CallersWake
<1>1. Inv => CallersWake
  BY DEF Inv
<1> QED
  BY Invariance, <1>1, PTL

\* Write never reports a byte as written that the framer has not fetched.
THEOREM NothingInvented == Spec => []WrittenIsSent
<1>1. Inv => WrittenIsSent
  BY DEF Inv
<1> QED
  BY Invariance, <1>1, PTL

\* Nothing is sent behind FIN, nor behind the offset of a RST_STREAM frame.
THEOREM FinalSize == Spec => NothingAfterTheEnd
<1> DEFINE Kept == finSent \/ framer.at = "send fin" => writeOffset' = writeOffset
<1>1. Inv => (rstSent => writeOffset = rstOffset)
  BY DEF Inv
<1>2. Inv /\ [Next]_vars => [Kept]_vars
  <2> SUFFICES ASSUME Inv, Next, finSent \/ framer.at = "send fin" PROVE writeOffset' = writeOffset
    BY DEF Kept
  <2>1. finishedWriting /\ dataForWriting = 0
    BY DEF Inv
  <2>2. ASSUME NEW n \in 1 .. MaxFrame, getDataForWriting(n) PROVE writeOffset' = writeOffset
    BY <2>1, <2>2 DEF getDataForWriting
  <2>3. CASE Reading
    BY <2>3 DEF Reading, ReadStep, ReadBegin, ReadLocked, ReadWoken, ReadFrame,
                SetReadDeadline, AddStreamFrame, writing
  <2>4. CASE Writing
    BY <2>4 DEF Writing, WriteStep, WriteBegin, WriteWoken, WriteLocked, SetWriteDeadline
  <2>5. CASE Close \/ Reset \/ RegisterRemoteError \/ Cancel \/ garbageCollect \/ Tick
    BY <2>5 DEF Close, Reset, RegisterRemoteError, Cancel, ErrorLeaves, garbageCollect,
                Tick, writing
  <2>6. CASE lenOfDataForWriting \/ decideFin \/ sentFin
    BY <2>6 DEF lenOfDataForWriting, decideFin, sentFin, writing
  <2> QED
    BY <2>2, <2>3, <2>4, <2>5, <2>6 DEF Next, FramerStep
<1> QED
  BY Invariance, <1>1, <1>2, PTL DEF Spec, NothingAfterTheEnd

=============================================================================
