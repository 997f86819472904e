------------------------ MODULE CaptureEncode_proofs ------------------------
(***************************************************************************)
(* Proofs about the recorder of the application, for every size of the     *)
(* frame pool and every number of frames.                                  *)
(***************************************************************************)
EXTENDS CaptureEncode, SequenceTheorems, TLAPS

Samples == [time : Nat, surface : Nat]

(* TypeOK but for the Boolean variables, and the type of the last sample.  *)
ValuesOK ==
    /\ captured \in Nat /\ storing \in 0..captured /\ current \in 0..captured
    /\ time \in 0..captured /\ ready \in Seq(Nat) /\ open \subseteq 1..captured
    /\ last \in Samples
    /\ request \in {"none", "dispose", "reset", "wait", "read", "draw", "over"}
    /\ disposing \in {"before", "told", "done"}

FlagsOK ==
    /\ frameEvent \in BOOLEAN /\ closedEvent \in BOOLEAN /\ started \in BOOLEAN
    /\ torn \in BOOLEAN /\ told \in BOOLEAN /\ overtaken \in BOOLEAN

(* Frames that were announced are newer than the one that was stored last. *)
ReadyIsNewer ==
    /\ \A i \in 1..Len(ready) : ready[i] = current + i
    /\ IF torn THEN ready = <<>> ELSE current + Len(ready) = captured

(* A request gives up the frame of the sample before: the one it reads the *)
(* time of is another one, and so a newer one.                             *)
SampleIsNewer ==
    /\ last.time <= last.surface /\ last.surface <= current
    /\ request \in {"reset", "wait", "read"} =>
           current > last.surface \/ current \notin open
    /\ request = "draw" => last.surface < time /\ time <= current

(* Unless a frame was overtaken, a signal that a request waits for means   *)
(* that there is a frame.                                                  *)
SignalMeansFrame ==
    ~torn /\ ~overtaken =>
        /\ request \in {"reset", "wait", "read", "draw"} /\ storing # 0 =>
               current \in open
        /\ request = "wait" /\ frameEvent => current \in open
        /\ request \in {"read", "draw"} => current \in open

(* A request that has not ended meets no teardown and no end it was not    *)
(* told of, and one that ends was told or could not read its frame.        *)
ToldFirst ==
    /\ torn \/ closedEvent => told \/ request = "over"
    /\ disposing # "before" => told
    /\ request = "over" => overtaken \/ told

IInv ==
    ValuesOK /\ FlagsOK /\ ReadyIsNewer /\ SampleIsNewer /\ SignalMeansFrame /\ ToldFirst

(* IInv is inductive: one step per action, and under it one per conjunct.  *)
LEMMA StepKeepsIInv ==
    ASSUME IInv, [Next]_vars
    PROVE  IInv'
<1> USE DEF vars, pool, events, answers, history, IInv
<1>1. CASE Capture
  <2>1. ValuesOK'
    BY <1>1 DEF Capture, ValuesOK, Samples
  <2>2. FlagsOK'
    BY <1>1 DEF Capture, FlagsOK
  <2>3. ReadyIsNewer'
    BY <1>1, SMTT(60) DEF Capture, ReadyIsNewer, ValuesOK
  <2>4. SampleIsNewer'
    BY <1>1 DEF Capture, SampleIsNewer, ValuesOK, Samples
  <2>5. SignalMeansFrame'
    BY <1>1 DEF Capture, SignalMeansFrame
  <2>6. ToldFirst'
    BY <1>1 DEF Capture, ToldFirst
  <2>7. QED  BY <2>1, <2>2, <2>3, <2>4, <2>5, <2>6 DEF IInv
<1>2. CASE StoreFrame
  <2>1. ValuesOK'
    <3>1. ready \in Seq(Nat) /\ ready # <<>> /\ Len(ready) \in Nat /\ Len(ready) > 0
          /\ ~torn /\ current \in Nat /\ captured \in Nat
      BY <1>2 DEF StoreFrame, ValuesOK
    <3>2. Head(ready) = current + 1 /\ current + Len(ready) = captured
      BY <3>1 DEF ReadyIsNewer
    <3>3. Tail(ready) \in Seq(Nat) /\ Len(Tail(ready)) = Len(ready) - 1
          /\ \A i \in 1..Len(Tail(ready)) : Tail(ready)[i] = ready[i + 1]
      BY <3>1, HeadTailProperties
    <3>4. ready' = Tail(ready) /\ storing' = Head(ready) /\ current' = Head(ready)
          /\ open' = open \cup {Head(ready)}
          /\ UNCHANGED <<captured, request, answers, disposing>>
      BY <1>2 DEF StoreFrame
    <3>5. Head(ready) \in 0..captured /\ Head(ready) \in 1..captured
      BY <3>1, <3>2
    <3>6. QED  BY <3>3, <3>4, <3>5 DEF ValuesOK
  <2>2. FlagsOK'
    BY <1>2 DEF StoreFrame, FlagsOK
  <2>3. ReadyIsNewer'
    <3>1. ready \in Seq(Nat) /\ ready # <<>> /\ Len(ready) \in Nat /\ Len(ready) > 0
          /\ ~torn /\ current \in Nat /\ captured \in Nat
      BY <1>2 DEF StoreFrame, ValuesOK
    <3>2. Head(ready) = current + 1 /\ current + Len(ready) = captured
      BY <3>1 DEF ReadyIsNewer
    <3>3. Tail(ready) \in Seq(Nat) /\ Len(Tail(ready)) = Len(ready) - 1
          /\ \A i \in 1..Len(Tail(ready)) : Tail(ready)[i] = ready[i + 1]
      BY <3>1, HeadTailProperties
    <3>4. ready' = Tail(ready) /\ current' = Head(ready) /\ ~torn'
          /\ captured' = captured
      BY <1>2, <3>1 DEF StoreFrame
    <3>5. \A i \in 1..Len(Tail(ready)) : Tail(ready)[i] = current + 1 + i
      <4>1. ASSUME NEW i \in 1..Len(Tail(ready))
            PROVE  Tail(ready)[i] = current + 1 + i
        <5>1. i + 1 \in 1..Len(ready)  BY <3>1, <3>3
        <5>2. ready[i + 1] = current + (i + 1)  BY <5>1 DEF ReadyIsNewer
        <5>3. QED  BY <3>1, <3>3, <5>2
      <4>2. QED  BY <4>1
    <3>6. \A i \in 1..Len(ready') : ready'[i] = current' + i
      BY <3>2, <3>4, <3>5
    <3>7. current' + Len(ready') = captured'
      <4>1. Len(ready') = Len(ready) - 1 /\ current' = current + 1
            /\ captured' = current + Len(ready)
        BY <3>2, <3>3, <3>4
      <4>2. current \in Nat /\ Len(ready) \in Nat  BY <3>1
      <4>3. QED  BY <4>1, <4>2, SMTT(60)
    <3>8. QED  BY <3>4, <3>6, <3>7 DEF ReadyIsNewer
  <2>4. SampleIsNewer'
    <3>1. ready \in Seq(Nat) /\ ready # <<>> /\ Len(ready) \in Nat /\ Len(ready) > 0
          /\ ~torn /\ current \in Nat /\ captured \in Nat
      BY <1>2 DEF StoreFrame, ValuesOK
    <3>2. Head(ready) = current + 1 /\ current + Len(ready) = captured
      BY <3>1 DEF ReadyIsNewer
    <3>3. Tail(ready) \in Seq(Nat) /\ Len(Tail(ready)) = Len(ready) - 1
          /\ \A i \in 1..Len(Tail(ready)) : Tail(ready)[i] = ready[i + 1]
      BY <3>1, HeadTailProperties
    <3>4. current' = current + 1 /\ UNCHANGED <<request, answers>>
      BY <1>2, <3>2 DEF StoreFrame
    <3>5. last.time \in Nat /\ last.surface \in Nat /\ time \in Nat
      BY DEF ValuesOK, Samples
    <3>6. QED  BY <3>1, <3>4, <3>5 DEF SampleIsNewer
  <2>5. SignalMeansFrame'
    BY <1>2 DEF StoreFrame, SignalMeansFrame
  <2>6. ToldFirst'
    BY <1>2 DEF StoreFrame, ToldFirst
  <2>7. QED  BY <2>1, <2>2, <2>3, <2>4, <2>5, <2>6 DEF IInv
<1>3. CASE SignalFrame
  <2>1. ValuesOK'
    BY <1>3 DEF SignalFrame, ValuesOK, Samples
  <2>2. FlagsOK'
    BY <1>3 DEF SignalFrame, FlagsOK
  <2>3. ReadyIsNewer'
    BY <1>3 DEF SignalFrame, ReadyIsNewer, ValuesOK
  <2>4. SampleIsNewer'
    BY <1>3 DEF SignalFrame, SampleIsNewer, ValuesOK, Samples
  <2>5. SignalMeansFrame'
    BY <1>3 DEF SignalFrame, SignalMeansFrame
  <2>6. ToldFirst'
    BY <1>3 DEF SignalFrame, ToldFirst
  <2>7. QED  BY <2>1, <2>2, <2>3, <2>4, <2>5, <2>6 DEF IInv
<1>4. CASE Collect
  <2>1. ValuesOK'
    BY <1>4 DEF Collect, ValuesOK, Samples
  <2>2. FlagsOK'
    BY <1>4 DEF Collect, FlagsOK
  <2>3. ReadyIsNewer'
    BY <1>4 DEF Collect, ReadyIsNewer, ValuesOK
  <2>4. SampleIsNewer'
    BY <1>4 DEF Collect, SampleIsNewer, ValuesOK, Samples
  <2>5. SignalMeansFrame'
    BY <1>4 DEF Collect, SignalMeansFrame
  <2>6. ToldFirst'
    BY <1>4 DEF Collect, ToldFirst
  <2>7. QED  BY <2>1, <2>2, <2>3, <2>4, <2>5, <2>6 DEF IInv
<1>5. CASE Request
  <2>1. ValuesOK'
    BY <1>5 DEF Request, ValuesOK, Samples
  <2>2. FlagsOK'
    BY <1>5 DEF Request, FlagsOK
  <2>3. ReadyIsNewer'
    BY <1>5 DEF Request, ReadyIsNewer, ValuesOK
  <2>4. SampleIsNewer'
    BY <1>5 DEF Request, SampleIsNewer, ValuesOK, Samples
  <2>5. SignalMeansFrame'
    BY <1>5 DEF Request, SignalMeansFrame
  <2>6. ToldFirst'
    BY <1>5 DEF Request, ToldFirst
  <2>7. QED  BY <2>1, <2>2, <2>3, <2>4, <2>5, <2>6 DEF IInv
<1>6. CASE DisposeCurrent
  <2>1. ValuesOK'
    BY <1>6 DEF DisposeCurrent, ValuesOK, Samples
  <2>2. FlagsOK'
    BY <1>6 DEF DisposeCurrent, FlagsOK
  <2>3. ReadyIsNewer'
    BY <1>6 DEF DisposeCurrent, ReadyIsNewer, ValuesOK
  <2>4. SampleIsNewer'
    BY <1>6 DEF DisposeCurrent, SampleIsNewer, ValuesOK, Samples
  <2>5. SignalMeansFrame'
    BY <1>6 DEF DisposeCurrent, SignalMeansFrame
  <2>6. ToldFirst'
    BY <1>6 DEF DisposeCurrent, ToldFirst
  <2>7. QED  BY <2>1, <2>2, <2>3, <2>4, <2>5, <2>6 DEF IInv
<1>7. CASE ResetEvent
  <2>1. ValuesOK'
    BY <1>7 DEF ResetEvent, ValuesOK, Samples
  <2>2. FlagsOK'
    BY <1>7 DEF ResetEvent, FlagsOK
  <2>3. ReadyIsNewer'
    BY <1>7 DEF ResetEvent, ReadyIsNewer, ValuesOK
  <2>4. SampleIsNewer'
    BY <1>7 DEF ResetEvent, SampleIsNewer, ValuesOK, Samples
  <2>5. SignalMeansFrame'
    BY <1>7 DEF ResetEvent, SignalMeansFrame
  <2>6. ToldFirst'
    BY <1>7 DEF ResetEvent, ToldFirst
  <2>7. QED  BY <2>1, <2>2, <2>3, <2>4, <2>5, <2>6 DEF IInv
<1>8. CASE Woken
  <2>1. ValuesOK'
    <3>1. UNCHANGED <<captured, storing, current, disposing>>
      BY <1>8 DEF Woken, Over, TearDown
    <3>2. (ready' = ready \/ ready' = <<>>) /\ open' \subseteq open
      BY <1>8 DEF Woken, Over, TearDown
    <3>3. request' \in {"none", "read", "draw", "over"}
      BY <1>8 DEF Woken, Over, TearDown
    <3>4. (time' = time) /\ (last' = last)
      BY <1>8 DEF Woken, Over, TearDown
    <3>5. last' \in Samples
      BY <3>4 DEF ValuesOK, Samples
    <3>6. time' \in 0..captured
      BY <3>4 DEF ValuesOK
    <3>7. ready' \in Seq(Nat)
      <4>1. <<>> \in Seq(Nat)  OBVIOUS
      <4>2. QED  BY <3>2, <4>1 DEF ValuesOK
    <3>8. QED  BY <3>1, <3>2, <3>3, <3>5, <3>6, <3>7 DEF ValuesOK
  <2>2. FlagsOK'
    BY <1>8 DEF Woken, Over, TearDown, FlagsOK
  <2>3. ReadyIsNewer'
    BY <1>8 DEF Woken, Over, TearDown, ReadyIsNewer, ValuesOK
  <2>4. SampleIsNewer'
    BY <1>8 DEF Woken, Over, TearDown, SampleIsNewer, ValuesOK, Samples
  <2>5. SignalMeansFrame'
    BY <1>8 DEF Woken, Over, TearDown, SignalMeansFrame
  <2>6. ToldFirst'
    BY <1>8 DEF Woken, Over, TearDown, ToldFirst
  <2>7. QED  BY <2>1, <2>2, <2>3, <2>4, <2>5, <2>6 DEF IInv
<1>9. CASE ReadTime
  <2>1. ValuesOK'
    <3>1. UNCHANGED <<captured, storing, current, disposing>>
      BY <1>9 DEF ReadTime, Readable, Fail, Over, TearDown
    <3>2. (ready' = ready \/ ready' = <<>>) /\ open' \subseteq open
      BY <1>9 DEF ReadTime, Readable, Fail, Over, TearDown
    <3>3. request' \in {"none", "read", "draw", "over"}
      BY <1>9 DEF ReadTime, Readable, Fail, Over, TearDown
    <3>4. (time' = time \/ time' = current) /\ (last' = last)
      BY <1>9 DEF ReadTime, Readable, Fail, Over, TearDown
    <3>5. last' \in Samples
      BY <3>4 DEF ValuesOK, Samples
    <3>6. time' \in 0..captured
      BY <3>4 DEF ValuesOK
    <3>7. ready' \in Seq(Nat)
      <4>1. <<>> \in Seq(Nat)  OBVIOUS
      <4>2. QED  BY <3>2, <4>1 DEF ValuesOK
    <3>8. QED  BY <3>1, <3>2, <3>3, <3>5, <3>6, <3>7 DEF ValuesOK
  <2>2. FlagsOK'
    BY <1>9 DEF ReadTime, Readable, Fail, Over, TearDown, FlagsOK
  <2>3. ReadyIsNewer'
    BY <1>9 DEF ReadTime, Readable, Fail, Over, TearDown, ReadyIsNewer, ValuesOK
  <2>4. SampleIsNewer'
    BY <1>9 DEF ReadTime, Readable, Fail, Over, TearDown, SampleIsNewer, ValuesOK, Samples
  <2>5. SignalMeansFrame'
    <3>1. current' \in open' \/ request' = "over"
      BY <1>9 DEF ReadTime, Readable, Fail, Over
    <3>2. QED  BY <3>1 DEF SignalMeansFrame
  <2>6. ToldFirst'
    BY <1>9 DEF ReadTime, Readable, Fail, Over, TearDown, ToldFirst, SignalMeansFrame
  <2>7. QED  BY <2>1, <2>2, <2>3, <2>4, <2>5, <2>6 DEF IInv
<1>10. CASE Draw
  <2>1. ValuesOK'
    <3>1. UNCHANGED <<captured, storing, current, disposing>>
      BY <1>10 DEF Draw, Readable, Fail, Over, TearDown
    <3>2. (ready' = ready \/ ready' = <<>>) /\ open' \subseteq open
      BY <1>10 DEF Draw, Readable, Fail, Over, TearDown
    <3>3. request' \in {"none", "read", "draw", "over"}
      BY <1>10 DEF Draw, Readable, Fail, Over, TearDown
    <3>4. (time' = time \/ time' = 0) /\ (last' = last \/ last' = [time |-> time, surface |-> current])
      BY <1>10 DEF Draw, Readable, Fail, Over, TearDown
    <3>5. last' \in Samples
      BY <3>4 DEF ValuesOK, Samples
    <3>6. time' \in 0..captured
      BY <3>4 DEF ValuesOK
    <3>7. ready' \in Seq(Nat)
      <4>1. <<>> \in Seq(Nat)  OBVIOUS
      <4>2. QED  BY <3>2, <4>1 DEF ValuesOK
    <3>8. QED  BY <3>1, <3>2, <3>3, <3>5, <3>6, <3>7 DEF ValuesOK
  <2>2. FlagsOK'
    BY <1>10 DEF Draw, Readable, Fail, Over, TearDown, FlagsOK
  <2>3. ReadyIsNewer'
    BY <1>10 DEF Draw, Readable, Fail, Over, TearDown, ReadyIsNewer, ValuesOK
  <2>4. SampleIsNewer'
    BY <1>10 DEF Draw, Readable, Fail, Over, TearDown, SampleIsNewer, ValuesOK, Samples
  <2>5. SignalMeansFrame'
    <3>1. current' \in open' \/ request' = "over"
      BY <1>10 DEF Draw, Readable, Fail, Over
    <3>2. QED  BY <3>1 DEF SignalMeansFrame
  <2>6. ToldFirst'
    BY <1>10 DEF Draw, Readable, Fail, Over, TearDown, ToldFirst, SignalMeansFrame
  <2>7. QED  BY <2>1, <2>2, <2>3, <2>4, <2>5, <2>6 DEF IInv
<1>11. CASE ItemCloses
  <2>1. ValuesOK'
    BY <1>11 DEF ItemCloses, ValuesOK, Samples
  <2>2. FlagsOK'
    BY <1>11 DEF ItemCloses, FlagsOK
  <2>3. ReadyIsNewer'
    BY <1>11 DEF ItemCloses, ReadyIsNewer, ValuesOK
  <2>4. SampleIsNewer'
    BY <1>11 DEF ItemCloses, SampleIsNewer, ValuesOK, Samples
  <2>5. SignalMeansFrame'
    BY <1>11 DEF ItemCloses, SignalMeansFrame
  <2>6. ToldFirst'
    BY <1>11 DEF ItemCloses, ToldFirst
  <2>7. QED  BY <2>1, <2>2, <2>3, <2>4, <2>5, <2>6 DEF IInv
<1>12. CASE DisposeTells
  <2>1. ValuesOK'
    BY <1>12 DEF DisposeTells, ValuesOK, Samples
  <2>2. FlagsOK'
    BY <1>12 DEF DisposeTells, FlagsOK
  <2>3. ReadyIsNewer'
    BY <1>12 DEF DisposeTells, ReadyIsNewer, ValuesOK
  <2>4. SampleIsNewer'
    BY <1>12 DEF DisposeTells, SampleIsNewer, ValuesOK, Samples
  <2>5. SignalMeansFrame'
    BY <1>12 DEF DisposeTells, SignalMeansFrame
  <2>6. ToldFirst'
    BY <1>12 DEF DisposeTells, ToldFirst
  <2>7. QED  BY <2>1, <2>2, <2>3, <2>4, <2>5, <2>6 DEF IInv
<1>13. CASE DisposeTears
  <2>1. ValuesOK'
    BY <1>13 DEF DisposeTears, TearDown, ValuesOK, Samples
  <2>2. FlagsOK'
    BY <1>13 DEF DisposeTears, TearDown, FlagsOK
  <2>3. ReadyIsNewer'
    BY <1>13 DEF DisposeTears, TearDown, ReadyIsNewer, ValuesOK
  <2>4. SampleIsNewer'
    BY <1>13 DEF DisposeTears, TearDown, SampleIsNewer, ValuesOK, Samples
  <2>5. SignalMeansFrame'
    BY <1>13 DEF DisposeTears, TearDown, SignalMeansFrame
  <2>6. ToldFirst'
    BY <1>13 DEF DisposeTears, TearDown, ToldFirst
  <2>7. QED  BY <2>1, <2>2, <2>3, <2>4, <2>5, <2>6 DEF IInv
<1>14. CASE UNCHANGED vars
  BY <1>14 DEF IInv, ValuesOK, Samples, FlagsOK, ReadyIsNewer, SampleIsNewer, SignalMeansFrame, ToldFirst
<1>15. QED  BY <1>1, <1>2, <1>3, <1>4, <1>5, <1>6, <1>7, <1>8, <1>9, <1>10, <1>11, <1>12, <1>13, <1>14 DEF Next, Arrival, Answer, Disposal

LEMMA IInvHolds == Spec => []IInv
<1>1. Init => IInv
  <2> SUFFICES ASSUME Init PROVE IInv  OBVIOUS
  <2>1. last \in Samples /\ ready \in Seq(Nat)
    <3>1. <<>> \in Seq(Nat)  OBVIOUS
    <3>2. QED  BY <3>1 DEF Init, Samples
  <2>2. ValuesOK
    BY <2>1 DEF Init, ValuesOK
  <2>3. FlagsOK
    BY DEF Init, FlagsOK
  <2>4. ReadyIsNewer /\ SampleIsNewer
    BY DEF Init, ReadyIsNewer, SampleIsNewer
  <2>5. SignalMeansFrame /\ ToldFirst
    BY DEF Init, SignalMeansFrame, ToldFirst
  <2>6. QED  BY <2>2, <2>3, <2>4, <2>5 DEF IInv
<1>2. IInv /\ [Next]_vars => IInv'
  BY StepKeepsIInv
<1>3. QED  BY <1>1, <1>2, PTL DEF Spec

(* OnMediaStreamSourceSampleRequested ends the recording only when the     *)
(* item was closed or the recorder disposed of, or WaitForNewFrame had     *)
(* given up a frame between the two statements of OnFrameArrived.          *)
THEOREM OnlyEndedWhenToldHolds == Spec => []OnlyEndedWhenTold
<1>1. IInv => OnlyEndedWhenTold
  BY DEF IInv, ValuesOK, FlagsOK, ToldFirst, TypeOK, OnlyEndedWhenTold
<1>2. QED  BY <1>1, IInvHolds, PTL

(* The threads of the frame pool, the transcoder and the timer may meet    *)
(* anywhere: a sample is later than the time and the picture of the one    *)
(* before it, and its picture is not older than its time.                  *)
THEOREM SamplesGoForwardHolds == Spec => SamplesGoForward
<1>1. ASSUME IInv, [Next]_vars, last' # last
      PROVE  /\ last'.time > last.time /\ last'.time > last.surface
             /\ last'.surface >= last'.time
  <2>1. Draw
    BY <1>1 DEF Next, Arrival, Answer, Disposal, Capture, StoreFrame, SignalFrame,
                Collect, Request, DisposeCurrent, ResetEvent, Woken, ReadTime, Fail,
                Over, ItemCloses, DisposeTells, DisposeTears, vars, answers
  <2>2. request = "draw" /\ last' = [time |-> time, surface |-> current]
    BY <1>1, <2>1 DEF Draw, Fail, Over, answers
  <2>3. last.surface < time /\ time <= current /\ last.time <= last.surface
    BY <1>1, <2>2 DEF IInv, SampleIsNewer
  <2>4. last.time \in Nat /\ last.surface \in Nat /\ time \in Nat /\ current \in Nat
    BY <1>1 DEF IInv, ValuesOK, Samples
  <2>5. QED  BY <2>2, <2>3, <2>4
<1>2. IInv /\ [Next]_vars =>
          [last' # last => /\ last'.time > last.time /\ last'.time > last.surface
                           /\ last'.surface >= last'.time]_vars
  BY <1>1
<1>3. QED  BY <1>2, IInvHolds, PTL DEF Spec, SamplesGoForward
=============================================================================
