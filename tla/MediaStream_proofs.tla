------------------------- MODULE MediaStream_proofs -------------------------
(***************************************************************************)
(* Proofs about one stream of the media source, for every number of frames *)
(* and requests and every set of timestamps.                               *)
(***************************************************************************)
EXTENDS MediaStream, SequenceTheorems, TLAPS

(* What the quality of service leaves of its three fields.                 *)
LEMMA QualityKeepsType ==
    ASSUME TypeOK, NEW s \in Sample, QualityAfter(s)
    PROVE  waiting' \in BOOLEAN /\ dropMode' \in {0, 1} /\ dropTime' \in DropWindow
<1>1. WindowStart(s) \in Nat
  BY DEF TypeOK, QualityOK, WindowStart, Sample, DropWindow
<1>2. InWindow(s) \in BOOLEAN /\ WindowEnds(s) \in BOOLEAN
  BY <1>1 DEF InWindow, WindowEnds, TypeOK, QualityOK, DropWindow, Sample
<1>3. CASE ~fVideo \/ DropForRate(s)
  BY <1>3 DEF QualityAfter, TypeOK, QualityOK
<1>4. CASE fVideo /\ ~DropForRate(s) /\ InWindow(s)
  BY <1>1, <1>4 DEF QualityAfter, TypeOK, QualityOK, DropWindow
<1>5. CASE fVideo /\ ~DropForRate(s) /\ ~InWindow(s)
  <2>1. s.key \in BOOLEAN  BY DEF Sample
  <2>2. waiting' \in BOOLEAN
    BY <1>2, <1>5, <2>1 DEF QualityAfter, TypeOK, QualityOK
  <2>3. dropTime' \in DropWindow /\ dropMode' \in {0, 1}
    <3>1. NoDropTime \in DropWindow  BY DEF NoDropTime, DropWindow
    <3>2. dropTime' = NoDropTime \/ dropTime' = dropTime
      BY <1>5 DEF QualityAfter
    <3>3. QED  BY <3>1, <3>2 DEF QualityAfter, TypeOK, QualityOK
  <2>4. QED  BY <2>2, <2>3
<1>6. QED  BY <1>3, <1>4, <1>5 DEF TypeOK, ControlOK

LEMMA FlushKeepsType ==
    ASSUME TypeOK, Flush
    PROVE  /\ samples' = <<>> /\ tokens' = <<>>
           /\ samples' \in Seq(Sample) /\ tokens' \in Seq(Nat)
           /\ waiting' = TRUE /\ dropMode' = 0 /\ dropTime' \in DropWindow
           /\ discontinuity' = FALSE /\ flushes' \in Nat
<1>1. samples' = <<>> /\ tokens' = <<>> /\ dropMode' = 0
      /\ discontinuity' = FALSE /\ flushes' = flushes + 1
      /\ dropTime' = NoDropTime /\ waiting' = TRUE
  BY DEF Flush, ResetDropTime
<1>2. NoDropTime \in DropWindow
  BY DEF NoDropTime, DropWindow
<1>3. QED  BY <1>1, <1>2 DEF TypeOK, CountsOK

LEMMA TakeKeepsType ==
    ASSUME TypeOK, NEW s, TakeSample(s)
    PROVE  /\ s \in Sample /\ samples' \in Seq(Sample)
           /\ waiting' \in BOOLEAN /\ dropMode' \in {0, 1} /\ dropTime' \in DropWindow
           /\ Head(tokens) \in Nat /\ Tail(tokens) \in Seq(Nat)
<1>1. samples \in Seq(Sample) /\ samples # <<>> /\ s = Head(samples)
      /\ tokens \in Seq(Nat) /\ tokens # <<>> /\ samples' = Tail(samples)
  BY DEF TakeSample, TypeOK, QueuesOK
<1>2. s \in Sample /\ samples' \in Seq(Sample) /\ Head(tokens) \in Nat
      /\ Tail(tokens) \in Seq(Nat)
  BY <1>1
<1>3. QED  BY <1>2, QualityKeepsType DEF TakeSample

(* An error event is counted or not, see HandleError.                      *)
LEMMA ErrorKeepsType ==
    ASSUME CountsOK, HandleError
    PROVE  errors' \in Nat
<1>1. errors' = errors \/ errors' = errors + 1  BY DEF HandleError
<1>2. QED  BY <1>1 DEF CountsOK

LEMMA StepKeepsType ==
    ASSUME TypeOK, [Next]_vars
    PROVE  TypeOK'
<1> USE DEF vars, control, quality, queues, output, counts
<1>0. ControlOK /\ QualityOK /\ QueuesOK /\ OutputOK /\ CountsOK
  BY DEF TypeOK
<1>1. ASSUME NEW s \in {samples[i] : i \in DOMAIN samples}, DropSample(s)
      PROVE  TypeOK'
  <2>1. TakeSample(s)  BY <1>1 DEF DropSample
  <2>2. OutputOK'
    BY <1>0, <1>1, <2>1, TakeKeepsType DEF DropSample, TakeSample, OutputOK
  <2>3. QueuesOK' /\ QualityOK'
    BY <1>0, <1>1, <2>1, TakeKeepsType DEF DropSample, QueuesOK, QualityOK
  <2>4. ControlOK' /\ CountsOK'
    BY <1>0, <1>1, <2>1 DEF DropSample, TakeSample, ControlOK, CountsOK
  <2>5. QED  BY <2>2, <2>3, <2>4 DEF TypeOK
<1>2. ASSUME NEW s \in {samples[i] : i \in DOMAIN samples}, DeliverSample(s)
      PROVE  TypeOK'
  <2>1. TakeSample(s)  BY <1>2 DEF DeliverSample
  <2>2. [sample |-> s, token |-> Head(tokens), marked |-> discontinuity,
         flush |-> flushes] \in Delivery
    BY <1>0, <2>1, TakeKeepsType DEF Delivery, OutputOK, CountsOK
  <2>3. delivered' \in Seq(Delivery)
    BY <1>0, <1>2, <2>2 DEF DeliverSample, Deliver, OutputOK
  <2>7. OutputOK'
    BY <1>0, <1>2, <2>1, <2>3 DEF DeliverSample, Deliver, TakeSample, OutputOK
  <2>4. QueuesOK' /\ QualityOK'
    BY <1>0, <1>2, <2>1, TakeKeepsType DEF DeliverSample, QueuesOK, QualityOK
  <2>5. ControlOK' /\ CountsOK'
    BY <1>0, <1>2, <2>1 DEF DeliverSample, TakeSample, ControlOK, CountsOK
  <2>6. QED  BY <2>7, <2>4, <2>5 DEF TypeOK
<1>3. CASE DeliverSamplesEnds
  BY <1>0, <1>3, ZenonT(60) DEF DeliverSamplesEnds, TypeOK, ControlOK, QualityOK, QueuesOK,
                    OutputOK, CountsOK
<1>4. CASE RequestSample
  <2>1. ControlOK' /\ CountsOK'
    <3>1. errors' \in Nat
      BY <1>0, <1>4, ErrorKeepsType DEF RequestSample, CountsOK
    <3>2. CountsOK'
      BY <1>0, <1>4, <3>1 DEF RequestSample, CountsOK
    <3>3. ControlOK'
      BY <1>0, <1>4 DEF RequestSample, ControlOK
    <3>4. QED  BY <3>2, <3>3
  <2>2. QualityOK' /\ OutputOK'
    BY <1>0, <1>4 DEF RequestSample, QualityOK, OutputOK
  <2>3. QueuesOK'
    BY <1>0, <1>4, <2>1, SMTT(60) DEF RequestSample, QueuesOK, CountsOK
  <2>4. QED  BY <2>1, <2>2, <2>3 DEF TypeOK
<1>5. ASSUME NEW key \in BOOLEAN, NEW ts \in Times, ProcessSample(key, ts)
      PROVE  TypeOK'
  <2>1. ControlOK' /\ CountsOK'
    <3>1. errors' \in Nat
      BY <1>0, <1>5, ErrorKeepsType DEF ProcessSample, CountsOK
    <3>2. CountsOK'
      BY <1>0, <1>5, <3>1 DEF ProcessSample, CountsOK
    <3>3. ControlOK'
      BY <1>0, <1>5 DEF ProcessSample, ControlOK
    <3>4. QED  BY <3>2, <3>3
  <2>2. QualityOK' /\ OutputOK'
    BY <1>0, <1>5, <2>1 DEF ProcessSample, QualityOK, OutputOK, CountsOK
  <2>3. [id |-> frames', key |-> key, ts |-> ts, flush |-> flushes] \in Sample
    BY <1>0, <2>1, ParametersAssumption DEF Sample, CountsOK
  <2>4. QueuesOK'
    <3>1. samples' \in {samples, Append(samples, [id |-> frames', key |-> key, ts |-> ts,
                                                  flush |-> flushes])}
      BY <1>5 DEF ProcessSample
    <3>2. samples' \in Seq(Sample)
      BY <1>0, <2>3, <3>1 DEF QueuesOK
    <3>3. tokens' = tokens
      BY <1>5 DEF ProcessSample
    <3>4. QED  BY <1>0, <3>2, <3>3 DEF QueuesOK
  <2>5. QED  BY <2>1, <2>2, <2>4 DEF TypeOK
<1>6. ASSUME NEW mode \in 0 .. 5, SetDropMode(mode)
      PROVE  TypeOK'
  <2>1. QualityOK'
    BY <1>0, <1>6 DEF SetDropMode, Supports, ChangeDropMode, QualityOK
  <2>2. ControlOK' /\ QueuesOK' /\ OutputOK' /\ CountsOK'
    BY <1>0, <1>6 DEF SetDropMode, Advised, ControlOK, QueuesOK, OutputOK, CountsOK
  <2>3. QED  BY <2>1, <2>2 DEF TypeOK
<1>7. ASSUME NEW amount \in Amounts \cup {0}, DropTime(amount)
      PROVE  TypeOK'
  <2>1. amount \in Nat  BY ParametersAssumption
  <2>2. QualityOK'
    <3>1. CASE amount = 0 /\ ResetDropTime
      <4>1. NoDropTime \in DropWindow  BY DEF NoDropTime, DropWindow
      <4>2. QED  BY <1>0, <1>7, <3>1, <4>1 DEF DropTime, ResetDropTime, QualityOK
    <3>2. CASE /\ dropTime' = [dropTime EXCEPT !.on = TRUE, !.init = TRUE,
                                               !.amount = amount]
               /\ UNCHANGED waiting
      <4>1. dropTime' \in DropWindow
        BY <1>0, <2>1, <3>2 DEF QualityOK, DropWindow
      <4>2. QED  BY <1>0, <1>7, <3>2, <4>1 DEF DropTime, QualityOK
    <3>3. QED  BY <1>7, <3>1, <3>2 DEF DropTime
  <2>3. ControlOK' /\ QueuesOK' /\ OutputOK' /\ CountsOK'
    BY <1>0, <1>7 DEF DropTime, Advised, ControlOK, QueuesOK, OutputOK, CountsOK
  <2>4. QED  BY <2>2, <2>3 DEF TypeOK
<1>8. ASSUME NEW selected \in BOOLEAN, DoStart(selected)
      PROVE  TypeOK'
  BY <1>0, <1>8 DEF DoStart, Command, TypeOK, ControlOK, QualityOK, QueuesOK,
                    OutputOK, CountsOK
<1>9. CASE DoStop
  <2>1. QualityOK' /\ QueuesOK'
    BY <1>0, <1>9, FlushKeepsType DEF DoStop, QualityOK, QueuesOK
  <2>2. ControlOK' /\ CountsOK'
    <3>1. errors' \in Nat
      BY <1>0, <1>9, ErrorKeepsType DEF DoStop, CountsOK
    <3>2. flushes' \in Nat
      BY <1>0, <1>9, FlushKeepsType DEF DoStop, CountsOK, TypeOK
    <3>3. CountsOK'
      BY <1>0, <1>9, <3>1, <3>2 DEF DoStop, Command, CountsOK
    <3>4. ControlOK'
      BY <1>0, <1>9 DEF DoStop, Command, ControlOK
    <3>5. QED  BY <3>3, <3>4
  <2>3. OutputOK'
    BY <1>0, <1>9, FlushKeepsType DEF DoStop, Command, OutputOK
  <2>4. QED  BY <2>1, <2>2, <2>3 DEF TypeOK
<1>10. ASSUME NEW rate \in {0, 1}, DoSetRate(rate)
       PROVE  TypeOK'
  <2>1. QualityOK' /\ QueuesOK'
    BY <1>0, <1>10, FlushKeepsType DEF DoSetRate, QualityOK, QueuesOK
  <2>2. ControlOK' /\ CountsOK'
    <3>1. flushes' \in Nat
      BY <1>0, <1>10, FlushKeepsType DEF DoSetRate, CountsOK, TypeOK
    <3>2. CountsOK'
      BY <1>0, <1>10, <3>1 DEF DoSetRate, Command, CountsOK
    <3>3. ControlOK'
      BY <1>0, <1>10 DEF DoSetRate, Command, ControlOK
    <3>4. QED  BY <3>2, <3>3
  <2>3. OutputOK'
    BY <1>0, <1>10, FlushKeepsType DEF DoSetRate, Command, OutputOK
  <2>4. QED  BY <2>1, <2>2, <2>3 DEF TypeOK
<1>11. CASE Shutdown
  <2>1. QualityOK' /\ QueuesOK' /\ flushes' \in Nat /\ discontinuity' = FALSE
    BY <1>0, <1>11, FlushKeepsType DEF Shutdown, QualityOK, QueuesOK
  <2>2. ControlOK' /\ OutputOK'
    BY <1>0, <1>11, <2>1 DEF Shutdown, Command, ControlOK, OutputOK
  <2>3. CountsOK'
    BY <1>0, <1>11, <2>1 DEF Shutdown, Command, CountsOK
  <2>4. QED  BY <2>1, <2>2, <2>3 DEF TypeOK
<1>12. CASE UNCHANGED vars
  BY <1>0, <1>12 DEF TypeOK, ControlOK, QualityOK, QueuesOK, OutputOK, CountsOK
<1>13. QED
  BY <1>1, <1>2, <1>3, <1>4, <1>5, <1>6, <1>7, <1>8, <1>9, <1>10, <1>11, <1>12
     DEF Next

(* The fields of a stream keep their types.                                *)
THEOREM MediaStreamTypeOK == Spec => []TypeOK
<1>1. ASSUME Init PROVE TypeOK
  <2>1. ControlOK /\ QualityOK
    <3>1. NoDropTime \in DropWindow  BY DEF NoDropTime, DropWindow
    <3>2. QED  BY <1>1, <3>1 DEF Init, ControlOK, QualityOK
  <2>2. QueuesOK
    BY <1>1 DEF Init, QueuesOK
  <2>3. OutputOK
    <3>1. delivered \in Seq(Delivery)
      BY <1>1 DEF Init
    <3>2. dropped \in SUBSET Sample /\ skipped \in SUBSET Nat
      BY <1>1 DEF Init
    <3>3. discontinuity \in BOOLEAN
      BY <1>1 DEF Init
    <3>4. QED  BY <3>1, <3>2, <3>3 DEF OutputOK
  <2>4. CountsOK
    BY <1>1 DEF Init, CountsOK
  <2>5. QED  BY <2>1, <2>2, <2>3, <2>4 DEF TypeOK
<1>2. TypeOK /\ [Next]_vars => TypeOK'
  BY StepKeepsType
<1>3. QED  BY <1>1, <1>2, PTL DEF Spec
-----------------------------------------------------------------------------
(* The samples that wait all came since the last flush.  With this,        *)
(* NothingStale is inductive: a sample is delivered before the next flush. *)
HeldAreCurrent == \A i \in DOMAIN samples : samples[i].flush = flushes

(* An element of a sequence with one more at its end is old or that one.   *)
LEMMA ElementsOfAppend ==
    ASSUME NEW S, NEW q \in Seq(S), NEW e \in S, NEW r, r = Append(q, e)
    PROVE  \A i \in DOMAIN r : r[i] = e \/ (i \in DOMAIN q /\ r[i] = q[i])
<1>1. Len(r) = Len(q) + 1 /\ r \in Seq(S)
  BY AppendProperties
<1>2. QED  BY <1>1, AppendProperties

LEMMA StepKeepsCurrent ==
    ASSUME TypeOK, HeldAreCurrent, NothingStale, [Next]_vars
    PROVE  HeldAreCurrent' /\ NothingStale'
<1> USE DEF vars, control, quality, queues, output, counts
<1>0. samples \in Seq(Sample) /\ delivered \in Seq(Delivery) /\ flushes \in Nat
  BY DEF TypeOK, QueuesOK, OutputOK, CountsOK
<1>1. ASSUME UNCHANGED <<samples, flushes>> PROVE HeldAreCurrent'
  BY <1>1 DEF HeldAreCurrent
<1>2. ASSUME samples' = <<>> PROVE HeldAreCurrent'
  BY <1>2 DEF HeldAreCurrent
<1>3. ASSUME UNCHANGED delivered PROVE NothingStale'
  BY <1>3 DEF NothingStale
<1>4. ASSUME NEW s, TakeSample(s)
      PROVE  HeldAreCurrent' /\ s.flush = flushes /\ flushes' = flushes
  <2>1. samples # <<>> /\ s = Head(samples) /\ samples' = Tail(samples) /\ flushes' = flushes
    BY <1>4 DEF TakeSample
  <2>2. s = samples[1] /\ 1 \in DOMAIN samples
    BY <1>0, <2>1, HeadTailProperties
  <2>3. \A i \in DOMAIN samples' : samples'[i] = samples[i + 1] /\ i + 1 \in DOMAIN samples
    BY <1>0, <2>1, HeadTailProperties
  <2>4. QED  BY <2>1, <2>2, <2>3 DEF HeldAreCurrent
<1>5. ASSUME NEW s \in {samples[i] : i \in DOMAIN samples}, DropSample(s)
      PROVE  HeldAreCurrent' /\ NothingStale'
  BY <1>3, <1>4, <1>5 DEF DropSample
<1>6. ASSUME NEW s \in {samples[i] : i \in DOMAIN samples}, DeliverSample(s)
      PROVE  HeldAreCurrent' /\ NothingStale'
  <2>1. HeldAreCurrent' /\ s.flush = flushes
    BY <1>4, <1>6 DEF DeliverSample
  <2> DEFINE d == [sample |-> s, token |-> Head(tokens), marked |-> discontinuity,
                   flush |-> flushes]
  <2>2. delivered' = Append(delivered, d)
    BY <1>6 DEF DeliverSample, Deliver
  <2>3. d.sample.flush = d.flush /\ d \in Delivery
    <3>1. s \in Sample /\ Head(tokens) \in Nat
      BY <1>6, TakeKeepsType DEF DeliverSample
    <3>2. discontinuity \in BOOLEAN
      BY DEF TypeOK, OutputOK
    <3>3. QED  BY <1>0, <2>1, <3>1, <3>2 DEF Delivery
  <2> HIDE DEF d
  <2>4. \A i \in DOMAIN delivered' : delivered'[i] = d \/ (i \in DOMAIN delivered /\ delivered'[i] = delivered[i])
    BY <1>0, <2>2, <2>3, ElementsOfAppend
  <2>5. NothingStale'
    BY <2>3, <2>4 DEF NothingStale
  <2>6. QED  BY <2>1, <2>5
<1>7. CASE DeliverSamplesEnds
  BY <1>1, <1>3, <1>7 DEF DeliverSamplesEnds
<1>8. CASE RequestSample
  BY <1>1, <1>3, <1>8 DEF RequestSample
<1>9. ASSUME NEW key \in BOOLEAN, NEW ts \in Times, ProcessSample(key, ts)
      PROVE  HeldAreCurrent' /\ NothingStale'
  <2>1. UNCHANGED <<flushes, delivered>>
    BY <1>9 DEF ProcessSample
  <2> DEFINE s == [id |-> frames', key |-> key, ts |-> ts, flush |-> flushes]
  <2>2. samples' = samples \/ samples' = Append(samples, s)
    BY <1>9 DEF ProcessSample
  <2>3. CASE samples' = Append(samples, s)
    <3>1. s.flush = flushes /\ s \in Sample
      BY <1>0, <1>9, ParametersAssumption DEF ProcessSample, TypeOK, CountsOK, Sample
    <3> HIDE DEF s
    <3>2. \A i \in DOMAIN samples' : samples'[i] = s \/ (i \in DOMAIN samples /\ samples'[i] = samples[i])
      BY <1>0, <2>3, <3>1, ElementsOfAppend
    <3>3. QED  BY <1>3, <2>1, <3>1, <3>2 DEF HeldAreCurrent
  <2>4. QED  BY <1>1, <1>3, <2>1, <2>2, <2>3
<1>10. ASSUME NEW mode \in 0 .. 5, SetDropMode(mode)
       PROVE  HeldAreCurrent' /\ NothingStale'
  BY <1>1, <1>3, <1>10 DEF SetDropMode
<1>11. ASSUME NEW amount \in Amounts \cup {0}, DropTime(amount)
       PROVE  HeldAreCurrent' /\ NothingStale'
  BY <1>1, <1>3, <1>11 DEF DropTime
<1>12. ASSUME NEW selected \in BOOLEAN, DoStart(selected)
       PROVE  HeldAreCurrent' /\ NothingStale'
  BY <1>1, <1>3, <1>12 DEF DoStart, Command
<1>13. CASE DoStop
  BY <1>1, <1>2, <1>3, <1>13 DEF DoStop, Command, Flush
<1>14. ASSUME NEW rate \in {0, 1}, DoSetRate(rate)
       PROVE  HeldAreCurrent' /\ NothingStale'
  BY <1>1, <1>2, <1>3, <1>14 DEF DoSetRate, Command, Flush
<1>15. CASE Shutdown
  BY <1>2, <1>3, <1>15 DEF Shutdown, Command, Flush
<1>16. CASE UNCHANGED vars
  BY <1>1, <1>3, <1>16
<1>17. QED
  BY <1>5, <1>6, <1>7, <1>8, <1>9, <1>10, <1>11, <1>12, <1>13, <1>14, <1>15, <1>16 DEF Next

(* No sample of before a flush (Flush, called on a stop, a change of rate  *)
(* and a shutdown) is delivered after it.                                  *)
THEOREM MediaStreamNothingStale == Spec => []NothingStale
<1>1. Init => HeldAreCurrent /\ NothingStale
  BY DEF Init, HeldAreCurrent, NothingStale
<1>2. TypeOK /\ HeldAreCurrent /\ NothingStale /\ [Next]_vars
      => (HeldAreCurrent /\ NothingStale)'
  BY StepKeepsCurrent
<1>3. QED  BY <1>1, <1>2, MediaStreamTypeOK, PTL DEF Spec

-----------------------------------------------------------------------------
(* A stream that is not started holds nothing (requests and samples are    *)
(* taken by a started stream only, and what ends its being started also    *)
(* flushes it), and so its loop of DeliverSamples has nothing to hand on.  *)
LEMMA StepKeepsQueues ==
    ASSUME TypeOK, OnlyStartedHolds, NothingWaits, [Next]_vars
    PROVE  OnlyStartedHolds' /\ NothingWaits'
<1> USE DEF vars, control, quality, queues, output, counts
<1>1. ASSUME samples' = <<>>, tokens' = <<>> PROVE OnlyStartedHolds' /\ NothingWaits'
  BY <1>1 DEF OnlyStartedHolds, NothingWaits
<1>2. ASSUME UNCHANGED <<state, samples, tokens, delivering>>
      PROVE  OnlyStartedHolds' /\ NothingWaits'
  BY <1>2 DEF OnlyStartedHolds, NothingWaits
<1>3. ASSUME NEW s, TakeSample(s), UNCHANGED delivering
      PROVE  OnlyStartedHolds' /\ NothingWaits'
  BY <1>3 DEF TakeSample, OnlyStartedHolds, NothingWaits
<1>4. ASSUME NEW s \in {samples[i] : i \in DOMAIN samples}, DropSample(s)
      PROVE  OnlyStartedHolds' /\ NothingWaits'
  BY <1>3, <1>4 DEF DropSample
<1>5. ASSUME NEW s \in {samples[i] : i \in DOMAIN samples}, DeliverSample(s)
      PROVE  OnlyStartedHolds' /\ NothingWaits'
  BY <1>3, <1>5 DEF DeliverSample
<1>6. CASE DeliverSamplesEnds
  BY <1>6 DEF DeliverSamplesEnds, OnlyStartedHolds, NothingWaits
<1>7. CASE RequestSample
  BY <1>2, <1>7 DEF RequestSample, OnlyStartedHolds, NothingWaits
<1>8. ASSUME NEW key \in BOOLEAN, NEW ts \in Times, ProcessSample(key, ts)
      PROVE  OnlyStartedHolds' /\ NothingWaits'
  BY <1>2, <1>8 DEF ProcessSample, OnlyStartedHolds, NothingWaits
<1>9. ASSUME NEW mode \in 0 .. 5, SetDropMode(mode)
      PROVE  OnlyStartedHolds' /\ NothingWaits'
  BY <1>2, <1>9 DEF SetDropMode
<1>10. ASSUME NEW amount \in Amounts \cup {0}, DropTime(amount)
       PROVE  OnlyStartedHolds' /\ NothingWaits'
  BY <1>2, <1>10 DEF DropTime
<1>11. ASSUME NEW selected \in BOOLEAN, DoStart(selected)
       PROVE  OnlyStartedHolds' /\ NothingWaits'
  BY <1>11 DEF DoStart, Command, OnlyStartedHolds, NothingWaits
<1>12. CASE DoStop
  BY <1>1, <1>2, <1>12 DEF DoStop, Command, Flush
<1>13. ASSUME NEW rate \in {0, 1}, DoSetRate(rate)
       PROVE  OnlyStartedHolds' /\ NothingWaits'
  BY <1>1, <1>2, <1>13 DEF DoSetRate, Command, Flush
<1>14. CASE Shutdown
  BY <1>1, <1>14 DEF Shutdown, Flush
<1>15. CASE UNCHANGED vars
  BY <1>2, <1>15
<1>16. QED
  BY <1>4, <1>5, <1>6, <1>7, <1>8, <1>9, <1>10, <1>11, <1>12, <1>13, <1>14, <1>15 DEF Next

(* A stream that is not started holds no request and no sample, and while  *)
(* the lock is free no sample waits beside a request.                      *)
THEOREM MediaStreamQueues == Spec => []OnlyNeededWaits
<1>1. Init => OnlyStartedHolds /\ NothingWaits
  BY DEF Init, OnlyStartedHolds, NothingWaits
<1>2. TypeOK /\ OnlyStartedHolds /\ NothingWaits /\ [Next]_vars
      => (OnlyStartedHolds /\ NothingWaits)'
  BY StepKeepsQueues
<1>3. TypeOK /\ OnlyStartedHolds /\ NothingWaits => OnlyNeededWaits
  BY DEF OnlyNeededWaits
<1>4. QED  BY <1>1, <1>2, <1>3, MediaStreamTypeOK, PTL DEF Spec
-----------------------------------------------------------------------------
(* Requests and frames are numbered as they come.  What waits is ascending *)
(* and behind all that was delivered, so what is delivered is ascending.   *)
SamplesAscend ==
    \A i \in DOMAIN samples :
        /\ samples[i].id <= frames
        /\ \A j \in DOMAIN samples : i < j => samples[i].id < samples[j].id
        /\ \A j \in DOMAIN delivered : delivered[j].sample.id < samples[i].id

TokensAscend ==
    \A i \in DOMAIN tokens :
        /\ tokens[i] <= requests
        /\ \A j \in DOMAIN tokens : i < j => tokens[i] < tokens[j]
        /\ \A j \in DOMAIN delivered : delivered[j].token < tokens[i]

DeliveredKnown ==
    \A i \in DOMAIN delivered :
        delivered[i].sample.id <= frames /\ delivered[i].token <= requests

OrderInv == SamplesAscend /\ TokensAscend /\ DeliveredKnown /\ AnsweredInOrder

LEMMA IndicesOfAppend ==
    ASSUME NEW S, NEW q \in Seq(S), NEW e \in S, NEW r, r = Append(q, e)
    PROVE  /\ Len(q) \in Nat /\ DOMAIN q = 1 .. Len(q)
           /\ DOMAIN r = 1 .. Len(q) + 1
           /\ r[Len(q) + 1] = e
           /\ \A i \in 1 .. Len(q) : r[i] = q[i]
  BY AppendProperties

LEMMA IndicesOfTail ==
    ASSUME NEW S, NEW q \in Seq(S), q # <<>>, NEW r, r = Tail(q)
    PROVE  /\ Len(q) \in Nat \ {0} /\ DOMAIN q = 1 .. Len(q)
           /\ DOMAIN r = 1 .. Len(q) - 1
           /\ Head(q) = q[1]
           /\ \A i \in 1 .. Len(q) - 1 : r[i] = q[i + 1]
  BY HeadTailProperties

(* What numbers can be compared.                                           *)
LEMMA NumbersOfTypes ==
    ASSUME TypeOK
    PROVE  /\ samples \in Seq(Sample) /\ tokens \in Seq(Nat) /\ delivered \in Seq(Delivery)
           /\ frames \in Nat /\ requests \in Nat
           /\ \A i \in DOMAIN samples : samples[i].id \in Nat
           /\ \A i \in DOMAIN tokens : tokens[i] \in Nat
           /\ \A i \in DOMAIN delivered :
                  delivered[i].sample.id \in Nat /\ delivered[i].token \in Nat
<1>1. samples \in Seq(Sample) /\ tokens \in Seq(Nat) /\ delivered \in Seq(Delivery)
      /\ frames \in Nat /\ requests \in Nat
  BY DEF TypeOK, QueuesOK, OutputOK, CountsOK
<1>2. \A i \in DOMAIN samples : samples[i] \in Sample
  BY <1>1
<1>3. \A i \in DOMAIN tokens : tokens[i] \in Nat
  BY <1>1
<1>4. \A i \in DOMAIN delivered : delivered[i] \in Delivery
  BY <1>1
<1>5. QED  BY <1>1, <1>2, <1>3, <1>4 DEF Sample, Delivery

(* What each kind of step does to the numbers: a sample is dropped, a frame *)
(* or a request comes, a request is answered, the stream is flushed.       *)
LEMMA SamplesLeave ==
    ASSUME TypeOK, SamplesAscend, samples # <<>>, samples' = Tail(samples),
           UNCHANGED <<frames, delivered>>
    PROVE  SamplesAscend'
<1>1. /\ DOMAIN samples = 1 .. Len(samples) /\ Len(samples) \in Nat \ {0}
      /\ DOMAIN samples' = 1 .. Len(samples) - 1
      /\ \A i \in 1 .. Len(samples) - 1 : samples'[i] = samples[i + 1]
  BY NumbersOfTypes, IndicesOfTail
<1>2. QED  BY <1>1 DEF SamplesAscend

LEMMA FrameComes ==
    ASSUME TypeOK, OrderInv, NEW s \in Sample, s.id = frames', frames' = frames + 1,
           samples' = Append(samples, s), UNCHANGED <<tokens, requests, delivered>>
    PROVE  OrderInv'
<1>1. /\ DOMAIN samples = 1 .. Len(samples) /\ Len(samples) \in Nat
      /\ DOMAIN samples' = 1 .. Len(samples) + 1
      /\ samples'[Len(samples) + 1] = s
      /\ \A i \in 1 .. Len(samples) : samples'[i] = samples[i]
  BY NumbersOfTypes, IndicesOfAppend
<1>2. DeliveredKnown'
  BY NumbersOfTypes DEF DeliveredKnown, OrderInv
<1>3. SamplesAscend'
  BY <1>1, NumbersOfTypes DEF SamplesAscend, DeliveredKnown, OrderInv
<1>4. TokensAscend' /\ AnsweredInOrder'
  BY DEF TokensAscend, AnsweredInOrder, OrderInv
<1>5. QED  BY <1>2, <1>3, <1>4 DEF OrderInv

LEMMA RequestComes ==
    ASSUME TypeOK, OrderInv, requests' = requests + 1,
           tokens' = Append(tokens, requests'), UNCHANGED <<samples, frames, delivered>>
    PROVE  OrderInv'
<1>1. /\ DOMAIN tokens = 1 .. Len(tokens) /\ Len(tokens) \in Nat
      /\ DOMAIN tokens' = 1 .. Len(tokens) + 1
      /\ tokens'[Len(tokens) + 1] = requests + 1
      /\ \A i \in 1 .. Len(tokens) : tokens'[i] = tokens[i]
  BY NumbersOfTypes, IndicesOfAppend
<1>2. DeliveredKnown'
  BY NumbersOfTypes DEF DeliveredKnown, OrderInv
<1>3. TokensAscend'
  BY <1>1, NumbersOfTypes, SMTT(60) DEF TokensAscend, DeliveredKnown, OrderInv
<1>4. SamplesAscend' /\ AnsweredInOrder'
  BY DEF SamplesAscend, AnsweredInOrder, OrderInv
<1>5. QED  BY <1>2, <1>3, <1>4 DEF OrderInv

LEMMA SampleAnswers ==
    ASSUME TypeOK, OrderInv, samples # <<>>, tokens # <<>>, NEW d \in Delivery,
           d.sample = Head(samples), d.token = Head(tokens),
           delivered' = Append(delivered, d),
           samples' = Tail(samples), tokens' = Tail(tokens), UNCHANGED <<frames, requests>>
    PROVE  OrderInv'
<1>1. /\ DOMAIN samples = 1 .. Len(samples) /\ Len(samples) \in Nat \ {0}
      /\ DOMAIN samples' = 1 .. Len(samples) - 1 /\ d.sample = samples[1]
      /\ \A i \in 1 .. Len(samples) - 1 : samples'[i] = samples[i + 1]
  BY NumbersOfTypes, IndicesOfTail
<1>2. /\ DOMAIN tokens = 1 .. Len(tokens) /\ Len(tokens) \in Nat \ {0}
      /\ DOMAIN tokens' = 1 .. Len(tokens) - 1 /\ d.token = tokens[1]
      /\ \A i \in 1 .. Len(tokens) - 1 : tokens'[i] = tokens[i + 1]
  BY NumbersOfTypes, IndicesOfTail
<1>3. /\ DOMAIN delivered = 1 .. Len(delivered) /\ Len(delivered) \in Nat
      /\ DOMAIN delivered' = 1 .. Len(delivered) + 1
      /\ delivered'[Len(delivered) + 1] = d
      /\ \A i \in 1 .. Len(delivered) : delivered'[i] = delivered[i]
  BY NumbersOfTypes, IndicesOfAppend
<1>4. \A j \in DOMAIN delivered' : j \in DOMAIN delivered \/ j = Len(delivered) + 1
  BY <1>3
<1>5. SamplesAscend'
  <2> SUFFICES ASSUME NEW i \in DOMAIN samples'
               PROVE  /\ samples'[i].id <= frames'
                      /\ \A j \in DOMAIN samples' : i < j => samples'[i].id < samples'[j].id
                      /\ \A j \in DOMAIN delivered' : delivered'[j].sample.id < samples'[i].id
    BY DEF SamplesAscend
  <2>0. i \in 1 .. Len(samples) - 1 /\ samples'[i] = samples[i + 1] /\ frames' = frames
    BY <1>1
  <2>1. i + 1 \in DOMAIN samples /\ 1 \in DOMAIN samples /\ 1 < i + 1
    BY <1>1, <2>0
  <2>2. \A j \in DOMAIN samples' : i < j => samples'[i].id < samples'[j].id
    <3> SUFFICES ASSUME NEW j \in DOMAIN samples', i < j PROVE samples[i + 1].id < samples'[j].id
      BY <2>0
    <3>1. j + 1 \in DOMAIN samples /\ i + 1 < j + 1 /\ samples'[j] = samples[j + 1]
      BY <1>1, <2>0
    <3>2. QED  BY <2>1, <3>1 DEF SamplesAscend, OrderInv
  <2>3. samples[1].id < samples[i + 1].id
    BY <2>1 DEF SamplesAscend, OrderInv
  <2>4. \A j \in DOMAIN delivered : delivered[j].sample.id < samples[i + 1].id
    BY <2>1 DEF SamplesAscend, OrderInv
  <2>5. \A j \in DOMAIN delivered' : delivered'[j].sample.id < samples[i + 1].id
    <3> SUFFICES ASSUME NEW j \in DOMAIN delivered' PROVE delivered'[j].sample.id < samples[i + 1].id
      OBVIOUS
    <3>1. CASE j \in DOMAIN delivered
      <4>1. delivered'[j] = delivered[j]
        BY <1>3, <3>1
      <4>2. QED  BY <2>4, <3>1, <4>1
    <3>2. CASE j = Len(delivered) + 1
      <4>1. delivered'[j] = d
        BY <1>3, <3>2
      <4>2. QED  BY <1>1, <2>3, <4>1
    <3>3. QED  BY <1>4, <3>1, <3>2
  <2>6. QED  BY <2>0, <2>1, <2>2, <2>5 DEF SamplesAscend, OrderInv
<1>6. TokensAscend'
  <2> SUFFICES ASSUME NEW i \in DOMAIN tokens'
               PROVE  /\ tokens'[i] <= requests'
                      /\ \A j \in DOMAIN tokens' : i < j => tokens'[i] < tokens'[j]
                      /\ \A j \in DOMAIN delivered' : delivered'[j].token < tokens'[i]
    BY DEF TokensAscend
  <2>0. i \in 1 .. Len(tokens) - 1 /\ tokens'[i] = tokens[i + 1] /\ requests' = requests
    BY <1>2
  <2>1. i + 1 \in DOMAIN tokens /\ 1 \in DOMAIN tokens /\ 1 < i + 1
    BY <1>2, <2>0
  <2>2. \A j \in DOMAIN tokens' : i < j => tokens'[i] < tokens'[j]
    <3> SUFFICES ASSUME NEW j \in DOMAIN tokens', i < j PROVE tokens[i + 1] < tokens'[j]
      BY <2>0
    <3>1. j + 1 \in DOMAIN tokens /\ i + 1 < j + 1 /\ tokens'[j] = tokens[j + 1]
      BY <1>2, <2>0
    <3>2. QED  BY <2>1, <3>1 DEF TokensAscend, OrderInv
  <2>3. tokens[1] < tokens[i + 1]
    BY <2>1 DEF TokensAscend, OrderInv
  <2>4. \A j \in DOMAIN delivered : delivered[j].token < tokens[i + 1]
    BY <2>1 DEF TokensAscend, OrderInv
  <2>5. \A j \in DOMAIN delivered' : delivered'[j].token < tokens[i + 1]
    <3> SUFFICES ASSUME NEW j \in DOMAIN delivered' PROVE delivered'[j].token < tokens[i + 1]
      OBVIOUS
    <3>1. CASE j \in DOMAIN delivered
      <4>1. delivered'[j] = delivered[j]
        BY <1>3, <3>1
      <4>2. QED  BY <2>4, <3>1, <4>1
    <3>2. CASE j = Len(delivered) + 1
      <4>1. delivered'[j] = d
        BY <1>3, <3>2
      <4>2. QED  BY <1>2, <2>3, <4>1
    <3>3. QED  BY <1>4, <3>1, <3>2
  <2>6. QED  BY <2>0, <2>1, <2>2, <2>5 DEF TokensAscend, OrderInv
<1>7. DeliveredKnown'
  <2>1. 1 \in DOMAIN samples /\ 1 \in DOMAIN tokens
    BY <1>1, <1>2
  <2>2. d.sample.id <= frames /\ d.token <= requests
    BY <1>1, <1>2, <2>1 DEF SamplesAscend, TokensAscend, OrderInv
  <2>3. \A i \in DOMAIN delivered :
            delivered[i].sample.id <= frames /\ delivered[i].token <= requests
    BY DEF DeliveredKnown, OrderInv
  <2>4. QED  BY <1>3, <1>4, <2>2, <2>3 DEF DeliveredKnown
<1>8. AnsweredInOrder'
  <2>1. 1 \in DOMAIN samples /\ 1 \in DOMAIN tokens
    BY <1>1, <1>2
  <2>2. \A i \in DOMAIN delivered :
            delivered[i].sample.id < d.sample.id /\ delivered[i].token < d.token
    BY <1>1, <1>2, <2>1 DEF SamplesAscend, TokensAscend, OrderInv
  <2> SUFFICES ASSUME NEW i \in DOMAIN delivered', NEW j \in DOMAIN delivered', i < j
               PROVE  /\ delivered'[i].token < delivered'[j].token
                      /\ delivered'[i].sample.id < delivered'[j].sample.id
    BY DEF AnsweredInOrder
  <2>3. i \in DOMAIN delivered /\ delivered'[i] = delivered[i]
    BY <1>3
  <2>4. CASE j \in DOMAIN delivered
    <3>1. delivered'[j] = delivered[j]
      BY <1>3, <2>4
    <3>2. QED  BY <2>3, <2>4, <3>1 DEF AnsweredInOrder, OrderInv
  <2>5. CASE j = Len(delivered) + 1
    <3>1. delivered'[j] = d
      BY <1>3, <2>5
    <3>2. QED  BY <2>2, <2>3, <3>1
  <2>6. QED  BY <1>4, <2>4, <2>5
<1>9. QED  BY <1>5, <1>6, <1>7, <1>8 DEF OrderInv

LEMMA QueuesEmptied ==
    ASSUME OrderInv, samples' = <<>>, tokens' = <<>>, UNCHANGED <<frames, requests, delivered>>
    PROVE  OrderInv'
  BY DEF OrderInv, SamplesAscend, TokensAscend, DeliveredKnown, AnsweredInOrder

LEMMA NothingMoves ==
    ASSUME TypeOK, OrderInv, UNCHANGED <<samples, tokens, delivered>>,
           frames' \in {frames, frames + 1}, requests' \in {requests, requests + 1}
    PROVE  OrderInv'
<1>1. DeliveredKnown' /\ AnsweredInOrder'
  BY NumbersOfTypes DEF OrderInv, DeliveredKnown, AnsweredInOrder
<1>2. SamplesAscend' /\ TokensAscend'
  BY NumbersOfTypes, SMTT(60) DEF OrderInv, SamplesAscend, TokensAscend
<1>3. QED  BY <1>1, <1>2 DEF OrderInv

LEMMA StepKeepsOrder ==
    ASSUME TypeOK, OrderInv, [Next]_vars
    PROVE  OrderInv'
<1> USE DEF vars, control, quality, queues, output, counts
<1>1. ASSUME NEW s \in {samples[i] : i \in DOMAIN samples}, DropSample(s)
      PROVE  OrderInv'
  <2>1. samples # <<>> /\ samples' = Tail(samples)
        /\ UNCHANGED <<frames, requests, tokens, delivered>>
    BY <1>1 DEF DropSample, TakeSample
  <2>2. SamplesAscend'
    BY <2>1, SamplesLeave DEF OrderInv
  <2>3. TokensAscend' /\ DeliveredKnown' /\ AnsweredInOrder'
    BY <2>1 DEF OrderInv, TokensAscend, DeliveredKnown, AnsweredInOrder
  <2>4. QED  BY <2>2, <2>3 DEF OrderInv
<1>2. ASSUME NEW s \in {samples[i] : i \in DOMAIN samples}, DeliverSample(s)
      PROVE  OrderInv'
  <2>1. PICK d : /\ d = [sample |-> s, token |-> Head(tokens),
                         marked |-> discontinuity, flush |-> flushes]
                 /\ delivered' = Append(delivered, d)
    BY <1>2 DEF DeliverSample, Deliver
  <2>2. s \in Sample /\ Head(tokens) \in Nat
    BY <1>2, TakeKeepsType DEF DeliverSample
  <2>3. d \in Delivery
    BY <2>1, <2>2 DEF TypeOK, OutputOK, CountsOK, Delivery
  <2>4. d.sample = s /\ d.token = Head(tokens)
    BY <2>1
  <2>5. /\ samples # <<>> /\ tokens # <<>> /\ s = Head(samples)
        /\ samples' = Tail(samples) /\ tokens' = Tail(tokens)
        /\ UNCHANGED <<frames, requests>>
    BY <1>2 DEF DeliverSample, TakeSample
  <2>6. QED  BY <2>1, <2>3, <2>4, <2>5, SampleAnswers
<1>3. CASE DeliverSamplesEnds
  BY <1>3, NothingMoves DEF DeliverSamplesEnds
<1>4. CASE RequestSample
  <2>1. requests' = requests + 1 /\ UNCHANGED <<samples, frames, delivered>>
    BY <1>4 DEF RequestSample
  <2>2. tokens' = tokens \/ tokens' = Append(tokens, requests')
    BY <1>4 DEF RequestSample
  <2>3. QED  BY <2>1, <2>2, NothingMoves, RequestComes
<1>5. ASSUME NEW key \in BOOLEAN, NEW ts \in Times, ProcessSample(key, ts)
      PROVE  OrderInv'
  <2>1. frames' = frames + 1 /\ UNCHANGED <<tokens, requests, delivered>>
    BY <1>5 DEF ProcessSample
  <2> DEFINE s == [id |-> frames', key |-> key, ts |-> ts, flush |-> flushes]
  <2>2. samples' = samples \/ samples' = Append(samples, s)
    BY <1>5 DEF ProcessSample
  <2>3. s \in Sample /\ s.id = frames'
    BY <2>1, ParametersAssumption DEF TypeOK, CountsOK, Sample
  <2> HIDE DEF s
  <2>4. QED  BY <2>1, <2>2, <2>3, NothingMoves, FrameComes
<1>6. ASSUME NEW mode \in 0 .. 5, SetDropMode(mode)
      PROVE  OrderInv'
  BY <1>6, NothingMoves DEF SetDropMode
<1>7. ASSUME NEW amount \in Amounts \cup {0}, DropTime(amount)
      PROVE  OrderInv'
  BY <1>7, NothingMoves DEF DropTime
<1>8. ASSUME NEW selected \in BOOLEAN, DoStart(selected)
      PROVE  OrderInv'
  BY <1>8, NothingMoves DEF DoStart, Command
<1>9. CASE DoStop
  BY <1>9, NothingMoves, QueuesEmptied DEF DoStop, Command, Flush
<1>10. ASSUME NEW rate \in {0, 1}, DoSetRate(rate)
       PROVE  OrderInv'
  BY <1>10, NothingMoves, QueuesEmptied DEF DoSetRate, Command, Flush
<1>11. CASE Shutdown
  BY <1>11, QueuesEmptied DEF Shutdown, Command, Flush
<1>12. CASE UNCHANGED vars
  BY <1>12, NothingMoves
<1>13. QED
  BY <1>1, <1>2, <1>3, <1>4, <1>5, <1>6, <1>7, <1>8, <1>9, <1>10, <1>11, <1>12 DEF Next

(* Requests are answered in order with samples in the order of the server, *)
(* each at most once, however many samples DeliverSamples drops.           *)
THEOREM MediaStreamAnswersInOrder == Spec => []AnsweredInOrder
<1>1. Init => OrderInv
  BY DEF Init, OrderInv, SamplesAscend, TokensAscend, DeliveredKnown, AnsweredInOrder
<1>2. TypeOK /\ OrderInv /\ [Next]_vars => OrderInv'
  BY StepKeepsOrder
<1>3. OrderInv => AnsweredInOrder
  BY DEF OrderInv
<1>4. QED  BY <1>1, <1>2, <1>3, MediaStreamTypeOK, PTL DEF Spec
-----------------------------------------------------------------------------
(* Marks.  The samples dropped come before those that wait, and a mark is  *)
(* due exactly when one was dropped since the last delivery and flush.     *)
LastId == IF delivered = <<>> THEN 0 ELSE delivered[Len(delivered)].sample.id

DroppedBefore ==
    \A d \in dropped :
        /\ d.id <= frames /\ d.flush <= flushes
        /\ \A i \in DOMAIN samples : d.id < samples[i].id

MarkIsDue ==
    discontinuity <=> \E d \in dropped : LastId < d.id /\ d.flush = flushes

NumberedFromOne == \A i \in DOMAIN samples : samples[i].id >= 1

MarkInv ==
    NumberedFromOne /\ DroppedBefore /\ MarkIsDue /\ DiscontinuityMarked
-----------------------------------------------------------------------------
(* Frames.  Of those between two numbers none was lost, but for frames that *)
(* came while the stream was not selected.                                 *)
Unlost(p, n, ids) == \A k \in p + 1 .. n - 1 : k \in ids

NextId == IF samples = <<>> THEN frames + 1 ELSE samples[1].id

(* The next sample is dropped unless it is a key frame.                    *)
Guarded == waiting \/ dropTime.on \/ dropMode = 1 \/ flRate # 1

HeldUnlost ==
    \A i \in DOMAIN samples :
        Unlost(samples[i].id,
               IF i = Len(samples) THEN frames + 1 ELSE samples[i + 1].id, skipped)

LossIsGuarded ==
    fVideo /\ ~Guarded => delivered # <<>> /\ Unlost(LastId, NextId, skipped)

StoppedWaits == state # "Started" => waiting

DecodeInv == HeldUnlost /\ LossIsGuarded /\ StoppedWaits /\ Decodable

(* What matters for marks and losses changes in one of these ways only.    *)
guards == <<waiting, dropTime, dropMode, flRate>>

Drops(s) ==
    /\ TakeSample(s) /\ ShouldDropSample(s)
    /\ dropped' = dropped \cup {s} /\ discontinuity' = TRUE
    /\ UNCHANGED <<delivered>>

Delivers(s) ==
    /\ TakeSample(s) /\ ~ShouldDropSample(s)
    /\ \E token : Deliver(s, token)

FrameHeld ==
    /\ state = "Started" /\ frames' = frames + 1
    /\ \E s \in Sample : s.id = frames' /\ samples' = Append(samples, s)
    /\ UNCHANGED <<guards, state, delivered, dropped, skipped, discontinuity, flushes>>

FrameSkipped ==
    /\ frames' = frames + 1 /\ skipped' = skipped \cup {frames'}
    /\ UNCHANGED <<guards, state, samples, delivered, dropped, discontinuity, flushes>>

FrameLost ==
    /\ state # "Started" /\ frames' = frames + 1
    /\ UNCHANGED <<guards, state, samples, delivered, dropped, skipped,
                   discontinuity, flushes>>

Flushes ==
    /\ samples' = <<>> /\ waiting' = TRUE
    /\ discontinuity' = FALSE /\ flushes' = flushes + 1
    /\ UNCHANGED <<frames, delivered, dropped, skipped>>

Advises ==
    /\ Guarded => Guarded'
    /\ waiting => waiting'
    /\ UNCHANGED <<state, samples, frames, delivered, dropped, skipped, discontinuity,
                   flushes>>

Restarts ==
    /\ state' = "Started" \/ state' = state
    /\ UNCHANGED <<guards, samples, frames, delivered, dropped, skipped,
                   discontinuity, flushes>>

LEMMA MarkSteps ==
    ASSUME TypeOK, [Next]_vars
    PROVE  /\ fVideo' = fVideo
           /\ \/ \E s : Drops(s) \/ Delivers(s)
              \/ FrameHeld \/ FrameSkipped \/ FrameLost
              \/ Flushes \/ Advises \/ Restarts
<1> USE DEF vars, control, quality, queues, output, counts
<1>1. ASSUME NEW s \in {samples[i] : i \in DOMAIN samples}, DropSample(s)
      PROVE  Drops(s) /\ fVideo' = fVideo
  BY <1>1 DEF DropSample, Drops, TakeSample
<1>2. ASSUME NEW s \in {samples[i] : i \in DOMAIN samples}, DeliverSample(s)
      PROVE  Delivers(s) /\ fVideo' = fVideo
  BY <1>2 DEF DeliverSample, Delivers, TakeSample
<1>3. CASE DeliverSamplesEnds \/ RequestSample \/ UNCHANGED vars
  BY <1>3 DEF DeliverSamplesEnds, RequestSample, Restarts, guards
<1>4. ASSUME NEW key \in BOOLEAN, NEW ts \in Times, ProcessSample(key, ts)
      PROVE  (FrameHeld \/ FrameSkipped \/ FrameLost) /\ fVideo' = fVideo
  <2>1. /\ frames' = frames + 1
        /\ UNCHANGED <<guards, state, delivered, dropped, discontinuity, flushes, fVideo>>
    BY <1>4 DEF ProcessSample, guards
  <2> DEFINE s == [id |-> frames', key |-> key, ts |-> ts, flush |-> flushes]
  <2>2. s \in Sample /\ s.id = frames'
    BY <2>1, ParametersAssumption DEF TypeOK, CountsOK, Sample
  <2>3. \/ ~fActive /\ skipped' = skipped \cup {frames'} /\ samples' = samples
        \/ state = "Started" /\ samples' = Append(samples, s) /\ skipped' = skipped
        \/ state # "Started" /\ UNCHANGED <<samples, skipped>>
    BY <1>4 DEF ProcessSample
  <2> HIDE DEF s
  <2>4. QED  BY <2>1, <2>2, <2>3 DEF FrameHeld, FrameSkipped, FrameLost
<1>5. ASSUME NEW mode \in 0 .. 5, SetDropMode(mode)
      PROVE  Advises /\ fVideo' = fVideo
  <2>1. dropMode = 1 => dropMode' = 1 \/ waiting'
    BY <1>5 DEF SetDropMode, ChangeDropMode, Supports
  <2>2. UNCHANGED <<dropTime, flRate, state, samples, frames, delivered, dropped,
                    skipped, discontinuity, flushes, fVideo>> /\ (waiting => waiting')
    BY <1>5 DEF SetDropMode, ChangeDropMode
  <2>3. QED  BY <2>1, <2>2 DEF Advises, Guarded
<1>6. ASSUME NEW amount \in Amounts \cup {0}, DropTime(amount)
      PROVE  Advises /\ fVideo' = fVideo
  <2>1. waiting' \/ (dropTime'.on /\ waiting' = waiting)
    BY <1>6 DEF DropTime, ResetDropTime, TypeOK, QualityOK, DropWindow
  <2>2. UNCHANGED <<dropMode, flRate, state, samples, frames, delivered, dropped,
                    skipped, discontinuity, flushes, fVideo>>
    BY <1>6 DEF DropTime
  <2>3. QED  BY <2>1, <2>2 DEF Advises, Guarded
<1>7. ASSUME NEW selected \in BOOLEAN, DoStart(selected)
      PROVE  Restarts /\ fVideo' = fVideo
  BY <1>7 DEF DoStart, Command, Restarts, guards
<1>8. CASE DoStop
  BY <1>8 DEF DoStop, Command, Flush, ResetDropTime, Flushes, Restarts, guards
<1>9. ASSUME NEW rate \in {0, 1}, DoSetRate(rate)
      PROVE  (Flushes \/ Restarts) /\ fVideo' = fVideo
  BY <1>9 DEF DoSetRate, Command, Flush, ResetDropTime, Flushes, Restarts, guards
<1>10. CASE Shutdown
  BY <1>10 DEF Shutdown, Command, Flush, ResetDropTime, Flushes
<1>11. QED
  BY <1>1, <1>2, <1>3, <1>4, <1>5, <1>6, <1>7, <1>8, <1>9, <1>10 DEF Next

(* What is taken is the first, and comes before the rest.                  *)
LEMMA FirstIsTaken ==
    ASSUME TypeOK, OrderInv, NEW s, TakeSample(s)
    PROVE  /\ s \in Sample /\ s.id \in Nat /\ s.key \in BOOLEAN
           /\ s = samples[1] /\ samples # <<>>
           /\ DOMAIN samples = 1 .. Len(samples) /\ Len(samples) \in Nat \ {0}
           /\ DOMAIN samples' = 1 .. Len(samples) - 1
           /\ Len(samples') = Len(samples) - 1
           /\ \A i \in 1 .. Len(samples) - 1 : samples'[i] = samples[i + 1]
           /\ \A i \in 1 .. Len(samples) - 1 : s.id < samples'[i].id
           /\ s.id <= frames
           /\ \A j \in DOMAIN delivered : delivered[j].sample.id < s.id
           /\ UNCHANGED <<frames, skipped, flushes, state, flRate>>
<1>1. /\ samples \in Seq(Sample) /\ samples # <<>> /\ s = Head(samples)
      /\ samples' = Tail(samples)
      /\ UNCHANGED <<frames, skipped, flushes, state, flRate>>
  BY DEF TakeSample, TypeOK, QueuesOK, counts, control
<1>2. /\ Len(samples) \in Nat \ {0} /\ DOMAIN samples = 1 .. Len(samples)
      /\ DOMAIN samples' = 1 .. Len(samples) - 1
      /\ s = samples[1]
      /\ \A i \in 1 .. Len(samples) - 1 : samples'[i] = samples[i + 1]
  BY <1>1, IndicesOfTail
<1>3. Len(samples') = Len(samples) - 1
  BY <1>1, HeadTailProperties
<1>4. s \in Sample
  BY <1>1
<1>5. 1 \in DOMAIN samples
  BY <1>2
<1>6. /\ s.id <= frames
      /\ \A j \in DOMAIN delivered : delivered[j].sample.id < s.id
      /\ \A j \in DOMAIN samples : 1 < j => s.id < samples[j].id
  BY <1>2, <1>5 DEF OrderInv, SamplesAscend
<1>7. \A i \in 1 .. Len(samples) - 1 : s.id < samples'[i].id
  <2>1. TAKE i \in 1 .. Len(samples) - 1
  <2>2. i + 1 \in DOMAIN samples /\ 1 < i + 1
    BY <1>2
  <2>3. QED  BY <1>2, <1>6, <2>2
<1>8. QED  BY <1>1, <1>2, <1>3, <1>4, <1>6, <1>7 DEF Sample

(* What Deliver appends.                                                   *)
LEMMA LastDelivered ==
    ASSUME TypeOK, NEW s \in Sample, NEW token, Deliver(s, token),
           delivered' \in Seq(Delivery)
    PROVE  /\ DOMAIN delivered = 1 .. Len(delivered) /\ Len(delivered) \in Nat
           /\ DOMAIN delivered' = 1 .. Len(delivered) + 1
           /\ \A i \in 1 .. Len(delivered) : delivered'[i] = delivered[i]
           /\ delivered'[Len(delivered) + 1].sample = s
           /\ delivered'[Len(delivered) + 1].marked = discontinuity
           /\ delivered'[Len(delivered) + 1].flush = flushes
           /\ delivered' # <<>>
           /\ LastId' = s.id
<1> DEFINE d == [sample |-> s, token |-> token, marked |-> discontinuity,
                 flush |-> flushes]
<1>1. delivered' = Append(delivered, d) /\ delivered \in Seq(Delivery)
  BY DEF Deliver, TypeOK, OutputOK
<1>2. d.sample = s /\ d.marked = discontinuity /\ d.flush = flushes
  OBVIOUS
<1> HIDE DEF d
<1>3. /\ DOMAIN delivered = 1 .. Len(delivered) /\ Len(delivered) \in Nat
      /\ Len(delivered') = Len(delivered) + 1
      /\ DOMAIN delivered' = 1 .. Len(delivered) + 1
      /\ \A i \in 1 .. Len(delivered) : delivered'[i] = delivered[i]
      /\ delivered'[Len(delivered) + 1] = d
  BY <1>1
<1>4. delivered' # <<>>
  BY <1>3
<1>5. LastId' = s.id
  BY <1>2, <1>3, <1>4 DEF LastId
<1>6. QED  BY <1>2, <1>3, <1>4, <1>5

LEMMA LastIdIs ==
    ASSUME TypeOK, OrderInv
    PROVE  /\ LastId \in Nat /\ LastId <= frames
           /\ delivered = <<>> => LastId = 0
           /\ \A i \in DOMAIN delivered : delivered[i].sample.id <= LastId
<1>1. delivered \in Seq(Delivery) /\ frames \in Nat
  BY DEF TypeOK, OutputOK, CountsOK
<1>2. CASE delivered = <<>>
  BY <1>1, <1>2 DEF LastId
<1>3. CASE delivered # <<>>
  <2>1. /\ Len(delivered) \in Nat /\ DOMAIN delivered = 1 .. Len(delivered)
        /\ Len(delivered) \in DOMAIN delivered
    BY <1>1, <1>3
  <2>2. LastId = delivered[Len(delivered)].sample.id
    BY <1>3 DEF LastId
  <2>3. \A i \in DOMAIN delivered : delivered[i].sample.id \in Nat
    BY NumbersOfTypes
  <2>4. LastId <= frames
    BY <2>1, <2>2 DEF OrderInv, DeliveredKnown
  <2>5. \A i \in DOMAIN delivered : delivered[i].sample.id <= LastId
    <3>1. TAKE i \in DOMAIN delivered
    <3>2. CASE i < Len(delivered)
      <4>1. delivered[i].sample.id < delivered[Len(delivered)].sample.id
        BY <2>1, <3>2 DEF OrderInv, AnsweredInOrder
      <4>2. QED  BY <4>1, <2>1, <2>2, <2>3
    <3>3. CASE i = Len(delivered)
      BY <3>3, <2>1, <2>2, <2>3
    <3>4. QED  BY <3>2, <3>3, <2>1
  <2>6. QED  BY <1>3, <2>1, <2>2, <2>3, <2>4, <2>5
<1>4. QED  BY <1>2, <1>3

LEMMA LastBeforeTaken ==
    ASSUME TypeOK, OrderInv, NumberedFromOne, NEW s, TakeSample(s)
    PROVE  LastId < s.id
<1>1. CASE delivered = <<>>
  BY <1>1, FirstIsTaken, LastIdIs DEF NumberedFromOne
<1>2. CASE delivered # <<>>
  <2>1. delivered \in Seq(Delivery)
    BY DEF TypeOK, OutputOK
  <2>2. Len(delivered) \in DOMAIN delivered /\ LastId = delivered[Len(delivered)].sample.id
    BY <1>2, <2>1 DEF LastId
  <2>3. QED  BY <2>2, FirstIsTaken
<1>3. QED  BY <1>1, <1>2

(* What was delivered stays marked as it was.                              *)
LEMMA MarksStay ==
    ASSUME DiscontinuityMarked, UNCHANGED <<delivered, dropped>>
    PROVE  DiscontinuityMarked'
  BY DEF DiscontinuityMarked

LEMMA DueStays ==
    ASSUME MarkIsDue, UNCHANGED <<delivered, dropped, discontinuity, flushes>>
    PROVE  MarkIsDue'
  BY DEF MarkIsDue, LastId

LEMMA DroppedTyped ==
    ASSUME TypeOK
    PROVE  /\ \A d \in dropped : d.id \in Nat /\ d.flush \in Nat
           /\ frames \in Nat /\ flushes \in Nat
           /\ DOMAIN samples = 1 .. Len(samples) /\ Len(samples) \in Nat
           /\ \A i \in DOMAIN samples : samples[i].id \in Nat
           /\ DOMAIN delivered = 1 .. Len(delivered) /\ Len(delivered) \in Nat
<1>1. dropped \in SUBSET Sample
  BY DEF TypeOK, OutputOK
<1>2. \A d \in dropped : d.id \in Nat /\ d.flush \in Nat
  BY <1>1 DEF Sample
<1>3. frames \in Nat /\ flushes \in Nat
  BY DEF TypeOK, CountsOK
<1>4. samples \in Seq(Sample) /\ delivered \in Seq(Delivery)
      /\ \A i \in DOMAIN samples : samples[i].id \in Nat
  BY NumbersOfTypes
<1>5. /\ DOMAIN samples = 1 .. Len(samples) /\ Len(samples) \in Nat
      /\ DOMAIN delivered = 1 .. Len(delivered) /\ Len(delivered) \in Nat
  BY <1>4
<1>6. QED  BY <1>2, <1>3, <1>4, <1>5

LEMMA StepKeepsMarks ==
    ASSUME TypeOK, TypeOK', OrderInv, HeldAreCurrent, MarkInv, [Next]_vars
    PROVE  MarkInv'
<1>0. /\ \A d \in dropped : d.id \in Nat /\ d.flush \in Nat
      /\ frames \in Nat /\ flushes \in Nat
      /\ DOMAIN samples = 1 .. Len(samples) /\ Len(samples) \in Nat
      /\ \A i \in DOMAIN samples : samples[i].id \in Nat
      /\ DOMAIN delivered = 1 .. Len(delivered) /\ Len(delivered) \in Nat
  BY DroppedTyped
<1>m. NumberedFromOne /\ DroppedBefore /\ MarkIsDue /\ DiscontinuityMarked
  BY DEF MarkInv
<1>1. ASSUME NEW s, TakeSample(s)
      PROVE  /\ NumberedFromOne'
             /\ \A d \in dropped :
                   /\ d.id <= frames' /\ d.flush <= flushes'
                   /\ \A i \in DOMAIN samples' : d.id < samples'[i].id
             /\ \A d \in dropped : d.id < s.id
             /\ s.flush = flushes
  <2>1. /\ s = samples[1] /\ DOMAIN samples' = 1 .. Len(samples) - 1
        /\ 1 \in DOMAIN samples
        /\ \A i \in 1 .. Len(samples) - 1 :
              samples'[i] = samples[i + 1] /\ i + 1 \in DOMAIN samples
        /\ UNCHANGED <<frames, flushes>>
    <3>1. /\ s = samples[1] /\ DOMAIN samples' = 1 .. Len(samples) - 1
          /\ Len(samples) \in Nat \ {0}
          /\ \A i \in 1 .. Len(samples) - 1 : samples'[i] = samples[i + 1]
          /\ UNCHANGED <<frames, flushes>>
      BY <1>1, FirstIsTaken
    <3>2. QED  BY <1>0, <3>1
  <2>2. QED  BY <1>m, <2>1 DEF NumberedFromOne, DroppedBefore, HeldAreCurrent
<1>2. ASSUME NEW s, Drops(s)
      PROVE  MarkInv'
  <2>1. TakeSample(s) /\ dropped' = dropped \cup {s} /\ discontinuity' = TRUE
        /\ delivered' = delivered
    BY <1>2 DEF Drops
  <2>2. /\ s.id <= frames /\ s.id \in Nat /\ UNCHANGED <<frames, flushes>>
        /\ \A i \in DOMAIN samples' : s.id < samples'[i].id
        /\ \A j \in DOMAIN delivered : delivered[j].sample.id < s.id
    BY <2>1, FirstIsTaken
  <2>3. NumberedFromOne' /\ s.flush = flushes
    BY <1>1, <2>1
  <2>4. DroppedBefore'
    <3> SUFFICES ASSUME NEW d \in dropped'
                 PROVE  /\ d.id <= frames' /\ d.flush <= flushes'
                        /\ \A i \in DOMAIN samples' : d.id < samples'[i].id
      BY DEF DroppedBefore
    <3>1. CASE d \in dropped
      BY <1>1, <2>1, <3>1
    <3>2. CASE d = s
      BY <1>0, <2>2, <2>3, <3>2
    <3>3. QED  BY <2>1, <3>1, <3>2
  <2>5. MarkIsDue'
    <3>1. s \in dropped' /\ LastId < s.id /\ LastId' = LastId
      BY <1>m, <2>1, LastBeforeTaken DEF LastId
    <3>2. QED  BY <2>1, <2>2, <2>3, <3>1 DEF MarkIsDue
  <2>6. DiscontinuityMarked'
    <3>1. \A i \in DOMAIN delivered : ~(s.id < delivered[i].sample.id)
      <4>1. \A i \in DOMAIN delivered : delivered[i].sample.id \in Nat
        BY NumbersOfTypes
      <4>2. QED  BY <2>2, <4>1
    <3>2. QED  BY <1>m, <2>1, <3>1 DEF DiscontinuityMarked
  <2>7. QED  BY <2>3, <2>4, <2>5, <2>6 DEF MarkInv
<1>3. ASSUME NEW s, Delivers(s)
      PROVE  MarkInv'
  <2>1. PICK token : Deliver(s, token)
    BY <1>3 DEF Delivers
  <2>2. TakeSample(s) /\ dropped' = dropped /\ discontinuity' = FALSE
    BY <1>3, <2>1 DEF Delivers, Deliver
  <2>3. s \in Sample /\ delivered' \in Seq(Delivery) /\ s.id \in Nat /\ flushes' = flushes
    BY <2>2, FirstIsTaken DEF TypeOK, OutputOK
  <2> DEFINE n == Len(delivered)
  <2>4. /\ DOMAIN delivered' = 1 .. n + 1
        /\ \A i \in 1 .. n : delivered'[i] = delivered[i]
        /\ delivered'[n + 1].sample = s
        /\ delivered'[n + 1].marked = discontinuity
        /\ delivered'[n + 1].flush = flushes
        /\ LastId' = s.id
    BY <2>1, <2>3, LastDelivered
  <2>5. NumberedFromOne' /\ DroppedBefore' /\ \A d \in dropped : d.id < s.id
    BY <1>1, <2>2 DEF DroppedBefore
  <2>6. MarkIsDue'
    <3>1. \A d \in dropped' : ~(LastId' < d.id)
      BY <1>0, <2>2, <2>3, <2>4, <2>5
    <3>2. QED  BY <2>2, <3>1 DEF MarkIsDue
  <2>7. \A i : i = n + 1 =>
            LastId = IF i = 1 THEN 0 ELSE delivered'[i - 1].sample.id
    <3>1. CASE n = 0
      <4>1. delivered = <<>>
        BY <3>1 DEF TypeOK, OutputOK
      <4>2. QED  BY <3>1, <4>1 DEF LastId
    <3>2. CASE n # 0
      <4>1. delivered # <<>>
        BY <3>2
      <4>2. n \in 1 .. n /\ n + 1 - 1 = n /\ n + 1 # 1
        BY <1>0, <3>2
      <4>3. QED  BY <2>4, <4>1, <4>2 DEF LastId
    <3>3. QED  BY <3>1, <3>2
  <2> HIDE DEF n
  <2>8. DiscontinuityMarked'
    <3> SUFFICES ASSUME NEW i \in DOMAIN delivered'
                 PROVE  delivered'[i].marked <=>
                          \E d \in dropped' :
                             /\ (IF i = 1 THEN 0 ELSE delivered'[i - 1].sample.id) < d.id
                             /\ d.id < delivered'[i].sample.id
                             /\ d.flush = delivered'[i].flush
      BY DEF DiscontinuityMarked
    <3>1. CASE i \in 1 .. n
      <4>1. i \in DOMAIN delivered /\ delivered'[i] = delivered[i]
            /\ (i # 1 => delivered'[i - 1] = delivered[i - 1])
        BY <1>0, <2>4, <3>1 DEF n
      <4>2. QED  BY <1>m, <2>2, <4>1 DEF DiscontinuityMarked
    <3>2. CASE i = n + 1
      <4>1. discontinuity <=> \E d \in dropped : LastId < d.id /\ d.flush = flushes
        BY <1>m DEF MarkIsDue
      <4>2. (IF i = 1 THEN 0 ELSE delivered'[i - 1].sample.id) = LastId
        BY <2>7, <3>2
      <4>3. /\ delivered'[i].marked = discontinuity /\ delivered'[i].flush = flushes
            /\ delivered'[i].sample.id = s.id
        BY <2>4, <3>2
      <4>4. QED  BY <2>2, <2>5, <4>1, <4>2, <4>3
    <3>3. i \in 1 .. n \/ i = n + 1
      BY <1>0, <2>4 DEF n
    <3>4. QED  BY <3>1, <3>2, <3>3
  <2>9. QED  BY <2>5, <2>6, <2>8 DEF MarkInv
<1>4. CASE FrameHeld
  <2>1. /\ frames' = frames + 1
        /\ UNCHANGED <<delivered, dropped, discontinuity, flushes>>
    BY <1>4 DEF FrameHeld
  <2>2. PICK s \in Sample : s.id = frames' /\ samples' = Append(samples, s)
    BY <1>4 DEF FrameHeld
  <2>3. /\ DOMAIN samples' = 1 .. Len(samples) + 1
        /\ samples'[Len(samples) + 1] = s
        /\ \A i \in 1 .. Len(samples) : samples'[i] = samples[i]
    BY <2>2, NumbersOfTypes, IndicesOfAppend
  <2>4. \A i \in DOMAIN samples' : \/ samples'[i].id = frames + 1
                                   \/ i \in DOMAIN samples /\ samples'[i] = samples[i]
    BY <1>0, <2>1, <2>2, <2>3
  <2>5. NumberedFromOne'
    BY <1>0, <1>m, <2>4 DEF NumberedFromOne
  <2>6. DroppedBefore'
    BY <1>0, <1>m, <2>1, <2>4 DEF DroppedBefore
  <2>7. QED  BY <1>m, <2>1, <2>5, <2>6, MarksStay, DueStays DEF MarkInv
<1>5. CASE FrameSkipped \/ FrameLost
  <2>1. /\ frames' = frames + 1
        /\ UNCHANGED <<samples, delivered, dropped, discontinuity, flushes>>
    BY <1>5 DEF FrameSkipped, FrameLost
  <2>2. NumberedFromOne' /\ DroppedBefore'
    BY <1>0, <1>m, <2>1 DEF NumberedFromOne, DroppedBefore
  <2>3. QED  BY <1>m, <2>1, <2>2, MarksStay, DueStays DEF MarkInv
<1>6. CASE Flushes
  <2>1. /\ samples' = <<>> /\ discontinuity' = FALSE /\ flushes' = flushes + 1
        /\ UNCHANGED <<frames, delivered, dropped>>
    BY <1>6 DEF Flushes
  <2>2. NumberedFromOne' /\ DroppedBefore'
    BY <1>0, <1>m, <2>1 DEF NumberedFromOne, DroppedBefore
  <2>3. MarkIsDue'
    <3>1. \A d \in dropped' : d.flush # flushes'
      BY <1>0, <1>m, <2>1 DEF DroppedBefore
    <3>2. QED  BY <2>1, <3>1 DEF MarkIsDue
  <2>4. QED  BY <1>m, <2>1, <2>2, <2>3, MarksStay DEF MarkInv
<1>7. CASE Advises \/ Restarts
  <2>1. UNCHANGED <<samples, frames, delivered, dropped, discontinuity, flushes>>
    BY <1>7 DEF Advises, Restarts
  <2>2. NumberedFromOne' /\ DroppedBefore'
    BY <1>m, <2>1 DEF NumberedFromOne, DroppedBefore
  <2>3. QED  BY <1>m, <2>1, <2>2, MarksStay, DueStays DEF MarkInv
<1>8. QED  BY <1>2, <1>3, <1>4, <1>5, <1>6, <1>7, MarkSteps

LEMMA OrderHolds == Spec => []OrderInv
<1>1. Init => OrderInv
  BY DEF Init, OrderInv, SamplesAscend, TokensAscend, DeliveredKnown, AnsweredInOrder
<1>2. TypeOK /\ OrderInv /\ [Next]_vars => OrderInv'
  BY StepKeepsOrder
<1>3. QED  BY <1>1, <1>2, MediaStreamTypeOK, PTL DEF Spec

LEMMA CurrentHolds == Spec => []HeldAreCurrent
<1>1. Init => HeldAreCurrent /\ NothingStale
  BY DEF Init, HeldAreCurrent, NothingStale
<1>2. TypeOK /\ HeldAreCurrent /\ NothingStale /\ [Next]_vars
      => (HeldAreCurrent /\ NothingStale)'
  BY StepKeepsCurrent
<1>3. QED  BY <1>1, <1>2, MediaStreamTypeOK, PTL DEF Spec

(* A sample delivered is marked as a discontinuity exactly when            *)
(* DeliverSamples dropped one since the delivery before, unless a flush    *)
(* came in between.                                                        *)
THEOREM MediaStreamMarksLosses == Spec => []DiscontinuityMarked
<1>1. Init => MarkInv
  BY DEF Init, MarkInv, NumberedFromOne, DroppedBefore, MarkIsDue, DiscontinuityMarked
<1>2. TypeOK /\ TypeOK' /\ OrderInv /\ HeldAreCurrent /\ MarkInv /\ [Next]_vars
      => MarkInv'
  BY StepKeepsMarks
<1>3. MarkInv => DiscontinuityMarked
  BY DEF MarkInv
<1>4. QED  BY <1>1, <1>2, <1>3, MediaStreamTypeOK, OrderHolds, CurrentHolds, PTL DEF Spec
-----------------------------------------------------------------------------
(* What is dropped leaves the stream guarded, and a guarded stream hands   *)
(* on key frames only.                                                     *)
LEMMA DropIsGuarded ==
    ASSUME TypeOK, NEW s \in Sample, QualityAfter(s), UNCHANGED flRate,
           ShouldDropSample(s)
    PROVE  Guarded'
<1>1. fVideo /\ dropMode' = dropMode
  BY DEF ShouldDropSample, QualityAfter
<1>2. CASE DropForRate(s)
  BY <1>2 DEF DropForRate, Guarded
<1>3. CASE ~DropForRate(s) /\ InWindow(s)
  <2>1. dropTime' = [dropTime EXCEPT !.init = FALSE, !.start = WindowStart(s)]
        /\ dropTime \in DropWindow
    BY <1>1, <1>3 DEF QualityAfter, TypeOK, QualityOK
  <2>2. dropTime'.on = dropTime.on
    BY <2>1 DEF DropWindow
  <2>3. QED  BY <1>3, <2>2 DEF InWindow, Guarded
<1>4. CASE ~DropForRate(s) /\ ~InWindow(s)
  <2>1. OnlyKeyFrames(s) /\ ~s.key
    BY <1>4 DEF ShouldDropSample
  <2>2. waiting' = (~s.key /\ (waiting \/ WindowEnds(s)))
    BY <1>1, <1>4 DEF QualityAfter
  <2>3. QED  BY <1>1, <2>1, <2>2 DEF OnlyKeyFrames, Guarded
<1>5. QED  BY <1>2, <1>3, <1>4

LEMMA GuardedNeedsKey ==
    ASSUME NEW s, fVideo, Guarded, ~ShouldDropSample(s)
    PROVE  s.key
<1>1. CASE flRate # 1
  BY <1>1 DEF ShouldDropSample, DropForRate
<1>2. CASE dropTime.on
  BY <1>2 DEF ShouldDropSample, WindowEnds, OnlyKeyFrames
<1>3. CASE waiting \/ dropMode = 1
  BY <1>3 DEF ShouldDropSample, OnlyKeyFrames
<1>4. QED  BY <1>1, <1>2, <1>3 DEF Guarded

LEMMA UnlostStays ==
    ASSUME NEW p, NEW n, NEW ids, Unlost(p, n, ids), NEW more, ids \subseteq more
    PROVE  Unlost(p, n, more)
  BY DEF Unlost

LEMMA DecodableStays ==
    ASSUME Decodable, UNCHANGED <<fVideo, delivered>>, skipped \subseteq skipped'
    PROVE  Decodable'
<1> SUFFICES ASSUME fVideo, NEW i \in DOMAIN delivered
             PROVE  LET this == delivered[i].sample
                        last == IF i = 1 THEN 0 ELSE delivered[i - 1].sample.id
                    IN  \/ this.key
                        \/ i > 1 /\ this.id = last + 1
                        \/ \E id \in skipped' : last < id /\ id < this.id
  BY DEF Decodable
<1>1. QED  BY DEF Decodable

(* Taking the first sample leaves the rest as it was.                      *)
LEMMA TakeKeepsUnlost ==
    ASSUME TypeOK, OrderInv, HeldUnlost, NEW s, TakeSample(s)
    PROVE  HeldUnlost' /\ Unlost(s.id, NextId', skipped')
<1> DEFINE l == Len(samples)
<1>1. /\ s = samples[1] /\ l \in Nat \ {0} /\ DOMAIN samples = 1 .. l
      /\ DOMAIN samples' = 1 .. l - 1 /\ Len(samples') = l - 1
      /\ \A i \in 1 .. l - 1 : samples'[i] = samples[i + 1]
      /\ frames' = frames /\ skipped' = skipped
  BY FirstIsTaken, SMTT(60)
<1>2. \A i \in 1 .. l : Unlost(samples[i].id,
                               IF i = l THEN frames + 1 ELSE samples[i + 1].id, skipped)
  BY <1>1 DEF HeldUnlost
<1> HIDE DEF l
<1>3. HeldUnlost'
  <2> SUFFICES ASSUME NEW i \in DOMAIN samples'
               PROVE  Unlost(samples'[i].id,
                             IF i = Len(samples') THEN frames' + 1
                                                  ELSE samples'[i + 1].id, skipped')
    BY DEF HeldUnlost
  <2>1. i \in 1 .. l - 1 /\ i + 1 \in 1 .. l /\ samples'[i] = samples[i + 1]
    BY <1>1
  <2>2. Unlost(samples[i + 1].id,
               IF i + 1 = l THEN frames + 1 ELSE samples[i + 1 + 1].id, skipped)
    BY <1>2, <2>1
  <2>3. CASE i = l - 1
    <3>1. Unlost(samples[i + 1].id, frames + 1, skipped) /\ i = Len(samples')
      BY <1>1, <2>1, <2>2, <2>3
    <3>2. QED  BY <1>1, <2>1, <3>1
  <2>4. CASE i # l - 1
    <3>1. i + 1 \in 1 .. l - 1 /\ i + 1 # l /\ i # Len(samples')
      BY <1>1, <2>1, <2>4
    <3>2. samples'[i + 1] = samples[i + 1 + 1]
      BY <1>1, <3>1
    <3>3. Unlost(samples[i + 1].id, samples'[i + 1].id, skipped)
      BY <2>2, <3>1, <3>2
    <3>4. QED  BY <1>1, <2>1, <3>1, <3>3
  <2>5. QED  BY <2>3, <2>4
<1>4. Unlost(s.id, NextId', skipped')
  <2>1. 1 \in 1 .. l
        /\ Unlost(s.id, IF 1 = l THEN frames + 1 ELSE samples[2].id, skipped)
    BY <1>1, <1>2
  <2>2. CASE l = 1
    <3>1. samples' = <<>>
      BY <1>1, <2>2, FirstIsTaken DEF TypeOK, QueuesOK, TakeSample
    <3>2. NextId' = frames + 1
      BY <1>1, <3>1 DEF NextId
    <3>3. QED  BY <1>1, <2>1, <2>2, <3>2
  <2>3. CASE l # 1
    <3>1. 1 \in 1 .. l - 1 /\ samples' # <<>>
      BY <1>1, <2>3
    <3>2. NextId' = samples[2].id
      BY <1>1, <3>1 DEF NextId
    <3>3. QED  BY <1>1, <2>1, <2>3, <3>2
  <2>4. QED  BY <2>2, <2>3
<1>5. QED  BY <1>3, <1>4

LEMMA StepKeepsDecode ==
    ASSUME TypeOK, TypeOK', OrderInv, OnlyStartedHolds, DecodeInv, [Next]_vars
    PROVE  DecodeInv'
<1>0. /\ frames \in Nat
      /\ DOMAIN samples = 1 .. Len(samples) /\ Len(samples) \in Nat
      /\ \A i \in DOMAIN samples : samples[i].id \in Nat
      /\ DOMAIN delivered = 1 .. Len(delivered) /\ Len(delivered) \in Nat
  BY DroppedTyped
<1>d. HeldUnlost /\ LossIsGuarded /\ StoppedWaits /\ Decodable
  BY DEF DecodeInv
<1>v. fVideo' = fVideo /\ fVideo \in BOOLEAN
  BY MarkSteps DEF TypeOK, ControlOK
<1>1. ASSUME NEW s, TakeSample(s)
      PROVE  /\ HeldUnlost' /\ Unlost(s.id, NextId', skipped') /\ StoppedWaits'
             /\ s \in Sample /\ s.id \in Nat /\ QualityAfter(s)
             /\ NextId = s.id
             /\ UNCHANGED <<flRate, skipped, frames>>
  <2>1. /\ s \in Sample /\ s.id \in Nat /\ s = samples[1] /\ samples # <<>>
        /\ UNCHANGED <<frames, skipped, state, flRate>>
    BY <1>1, FirstIsTaken
  <2>2. state = "Started"
    BY <2>1 DEF OnlyStartedHolds
  <2>3. StoppedWaits' /\ NextId = s.id
    BY <2>1, <2>2 DEF StoppedWaits, NextId
  <2>4. HeldUnlost' /\ Unlost(s.id, NextId', skipped')
    BY <1>1, <1>d, TakeKeepsUnlost
  <2>5. QED  BY <1>1, <2>1, <2>3, <2>4 DEF TakeSample
<1>2. ASSUME NEW s, Drops(s)
      PROVE  DecodeInv'
  <2>1. TakeSample(s) /\ ShouldDropSample(s) /\ delivered' = delivered
    BY <1>2 DEF Drops
  <2>2. /\ HeldUnlost' /\ StoppedWaits' /\ s \in Sample /\ QualityAfter(s)
        /\ UNCHANGED <<flRate, skipped>>
    BY <1>1, <2>1
  <2>3. Guarded'
    BY <2>1, <2>2, DropIsGuarded
  <2>4. Decodable'
    BY <1>d, <1>v, <2>1, <2>2, DecodableStays
  <2>5. QED  BY <2>2, <2>3, <2>4 DEF DecodeInv, LossIsGuarded
<1>3. ASSUME NEW s, Delivers(s)
      PROVE  DecodeInv'
  <2>1. PICK token : Deliver(s, token)
    BY <1>3 DEF Delivers
  <2>2. TakeSample(s) /\ ~ShouldDropSample(s)
    BY <1>3 DEF Delivers
  <2>3. /\ HeldUnlost' /\ Unlost(s.id, NextId', skipped') /\ StoppedWaits'
        /\ s \in Sample /\ s.id \in Nat /\ NextId = s.id /\ skipped' = skipped
    BY <1>1, <2>2
  <2> DEFINE n == Len(delivered)
  <2>4. /\ DOMAIN delivered' = 1 .. n + 1
        /\ \A i \in 1 .. n : delivered'[i] = delivered[i]
        /\ delivered'[n + 1].sample = s
        /\ delivered' # <<>> /\ LastId' = s.id
    <3>1. delivered' \in Seq(Delivery)
      BY DEF TypeOK, OutputOK
    <3>2. QED  BY <2>1, <2>3, <3>1, LastDelivered
  <2>5. LossIsGuarded'
    BY <2>3, <2>4 DEF LossIsGuarded
  <2>6. fVideo /\ ~s.key => delivered # <<>> /\ Unlost(LastId, s.id, skipped)
    BY <1>d, <2>2, <2>3, GuardedNeedsKey DEF LossIsGuarded
  <2>7. delivered # <<>> => n # 0 /\ LastId = delivered[n].sample.id
    <3>1. delivered \in Seq(Delivery)
      BY DEF TypeOK, OutputOK
    <3>2. QED  BY <3>1 DEF LastId
  <2>8. LastId \in Nat /\ (delivered # <<>> => LastId < s.id)
    <3>1. delivered # <<>> => n \in DOMAIN delivered
      BY <1>0, <2>7
    <3>2. QED  BY <2>2, <2>7, <3>1, FirstIsTaken, LastIdIs
  <2> HIDE DEF n
  <2>9. Decodable'
    <3> SUFFICES ASSUME fVideo, NEW i \in DOMAIN delivered'
                 PROVE  LET this == delivered'[i].sample
                            last == IF i = 1 THEN 0 ELSE delivered'[i - 1].sample.id
                        IN  \/ this.key
                            \/ i > 1 /\ this.id = last + 1
                            \/ \E id \in skipped' : last < id /\ id < this.id
      BY <1>v DEF Decodable
    <3>1. CASE i \in 1 .. n
      <4>1. i \in DOMAIN delivered /\ delivered'[i] = delivered[i]
            /\ (i # 1 => delivered'[i - 1] = delivered[i - 1])
        BY <1>0, <2>4, <3>1 DEF n
      <4>2. QED  BY <1>d, <2>3, <4>1 DEF Decodable
    <3>2. CASE i = n + 1 /\ s.key
      BY <2>4, <3>2
    <3>3. CASE i = n + 1 /\ ~s.key
      <4>1. /\ delivered # <<>> /\ Unlost(LastId, s.id, skipped) /\ LastId < s.id
            /\ n # 0 /\ LastId = delivered[n].sample.id
        BY <2>6, <2>7, <2>8, <3>3
      <4>2. i > 1 /\ i # 1 /\ i - 1 \in 1 .. n /\ i - 1 = n
        BY <1>0, <3>3, <4>1 DEF n
      <4>3. delivered'[i - 1].sample.id = LastId /\ delivered'[i].sample = s
        BY <2>4, <3>3, <4>1, <4>2
      <4>4. s.id = LastId + 1 \/ LastId + 1 \in LastId + 1 .. s.id - 1
        BY <2>3, <2>8, <4>1
      <4>5. s.id = LastId + 1 \/ \E id \in skipped : LastId < id /\ id < s.id
        <5>1. CASE LastId + 1 \in LastId + 1 .. s.id - 1
          <6>1. LastId + 1 \in skipped /\ LastId < LastId + 1 /\ LastId + 1 < s.id
            BY <2>3, <2>8, <4>1, <5>1 DEF Unlost
          <6>2. QED  BY <6>1
        <5>2. QED  BY <4>4, <5>1
      <4>6. QED  BY <2>3, <4>2, <4>3, <4>5
    <3>4. i \in 1 .. n \/ i = n + 1
      BY <1>0, <2>4 DEF n
    <3>5. QED  BY <3>1, <3>2, <3>3, <3>4
  <2>10. QED  BY <2>3, <2>5, <2>9 DEF DecodeInv
<1>4. CASE FrameHeld
  <2>1. /\ state = "Started" /\ frames' = frames + 1
        /\ UNCHANGED <<guards, state, delivered, skipped>>
    BY <1>4 DEF FrameHeld
  <2>2. PICK s \in Sample : s.id = frames' /\ samples' = Append(samples, s)
    BY <1>4 DEF FrameHeld
  <2> DEFINE l == Len(samples)
  <2>3. /\ DOMAIN samples' = 1 .. l + 1 /\ samples'[l + 1] = s
        /\ \A i \in 1 .. l : samples'[i] = samples[i]
    BY <2>2, NumbersOfTypes, IndicesOfAppend
  <2>4. Len(samples') = l + 1 /\ samples' # <<>>
    BY <2>2, NumbersOfTypes, AppendProperties
  <2>5. \A i \in 1 .. l : Unlost(samples[i].id,
                               IF i = l THEN frames + 1 ELSE samples[i + 1].id, skipped)
    BY <1>0, <1>d DEF HeldUnlost
  <2>6. l \in Nat /\ (l = 0 <=> samples = <<>>)
    BY <1>0, NumbersOfTypes
  <2> HIDE DEF l
  <2>7. HeldUnlost'
    <3> SUFFICES ASSUME NEW i \in DOMAIN samples'
                 PROVE  Unlost(samples'[i].id,
                               IF i = Len(samples') THEN frames' + 1
                                                    ELSE samples'[i + 1].id, skipped')
      BY DEF HeldUnlost
    <3>1. CASE i = l + 1
      <4>1. samples'[i].id = frames + 1 /\ i = Len(samples') /\ frames' + 1 = frames + 1 + 1
        BY <2>1, <2>2, <2>3, <2>4, <3>1
      <4>2. \A k : k \notin (frames + 1) + 1 .. (frames + 1 + 1) - 1
        BY <1>0
      <4>3. Unlost(frames + 1, frames + 1 + 1, skipped')
        BY <4>2 DEF Unlost
      <4>4. QED  BY <4>1, <4>3
    <3>2. CASE i = l /\ i \in 1 .. l
      <4>1. /\ samples'[i] = samples[i] /\ samples'[i + 1].id = frames + 1
            /\ i # Len(samples')
        BY <2>1, <2>2, <2>3, <2>4, <2>6, <3>2
      <4>2. Unlost(samples[i].id, frames + 1, skipped)
        BY <2>5, <3>2
      <4>3. QED  BY <2>1, <4>1, <4>2
    <3>3. CASE i \in 1 .. l /\ i # l
      <4>1. i + 1 \in 1 .. l /\ i # Len(samples')
        BY <2>4, <2>6, <3>3
      <4>2. samples'[i] = samples[i] /\ samples'[i + 1] = samples[i + 1]
        BY <2>3, <3>3, <4>1
      <4>3. Unlost(samples[i].id, samples[i + 1].id, skipped)
        BY <2>5, <3>3
      <4>4. QED  BY <2>1, <4>1, <4>2, <4>3
    <3>4. i = l + 1 \/ i \in 1 .. l
      BY <2>3, <2>6
    <3>5. QED  BY <3>1, <3>2, <3>3, <3>4
  <2>8. NextId' = NextId
    <3>1. 1 \in 1 .. l \/ l = 0
      BY <2>6
    <3>2. QED  BY <2>1, <2>2, <2>3, <2>4, <2>6, <3>1 DEF NextId
  <2>9. LossIsGuarded'
    BY <1>d, <1>v, <2>1, <2>8 DEF LossIsGuarded, Guarded, guards, LastId
  <2>10. StoppedWaits' /\ Decodable'
    BY <1>d, <1>v, <2>1, DecodableStays DEF StoppedWaits, guards
  <2>11. QED  BY <2>7, <2>9, <2>10 DEF DecodeInv
<1>5. CASE FrameSkipped
  <2>1. /\ frames' = frames + 1 /\ skipped' = skipped \cup {frames + 1}
        /\ UNCHANGED <<guards, state, samples, delivered>>
    BY <1>5 DEF FrameSkipped
  <2>2. \A p \in Nat : Unlost(p, frames + 1, skipped) => Unlost(p, frames' + 1, skipped')
    <3> SUFFICES ASSUME NEW p \in Nat, Unlost(p, frames + 1, skipped),
                        NEW k \in p + 1 .. (frames + 1 + 1) - 1
                 PROVE  k \in skipped'
      BY <2>1 DEF Unlost
    <3>1. k = frames + 1 \/ k \in p + 1 .. (frames + 1) - 1
      BY <1>0
    <3>2. QED  BY <2>1, <3>1 DEF Unlost
  <2>3. \A p, n : Unlost(p, n, skipped) => Unlost(p, n, skipped')
    BY <2>1 DEF Unlost
  <2>4. HeldUnlost'
    <3> SUFFICES ASSUME NEW i \in DOMAIN samples
                 PROVE  Unlost(samples[i].id,
                               IF i = Len(samples) THEN frames' + 1
                                                   ELSE samples[i + 1].id, skipped')
      BY <2>1 DEF HeldUnlost
    <3>1. samples[i].id \in Nat
          /\ Unlost(samples[i].id,
                    IF i = Len(samples) THEN frames + 1 ELSE samples[i + 1].id, skipped)
      BY <1>0, <1>d DEF HeldUnlost
    <3>2. CASE i = Len(samples)
      BY <2>2, <3>1, <3>2
    <3>3. CASE i # Len(samples)
      BY <2>3, <3>1, <3>3
    <3>4. QED  BY <3>2, <3>3
  <2>5. LossIsGuarded'
    <3> SUFFICES ASSUME fVideo, ~Guarded
                 PROVE  delivered # <<>> /\ Unlost(LastId, NextId', skipped')
      BY <1>v, <2>1 DEF LossIsGuarded, Guarded, guards, LastId
    <3>1. delivered # <<>> /\ Unlost(LastId, NextId, skipped) /\ LastId \in Nat
      BY <1>d, LastIdIs DEF LossIsGuarded
    <3>2. CASE samples = <<>>
      <4>1. NextId = frames + 1 /\ NextId' = frames' + 1
        BY <2>1, <3>2 DEF NextId
      <4>2. QED  BY <2>2, <3>1, <4>1
    <3>3. CASE samples # <<>>
      <4>1. NextId' = NextId
        BY <2>1, <3>3 DEF NextId
      <4>2. QED  BY <2>3, <3>1, <4>1
    <3>4. QED  BY <3>2, <3>3
  <2>6. StoppedWaits' /\ Decodable'
    BY <1>d, <1>v, <2>1, DecodableStays DEF StoppedWaits, guards
  <2>7. QED  BY <2>4, <2>5, <2>6 DEF DecodeInv
<1>6. CASE FrameLost
  <2>1. /\ state # "Started"
        /\ UNCHANGED <<guards, state, samples, delivered, skipped>>
    BY <1>6 DEF FrameLost
  <2>2. samples = <<>> /\ waiting
    BY <1>d, <2>1 DEF OnlyStartedHolds, StoppedWaits
  <2>3. HeldUnlost' /\ LossIsGuarded' /\ StoppedWaits'
    BY <2>1, <2>2 DEF HeldUnlost, LossIsGuarded, Guarded, StoppedWaits, guards
  <2>4. Decodable'
    BY <1>d, <1>v, <2>1, DecodableStays
  <2>5. QED  BY <2>3, <2>4 DEF DecodeInv
<1>7. CASE Flushes
  <2>1. samples' = <<>> /\ waiting' /\ UNCHANGED <<delivered, skipped>>
    BY <1>7 DEF Flushes
  <2>2. HeldUnlost' /\ LossIsGuarded' /\ StoppedWaits'
    BY <2>1 DEF HeldUnlost, LossIsGuarded, Guarded, StoppedWaits
  <2>3. Decodable'
    BY <1>d, <1>v, <2>1, DecodableStays
  <2>4. QED  BY <2>2, <2>3 DEF DecodeInv
<1>8. CASE Advises \/ Restarts
  <2>1. /\ UNCHANGED <<samples, frames, delivered, skipped>>
        /\ Guarded => Guarded'
        /\ waiting => waiting'
        /\ state' = "Started" \/ state' = state
    BY <1>8 DEF Advises, Restarts, Guarded, guards
  <2>2. HeldUnlost'
    BY <1>d, <2>1 DEF HeldUnlost
  <2>3. LossIsGuarded'
    BY <1>d, <1>v, <2>1 DEF LossIsGuarded, LastId, NextId
  <2>4. StoppedWaits'
    BY <1>d, <2>1 DEF StoppedWaits
  <2>5. Decodable'
    BY <1>d, <1>v, <2>1, DecodableStays
  <2>6. QED  BY <2>2, <2>3, <2>4, <2>5 DEF DecodeInv
<1>9. QED  BY <1>2, <1>3, <1>4, <1>5, <1>6, <1>7, <1>8, MarkSteps

LEMMA StartedHoldsAlways == Spec => []OnlyStartedHolds
<1>1. OnlyNeededWaits => OnlyStartedHolds
  BY DEF OnlyNeededWaits
<1>2. QED  BY <1>1, MediaStreamQueues, PTL

(* The decoder can use every video frame that DeliverSamples hands on: a   *)
(* key frame or the one after the last, but for frames that came while the *)
(* stream was not selected.                                                *)
THEOREM MediaStreamDecodable == Spec => []Decodable
<1>1. Init => DecodeInv
  BY DEF Init, DecodeInv, HeldUnlost, LossIsGuarded, Guarded, StoppedWaits, Decodable
<1>2. TypeOK /\ TypeOK' /\ OrderInv /\ OnlyStartedHolds /\ DecodeInv /\ [Next]_vars
      => DecodeInv'
  BY StepKeepsDecode
<1>3. DecodeInv => Decodable
  BY DEF DecodeInv
<1>4. QED
  BY <1>1, <1>2, <1>3, MediaStreamTypeOK, OrderHolds, StartedHoldsAlways, PTL DEF Spec
=============================================================================
