-------------------------- MODULE StreamSink_proofs --------------------------
(***************************************************************************)
(* Proofs about one stream of the media sink.                              *)
(***************************************************************************)
EXTENDS StreamSink, TLAPS, FiniteSetTheorems, SequenceTheorems, WellFoundedInduction

-----------------------------------------------------------------------------
(* Numbers and runs of what was handed in.                                 *)
QueueNumbered ==
    \A i \in DOMAIN sampleQueue :
        /\ 1 <= sampleQueue[i].id /\ sampleQueue[i].id <= accepted
        /\ sampleQueue[i].run <= starts

LogNumbered ==
    \A i \in DOMAIN log :
        log[i].id <= accepted /\ log[i].run <= starts /\ log[i].during <= starts

KeptNumbered ==
    firstVideoSample # NoSample =>
        /\ firstVideoSample.kind = "sample"
        /\ 1 <= firstVideoSample.id /\ firstVideoSample.id <= accepted
        /\ firstVideoSample.run <= starts

(* The queue is in the order of acceptance, and so is the log, apart from  *)
(* the kept sample; what is still queued comes after what was taken.       *)
QueueInOrder ==
    \A i, j \in DOMAIN sampleQueue :
        i < j => sampleQueue[i].id < sampleQueue[j].id

LogInOrder ==
    \A i, j \in DOMAIN log :
        i < j /\ log[i].fate # "first" /\ log[j].fate # "first"
            => log[i].id < log[j].id

LogBeforeQueue ==
    \A i \in DOMAIN log, j \in DOMAIN sampleQueue :
        log[i].fate # "first" => log[i].id < sampleQueue[j].id

(* The kept sample comes before every sample of its own run.               *)
KeptInOrder ==
    firstVideoSample # NoSample =>
        \A j \in DOMAIN sampleQueue :
            sampleQueue[j].kind = "sample" =>
                \/ firstVideoSample.id < sampleQueue[j].id
                \/ sampleQueue[j].run < firstVideoSample.run

FirstInOrder ==
    \A i \in DOMAIN log, j \in DOMAIN sampleQueue :
        log[i].fate = "first" /\ sampleQueue[j].kind = "sample" =>
            \/ log[i].id < sampleQueue[j].id
            \/ sampleQueue[j].run < log[i].run

FirstThenLater ==
    \A i, j \in DOMAIN log :
        i < j /\ log[i].fate = "first" /\ SampleOnWire(log[j]) =>
            \/ log[i].id < log[j].id
            \/ log[j].run < log[i].run

(* Nothing is on the wire before the client connects, and the kept sample  *)
(* is the first to be: it is given up when the client connects.            *)
NothingBeforeConnect ==
    /\ ~connected => \A i \in DOMAIN log : ~OnWire(log[i])
    /\ connected => firstVideoSample = NoSample
    /\ \A i, j \in DOMAIN log : i < j /\ log[j].fate = "first" => ~OnWire(log[i])

(* A stream that still waits for the first sample of its run has queued    *)
(* samples of earlier runs only.                                           *)
NoneOfThisRunYet ==
    waitingForFirst /\ ~connected =>
        \A j \in DOMAIN sampleQueue :
            sampleQueue[j].kind = "sample" => sampleQueue[j].run < starts

FirstIsKept ==
    ~connected /\ isVideo /\ state = "Started" =>
        IF waitingForFirst
        THEN firstOfRun = 0
        ELSE firstVideoSample # NoSample /\ firstVideoSample.id = firstOfRun

OrderInv ==
    /\ QueueNumbered /\ LogNumbered /\ KeptNumbered
    /\ QueueInOrder /\ LogInOrder /\ LogBeforeQueue
    /\ KeptInOrder /\ FirstInOrder /\ FirstThenLater
    /\ NothingBeforeConnect /\ NoneOfThisRunYet

ShutdownDrained == isShutdown => sampleQueue = <<>>
-----------------------------------------------------------------------------
(* Each queued entry still has the work item that was queued with it.      *)
OpFor == [sample |-> "OpProcessSample", marker |-> "OpPlaceMarker",
          type |-> "OpSetMediaType"]

ItemForEach(f) ==
    /\ \A i, j \in DOMAIN sampleQueue : i < j => f[i] < f[j]
    /\ \A i \in DOMAIN sampleQueue : workItems[f[i]] = OpFor[sampleQueue[i].kind]

ItemsInOrder == \E f \in [DOMAIN sampleQueue -> DOMAIN workItems] : ItemForEach(f)

(* The last Start or Stop pending is the one that set the state.           *)
LastCallPending ==
    state \in {"Started", "Stopped"} =>
        \A i \in DOMAIN workItems :
            workItems[i] \in {"OpStart", "OpStop"}
            /\ (\A j \in DOMAIN workItems :
                    j > i => workItems[j] \notin {"OpStart", "OpStop"})
                => workItems[i] = IF state = "Started" THEN "OpStart" ELSE "OpStop"

-----------------------------------------------------------------------------
(* The times of the current run count from the start time, except that of  *)
(* a first sample that is older.                                           *)
TimesFromStart ==
    \A i \in DOMAIN log :
        SampleOnWire(log[i]) /\ log[i].during = starts =>
            /\ ~startFromSample
            /\ \/ log[i].ts + startTime = log[i].time
               \/ log[i].fate = "first" /\ log[i].ts = 0 /\ log[i].time <= startTime

(* Each pending item and each send of a sample stands for one request at   *)
(* most, and was made possible by a Start, a marker, a type or a request.  *)
AskedFor == {p \in sending : p.asks}

Pending(items, ops) == {i \in DOMAIN items : items[i] \in ops}

Chances == Pending(workItems, Operations \ {"OpStop"})

RequestsCounted ==
    ~isShutdown =>
        requests + Cardinality(Chances) + Cardinality(AskedFor)
            <= starts + Cardinality(Extra)

IInv ==
    /\ OrderInv /\ FirstIsKept /\ ShutdownDrained
    /\ ItemsInOrder /\ LastCallPending /\ TimesFromStart
    /\ RequestsCounted
-----------------------------------------------------------------------------
(* A non-empty set of numbers has a least element.                         *)
LEMMA LeastExists ==
    ASSUME NEW T, T \subseteq Nat, T # {}
    PROVE  \E i \in T : \A j \in T : i <= j
<1>1. PICK i \in T : \A j \in T : ~ (<<j, i>> \in OpToRel(<, Nat))
  BY NatLessThanWellFounded, WFMin
<1>2. \A j \in T : ~ (j < i)
  BY <1>1 DEF OpToRel
<1> QED BY <1>2

(* Where SendSampleFromQueue stops: at the first sample that is on time,   *)
(* or at the end of the queue.                                             *)
LEMMA LastTakenInQueue ==
    ASSUME QueuesOK
    PROVE  /\ LastTaken \in 0 .. Len(sampleQueue)
           /\ sampleQueue # <<>> => LastTaken >= 1
           /\ ~QueueRanEmpty =>
                 /\ LastTaken \in OnTime
                 /\ \A j \in OnTime : LastTaken <= j
           /\ QueueRanEmpty => LastTaken = Len(sampleQueue)
<1>1. /\ Len(sampleQueue) \in Nat
      /\ DOMAIN sampleQueue = 1 .. Len(sampleQueue)
      /\ sampleQueue # <<>> => Len(sampleQueue) >= 1
  BY LenProperties, EmptySeq DEF QueuesOK
<1>2. CASE QueueRanEmpty
  BY <1>1, <1>2 DEF LastTaken
<1>3. CASE ~QueueRanEmpty
  <2>1. OnTime \subseteq DOMAIN sampleQueue
    BY DEF OnTime
  <2>2. OnTime \subseteq Nat /\ OnTime # {}
    BY <2>1, <1>1, <1>3 DEF QueueRanEmpty
  <2>3. \E i \in OnTime : \A j \in OnTime : i <= j
    BY <2>2, LeastExists
  <2>4. LastTaken \in OnTime /\ \A j \in OnTime : LastTaken <= j
    BY <2>3, <1>3 DEF LastTaken
  <2> QED BY <2>4, <2>1, <1>1, <1>3
<1> QED BY <1>2, <1>3

(* What an entry becomes is an outcome.                                    *)
LEMMA BecameIsOutcome ==
    ASSUME ObjectOK, CountersOK, NEW e \in Entry, NEW fate \in Fates,
           fate = "sent" /\ e.kind = "sample" => ~IsLate(e)
    PROVE  Became(e, fate) \in Outcome
<1>1. startTime \in Nat /\ starts \in Nat
  BY DEF ObjectOK, CountersOK
<1>2. e.id \in Nat /\ e.kind \in Kinds /\ e.run \in Nat /\ e.time \in Nat
  BY DEF Entry
<1>3. e.kind = "sample" /\ fate = "sent" => Timestamp(e) \in Nat
  BY <1>1, <1>2 DEF Timestamp, IsLate
<1> QED BY <1>1, <1>2, <1>3 DEF Became, Outcome

-----------------------------------------------------------------------------
(* n entries have left the front of the queue, each into the log.          *)
TakenAs(e, o) ==
    /\ o \in Outcome
    /\ o.id = e.id /\ o.kind = e.kind /\ o.run = e.run /\ o.time = e.time
    /\ o.during = starts
    /\ o.fate # "first"
    /\ o.fate = "sent" => connected

Took(n) ==
    /\ n \in 0 .. Len(sampleQueue)
    /\ sampleQueue' \in Seq(Entry)
    /\ Len(sampleQueue') = Len(sampleQueue) - n
    /\ \A i \in 1 .. Len(sampleQueue') : sampleQueue'[i] = sampleQueue[i + n]
    /\ log' \in Seq(Outcome)
    /\ Len(log') = Len(log) + n
    /\ \A i \in 1 .. Len(log) : log'[i] = log[i]
    /\ \A i \in 1 .. n : TakenAs(sampleQueue[i], log'[Len(log) + i])

(* At most the last of them is a sample that was sent, and it was on time. *)
SentOnTime(n) ==
    \/ /\ UNCHANGED timing
       /\ \A i \in 1 .. n : ~SampleOnWire(log'[Len(log) + i])
    \/ /\ n >= 1
       /\ sampleQueue[n].kind = "sample"
       /\ sampleQueue[n].time >= startTime
       /\ StartTimeAfter(sampleQueue[n])
       /\ log'[Len(log) + n].ts = Timestamp(sampleQueue[n])
       /\ \A i \in 1 .. n : SampleOnWire(log'[Len(log) + i]) => i = n

LEMMA BecameFields ==
    ASSUME NEW e, NEW fate
    PROVE  /\ Became(e, fate).id = e.id
           /\ Became(e, fate).kind = e.kind
           /\ Became(e, fate).run = e.run
           /\ Became(e, fate).time = e.time
           /\ Became(e, fate).fate = fate
           /\ Became(e, fate).during = starts
           /\ e.kind = "sample" /\ fate = "sent"
                 => Became(e, fate).ts = Timestamp(e)
<1> QED BY DEF Became

LEMMA DropTakes ==
    ASSUME TypeOK, DropSamplesFromQueue
    PROVE  /\ Took(Len(sampleQueue))
           /\ SentOnTime(Len(sampleQueue))
           /\ sending' = sending
           /\ sampleQueue' = <<>>
           /\ UNCHANGED timing
<1> DEFINE n == Len(sampleQueue)
           fate(e) == IF e.kind = "marker" THEN "reported" ELSE "dropped"
           new == [i \in 1 .. n |-> Became(sampleQueue[i], fate(sampleQueue[i]))]
<1>1. /\ n \in Nat /\ DOMAIN sampleQueue = 1 .. n
      /\ \A i \in 1 .. n : sampleQueue[i] \in Entry
  BY LenProperties, ElementOfSeq DEF TypeOK, QueuesOK
<1>2. log \in Seq(Outcome) /\ Len(log) \in Nat
  BY LenProperties DEF TypeOK, QueuesOK
<1>3. \A i \in 1 .. n : Became(sampleQueue[i], fate(sampleQueue[i])) \in Outcome
  BY <1>1, BecameIsOutcome DEF TypeOK, Fates
<1>4. new \in Seq(Outcome) /\ Len(new) = n
  BY <1>3, <1>1
<1>5. log' = log \o new
  BY <1>1 DEF DropSamplesFromQueue
<1>6. /\ log' \in Seq(Outcome)
      /\ Len(log') = Len(log) + n
      /\ \A i \in 1 .. Len(log) : log'[i] = log[i]
      /\ \A i \in 1 .. n : log'[Len(log) + i] = new[i]
  <2> HIDE DEF new, n
  <2>1. /\ log' \in Seq(Outcome)
        /\ Len(log') = Len(log) + n
        /\ \A i \in 1 .. Len(log) + n :
              log'[i] = IF i <= Len(log) THEN log[i] ELSE new[i - Len(log)]
    BY <1>4, <1>5, <1>2, ConcatProperties
  <2>2. n \in Nat
    BY <1>1
  <2>3. \A i \in 1 .. Len(log) : i \in 1 .. Len(log) + n /\ i <= Len(log)
    BY <1>2, <2>2
  <2>4. \A i \in 1 .. n : /\ Len(log) + i \in 1 .. Len(log) + n
                         /\ ~(Len(log) + i <= Len(log))
                         /\ (Len(log) + i) - Len(log) = i
    BY <1>2, <2>2
  <2> QED BY <2>1, <2>3, <2>4
<1>7. \A i \in 1 .. n :
         log'[Len(log) + i] = Became(sampleQueue[i], fate(sampleQueue[i]))
  BY <1>6
<1>8. \A i \in 1 .. n : fate(sampleQueue[i]) \in {"reported", "dropped"}
  OBVIOUS
<1>9. \A i \in 1 .. n : /\ TakenAs(sampleQueue[i], log'[Len(log) + i])
                        /\ ~SampleOnWire(log'[Len(log) + i])
  <2> HIDE DEF new, n, fate
  <2>1. TAKE i \in 1 .. n
  <2>2. log'[Len(log) + i].fate \in {"reported", "dropped"}
    BY <1>7, <1>8, BecameFields
  <2>3. TakenAs(sampleQueue[i], log'[Len(log) + i])
    BY <1>3, <1>7, <2>2, BecameFields DEF TakenAs
  <2> QED BY <2>2, <2>3 DEF SampleOnWire, OnWire
<1>10. sampleQueue' = <<>> /\ sampleQueue' \in Seq(Entry) /\ Len(sampleQueue') = 0
  BY EmptySeq DEF DropSamplesFromQueue
<1>11. sending' = sending /\ UNCHANGED timing
  BY DEF DropSamplesFromQueue
<1>12. Took(n)
  BY <1>1, <1>6, <1>9, <1>10 DEF Took
<1>13. SentOnTime(n)
  BY <1>9, <1>11 DEF SentOnTime
<1> QED BY <1>10, <1>11, <1>12, <1>13

(* The sends that SendSampleFromQueue adds.                                *)
Added == {[id |-> sampleQueue[i].id, asks |-> i \in OnTime] : i \in Sends}

LEMMA SendTakes ==
    ASSUME TypeOK, connected, SendSampleFromQueue
    PROVE  /\ Took(LastTaken)
           /\ SentOnTime(LastTaken)
           /\ sending' = sending \cup Added
           /\ Added \subseteq [id : Nat, asks : BOOLEAN]
<1> DEFINE n == LastTaken
           new == [i \in 1 .. n |-> Became(sampleQueue[i], SendFate(i))]
<1>1. /\ Len(sampleQueue) \in Nat /\ DOMAIN sampleQueue = 1 .. Len(sampleQueue)
      /\ \A i \in 1 .. Len(sampleQueue) : sampleQueue[i] \in Entry
  BY LenProperties, ElementOfSeq DEF TypeOK, QueuesOK
<1>2. log \in Seq(Outcome) /\ Len(log) \in Nat
  BY LenProperties DEF TypeOK, QueuesOK
<1>0. n \in 0 .. Len(sampleQueue)
  BY LastTakenInQueue DEF TypeOK
<1>3. /\ ~QueueRanEmpty => n \in OnTime /\ \A j \in OnTime : n <= j
      /\ QueueRanEmpty => n = Len(sampleQueue)
  BY LastTakenInQueue DEF TypeOK
<1>4. n \in Nat /\ \A i \in 1 .. n : i \in 1 .. Len(sampleQueue) /\ sampleQueue[i] \in Entry
  <2> HIDE DEF n
  <2>1. n \in Nat /\ n <= Len(sampleQueue)
    BY <1>1, <1>0
  <2>2. \A i \in 1 .. n : i \in 1 .. Len(sampleQueue)
    BY <2>1, <1>1
  <2> QED BY <2>1, <2>2, <1>1
<1>5. \A i \in 1 .. n : /\ SendFate(i) \in Fates \ {"first"}
                        /\ SendFate(i) = "sent" /\ sampleQueue[i].kind = "sample"
                              => i \in OnTime
  BY <1>4, <1>1 DEF SendFate, OnTime, Fates
<1>6. \A i \in OnTime : sampleQueue[i].kind = "sample" /\ ~IsLate(sampleQueue[i])
  BY DEF OnTime
<1>7. \A i \in 1 .. n : Became(sampleQueue[i], SendFate(i)) \in Outcome
  BY <1>4, <1>5, <1>6, BecameIsOutcome DEF TypeOK
<1>8. new \in Seq(Outcome) /\ Len(new) = n
  BY <1>7, <1>4
<1>9. log' = log \o new
  BY DEF SendSampleFromQueue
<1>10. /\ log' \in Seq(Outcome)
       /\ Len(log') = Len(log) + n
       /\ \A i \in 1 .. Len(log) : log'[i] = log[i]
       /\ \A i \in 1 .. n : log'[Len(log) + i] = new[i]
  <2> HIDE DEF new, n
  <2>1. /\ log' \in Seq(Outcome)
        /\ Len(log') = Len(log) + n
        /\ \A i \in 1 .. Len(log) + n :
              log'[i] = IF i <= Len(log) THEN log[i] ELSE new[i - Len(log)]
    BY <1>8, <1>9, <1>2, ConcatProperties
  <2>2. n \in Nat
    BY <1>4
  <2>3. \A i \in 1 .. Len(log) : i \in 1 .. Len(log) + n /\ i <= Len(log)
    BY <1>2, <2>2
  <2>4. \A i \in 1 .. n : /\ Len(log) + i \in 1 .. Len(log) + n
                         /\ ~(Len(log) + i <= Len(log))
                         /\ (Len(log) + i) - Len(log) = i
    BY <1>2, <2>2
  <2> QED BY <2>1, <2>3, <2>4
<1>12. \A i \in 1 .. n : log'[Len(log) + i] = Became(sampleQueue[i], SendFate(i))
  BY <1>10
<1>13. \A i \in 1 .. n : TakenAs(sampleQueue[i], log'[Len(log) + i])
  <2> HIDE DEF new, n
  <2>1. TAKE i \in 1 .. n
  <2>2. log'[Len(log) + i].fate # "first"
    BY <1>5, <1>12, BecameFields
  <2> QED BY <1>7, <1>12, <2>2, BecameFields DEF TakenAs
<1>14. \A i \in 1 .. n : SampleOnWire(log'[Len(log) + i]) => i \in OnTime
  <2> HIDE DEF new, n
  <2>1. TAKE i \in 1 .. n
  <2>2. /\ log'[Len(log) + i].fate = SendFate(i)
        /\ log'[Len(log) + i].kind = sampleQueue[i].kind
    BY <1>12, BecameFields
  <2> QED BY <1>5, <2>2 DEF SampleOnWire, OnWire
<1>15. /\ sampleQueue' \in Seq(Entry)
       /\ Len(sampleQueue') = Len(sampleQueue) - n
       /\ \A i \in 1 .. Len(sampleQueue') : sampleQueue'[i] = sampleQueue[i + n]
  <2> HIDE DEF n
  <2>1. sampleQueue' = SubSeq(sampleQueue, n + 1, Len(sampleQueue))
    BY DEF SendSampleFromQueue, n
  <2>2. n + 1 \in Int /\ \A i \in n + 1 .. Len(sampleQueue) : sampleQueue[i] \in Entry
    BY <1>1, <1>4
  <2>3. /\ sampleQueue' \in Seq(Entry)
        /\ Len(sampleQueue') = IF n + 1 <= Len(sampleQueue)
                               THEN Len(sampleQueue) - (n + 1) + 1 ELSE 0
        /\ \A i \in 1 .. Len(sampleQueue) - (n + 1) + 1 :
               sampleQueue'[i] = sampleQueue[(n + 1) + i - 1]
    BY <2>1, <2>2, <1>1, SubSeqProperties
  <2>4. Len(sampleQueue') = Len(sampleQueue) - n
    <3>1. n \in Nat /\ n <= Len(sampleQueue) /\ Len(sampleQueue) \in Nat
      BY <1>1, <1>0
    <3>2. CASE n + 1 <= Len(sampleQueue)
      <4>1. Len(sampleQueue') = Len(sampleQueue) - (n + 1) + 1
        BY <3>2, <2>3
      <4> QED BY <4>1, <3>1
    <3>3. CASE ~(n + 1 <= Len(sampleQueue))
      <4>1. Len(sampleQueue') = 0 /\ n = Len(sampleQueue)
        BY <3>3, <3>1, <2>3
      <4> QED BY <4>1, <3>1
    <3> QED BY <3>2, <3>3
  <2>5. \A i \in 1 .. Len(sampleQueue') : sampleQueue'[i] = sampleQueue[(n + 1) + i - 1]
                                          /\ (n + 1) + i - 1 = i + n
    BY <2>3, <2>4, <1>4, <1>1
  <2> QED BY <2>3, <2>4, <2>5
<1>16. Took(n)
  <2> HIDE DEF new, n
  <2> QED BY <1>0, <1>10, <1>13, <1>15 DEF Took
<1>17. SentOnTime(n)
  <2>1. CASE QueueRanEmpty
    <3>1. \A i \in 1 .. n : ~SampleOnWire(log'[Len(log) + i])
      BY <2>1, <1>14 DEF QueueRanEmpty
    <3>2. UNCHANGED timing
      BY <2>1 DEF SendSampleFromQueue
    <3> QED BY <3>1, <3>2 DEF SentOnTime
  <2>2. CASE ~QueueRanEmpty
    <3>1. n \in OnTime /\ \A j \in OnTime : n <= j
      BY <2>2, <1>3
    <3>2. n \in 1 .. n /\ n >= 1
      BY <3>1, <1>1 DEF OnTime
    <3>3. sampleQueue[n].kind = "sample" /\ ~IsLate(sampleQueue[n])
      BY <3>1, <1>6
    <3>4. sampleQueue[n].time \in Nat /\ startTime \in Nat
      BY <3>2, <1>4 DEF Entry, TypeOK, ObjectOK
    <3>5. sampleQueue[n].time >= startTime
      BY <3>3, <3>4 DEF IsLate
    <3>6. StartTimeAfter(sampleQueue[n])
      BY <2>2 DEF SendSampleFromQueue
    <3>7. SendFate(n) = "sent"
      BY <3>1, <3>3 DEF SendFate
    <3>8. log'[Len(log) + n].ts = Timestamp(sampleQueue[n])
      <4> HIDE DEF new, n
      <4>1. log'[Len(log) + n] = Became(sampleQueue[n], SendFate(n))
        BY <3>2, <1>12
      <4> QED BY <4>1, <3>3, <3>7, BecameFields
    <3>9. \A i \in 1 .. n : SampleOnWire(log'[Len(log) + i]) => i = n
      <4> HIDE DEF new, n
      <4>1. TAKE i \in 1 .. n
      <4>2. SampleOnWire(log'[Len(log) + i]) => n <= i
        BY <1>14, <3>1
      <4> QED BY <4>2, <1>4
    <3> QED BY <3>2, <3>3, <3>5, <3>6, <3>8, <3>9 DEF SentOnTime
  <2> QED BY <2>1, <2>2
<1>18. sending' = sending \cup Added
  BY DEF SendSampleFromQueue, Added
<1>19. Added \subseteq [id : Nat, asks : BOOLEAN]
  <2>1. SUFFICES ASSUME NEW i \in Sends
                 PROVE  [id |-> sampleQueue[i].id, asks |-> i \in OnTime]
                            \in [id : Nat, asks : BOOLEAN]
    BY DEF Added
  <2>2. i \in 1 .. n
    BY DEF Sends
  <2>3. sampleQueue[i].id \in Nat
    BY <2>2, <1>4 DEF Entry
  <2>4. (i \in OnTime) \in BOOLEAN
    OBVIOUS
  <2> QED BY <2>3, <2>4
<1> QED BY <1>16, <1>17, <1>18, <1>19

LEMMA SendOrDropTakes ==
    ASSUME TypeOK, SendOrDrop
    PROVE  \E n \in 0 .. Len(sampleQueue) :
              /\ Took(n) /\ SentOnTime(n)
              /\ sampleQueue # <<>> => n >= 1
              /\ sending' \in SUBSET [id : Nat, asks : BOOLEAN]
<1>1. Len(sampleQueue) \in Nat /\ (sampleQueue # <<>> => Len(sampleQueue) >= 1)
  BY LenProperties, EmptySeq DEF TypeOK, QueuesOK
<1>2. sending \in SUBSET [id : Nat, asks : BOOLEAN]
  BY DEF TypeOK, QueuesOK
<1>3. CASE connected
  <2>1. SendSampleFromQueue
    BY <1>3 DEF SendOrDrop
  <2>2. /\ Took(LastTaken) /\ SentOnTime(LastTaken)
        /\ sending' \in SUBSET [id : Nat, asks : BOOLEAN]
    BY <1>2, <1>3, <2>1, SendTakes
  <2>3. LastTaken \in 0 .. Len(sampleQueue) /\ (sampleQueue # <<>> => LastTaken >= 1)
    BY LastTakenInQueue DEF TypeOK
  <2> QED BY <2>2, <2>3
<1>4. CASE ~connected
  <2>1. DropSamplesFromQueue
    BY <1>4 DEF SendOrDrop
  <2>2. Took(Len(sampleQueue)) /\ SentOnTime(Len(sampleQueue)) /\ sending' = sending
    BY <2>1, DropTakes
  <2> QED BY <2>2, <1>1, <1>2
<1> QED BY <1>3, <1>4

(* Nothing taken: the queue, the log and the times stay.                   *)
LEMMA NothingTaken ==
    ASSUME TypeOK, UNCHANGED <<sampleQueue, log, timing>>
    PROVE  Took(0) /\ SentOnTime(0)
<1>1. /\ sampleQueue \in Seq(Entry) /\ log \in Seq(Outcome)
      /\ Len(sampleQueue) \in Nat /\ Len(log) \in Nat
  BY LenProperties DEF TypeOK, QueuesOK
<1>2. Took(0)
  BY <1>1 DEF Took
<1> QED BY <1>2 DEF SentOnTime

(* Every work item takes entries from the front of the queue, at least one *)
(* if there is one, except on a stream that is shut down.                  *)
LEMMA DispatchTakes ==
    ASSUME TypeOK, DispatchWorkItem
    PROVE  \E n \in 0 .. Len(sampleQueue) :
              /\ Took(n) /\ SentOnTime(n)
              /\ ~isShutdown /\ sampleQueue # <<>> => n >= 1
              /\ sending' \in SUBSET [id : Nat, asks : BOOLEAN]
<1>1. Len(sampleQueue) \in Nat /\ (sampleQueue # <<>> => Len(sampleQueue) >= 1)
  BY LenProperties, EmptySeq DEF TypeOK, QueuesOK
<1>2. CASE SendOrDrop
  BY <1>2, SendOrDropTakes
<1>3. CASE DispatchStop
  <2>1. DropSamplesFromQueue
    BY <1>3 DEF DispatchStop
  <2>2. Took(Len(sampleQueue)) /\ SentOnTime(Len(sampleQueue)) /\ sending' = sending
    BY <2>1, DropTakes
  <2> QED BY <2>2, <1>1 DEF TypeOK, QueuesOK
<1>4. CASE isShutdown /\ UNCHANGED <<sampleQueue, network, timing>>
  <2>1. Took(0) /\ SentOnTime(0)
    BY <1>4, NothingTaken DEF network
  <2>2. sending' \in SUBSET [id : Nat, asks : BOOLEAN]
    BY <1>4 DEF TypeOK, QueuesOK, network
  <2> QED BY <2>1, <2>2, <1>1, <1>4
<1>5. \/ SendOrDrop \/ DispatchStop
      \/ isShutdown /\ UNCHANGED <<sampleQueue, network, timing>>
  BY DEF DispatchWorkItem, DispatchStart, DispatchSample, DispatchMarkerOrType
<1> QED BY <1>2, <1>3, <1>4, <1>5

(* The oldest work item is gone.                                           *)
LEMMA DispatchRemoves ==
    ASSUME TypeOK, NEW ops, Dispatching(ops)
    PROVE  /\ workItems' \in Seq(Operations)
           /\ Len(workItems) \in Nat
           /\ Len(workItems') = Len(workItems) - 1
           /\ 1 \in DOMAIN workItems
           /\ workItems[1] \in ops
           /\ DOMAIN workItems = 1 .. Len(workItems)
           /\ DOMAIN workItems' = 1 .. Len(workItems')
           /\ \A i \in 1 .. Len(workItems') : workItems'[i] = workItems[i + 1]
<1>1. /\ workItems \in Seq(Operations) /\ workItems # <<>>
      /\ Head(workItems) \in ops /\ workItems' = Tail(workItems)
  BY DEF Dispatching, TypeOK, QueuesOK
<1>2. /\ workItems' \in Seq(Operations)
      /\ Len(workItems') = Len(workItems) - 1
      /\ \A i \in 1 .. Len(workItems') : workItems'[i] = workItems[i + 1]
  BY <1>1, HeadTailProperties
<1>3. /\ Len(workItems) \in Nat /\ Len(workItems) >= 1
      /\ DOMAIN workItems = 1 .. Len(workItems)
      /\ DOMAIN workItems' = 1 .. Len(workItems')
  BY <1>1, <1>2, LenProperties, EmptySeq
<1>4. workItems[1] = Head(workItems)
  BY <1>1
<1> QED BY <1>1, <1>2, <1>3, <1>4

(* A work item is added after the others.                                  *)
LEMMA OperationAppends ==
    ASSUME TypeOK, NEW op \in Operations, QueueAsyncOperation(op)
    PROVE  /\ workItems' \in Seq(Operations)
           /\ Len(workItems) \in Nat
           /\ Len(workItems') = Len(workItems) + 1
           /\ DOMAIN workItems = 1 .. Len(workItems)
           /\ DOMAIN workItems' = 1 .. Len(workItems) + 1
           /\ \A i \in 1 .. Len(workItems) : workItems'[i] = workItems[i]
           /\ workItems'[Len(workItems) + 1] = op
<1>1. workItems \in Seq(Operations) /\ workItems' = Append(workItems, op)
  BY DEF QueueAsyncOperation, TypeOK, QueuesOK
<1> QED BY <1>1, LenProperties, AppendProperties

(* Times are numbers.                                                      *)
LEMMA TimesAreNumbers == Times \subseteq Nat /\ \A kind : TimesOf(kind) \subseteq Nat
  BY BoundsAssumption DEF Times, TimesOf

LEMMA NewEntryTyped ==
    ASSUME TypeOK, NEW kind \in Kinds, NEW t \in Nat
    PROVE  /\ NewEntry(kind, t) \in Entry
           /\ NewEntry(kind, t).id = accepted + 1 /\ NewEntry(kind, t).kind = kind
           /\ NewEntry(kind, t).run = starts /\ NewEntry(kind, t).stops = stops
  BY DEF TypeOK, CountersOK, NewEntry, Entry

(* An entry is added after the others, and its work item too.              *)
Appended(kind, op) ==
    /\ accepted' = accepted + 1
    /\ sampleQueue' \in Seq(Entry)
    /\ Len(sampleQueue') = Len(sampleQueue) + 1
    /\ \A i \in 1 .. Len(sampleQueue) : sampleQueue'[i] = sampleQueue[i]
    /\ sampleQueue'[Len(sampleQueue) + 1].id = accepted + 1
    /\ sampleQueue'[Len(sampleQueue) + 1].kind = kind
    /\ sampleQueue'[Len(sampleQueue) + 1].run = starts
    /\ sampleQueue'[Len(sampleQueue) + 1].stops = stops
    /\ QueueAsyncOperation(op)

LEMMA AcceptAppends ==
    ASSUME TypeOK, NEW kind \in Kinds, NEW op \in Operations, Accept(kind, op)
    PROVE  Appended(kind, op)
<1>1. sampleQueue \in Seq(Entry)
  BY DEF TypeOK, QueuesOK
<1>2. PICK t \in TimesOf(kind) : sampleQueue' = Append(sampleQueue, NewEntry(kind, t))
  BY DEF Accept
<1> DEFINE e == NewEntry(kind, t)
<1>3. /\ e \in Entry /\ e.id = accepted + 1 /\ e.kind = kind
      /\ e.run = starts /\ e.stops = stops
  <2>1. t \in Nat
    BY TimesAreNumbers
  <2> QED BY <2>1, NewEntryTyped
<1>4. sampleQueue' = Append(sampleQueue, e)
  BY <1>2
<1> HIDE DEF e
<1>5. /\ sampleQueue' \in Seq(Entry)
      /\ Len(sampleQueue') = Len(sampleQueue) + 1
      /\ \A i \in 1 .. Len(sampleQueue) : sampleQueue'[i] = sampleQueue[i]
      /\ sampleQueue'[Len(sampleQueue) + 1] = e
  BY <1>1, <1>3, <1>4, AppendProperties
<1>6. accepted' = accepted + 1 /\ QueueAsyncOperation(op)
  BY DEF Accept
<1> QED BY <1>3, <1>5, <1>6 DEF Appended

(* SetConnected sends the sample that was kept for the client: its time is *)
(* kept, counted from the start time then set, or it is older than that.   *)
LEMMA KeptSampleSent ==
    ASSUME TypeOK, SetConnected, firstVideoSample # NoSample
    PROVE  \E o \in Outcome :
              /\ o.id = firstVideoSample.id /\ o.kind = firstVideoSample.kind
              /\ o.run = firstVideoSample.run /\ o.fate = "first" /\ o.during = starts
              /\ (o.ts + startTime' = o.time) \/ (o.ts = 0 /\ o.time <= startTime')
              /\ log' \in Seq(Outcome) /\ Len(log') = Len(log) + 1
              /\ log'[Len(log) + 1] = o
              /\ \A i \in 1 .. Len(log) : log'[i] = log[i]
              /\ startTime' \in Nat /\ startFromSample' = FALSE
              /\ firstVideoSample' = NoSample
              /\ sending' = sending \cup {[id |-> firstVideoSample.id, asks |-> FALSE]}
<1>1. PICK now \in Times : SendKeptSample(now)
  BY DEF SetConnected
<1> DEFINE e == firstVideoSample
           ts == IF startFromSample \/ e.time < now THEN 0 ELSE e.time - now
           o == [Became(e, "first") EXCEPT !.ts = ts]
<1>2. /\ startTime' = IF startFromSample THEN e.time ELSE now
      /\ startFromSample' = FALSE
      /\ firstVideoSample' = NoSample
      /\ log' = Append(log, o)
      /\ sending' = sending \cup {[id |-> e.id, asks |-> FALSE]}
  BY <1>1 DEF SendKeptSample
<1>3. /\ e.id \in Nat /\ e.kind \in Kinds /\ e.run \in Nat /\ e.time \in Nat
      /\ now \in Nat /\ starts \in Nat
  BY TimesAreNumbers DEF TypeOK, ObjectOK, CountersOK, Entry
<1>4. ts \in Nat
  BY <1>3
<1>5. startTime' \in Nat /\ ((ts + startTime' = e.time) \/ (ts = 0 /\ e.time <= startTime'))
  <2>1. CASE startFromSample
    BY <2>1, <1>2, <1>3
  <2>2. CASE ~startFromSample /\ e.time < now
    <3>1. ts = 0 /\ startTime' = now
      BY <2>2, <1>2
    <3> QED BY <3>1, <2>2, <1>3
  <2>3. CASE ~startFromSample /\ ~(e.time < now)
    <3>1. ts = e.time - now /\ startTime' = now
      BY <2>3, <1>2
    <3> DEFINE t == e.time
    <3>2. t \in Nat /\ now \in Nat /\ ts = t - now
      BY <1>3, <3>1
    <3> HIDE DEF t, ts
    <3>3. ts + now = t
      BY <3>2
    <3> QED BY <3>1, <3>2, <3>3 DEF t
  <2> QED BY <2>1, <2>2, <2>3
<1> HIDE DEF ts
<1>6. o = [id |-> e.id, kind |-> e.kind, time |-> e.time, run |-> e.run,
           fate |-> "first", ts |-> ts, during |-> starts]
  BY DEF Became
<1>7. o \in Outcome
  BY <1>3, <1>4, <1>6 DEF Outcome, Fates
<1>8. /\ o.id = e.id /\ o.kind = e.kind /\ o.run = e.run /\ o.time = e.time
      /\ o.fate = "first" /\ o.during = starts /\ o.ts = ts
  BY <1>6
<1> HIDE DEF o
<1>9. /\ log' \in Seq(Outcome) /\ Len(log') = Len(log) + 1
      /\ log'[Len(log) + 1] = o
      /\ \A i \in 1 .. Len(log) : log'[i] = log[i]
  BY <1>2, <1>7, AppendProperties DEF TypeOK, QueuesOK
<1> QED BY <1>2, <1>5, <1>7, <1>8, <1>9

LEMMA OperationsAre ==
    Operations = {"OpSetMediaType", "OpStart", "OpStop", "OpProcessSample",
                  "OpPlaceMarker"}
<1> DEFINE Rows == DOMAIN ValidOperations
<1>1. Rows = {"TypeNotSet", "Ready", "Started", "Stopped"}
  BY DEF ValidOperations
<1>2. /\ ValidOperations["TypeNotSet"] = {"OpSetMediaType"}
      /\ ValidOperations["Ready"] =
            {"OpSetMediaType", "OpStart", "OpStop", "OpPlaceMarker"}
      /\ ValidOperations["Stopped"] =
            {"OpSetMediaType", "OpStart", "OpStop", "OpProcessSample",
             "OpPlaceMarker"}
      /\ ValidOperations["Started"] =
            {"OpSetMediaType", "OpStart", "OpStop", "OpProcessSample",
             "OpPlaceMarker"}
  BY DEF ValidOperations
<1>3. Operations = UNION {ValidOperations[s] : s \in Rows}
  BY DEF Operations
<1> HIDE DEF Rows
<1>4. Operations = ValidOperations["TypeNotSet"] \cup ValidOperations["Ready"]
                   \cup ValidOperations["Started"] \cup ValidOperations["Stopped"]
  BY <1>1, <1>3
<1> QED BY <1>2, <1>4

LEMMA TimingStaysTyped ==
    ASSUME TypeOK, NEW n \in 0 .. Len(sampleQueue), SentOnTime(n)
    PROVE  startTime' \in Nat /\ startFromSample' \in BOOLEAN
<1>1. CASE UNCHANGED timing
  BY <1>1 DEF timing, TypeOK, ObjectOK
<1>2. CASE n >= 1 /\ StartTimeAfter(sampleQueue[n])
  <2>1. n \in 1 .. Len(sampleQueue)
    BY <1>2
  <2>2. sampleQueue[n].time \in Nat
    <3>1. sampleQueue[n] \in Entry
      BY <2>1, ElementOfSeq DEF TypeOK, QueuesOK
    <3> QED BY <3>1 DEF Entry
  <2> QED BY <1>2, <2>2 DEF StartTimeAfter, TypeOK, ObjectOK
<1> QED BY <1>1, <1>2 DEF SentOnTime

LEMMA StepKeepsTypeOK ==
    ASSUME TypeOK, [Next]_vars
    PROVE  TypeOK'
<1> USE DEF TypeOK
<1>1. CASE SetFirstMediaType
  BY <1>1 DEF SetFirstMediaType, ObjectOK, QueuesOK, CountersOK, timing, queues,
              network, events, ghosts, ValidOperations
<1>2. CASE ChangeMediaType
  <2>1. Appended("type", "OpSetMediaType") /\ workItems' \in Seq(Operations)
    <3>1. "type" \in Kinds /\ "OpSetMediaType" \in Operations
      BY OperationsAre DEF Kinds
    <3>2. Appended("type", "OpSetMediaType")
      BY <1>2, <3>1, AcceptAppends DEF ChangeMediaType
    <3> QED BY <3>1, <3>2, OperationAppends DEF Appended
  <2> QED BY <1>2, <2>1 DEF ChangeMediaType, Appended, ObjectOK, QueuesOK,
             CountersOK, object, timing, network, events
<1>3. CASE RefuseSample
  BY <1>3 DEF RefuseSample, ObjectOK, QueuesOK, CountersOK, object, timing,
              queues, network, ghosts
<1>4. CASE KeepFirstSample
  <2>1. firstVideoSample' \in Entry
    <3>1. PICK t \in Times : firstVideoSample' = NewEntry("sample", t)
      BY <1>4 DEF KeepFirstSample
    <3> QED BY <3>1, TimesAreNumbers, NewEntryTyped DEF Kinds
  <2>2. ObjectOK'
    BY <1>4, <2>1 DEF KeepFirstSample, ObjectOK, timing
  <2>3. QueuesOK'
    BY <1>4 DEF KeepFirstSample, QueuesOK, queues, network
  <2>4. CountersOK'
    BY <1>4 DEF KeepFirstSample, CountersOK, events
  <2> QED BY <2>2, <2>3, <2>4
<1>5. CASE QueueSample
  <2>1. Appended("sample", "OpProcessSample") /\ workItems' \in Seq(Operations)
    <3>1. "sample" \in Kinds /\ "OpProcessSample" \in Operations
      BY OperationsAre DEF Kinds
    <3>2. Appended("sample", "OpProcessSample")
      BY <1>5, <3>1, AcceptAppends DEF QueueSample
    <3> QED BY <3>1, <3>2, OperationAppends DEF Appended
  <2> QED BY <1>5, <2>1 DEF QueueSample, Appended, ObjectOK, QueuesOK,
             CountersOK, object, timing, network
<1>6. CASE PlaceMarker
  <2>1. Appended("marker", "OpPlaceMarker") /\ workItems' \in Seq(Operations)
    <3>1. "marker" \in Kinds /\ "OpPlaceMarker" \in Operations
      BY OperationsAre DEF Kinds
    <3>2. Appended("marker", "OpPlaceMarker")
      BY <1>6, <3>1, AcceptAppends DEF PlaceMarker
    <3> QED BY <3>1, <3>2, OperationAppends DEF Appended
  <2> QED BY <1>6, <2>1 DEF PlaceMarker, Appended, ObjectOK, QueuesOK,
             CountersOK, object, timing, network, events
<1>7. CASE Flush
  <2>1. Took(Len(sampleQueue)) /\ sending' = sending /\ UNCHANGED timing
    BY <1>7, DropTakes DEF Flush
  <2> QED BY <1>7, <2>1 DEF Flush, Took, ObjectOK, QueuesOK, CountersOK, object,
             timing, events, ghosts
<1>8. CASE Start
  <2>1. "OpStart" \in Operations
    BY OperationsAre
  <2>2. workItems' \in Seq(Operations)
    BY <1>8, <2>1, OperationAppends DEF Start
  <2>3. state' \in DOMAIN ValidOperations
    BY <1>8 DEF Start, ValidOperations
  <2>4. startTime' \in Nat /\ startFromSample' \in BOOLEAN
    BY <1>8, TimesAreNumbers DEF Start, ObjectOK
  <2>5. ObjectOK'
    BY <1>8, <2>3, <2>4 DEF Start, ObjectOK
  <2>6. QueuesOK'
    BY <1>8, <2>2 DEF Start, QueuesOK, network
  <2>7. CountersOK'
    BY <1>8 DEF Start, CountersOK, events
  <2> QED BY <2>5, <2>6, <2>7
<1>9. CASE Stop
  <2>1. "OpStop" \in Operations
    BY OperationsAre
  <2>2. workItems' \in Seq(Operations)
    BY <1>9, <2>1, OperationAppends DEF Stop
  <2> QED BY <1>9, <2>2 DEF Stop, ObjectOK, QueuesOK, CountersOK, timing,
             network, events, ValidOperations
<1>10. CASE SetConnected
  <2>1. CASE firstVideoSample = NoSample
    <3>1. /\ startTime' \in Nat
          /\ UNCHANGED <<startFromSample, firstVideoSample, network>>
      BY <1>10, <2>1, TimesAreNumbers DEF SetConnected
    <3> QED BY <1>10, <3>1 DEF SetConnected, ObjectOK, QueuesOK, CountersOK, queues,
               network, events, ghosts
  <2>2. CASE firstVideoSample # NoSample
    <3>1. /\ log' \in Seq(Outcome) /\ startTime' \in Nat
          /\ startFromSample' = FALSE /\ firstVideoSample' = NoSample
          /\ sending' = sending \cup {[id |-> firstVideoSample.id, asks |-> FALSE]}
      BY <1>10, <2>2, KeptSampleSent
    <3>2. sending' \in SUBSET [id : Nat, asks : BOOLEAN]
      <4>1. [id |-> firstVideoSample.id, asks |-> FALSE] \in [id : Nat, asks : BOOLEAN]
        BY <2>2 DEF ObjectOK, Entry
      <4> QED BY <3>1, <4>1 DEF QueuesOK
    <3> QED BY <1>10, <3>1, <3>2 DEF SetConnected, ObjectOK, QueuesOK, CountersOK,
               queues, events, ghosts
  <2> QED BY <2>1, <2>2
<1>11. CASE Shutdown
  <2>1. sampleQueue' \in Seq(Entry)
    BY <1>11, EmptySeq DEF Shutdown
  <2> QED BY <1>11, <2>1 DEF Shutdown, ObjectOK, QueuesOK, CountersOK, timing,
             network, events, ghosts
<1>12. CASE DispatchWorkItem
  <2>1. PICK n \in 0 .. Len(sampleQueue) :
            /\ Took(n) /\ SentOnTime(n)
            /\ sending' \in SUBSET [id : Nat, asks : BOOLEAN]
    BY <1>12, DispatchTakes
  <2>2. /\ workItems' \in Seq(Operations)
        /\ UNCHANGED <<object, firstVideoSample, failed, ghosts>>
    <3>1. \E ops : Dispatching(ops)
      BY <1>12 DEF DispatchWorkItem, DispatchStart, DispatchStop, DispatchSample,
                   DispatchMarkerOrType
    <3>2. PICK ops : Dispatching(ops)
      BY <3>1
    <3>3. workItems' \in Seq(Operations)
      BY <3>2, DispatchRemoves
    <3> QED BY <3>2, <3>3 DEF Dispatching
  <2>3. startTime' \in Nat /\ startFromSample' \in BOOLEAN
    BY <2>1, TimingStaysTyped
  <2>4. requests' \in Nat /\ announced' \in {"none", "Started", "Stopped"}
    BY <1>12 DEF DispatchWorkItem, DispatchStart, DispatchStop, DispatchSample,
                 DispatchMarkerOrType, RequestSample, CountersOK
  <2>5. ObjectOK'
    BY <2>2, <2>3 DEF ObjectOK, object
  <2>6. QueuesOK'
    BY <2>1, <2>2 DEF QueuesOK, Took
  <2>7. CountersOK'
    BY <2>2, <2>4 DEF CountersOK, ghosts
  <2> QED BY <2>5, <2>6, <2>7
<1>13. CASE SendCompleted
  <2>1. PICK p \in sending : SendSucceeded(p) \/ SendFailed(p)
    BY <1>13 DEF SendCompleted
  <2>2. sending' \in SUBSET [id : Nat, asks : BOOLEAN]
    BY <2>1 DEF SendSucceeded, SendFailed, QueuesOK
  <2>3. requests' \in Nat /\ failed' \in BOOLEAN
    <3>1. CASE SendSucceeded(p)
      <4>1. requests' = requests \/ requests' = requests + 1
        BY <3>1 DEF SendSucceeded, RequestSample
      <4> QED BY <3>1, <4>1 DEF SendSucceeded, CountersOK
    <3>2. CASE SendFailed(p)
      <4>1. failed' \in BOOLEAN
        BY <3>2 DEF SendFailed
      <4> QED BY <3>2, <4>1 DEF SendFailed, CountersOK
    <3> QED BY <2>1, <3>1, <3>2
  <2> QED BY <2>1, <2>2, <2>3, ZenonT(60) DEF SendSucceeded, SendFailed, ObjectOK, QueuesOK,
             CountersOK, object, timing, queues, ghosts
<1>14. CASE UNCHANGED vars
  BY <1>14 DEF vars, ObjectOK, QueuesOK, CountersOK, object, timing, queues,
               network, events, ghosts
<1> QED BY <1>1, <1>2, <1>3, <1>4, <1>5, <1>6, <1>7, <1>8, <1>9, <1>10, <1>11,
           <1>12, <1>13, <1>14 DEF Next, Pipeline, Sink

(* The fields of the stream hold what their declarations allow.            *)
THEOREM TypeCorrect == Spec => []TypeOK
<1>1. Init => TypeOK
  <2>1. /\ <<>> \in Seq(Entry) /\ <<>> \in Seq(Operations) /\ <<>> \in Seq(Outcome)
    BY EmptySeq
  <2>2. "TypeNotSet" \in DOMAIN ValidOperations
    BY DEF ValidOperations
  <2> SUFFICES ASSUME Init PROVE TypeOK
    OBVIOUS
  <2>0. /\ isVideo \in BOOLEAN /\ isShutdown \in BOOLEAN /\ connected \in BOOLEAN
        /\ waitingForFirst \in BOOLEAN /\ startFromSample \in BOOLEAN
        /\ failed \in BOOLEAN
    BY Zenon DEF Init
  <2>3. ObjectOK
    BY <2>0, <2>2 DEF Init, ObjectOK
  <2>4. QueuesOK
    BY <2>1 DEF Init, QueuesOK
  <2>5. CountersOK
    BY <2>0 DEF Init, CountersOK
  <2> QED BY <2>3, <2>4, <2>5 DEF TypeOK
<1>2. TypeOK /\ [Next]_vars => TypeOK'
  BY StepKeepsTypeOK
<1> QED BY <1>1, <1>2, PTL DEF Spec
-----------------------------------------------------------------------------
(* Order.  What matters for it changes in one of these ways only.          *)
orderVars == <<sampleQueue, log, firstVideoSample, connected, waitingForFirst,
               accepted, starts>>

Adds ==
    /\ \E kind \in Kinds, op \in Operations :
          /\ op = OpFor[kind]
          /\ Appended(kind, op)
          /\ kind = "sample" => ~(waitingForFirst /\ ~connected)
          /\ requests' = IF kind = "sample" THEN requests - 1 ELSE requests
    /\ UNCHANGED <<log, object, firstVideoSample, starts, stops, announced,
                   sending, failed>>

Takes ==
    /\ \E n \in 0 .. Len(sampleQueue) : Took(n)
    /\ UNCHANGED <<firstVideoSample, connected, waitingForFirst, accepted,
                   starts>>

LEMMA EntryAdded ==
    ASSUME TypeOK, ChangeMediaType \/ QueueSample \/ PlaceMarker
    PROVE  Adds
<1>1. /\ OpFor["sample"] = "OpProcessSample" /\ OpFor["marker"] = "OpPlaceMarker"
      /\ OpFor["type"] = "OpSetMediaType"
      /\ "sample" \in Kinds /\ "marker" \in Kinds /\ "type" \in Kinds
  BY DEF OpFor, Kinds
<1>2. /\ "OpProcessSample" \in Operations /\ "OpPlaceMarker" \in Operations
      /\ "OpSetMediaType" \in Operations
  BY OperationsAre
<1>3. UNCHANGED <<log, object, firstVideoSample, starts, stops, announced, sending,
                  failed>>
  BY DEF ChangeMediaType, QueueSample, PlaceMarker, network, events
<1>4. CASE ChangeMediaType
  <2>1. Appended("type", "OpSetMediaType")
    BY <1>1, <1>2, <1>4, AcceptAppends DEF ChangeMediaType
  <2>2. requests' = requests
    BY <1>4 DEF ChangeMediaType, events
  <2> QED BY <2>1, <2>2, <1>1, <1>2, <1>3 DEF Adds
<1>5. CASE QueueSample
  <2>1. Appended("sample", "OpProcessSample")
    BY <1>1, <1>2, <1>5, AcceptAppends DEF QueueSample
  <2>2. ~(waitingForFirst /\ ~connected) /\ requests' = requests - 1
    BY <1>5 DEF QueueSample
  <2> QED BY <2>1, <2>2, <1>1, <1>2, <1>3 DEF Adds
<1>6. CASE PlaceMarker
  <2>1. Appended("marker", "OpPlaceMarker")
    BY <1>1, <1>2, <1>6, AcceptAppends DEF PlaceMarker
  <2>2. requests' = requests
    BY <1>6 DEF PlaceMarker, events
  <2> QED BY <2>1, <2>2, <1>1, <1>2, <1>3 DEF Adds
<1> QED BY <1>4, <1>5, <1>6

LEMMA OrderSteps ==
    ASSUME TypeOK, [Next]_vars
    PROVE  \/ Adds \/ Takes \/ KeepFirstSample \/ Start \/ SetConnected
           \/ Shutdown \/ UNCHANGED orderVars
<1>1. CASE ChangeMediaType \/ QueueSample \/ PlaceMarker
  BY <1>1, EntryAdded
<1>2. CASE Flush
  <2>1. Took(Len(sampleQueue))
    BY <1>2, DropTakes DEF Flush
  <2>2. Len(sampleQueue) \in 0 .. Len(sampleQueue)
    BY LenProperties DEF TypeOK, QueuesOK
  <2>3. UNCHANGED <<firstVideoSample, connected, waitingForFirst, accepted,
                    starts>>
    BY <1>2 DEF Flush, object, ghosts
  <2> QED BY <2>1, <2>2, <2>3 DEF Takes
<1>3. CASE DispatchWorkItem
  <2>1. \E n \in 0 .. Len(sampleQueue) : Took(n)
    BY <1>3, DispatchTakes
  <2>2. UNCHANGED <<object, firstVideoSample, ghosts>>
    BY <1>3 DEF DispatchWorkItem, DispatchStart, DispatchStop, DispatchSample,
                DispatchMarkerOrType, Dispatching
  <2> QED BY <2>1, <2>2 DEF Takes, object, ghosts
<1>4. CASE SetFirstMediaType \/ RefuseSample
  BY <1>4 DEF SetFirstMediaType, RefuseSample, object, queues, network, ghosts,
              orderVars
<1>5. CASE Stop
  BY <1>5 DEF Stop, network, orderVars
<1>6. CASE SendCompleted
  BY <1>6 DEF SendCompleted, SendSucceeded, SendFailed, object, queues, ghosts,
              orderVars
<1>7. CASE UNCHANGED vars
  BY <1>7 DEF vars, object, queues, network, ghosts, orderVars
<1> QED BY <1>1, <1>2, <1>3, <1>4, <1>5, <1>6, <1>7
           DEF Next, Pipeline, Sink

LEMMA SequencesTyped ==
    ASSUME TypeOK
    PROVE  /\ Len(sampleQueue) \in Nat /\ DOMAIN sampleQueue = 1 .. Len(sampleQueue)
           /\ Len(log) \in Nat /\ DOMAIN log = 1 .. Len(log)
           /\ \A i \in DOMAIN sampleQueue :
                 /\ sampleQueue[i].id \in Nat /\ sampleQueue[i].run \in Nat
                 /\ sampleQueue[i].time \in Nat /\ sampleQueue[i].kind \in Kinds
           /\ \A i \in DOMAIN log :
                 /\ log[i].id \in Nat /\ log[i].run \in Nat
                 /\ log[i].during \in Nat /\ log[i].ts \in Nat /\ log[i].time \in Nat
           /\ accepted \in Nat /\ starts \in Nat /\ startTime \in Nat
<1>1. /\ Len(sampleQueue) \in Nat /\ DOMAIN sampleQueue = 1 .. Len(sampleQueue)
      /\ Len(log) \in Nat /\ DOMAIN log = 1 .. Len(log)
  BY LenProperties DEF TypeOK, QueuesOK
<1>2. /\ \A i \in DOMAIN sampleQueue : sampleQueue[i] \in Entry
      /\ \A i \in DOMAIN log : log[i] \in Outcome
  BY <1>1, ElementOfSeq DEF TypeOK, QueuesOK
<1>3. accepted \in Nat /\ starts \in Nat /\ startTime \in Nat
  BY DEF TypeOK, ObjectOK, CountersOK
<1> QED BY <1>1, <1>2, <1>3 DEF Entry, Outcome

(* An entry appended is the newest one.                                    *)
LEMMA AddsKeepsOrder ==
    ASSUME TypeOK, TypeOK', OrderInv, Adds
    PROVE  OrderInv'
<1> DEFINE m == Len(sampleQueue)
<1>1. PICK kind \in Kinds, op \in Operations :
          /\ Appended(kind, op)
          /\ kind = "sample" => ~(waitingForFirst /\ ~connected)
  BY DEF Adds
<1>2. UNCHANGED <<log, firstVideoSample, connected, waitingForFirst, starts>>
  BY DEF Adds, object
<1>3. /\ m \in Nat /\ DOMAIN sampleQueue = 1 .. m
      /\ DOMAIN sampleQueue' = 1 .. m + 1
      /\ \A i \in DOMAIN sampleQueue :
            /\ sampleQueue[i].id \in Nat /\ sampleQueue[i].run \in Nat
            /\ sampleQueue[i].time \in Nat
      /\ \A i \in DOMAIN log : log[i].id \in Nat /\ log[i].run \in Nat
                               /\ log[i].during \in Nat
      /\ accepted \in Nat /\ starts \in Nat
  <2>1. DOMAIN sampleQueue' = 1 .. Len(sampleQueue')
    BY SequencesTyped
  <2> QED BY <2>1, <1>1, SequencesTyped DEF Appended
<1>4. \A i \in DOMAIN sampleQueue' :
         \/ i \in DOMAIN sampleQueue /\ sampleQueue'[i] = sampleQueue[i]
         \/ i = m + 1 /\ i \notin DOMAIN sampleQueue
            /\ sampleQueue'[i].id = accepted + 1 /\ sampleQueue'[i].kind = kind
            /\ sampleQueue'[i].run = starts
  BY <1>1, <1>3 DEF Appended
<1>5. accepted' = accepted + 1
  BY <1>1 DEF Appended
<1>6. QueueNumbered' /\ LogNumbered' /\ KeptNumbered'
  <2>1. QueueNumbered'
    BY <1>2, <1>3, <1>4, <1>5 DEF OrderInv, QueueNumbered
  <2>2. LogNumbered'
    BY <1>2, <1>3, <1>5 DEF OrderInv, LogNumbered
  <2>3. KeptNumbered'
    <3>1. firstVideoSample # NoSample => firstVideoSample.id \in Nat
      BY DEF TypeOK, ObjectOK, Entry
    <3> QED BY <3>1, <1>2, <1>3, <1>5 DEF OrderInv, KeptNumbered
  <2> QED BY <2>1, <2>2, <2>3
<1>7. QueueInOrder'
  BY <1>3, <1>4 DEF OrderInv, QueueInOrder, QueueNumbered
<1>8. LogInOrder' /\ FirstThenLater' /\ NothingBeforeConnect'
  BY <1>2 DEF OrderInv, LogInOrder, FirstThenLater, NothingBeforeConnect
<1>9. LogBeforeQueue'
  BY <1>2, <1>3, <1>4 DEF OrderInv, LogBeforeQueue, LogNumbered
<1>10. KeptInOrder'
  <2>1. firstVideoSample # NoSample => firstVideoSample.id \in Nat
    BY DEF TypeOK, ObjectOK, Entry
  <2> QED BY <2>1, <1>2, <1>3, <1>4 DEF OrderInv, KeptInOrder, KeptNumbered
<1>11. FirstInOrder'
  BY <1>2, <1>3, <1>4, SMTT(60) DEF OrderInv, FirstInOrder, LogNumbered
<1>12. NoneOfThisRunYet'
  BY <1>1, <1>2, <1>3, <1>4 DEF OrderInv, NoneOfThisRunYet
<1> QED BY <1>6, <1>7, <1>8, <1>9, <1>10, <1>11, <1>12 DEF OrderInv

(* What is taken moves from the front of the queue to the end of the log.  *)
LEMMA TakesKeepsOrder ==
    ASSUME TypeOK, TypeOK', OrderInv, Takes
    PROVE  OrderInv'
<1> DEFINE k == Len(log)
<1>1. PICK n \in 0 .. Len(sampleQueue) : Took(n)
  BY DEF Takes
<1>2. UNCHANGED <<firstVideoSample, connected, waitingForFirst, accepted,
                  starts>>
  BY DEF Takes
<1>3. /\ k \in Nat /\ n \in Nat /\ DOMAIN log = 1 .. k
      /\ DOMAIN log' = 1 .. k + n
      /\ Len(sampleQueue) \in Nat /\ n <= Len(sampleQueue)
      /\ DOMAIN sampleQueue = 1 .. Len(sampleQueue)
      /\ DOMAIN sampleQueue' = 1 .. Len(sampleQueue) - n
  <2>1. DOMAIN sampleQueue' = 1 .. Len(sampleQueue') /\ DOMAIN log' = 1 .. Len(log')
    BY SequencesTyped
  <2>2. Len(sampleQueue) \in Nat /\ DOMAIN sampleQueue = 1 .. Len(sampleQueue)
        /\ Len(log) \in Nat /\ DOMAIN log = 1 .. Len(log)
    BY SequencesTyped
  <2> QED BY <2>1, <2>2, <1>1 DEF Took
<1>4. /\ \A i \in DOMAIN sampleQueue :
            /\ sampleQueue[i].id \in Nat /\ sampleQueue[i].run \in Nat
            /\ sampleQueue[i].time \in Nat
      /\ \A i \in DOMAIN log : log[i].id \in Nat /\ log[i].run \in Nat
                               /\ log[i].during \in Nat
      /\ accepted \in Nat /\ starts \in Nat
  BY SequencesTyped
<1>5. \A i \in DOMAIN sampleQueue' :
         i + n \in DOMAIN sampleQueue /\ sampleQueue'[i] = sampleQueue[i + n]
  <2>1. \A i \in 1 .. Len(sampleQueue') : sampleQueue'[i] = sampleQueue[i + n]
    BY <1>1 DEF Took
  <2>2. DOMAIN sampleQueue' = 1 .. Len(sampleQueue')
    BY SequencesTyped
  <2>3. \A i \in DOMAIN sampleQueue' : i + n \in DOMAIN sampleQueue
    BY <1>3
  <2> QED BY <2>1, <2>2, <2>3
<1>6. \A i \in DOMAIN log' :
         \/ i \in DOMAIN log /\ log'[i] = log[i]
         \/ /\ i > k /\ i - k \in 1 .. n /\ i - k \in DOMAIN sampleQueue
            /\ TakenAs(sampleQueue[i - k], log'[i])
  <2>1. TAKE i \in DOMAIN log'
  <2>2. CASE i <= k
    BY <2>2, <1>1, <1>3 DEF Took
  <2>3. CASE i > k
    <3>1. i - k \in 1 .. n /\ i - k \in DOMAIN sampleQueue /\ k + (i - k) = i
      BY <2>3, <1>3
    <3>2. TakenAs(sampleQueue[i - k], log'[k + (i - k)])
      BY <3>1, <1>1 DEF Took
    <3> QED BY <3>1, <3>2, <2>3
  <2> QED BY <2>2, <2>3, <1>3
<1>7. \A i \in DOMAIN log' :
         \/ i \in DOMAIN log /\ log'[i] = log[i]
         \/ /\ i > k /\ i - k \in 1 .. n /\ i - k \in DOMAIN sampleQueue
            /\ log'[i].id = sampleQueue[i - k].id
            /\ log'[i].run = sampleQueue[i - k].run
            /\ log'[i].kind = sampleQueue[i - k].kind
            /\ log'[i].during = starts
            /\ log'[i].fate # "first"
            /\ log'[i].fate = "sent" => connected
  BY <1>6 DEF TakenAs
<1>8. QueueNumbered' /\ LogNumbered' /\ KeptNumbered'
  <2>1. QueueNumbered'
    BY <1>2, <1>3, <1>5 DEF OrderInv, QueueNumbered
  <2>2. LogNumbered'
    BY <1>2, <1>4, <1>7 DEF OrderInv, LogNumbered, QueueNumbered
  <2>3. KeptNumbered'
    BY <1>2 DEF OrderInv, KeptNumbered
  <2> QED BY <2>1, <2>2, <2>3
<1>9. QueueInOrder'
  <2>1. \A i, j \in DOMAIN sampleQueue' : i < j => i + n < j + n
    BY <1>3
  <2> QED BY <2>1, <1>5 DEF OrderInv, QueueInOrder
<1>10. LogInOrder'
  <2> SUFFICES ASSUME NEW i \in DOMAIN log', NEW j \in DOMAIN log', i < j,
                      log'[i].fate # "first", log'[j].fate # "first"
               PROVE  log'[i].id < log'[j].id
    BY DEF LogInOrder
  <2>1. CASE j \in DOMAIN log /\ log'[j] = log[j]
    <3>1. i \in DOMAIN log /\ log'[i] = log[i]
      BY <2>1, <1>3, <1>7
    <3> QED BY <2>1, <3>1 DEF OrderInv, LogInOrder
  <2>2. CASE j > k /\ j - k \in DOMAIN sampleQueue
             /\ log'[j].id = sampleQueue[j - k].id
    <3>1. CASE i \in DOMAIN log /\ log'[i] = log[i]
      BY <2>2, <3>1 DEF OrderInv, LogBeforeQueue
    <3>2. CASE i > k /\ i - k \in DOMAIN sampleQueue
               /\ log'[i].id = sampleQueue[i - k].id
      <4>1. i - k < j - k
        BY <1>3
      <4> QED BY <4>1, <2>2, <3>2 DEF OrderInv, QueueInOrder
    <3> QED BY <3>1, <3>2, <1>7
  <2> QED BY <2>1, <2>2, <1>7
<1>11. LogBeforeQueue'
  <2> SUFFICES ASSUME NEW i \in DOMAIN log', NEW j \in DOMAIN sampleQueue',
                      log'[i].fate # "first"
               PROVE  log'[i].id < sampleQueue'[j].id
    BY DEF LogBeforeQueue
  <2>1. CASE i \in DOMAIN log /\ log'[i] = log[i]
    BY <2>1, <1>5 DEF OrderInv, LogBeforeQueue
  <2>2. CASE i - k \in 1 .. n /\ i - k \in DOMAIN sampleQueue
             /\ log'[i].id = sampleQueue[i - k].id
    <3>1. i - k < j + n
      BY <2>2, <1>3
    <3> QED BY <3>1, <2>2, <1>5 DEF OrderInv, QueueInOrder
  <2> QED BY <2>1, <2>2, <1>7
<1>12. KeptInOrder' /\ NoneOfThisRunYet'
  BY <1>2, <1>5 DEF OrderInv, KeptInOrder, NoneOfThisRunYet
<1>13. FirstInOrder'
  BY <1>5, <1>7 DEF OrderInv, FirstInOrder
<1>14. FirstThenLater'
  <2> SUFFICES ASSUME NEW i \in DOMAIN log', NEW j \in DOMAIN log', i < j,
                      log'[i].fate = "first", SampleOnWire(log'[j])
               PROVE  log'[i].id < log'[j].id \/ log'[j].run < log'[i].run
    BY DEF FirstThenLater, SampleOnWire, OnWire
  <2>1. i \in DOMAIN log /\ log'[i] = log[i]
    BY <1>7
  <2>2. CASE j \in DOMAIN log /\ log'[j] = log[j]
    BY <2>1, <2>2 DEF OrderInv, FirstThenLater
  <2>3. CASE /\ j - k \in DOMAIN sampleQueue
             /\ log'[j].id = sampleQueue[j - k].id
             /\ log'[j].run = sampleQueue[j - k].run
             /\ log'[j].kind = sampleQueue[j - k].kind
    <3>1. sampleQueue[j - k].kind = "sample"
      BY <2>3 DEF SampleOnWire
    <3> QED BY <2>1, <2>3, <3>1 DEF OrderInv, FirstInOrder
  <2> QED BY <2>2, <2>3, <1>7
<1>15. NothingBeforeConnect'
  <2>1. ~connected' => \A i \in DOMAIN log' : ~OnWire(log'[i])
    BY <1>2, <1>7 DEF OrderInv, NothingBeforeConnect, OnWire
  <2>2. connected' => firstVideoSample' = NoSample
    BY <1>2 DEF OrderInv, NothingBeforeConnect
  <2>3. \A i, j \in DOMAIN log' : i < j /\ log'[j].fate = "first" => ~OnWire(log'[i])
    <3> SUFFICES ASSUME NEW i \in DOMAIN log', NEW j \in DOMAIN log', i < j,
                        log'[j].fate = "first"
                 PROVE  ~OnWire(log'[i])
      OBVIOUS
    <3>1. j \in DOMAIN log /\ log'[j] = log[j]
      BY <1>7
    <3>2. i \in DOMAIN log /\ log'[i] = log[i]
      BY <3>1, <1>3, <1>7
    <3> QED BY <3>1, <3>2 DEF OrderInv, NothingBeforeConnect
  <2> QED BY <2>1, <2>2, <2>3 DEF NothingBeforeConnect, OnWire
<1> QED BY <1>8, <1>9, <1>10, <1>11, <1>12, <1>13, <1>14, <1>15 DEF OrderInv

LEMMA SetConnectedKeepsOrder ==
    ASSUME TypeOK, TypeOK', OrderInv, SetConnected
    PROVE  OrderInv'
<1>1. /\ ~connected /\ connected'
      /\ UNCHANGED <<sampleQueue, waitingForFirst, accepted, starts>>
  BY DEF SetConnected, queues, ghosts
<1>2. CASE firstVideoSample = NoSample
  <2>1. UNCHANGED <<firstVideoSample, log>>
    BY <1>2 DEF SetConnected, network
  <2> QED BY <1>1, <1>2, <2>1
          DEF OrderInv, QueueNumbered, LogNumbered, KeptNumbered, QueueInOrder,
              LogInOrder, LogBeforeQueue, KeptInOrder, FirstInOrder,
              FirstThenLater, NothingBeforeConnect, NoneOfThisRunYet
<1>3. CASE firstVideoSample # NoSample
  <2> DEFINE k == Len(log)
             e == firstVideoSample
  <2>1. PICK o \in Outcome :
            /\ o.id = e.id /\ o.run = e.run /\ o.fate = "first" /\ o.during = starts
            /\ Len(log') = k + 1 /\ log'[k + 1] = o
            /\ \A i \in 1 .. k : log'[i] = log[i]
            /\ firstVideoSample' = NoSample
    BY <1>3, KeptSampleSent
  <2>2. firstVideoSample' = NoSample
    BY <2>1
  <2>3. k \in Nat /\ DOMAIN log = 1 .. k /\ DOMAIN log' = 1 .. Len(log')
    BY SequencesTyped
  <2>4. /\ DOMAIN log' = 1 .. k + 1 /\ log'[k + 1] = o
        /\ \A i \in DOMAIN log : log'[i] = log[i]
    BY <2>1, <2>3
  <2> HIDE DEF k
  <2>5. \A i \in DOMAIN log' :
           \/ i \in DOMAIN log /\ log'[i] = log[i]
           \/ /\ i = k + 1 /\ log'[i].fate = "first"
              /\ log'[i].id = e.id /\ log'[i].run = e.run /\ log'[i].during = starts
    BY <2>1, <2>3, <2>4
  <2>6. /\ \A i \in DOMAIN log : log[i].id \in Nat /\ log[i].run \in Nat
        /\ \A i \in DOMAIN log : ~OnWire(log[i]) /\ log[i].fate # "first"
        /\ starts \in Nat /\ accepted \in Nat
    <3>1. \A i \in DOMAIN log : ~OnWire(log[i])
      BY <1>1 DEF OrderInv, NothingBeforeConnect
    <3> QED BY <3>1, SequencesTyped DEF OnWire
  <2>7. QueueNumbered' /\ QueueInOrder' /\ KeptNumbered' /\ KeptInOrder'
    BY <1>1, <2>2 DEF OrderInv, QueueNumbered, QueueInOrder, KeptNumbered, KeptInOrder
  <2>8. LogNumbered'
    <3>1. starts <= starts
      BY <2>6
    <3> QED BY <3>1, <1>1, <1>3, <2>5 DEF OrderInv, LogNumbered, KeptNumbered
  <2>9. LogInOrder' /\ LogBeforeQueue'
    <3>1. LogInOrder'
      BY <2>5, <2>6 DEF OrderInv, LogInOrder
    <3>2. LogBeforeQueue'
      BY <1>1, <2>5, <2>6 DEF OrderInv, LogBeforeQueue
    <3> QED BY <3>1, <3>2
  <2>10. FirstInOrder'
    BY <1>1, <1>3, <2>5, <2>6 DEF OrderInv, FirstInOrder, KeptInOrder
  <2>11. FirstThenLater'
    <3> SUFFICES ASSUME NEW i \in DOMAIN log', NEW j \in DOMAIN log', i < j,
                        log'[i].fate = "first"
                 PROVE  FALSE
      BY DEF FirstThenLater
    <3>1. i \in DOMAIN log
      BY <2>3, <2>4
    <3> QED BY <3>1, <2>4, <2>6
  <2>12. NothingBeforeConnect'
    <3>1. \A i, j \in DOMAIN log' : i < j => ~OnWire(log'[i])
      <4> SUFFICES ASSUME NEW i \in DOMAIN log', NEW j \in DOMAIN log', i < j
                   PROVE  ~OnWire(log'[i])
        OBVIOUS
      <4>1. i \in DOMAIN log
        BY <2>3, <2>4
      <4> QED BY <4>1, <2>4, <2>6
    <3> QED BY <3>1, <1>1, <2>2 DEF NothingBeforeConnect, OnWire
  <2>13. NoneOfThisRunYet'
    BY <1>1 DEF NoneOfThisRunYet
  <2> QED BY <2>7, <2>8, <2>9, <2>10, <2>11, <2>12, <2>13 DEF OrderInv
<1> QED BY <1>2, <1>3

LEMMA StepKeepsOrder ==
    ASSUME TypeOK, TypeOK', OrderInv, [Next]_vars
    PROVE  OrderInv'
<1> USE DEF OrderInv
<1>1. CASE KeepFirstSample
  <2>1. /\ ~connected /\ waitingForFirst
        /\ accepted' = accepted + 1 /\ ~waitingForFirst'
        /\ UNCHANGED <<sampleQueue, log, connected, starts>>
    BY <1>1 DEF KeepFirstSample, queues, network
  <2>2. /\ firstVideoSample'.kind = "sample"
        /\ firstVideoSample'.id = accepted + 1
        /\ firstVideoSample'.run = starts
    BY <1>1 DEF KeepFirstSample, NewEntry
  <2>3. /\ accepted \in Nat /\ starts \in Nat
        /\ \A i \in DOMAIN sampleQueue : sampleQueue[i].id \in Nat
        /\ \A i \in DOMAIN log : log[i].id \in Nat
    BY SequencesTyped
  <2>4. QueueNumbered' /\ LogNumbered'
    BY <2>1, <2>3 DEF QueueNumbered, LogNumbered
  <2>5. KeptNumbered'
    BY <2>1, <2>2, <2>3 DEF KeptNumbered
  <2>6. KeptInOrder'
    BY <2>1, <2>2, <2>3 DEF KeptInOrder, NoneOfThisRunYet
  <2>7. NothingBeforeConnect' /\ NoneOfThisRunYet'
    BY <2>1 DEF NothingBeforeConnect, NoneOfThisRunYet
  <2> QED BY <2>1, <2>4, <2>5, <2>6, <2>7
          DEF QueueInOrder, LogInOrder, LogBeforeQueue, FirstInOrder, FirstThenLater
<1>2. CASE Start
  <2>1. /\ starts' = starts + 1
        /\ UNCHANGED <<sampleQueue, log, firstVideoSample, connected, accepted>>
    BY <1>2 DEF Start, network
  <2>2. /\ starts \in Nat
        /\ \A i \in DOMAIN sampleQueue : sampleQueue[i].run \in Nat
        /\ \A i \in DOMAIN log : log[i].run \in Nat /\ log[i].during \in Nat
        /\ firstVideoSample # NoSample => firstVideoSample.run \in Nat
    BY SequencesTyped DEF TypeOK, ObjectOK, Entry
  <2>3. QueueNumbered' /\ NoneOfThisRunYet'
    BY <2>1, <2>2 DEF QueueNumbered, NoneOfThisRunYet
  <2>4. LogNumbered' /\ KeptNumbered'
    BY <2>1, <2>2 DEF LogNumbered, KeptNumbered
  <2> QED BY <2>1, <2>3, <2>4
          DEF QueueInOrder, LogInOrder, LogBeforeQueue, KeptInOrder, FirstInOrder,
              FirstThenLater, NothingBeforeConnect
<1>3. CASE Shutdown
  <2>1. /\ sampleQueue' = <<>>
        /\ UNCHANGED <<log, firstVideoSample, connected, waitingForFirst,
                       accepted, starts>>
    BY <1>3 DEF Shutdown, network, ghosts
  <2>2. DOMAIN sampleQueue' = {}
    BY <2>1
  <2> QED BY <2>1, <2>2
          DEF QueueNumbered, LogNumbered, KeptNumbered, QueueInOrder,
              LogInOrder, LogBeforeQueue, KeptInOrder, FirstInOrder,
              FirstThenLater, NothingBeforeConnect, NoneOfThisRunYet
<1>4. CASE UNCHANGED orderVars
  BY <1>4 DEF orderVars, QueueNumbered, LogNumbered, KeptNumbered, QueueInOrder,
              LogInOrder, LogBeforeQueue, KeptInOrder, FirstInOrder,
              FirstThenLater, NothingBeforeConnect, NoneOfThisRunYet
<1> QED BY <1>1, <1>2, <1>3, <1>4, OrderSteps, AddsKeepsOrder,
           TakesKeepsOrder, SetConnectedKeepsOrder

LEMMA OrderHolds == Spec => []OrderInv
<1>1. Init => OrderInv
  <2> SUFFICES ASSUME Init PROVE OrderInv
    OBVIOUS
  <2>1. /\ DOMAIN sampleQueue = {} /\ DOMAIN log = {}
        /\ firstVideoSample = NoSample /\ ~connected
    BY DEF Init
  <2> QED BY <2>1
          DEF OrderInv, QueueNumbered, LogNumbered, KeptNumbered, QueueInOrder,
              LogInOrder, LogBeforeQueue, KeptInOrder, FirstInOrder,
              FirstThenLater, NothingBeforeConnect, NoneOfThisRunYet
<1>2. TypeOK /\ TypeOK' /\ OrderInv /\ [Next]_vars => OrderInv'
  BY StepKeepsOrder
<1> QED BY <1>1, <1>2, TypeCorrect, PTL DEF Spec

(* Samples reach the client, and markers the pipeline, in the order in     *)
(* which they were handed in; only the kept first sample of a run may go   *)
(* ahead of samples of earlier runs.                                       *)
THEOREM InOrderHolds == Spec => []InOrder
<1>1. OrderInv => SamplesInOrder
  <2> SUFFICES ASSUME OrderInv, NEW i \in DOMAIN log, NEW j \in DOMAIN log, i < j,
                      SampleOnWire(log[i]), SampleOnWire(log[j])
               PROVE  \/ log[i].id < log[j].id
                      \/ log[i].fate = "first" /\ log[j].run < log[i].run
    BY DEF SamplesInOrder
  <2>1. CASE log[i].fate = "first"
    BY <2>1 DEF OrderInv, FirstThenLater
  <2>2. CASE log[i].fate # "first" /\ log[j].fate # "first"
    BY <2>2 DEF OrderInv, LogInOrder
  <2>3. log[j].fate # "first"
    BY DEF OrderInv, NothingBeforeConnect, SampleOnWire
  <2> QED BY <2>1, <2>2, <2>3
<1>2. OrderInv => MarkerAfterQueuedSamples
  BY DEF OrderInv, LogInOrder, MarkerAfterQueuedSamples
<1>3. OrderInv => InOrder
  BY <1>1, <1>2 DEF InOrder
<1> QED BY <1>3, OrderHolds, PTL
-----------------------------------------------------------------------------
(* Shutdown empties the queue, and what is still pending finds it empty.   *)
LEMMA EmptySend ==
    ASSUME TypeOK, sampleQueue = <<>>, SendOrDrop
    PROVE  UNCHANGED <<sampleQueue, log, sending>>
<1>1. PICK n \in 0 .. Len(sampleQueue) : Took(n)
  BY SendOrDropTakes
<1>2. Len(sampleQueue) = 0 /\ n = 0
  BY EmptySeq
<1>3. log' = log
  <2>1. /\ log \in Seq(Outcome) /\ log' \in Seq(Outcome)
        /\ Len(log) \in Nat /\ Len(log') = Len(log) + 0
        /\ \A i \in 1 .. Len(log) : log'[i] = log[i]
    BY <1>1, <1>2, LenProperties DEF Took, TypeOK, QueuesOK
  <2>2. Len(log') = Len(log)
    BY <2>1
  <2> QED BY <2>1, <2>2, SeqEqual
<1>4. sampleQueue' = sampleQueue
  <2>1. sampleQueue' \in Seq(Entry) /\ Len(sampleQueue') = 0
    BY <1>1, <1>2 DEF Took
  <2>2. sampleQueue' = <<>>
    BY <2>1, EmptySeq
  <2> QED BY <2>2
<1>5. sending' = sending
  <2>1. CASE connected
    <3>1. LastTaken \in 0 .. Len(sampleQueue)
      BY LastTakenInQueue DEF TypeOK
    <3>2. Sends = {}
      BY <1>2, <3>1 DEF Sends
    <3>3. Added = {}
      BY <3>2 DEF Added
    <3>4. sending' = sending \cup Added
      BY <2>1, SendTakes DEF SendOrDrop
    <3> QED BY <3>3, <3>4
  <2>2. CASE ~connected
    BY <2>2, DropTakes DEF SendOrDrop
  <2> QED BY <2>1, <2>2
<1> QED BY <1>3, <1>4, <1>5

LEMMA AfterShutdown ==
    ASSUME TypeOK, ShutdownDrained, isShutdown, [Next]_vars
    PROVE  /\ UNCHANGED <<isShutdown, log, announced, failed, sampleQueue>>
           /\ sending' \subseteq sending
           /\ requests' <= requests
<1>1. sampleQueue = <<>>
  BY DEF ShutdownDrained
<1>2. requests \in Nat /\ requests <= requests
  BY DEF TypeOK, CountersOK
<1>3. CASE DispatchWorkItem
  <2>1. UNCHANGED <<isShutdown, failed>>
    BY <1>3 DEF DispatchWorkItem, DispatchStart, DispatchStop, DispatchSample,
                DispatchMarkerOrType, Dispatching, object
  <2>2. announced' = announced /\ requests' = requests
    BY <1>3 DEF DispatchWorkItem, DispatchStart, DispatchStop, DispatchSample,
                DispatchMarkerOrType, RequestSample
  <2>3. UNCHANGED <<sampleQueue, log, sending>>
    <3>1. CASE SendOrDrop
      BY <1>1, <3>1, EmptySend
    <3>2. CASE DispatchStop
      <4>1. sampleQueue' = sampleQueue /\ sending' = sending
        BY <1>1, <3>2 DEF DispatchStop, DropSamplesFromQueue
      <4>2. Took(Len(sampleQueue))
        BY <3>2, DropTakes DEF DispatchStop
      <4>3. Len(sampleQueue) = 0
        BY <1>1, EmptySeq
      <4>4. /\ log \in Seq(Outcome) /\ log' \in Seq(Outcome)
            /\ Len(log) \in Nat /\ Len(log') = Len(log) + 0
            /\ \A i \in 1 .. Len(log) : log'[i] = log[i]
        BY <4>2, <4>3, LenProperties DEF Took, TypeOK, QueuesOK
      <4>5. Len(log') = Len(log)
        BY <4>4
      <4>6. log' = log
        BY <4>4, <4>5, SeqEqual
      <4> QED BY <4>1, <4>6
    <3>3. CASE UNCHANGED <<sampleQueue, network>>
      BY <3>3 DEF network
    <3> QED BY <1>3, <3>1, <3>2, <3>3
            DEF DispatchWorkItem, DispatchStart, DispatchSample, DispatchMarkerOrType
  <2> QED BY <1>2, <2>1, <2>2, <2>3
<1>4. CASE SendCompleted
  <2>1. PICK p \in sending : SendSucceeded(p) \/ SendFailed(p)
    BY <1>4 DEF SendCompleted
  <2>2. CASE SendSucceeded(p)
    BY <1>2, <2>2 DEF SendSucceeded, RequestSample, object, queues
  <2>3. CASE SendFailed(p)
    <3>1. failed' = failed
      BY <2>3 DEF SendFailed, TypeOK, CountersOK
    <3> QED BY <1>2, <2>3, <3>1 DEF SendFailed, object, queues
  <2> QED BY <2>1, <2>2, <2>3
<1>5. CASE RefuseSample
  <2>1. requests' = requests - 1
    BY <1>5 DEF RefuseSample
  <2> QED BY <1>2, <1>5, <2>1 DEF RefuseSample, object, queues, network
<1>6. CASE UNCHANGED vars
  BY <1>2, <1>6 DEF vars, object, queues, network, events
<1>7. \/ DispatchWorkItem \/ SendCompleted \/ RefuseSample
      \/ UNCHANGED vars
  BY DEF Next, Pipeline, Sink, SetFirstMediaType, ChangeMediaType,
         KeepFirstSample, QueueSample, PlaceMarker, Flush, Start, Stop,
         SetConnected, Shutdown
<1> QED BY <1>3, <1>4, <1>5, <1>6, <1>7

LEMMA DrainedHolds == Spec => []ShutdownDrained
<1>1. Init => ShutdownDrained
  BY DEF Init, ShutdownDrained
<1>2. TypeOK /\ ShutdownDrained /\ [Next]_vars => ShutdownDrained'
  <2> SUFFICES ASSUME TypeOK, ShutdownDrained, [Next]_vars, isShutdown'
               PROVE  sampleQueue' = <<>>
    BY DEF ShutdownDrained
  <2>1. CASE isShutdown
    BY <2>1, AfterShutdown DEF ShutdownDrained
  <2>2. CASE ~isShutdown
    <3>1. CASE Shutdown
      BY <3>1 DEF Shutdown
    <3>2. CASE DispatchWorkItem
      <4>1. isShutdown' = isShutdown
        BY <3>2 DEF DispatchWorkItem, DispatchStart, DispatchStop,
                    DispatchSample, DispatchMarkerOrType, Dispatching, object
      <4> QED BY <2>2, <4>1
    <3>3. CASE SendCompleted
      <4>1. isShutdown' = isShutdown
        BY <3>3 DEF SendCompleted, SendSucceeded, SendFailed, object
      <4> QED BY <2>2, <4>1
    <3>4. CASE Pipeline \/ Start \/ Stop \/ SetConnected \/ UNCHANGED vars
      <4>1. isShutdown' = isShutdown
        BY <3>4 DEF Pipeline, SetFirstMediaType, ChangeMediaType, RefuseSample,
                    KeepFirstSample, QueueSample, PlaceMarker, Flush, Start, Stop,
                    SetConnected, vars, object
      <4> QED BY <2>2, <4>1
    <3> QED BY <3>1, <3>2, <3>3, <3>4 DEF Next, Sink
  <2> QED BY <2>1, <2>2
<1> QED BY <1>1, <1>2, TypeCorrect, PTL DEF Spec

(* Whatever was pending when the stream was shut down, nothing is sent,    *)
(* reported or announced afterwards.                                       *)
THEOREM SilentAfterShutdownHolds == Spec => SilentAfterShutdown
<1>1. TypeOK /\ ShutdownDrained /\ [Next]_vars =>
          [isShutdown => /\ UNCHANGED <<log, announced, failed, sampleQueue>>
                         /\ sending' \subseteq sending
                         /\ requests' <= requests]_vars
  BY AfterShutdown
<1> QED BY <1>1, TypeCorrect, DrainedHolds, PTL DEF Spec, SilentAfterShutdown
-----------------------------------------------------------------------------
LEMMA FirstIsKeptHolds == Spec => []FirstIsKept
<1>1. Init => FirstIsKept
  BY DEF Init, FirstIsKept
<1>2. TypeOK /\ OrderInv /\ FirstIsKept /\ [Next]_vars => FirstIsKept'
  <2> SUFFICES ASSUME TypeOK, OrderInv, FirstIsKept, [Next]_vars,
                      ~connected', isVideo', state' = "Started"
               PROVE  IF waitingForFirst'
                      THEN firstOfRun' = 0
                      ELSE /\ firstVideoSample' # NoSample
                           /\ firstVideoSample'.id = firstOfRun'
    BY DEF FirstIsKept
  <2>1. CASE KeepFirstSample
    <3>1. /\ waitingForFirst /\ ~waitingForFirst' /\ isVideo' = isVideo
          /\ state' = state /\ connected' = connected
          /\ \E t \in Times : firstVideoSample' = NewEntry("sample", t)
          /\ firstOfRun' = IF firstOfRun = 0 THEN accepted + 1 ELSE firstOfRun
      BY <2>1 DEF KeepFirstSample
    <3>2. firstOfRun = 0
      BY <3>1 DEF FirstIsKept
    <3>3. firstVideoSample' # NoSample /\ firstVideoSample'.id = accepted + 1
      BY <3>1 DEF NewEntry, NoSample
    <3> QED BY <3>1, <3>2, <3>3
  <2>2. CASE QueueSample
    <3>1. /\ UNCHANGED <<object, firstVideoSample>>
          /\ ~(waitingForFirst /\ ~connected)
          /\ firstOfRun' = IF firstOfRun = 0 THEN accepted + 1 ELSE firstOfRun
      BY <2>2 DEF QueueSample
    <3>2. ~waitingForFirst /\ firstVideoSample # NoSample
          /\ firstVideoSample.id = firstOfRun
      BY <3>1 DEF FirstIsKept, object
    <3>3. 1 <= firstVideoSample.id
      BY <3>2 DEF OrderInv, KeptNumbered
    <3>4. firstOfRun # 0
      BY <3>2, <3>3
    <3> QED BY <3>1, <3>2, <3>4 DEF object
  <2>3. CASE Start
    BY <2>3 DEF Start
  <2>4. CASE SetFirstMediaType \/ Stop \/ SetConnected
    BY <2>4 DEF SetFirstMediaType, Stop, SetConnected
  <2>5. CASE UNCHANGED <<state, isVideo, connected, waitingForFirst,
                         firstVideoSample, firstOfRun>>
    BY <2>5 DEF FirstIsKept
  <2>6. CASE ChangeMediaType \/ RefuseSample \/ PlaceMarker \/ Flush \/ Shutdown
             \/ UNCHANGED vars
    BY <2>5, <2>6 DEF ChangeMediaType, RefuseSample, PlaceMarker, Flush,
                      Shutdown, vars, object, ghosts
  <2>7. CASE DispatchWorkItem
    BY <2>5, <2>7 DEF DispatchWorkItem, DispatchStart, DispatchStop,
                  DispatchSample, DispatchMarkerOrType, Dispatching, object, ghosts
  <2>8. CASE SendCompleted
    BY <2>5, <2>8 DEF SendCompleted, SendSucceeded, SendFailed, object, ghosts
  <2> QED BY <2>1, <2>2, <2>3, <2>4, <2>6, <2>7, <2>8 DEF Next, Pipeline, Sink
<1> QED BY <1>1, <1>2, TypeCorrect, OrderHolds, PTL DEF Spec

(* The client that connects to a running video stream is sent the first    *)
(* sample of the run at once, however long ago the run began.              *)
THEOREM FirstFrameOnConnectHolds == Spec => FirstFrameOnConnect
<1> DEFINE Kept ==
       ~connected /\ connected' /\ isVideo /\ state = "Started" /\ firstOfRun # 0
          => /\ Len(log') = Len(log) + 1
             /\ log'[Len(log')].fate = "first"
             /\ log'[Len(log')].id = firstOfRun
<1>1. TypeOK /\ FirstIsKept /\ [Next]_vars => [Kept]_vars
  <2> SUFFICES ASSUME TypeOK, FirstIsKept, [Next]_vars,
                      ~connected, connected', isVideo, state = "Started",
                      firstOfRun # 0
               PROVE  /\ Len(log') = Len(log) + 1
                      /\ log'[Len(log')].fate = "first"
                      /\ log'[Len(log')].id = firstOfRun
    OBVIOUS
  <2>1. SetConnected
    <3>1. CASE DispatchWorkItem
      BY <3>1 DEF DispatchWorkItem, DispatchStart, DispatchStop, DispatchSample,
                  DispatchMarkerOrType, Dispatching, object
    <3>2. CASE SendCompleted
      BY <3>2 DEF SendCompleted, SendSucceeded, SendFailed, object
    <3>3. CASE Pipeline \/ Start \/ Stop \/ Shutdown \/ UNCHANGED vars
      BY <3>3 DEF Pipeline, SetFirstMediaType, ChangeMediaType, RefuseSample,
                  KeepFirstSample, QueueSample, PlaceMarker, Flush, Start, Stop,
                  Shutdown, vars, object
    <3> QED BY <3>1, <3>2, <3>3 DEF Next, Sink
  <2>2. firstVideoSample # NoSample /\ firstVideoSample.id = firstOfRun
    BY DEF FirstIsKept
  <2>3. PICK o \in Outcome :
            /\ o.id = firstVideoSample.id /\ o.fate = "first"
            /\ Len(log') = Len(log) + 1 /\ log'[Len(log) + 1] = o
    BY <2>1, <2>2, KeptSampleSent
  <2> QED BY <2>2, <2>3
<1> QED BY <1>1, TypeCorrect, FirstIsKeptHolds, PTL DEF Spec, FirstFrameOnConnect
-----------------------------------------------------------------------------
(* Times.  What matters for them changes in one of these ways only.        *)
timeVars == <<log, timing, starts>>

TakesInTime ==
    /\ \E n \in 0 .. Len(sampleQueue) : Took(n) /\ SentOnTime(n)
    /\ UNCHANGED starts

LEMMA TimeSteps ==
    ASSUME TypeOK, [Next]_vars
    PROVE  \/ Adds /\ UNCHANGED timing
           \/ TakesInTime \/ Start \/ SetConnected
           \/ Shutdown \/ UNCHANGED timeVars
<1>1. CASE ChangeMediaType \/ QueueSample \/ PlaceMarker
  <2>1. UNCHANGED timing
    BY <1>1 DEF ChangeMediaType, QueueSample, PlaceMarker
  <2> QED BY <1>1, <2>1, EntryAdded
<1>2. CASE Flush
  <2>1. Took(Len(sampleQueue)) /\ SentOnTime(Len(sampleQueue))
    BY <1>2, DropTakes DEF Flush
  <2>2. Len(sampleQueue) \in 0 .. Len(sampleQueue)
    BY LenProperties DEF TypeOK, QueuesOK
  <2>3. UNCHANGED starts
    BY <1>2 DEF Flush, ghosts
  <2> QED BY <2>1, <2>2, <2>3 DEF TakesInTime
<1>3. CASE DispatchWorkItem
  <2>1. \E n \in 0 .. Len(sampleQueue) : Took(n) /\ SentOnTime(n)
    BY <1>3, DispatchTakes
  <2>2. UNCHANGED ghosts
    BY <1>3 DEF DispatchWorkItem, DispatchStart, DispatchStop, DispatchSample,
                DispatchMarkerOrType, Dispatching
  <2> QED BY <2>1, <2>2 DEF TakesInTime, ghosts
<1>4. CASE SetFirstMediaType \/ RefuseSample \/ KeepFirstSample \/ Stop
           \/ UNCHANGED vars
  BY <1>4 DEF SetFirstMediaType, RefuseSample, KeepFirstSample, Stop, vars,
              queues, network, ghosts, timeVars
<1>5. CASE SendCompleted
  BY <1>5 DEF SendCompleted, SendSucceeded, SendFailed, queues, ghosts, timeVars
<1> QED BY <1>1, <1>2, <1>3, <1>4, <1>5 DEF Next, Pipeline, Sink

TimesInv == TimesFromStart /\ TimesKeepDistance

LEMMA TakesKeepsTimes ==
    ASSUME TypeOK, TypeOK', TimesInv, TakesInTime
    PROVE  TimesInv'
<1> DEFINE k == Len(log)
<1>1. PICK n \in 0 .. Len(sampleQueue) : Took(n) /\ SentOnTime(n)
  BY DEF TakesInTime
<1>2. starts' = starts
  BY DEF TakesInTime
<1>3. /\ k \in Nat /\ n \in Nat /\ DOMAIN log = 1 .. k
      /\ DOMAIN log' = 1 .. k + n
      /\ Len(sampleQueue) \in Nat /\ n <= Len(sampleQueue)
      /\ DOMAIN sampleQueue = 1 .. Len(sampleQueue)
      /\ startTime \in Nat
  <2>1. DOMAIN log' = 1 .. Len(log')
    BY SequencesTyped
  <2>2. Len(sampleQueue) \in Nat /\ DOMAIN sampleQueue = 1 .. Len(sampleQueue)
        /\ Len(log) \in Nat /\ DOMAIN log = 1 .. Len(log)
        /\ startTime \in Nat
    BY SequencesTyped
  <2> QED BY <2>1, <2>2, <1>1 DEF Took
<1>4. \A i \in DOMAIN log : log[i].ts \in Nat /\ log[i].time \in Nat
  BY SequencesTyped
<1>5. \A i \in DOMAIN log' : i <= k => i \in DOMAIN log /\ log'[i] = log[i]
  BY <1>1, <1>3 DEF Took
<1>6. \A i \in DOMAIN log' : i > k => i - k \in 1 .. n /\ k + (i - k) = i
  BY <1>3
<1>7. CASE UNCHANGED timing /\ \A i \in 1 .. n : ~SampleOnWire(log'[k + i])
  <2>1. \A i \in DOMAIN log' : SampleOnWire(log'[i]) =>
            i \in DOMAIN log /\ log'[i] = log[i]
    <3>1. TAKE i \in DOMAIN log'
    <3>2. CASE i <= k
      BY <3>2, <1>5
    <3>3. CASE i > k
      BY <3>3, <1>6, <1>7
    <3> QED BY <3>2, <3>3, <1>3
  <2>2. startTime' = startTime /\ startFromSample' = startFromSample
    BY <1>7 DEF timing
  <2>3. TimesFromStart'
    BY <2>1, <2>2, <1>2 DEF TimesInv, TimesFromStart
  <2>4. TimesKeepDistance'
    BY <2>1 DEF TimesInv, TimesKeepDistance
  <2> QED BY <2>3, <2>4 DEF TimesInv
<1>8. CASE /\ n >= 1 /\ sampleQueue[n].time >= startTime
           /\ StartTimeAfter(sampleQueue[n])
           /\ log'[k + n].ts = Timestamp(sampleQueue[n])
           /\ \A i \in 1 .. n : SampleOnWire(log'[k + i]) => i = n
  <2> DEFINE t == sampleQueue[n].time
             o == log'[k + n]
  <2>1. t \in Nat /\ t >= startTime /\ o.time = t /\ o.during = starts
    <3>1. n \in 1 .. n /\ n \in DOMAIN sampleQueue
      BY <1>3, <1>8
    <3>2. TakenAs(sampleQueue[n], o)
      BY <3>1, <1>1 DEF Took
    <3> QED BY <3>1, <3>2, <1>8, SequencesTyped DEF TakenAs
  <2>2. /\ startTime' = IF startFromSample THEN t ELSE startTime
        /\ startFromSample' = FALSE
        /\ o.ts = IF startFromSample THEN 0 ELSE t - startTime
    BY <1>8 DEF StartTimeAfter, Timestamp
  <2>3. \A i \in DOMAIN log' : SampleOnWire(log'[i]) =>
            \/ i <= k /\ i \in DOMAIN log /\ log'[i] = log[i]
            \/ i = k + n
    <3>1. TAKE i \in DOMAIN log'
    <3>2. CASE i <= k
      BY <3>2, <1>5
    <3>3. CASE i > k
      BY <3>3, <1>6, <1>8
    <3> QED BY <3>2, <3>3, <1>3
  <2> HIDE DEF t, o
  <2>4. o.ts + startTime' = o.time /\ startTime' \in Nat /\ o.ts \in Nat
    BY <2>1, <2>2, <1>3
  <2>5. \A i \in DOMAIN log : SampleOnWire(log[i]) /\ log[i].during = starts =>
            /\ startTime' = startTime
            /\ \/ log[i].ts + startTime = log[i].time
               \/ log[i].fate = "first" /\ log[i].ts = 0 /\ log[i].time <= startTime
    BY <2>2 DEF TimesInv, TimesFromStart
  <2>6. TimesFromStart'
    <3> SUFFICES ASSUME NEW i \in DOMAIN log', SampleOnWire(log'[i]),
                        log'[i].during = starts'
                 PROVE  /\ ~startFromSample'
                        /\ \/ log'[i].ts + startTime' = log'[i].time
                           \/ /\ log'[i].fate = "first" /\ log'[i].ts = 0
                              /\ log'[i].time <= startTime'
      BY DEF TimesFromStart
    <3>1. CASE i \in DOMAIN log /\ log'[i] = log[i]
      BY <3>1, <2>2, <2>5, <1>2
    <3>2. CASE i = k + n
      BY <3>2, <2>2, <2>4 DEF o
    <3> QED BY <3>1, <3>2, <2>3
  <2>7. TimesKeepDistance'
    <3> SUFFICES ASSUME NEW i \in DOMAIN log', NEW j \in DOMAIN log', i < j,
                        SampleOnWire(log'[i]), SampleOnWire(log'[j]),
                        log'[i].during = log'[j].during
                 PROVE  \/ log'[j].ts - log'[i].ts = log'[j].time - log'[i].time
                        \/ /\ log'[i].fate = "first" /\ log'[i].ts = 0
                           /\ log'[j].ts <= log'[j].time - log'[i].time
      BY DEF TimesKeepDistance
    <3>1. CASE j <= k /\ j \in DOMAIN log /\ log'[j] = log[j]
      <4>1. i \in DOMAIN log /\ log'[i] = log[i]
        BY <3>1, <1>3, <1>5
      <4> QED BY <3>1, <4>1 DEF TimesInv, TimesKeepDistance
    <3>2. CASE j = k + n
      <4>1. i \in DOMAIN log /\ log'[i] = log[i]
        BY <3>2, <2>3, <1>3
      <4>2. log[i].during = starts /\ SampleOnWire(log[i]) /\ log'[j] = o
        BY <3>2, <4>1, <2>1 DEF o
      <4>3. \/ log[i].ts + startTime' = log[i].time
            \/ log[i].fate = "first" /\ log[i].ts = 0 /\ log[i].time <= startTime'
        BY <4>1, <4>2, <2>5
      <4>4. log[i].ts \in Nat /\ log[i].time \in Nat
        BY <4>1, <1>4
      <4>5. \/ o.ts - log[i].ts = o.time - log[i].time
            \/ /\ log[i].fate = "first" /\ log[i].ts = 0
               /\ o.ts <= o.time - log[i].time
        <5>1. /\ startTime' \in Nat /\ o.ts \in Nat /\ o.time \in Nat
              /\ o.ts + startTime' = o.time
          BY <2>1, <2>4
        <5>2. CASE log[i].ts + startTime' = log[i].time
          <6>1. o.ts - log[i].ts = o.time - log[i].time
            BY <5>1, <5>2, <4>4
          <6> QED BY <6>1
        <5>3. CASE log[i].fate = "first" /\ log[i].ts = 0 /\ log[i].time <= startTime'
          <6>1. o.ts <= o.time - log[i].time
            BY <5>1, <5>3, <4>4
          <6> QED BY <5>3, <6>1
        <5> QED BY <4>3, <5>2, <5>3
      <4> QED BY <4>1, <4>2, <4>5
    <3> QED BY <3>1, <3>2, <2>3
  <2> QED BY <2>6, <2>7 DEF TimesInv
<1> QED BY <1>1, <1>7, <1>8 DEF SentOnTime

LEMMA StepKeepsTimes ==
    ASSUME TypeOK, TypeOK', OrderInv, TimesInv, [Next]_vars
    PROVE  TimesInv'
<1> USE DEF TimesInv
<1>1. ASSUME UNCHANGED <<log, startTime, startFromSample, starts>>
      PROVE  TimesInv'
  BY <1>1 DEF TimesFromStart, TimesKeepDistance
<1>2. CASE TakesInTime
  BY <1>2, TakesKeepsTimes
<1>3. CASE Start
  <2>1. starts' = starts + 1 /\ log' = log
    BY <1>3 DEF Start, network
  <2>2. \A i \in DOMAIN log : log[i].during # starts'
    BY <2>1, SequencesTyped DEF OrderInv, LogNumbered
  <2>3. TimesFromStart'
    BY <2>1, <2>2 DEF TimesFromStart
  <2> QED BY <2>1, <2>3 DEF TimesKeepDistance
<1>4. CASE SetConnected
  <2>1. \A i \in DOMAIN log : ~SampleOnWire(log[i])
    BY <1>4 DEF SetConnected, OrderInv, NothingBeforeConnect, SampleOnWire
  <2>2. CASE firstVideoSample = NoSample
    <3>1. log' = log
      BY <1>4, <2>2 DEF SetConnected, network
    <3> QED BY <3>1, <2>1 DEF TimesFromStart, TimesKeepDistance
  <2>3. CASE firstVideoSample # NoSample
    <3> DEFINE k == Len(log)
    <3>1. PICK o \in Outcome :
              /\ o.fate = "first"
              /\ (o.ts + startTime' = o.time) \/ (o.ts = 0 /\ o.time <= startTime')
              /\ Len(log') = k + 1 /\ log'[k + 1] = o
              /\ \A i \in 1 .. k : log'[i] = log[i]
              /\ startFromSample' = FALSE
      BY <1>4, <2>3, KeptSampleSent
    <3>2. k \in Nat /\ DOMAIN log = 1 .. k /\ DOMAIN log' = 1 .. k + 1
      BY <3>1, SequencesTyped
    <3>3. \A i \in DOMAIN log' : SampleOnWire(log'[i]) => i = k + 1 /\ log'[i] = o
      BY <3>1, <3>2, <2>1
    <3> HIDE DEF k
    <3>4. TimesFromStart'
      BY <3>1, <3>3 DEF TimesFromStart
    <3>5. TimesKeepDistance'
      BY <3>2, <3>3 DEF TimesKeepDistance
    <3> QED BY <3>4, <3>5
  <2> QED BY <2>2, <2>3
<1>5. CASE Adds /\ UNCHANGED timing
  BY <1>1, <1>5 DEF Adds, timing
<1>6. CASE Shutdown
  BY <1>1, <1>6 DEF Shutdown, network, ghosts, timing
<1>7. CASE UNCHANGED timeVars
  BY <1>1, <1>7 DEF timeVars, timing
<1> QED BY <1>2, <1>3, <1>4, <1>5, <1>6, <1>7, TimeSteps

(* Within a run the samples keep the distance of their times on the way to *)
(* the client, also across the connection, where the start time is set     *)
(* anew; only a kept sample that is older than it comes closer.            *)
THEOREM TimesKeepDistanceHolds == Spec => []TimesKeepDistance
<1>1. Init => TimesInv
  BY DEF Init, TimesInv, TimesFromStart, TimesKeepDistance
<1>2. TypeOK /\ TypeOK' /\ OrderInv /\ TimesInv /\ [Next]_vars => TimesInv'
  BY StepKeepsTimes
<1>3. TimesInv => TimesKeepDistance
  BY DEF TimesInv
<1> QED BY <1>1, <1>2, <1>3, TypeCorrect, OrderHolds, PTL DEF Spec
-----------------------------------------------------------------------------
(* Queue and work items.  What matters for them changes in one of these    *)
(* ways only.                                                              *)
itemVars == <<sampleQueue, workItems, state, isShutdown, announced, stops>>

Calls(op) ==
    /\ QueueAsyncOperation(op)
    /\ state' = IF op = "OpStart" THEN "Started" ELSE "Stopped"
    /\ stops' = IF op = "OpStart" THEN stops ELSE stops + 1
    /\ UNCHANGED <<sampleQueue, isShutdown, announced>>

Drains ==
    /\ sampleQueue' = <<>>
    /\ isShutdown => isShutdown'
    /\ UNCHANGED <<workItems, state, announced>>

LEMMA ItemSteps ==
    ASSUME TypeOK, [Next]_vars
    PROVE  \/ Adds \/ (\E op \in {"OpStart", "OpStop"} : Calls(op))
           \/ DispatchWorkItem \/ Drains
           \/ state' = "Ready" /\ UNCHANGED <<sampleQueue, workItems, stops>>
           \/ UNCHANGED itemVars
<1>1. CASE ChangeMediaType \/ QueueSample \/ PlaceMarker
  BY <1>1, EntryAdded
<1>2. CASE Start
  <2>1. Calls("OpStart")
    BY <1>2 DEF Start, Calls, events
  <2> QED BY <2>1
<1>3. CASE Stop
  <2>1. Calls("OpStop")
    BY <1>3 DEF Stop, Calls, events
  <2> QED BY <2>1
<1>4. CASE Flush \/ Shutdown
  BY <1>4 DEF Flush, DropSamplesFromQueue, Shutdown, Drains, object, events
<1>5. CASE SetFirstMediaType
  BY <1>5 DEF SetFirstMediaType, queues, ghosts
<1>6. CASE RefuseSample \/ KeepFirstSample \/ SetConnected \/ UNCHANGED vars
  BY <1>6 DEF RefuseSample, KeepFirstSample, SetConnected, vars, object,
              queues, events, ghosts, itemVars
<1>7. CASE SendCompleted
  BY <1>7 DEF SendCompleted, SendSucceeded, SendFailed, object, queues, ghosts,
              itemVars
<1> QED BY <1>1, <1>2, <1>3, <1>4, <1>5, <1>6, <1>7 DEF Next, Pipeline, Sink

LEMMA ItemsTyped ==
    ASSUME TypeOK
    PROVE  /\ Len(workItems) \in Nat /\ DOMAIN workItems = 1 .. Len(workItems)
           /\ \A i \in DOMAIN workItems : workItems[i] \in Operations
  BY LenProperties, ElementOfSeq DEF TypeOK, QueuesOK

(* What is needed to find the items of the next state.                     *)
LEMMA NextItems ==
    ASSUME TypeOK',
           NEW g \in [1 .. Len(sampleQueue') -> 1 .. Len(workItems')],
           \A i, j \in 1 .. Len(sampleQueue') : i < j => g[i] < g[j],
           \A i \in 1 .. Len(sampleQueue') :
              workItems'[g[i]] = OpFor[sampleQueue'[i].kind]
    PROVE  ItemsInOrder'
<1>1. /\ DOMAIN sampleQueue' = 1 .. Len(sampleQueue')
      /\ DOMAIN workItems' = 1 .. Len(workItems')
  BY SequencesTyped, ItemsTyped
<1>2. ItemForEach(g)'
  BY <1>1 DEF ItemForEach
<1>3. g \in [DOMAIN sampleQueue' -> DOMAIN workItems']
  BY <1>1
<1> QED BY <1>2, <1>3, Zenon DEF ItemsInOrder

LEMMA NoItemsNeeded ==
    ASSUME TypeOK', sampleQueue' = <<>>
    PROVE  ItemsInOrder'
<1> DEFINE g == [i \in 1 .. Len(sampleQueue') |-> 1]
<1>1. Len(sampleQueue') = 0
  BY EmptySeq
<1>2. \A i \in 1 .. Len(sampleQueue') : FALSE
  BY <1>1
<1>3. g \in [1 .. Len(sampleQueue') -> 1 .. Len(workItems')]
  BY <1>2
<1> HIDE DEF g
<1> QED BY <1>2, <1>3, NextItems

LEMMA StepKeepsItems ==
    ASSUME TypeOK, TypeOK', ShutdownDrained, ItemsInOrder, [Next]_vars
    PROVE  ItemsInOrder'
<1> DEFINE m == Len(sampleQueue)
           w == Len(workItems)
<1>1. PICK f \in [DOMAIN sampleQueue -> DOMAIN workItems] : ItemForEach(f)
  BY DEF ItemsInOrder
<1>2. /\ m \in Nat /\ DOMAIN sampleQueue = 1 .. m
      /\ w \in Nat /\ DOMAIN workItems = 1 .. w
      /\ DOMAIN sampleQueue' = 1 .. Len(sampleQueue') /\ Len(sampleQueue') \in Nat
      /\ DOMAIN workItems' = 1 .. Len(workItems')
  BY SequencesTyped, ItemsTyped
<1>3. /\ \A i \in 1 .. m : f[i] \in 1 .. w
      /\ \A i, j \in 1 .. m : i < j => f[i] < f[j]
      /\ \A i \in 1 .. m : workItems[f[i]] = OpFor[sampleQueue[i].kind]
  BY <1>1, <1>2 DEF ItemForEach
<1>4. CASE Adds
  <2>1. PICK kind \in Kinds, op \in Operations : op = OpFor[kind] /\ Appended(kind, op)
    BY <1>4 DEF Adds
  <2>2. /\ Len(workItems') = w + 1
        /\ \A i \in 1 .. w : workItems'[i] = workItems[i]
        /\ workItems'[w + 1] = op
    BY <2>1, OperationAppends DEF Appended
  <2>3. /\ Len(sampleQueue') = m + 1
        /\ \A i \in 1 .. m : sampleQueue'[i] = sampleQueue[i]
        /\ sampleQueue'[m + 1].kind = kind
    BY <2>1 DEF Appended
  <2> DEFINE g == [i \in 1 .. m + 1 |-> IF i <= m THEN f[i] ELSE w + 1]
  <2>4. g \in [1 .. m + 1 -> 1 .. w + 1]
    <3> SUFFICES ASSUME NEW i \in 1 .. m + 1
                 PROVE  (IF i <= m THEN f[i] ELSE w + 1) \in 1 .. w + 1
      OBVIOUS
    <3>1. CASE i <= m
      <4>1. f[i] \in 1 .. w
        BY <3>1, <1>2, <1>3
      <4> QED BY <3>1, <4>1, <1>2
    <3>2. CASE ~(i <= m)
      BY <3>2, <1>2
    <3> QED BY <3>1, <3>2
  <2>5. \A i \in 1 .. m + 1 : \/ i \in 1 .. m /\ g[i] = f[i] /\ f[i] \in 1 .. w
                              \/ i = m + 1 /\ g[i] = w + 1
    BY <1>2, <1>3
  <2> HIDE DEF g, m, w
  <2>6. \A i, j \in 1 .. m + 1 : i < j => g[i] < g[j]
    <3> SUFFICES ASSUME NEW i \in 1 .. m + 1, NEW j \in 1 .. m + 1, i < j
                 PROVE  g[i] < g[j]
      OBVIOUS
    <3>1. i \in 1 .. m /\ g[i] = f[i] /\ f[i] \in 1 .. w
      BY <2>5, <1>2
    <3>2. CASE j \in 1 .. m /\ g[j] = f[j]
      BY <3>1, <3>2, <1>3
    <3>3. CASE g[j] = w + 1
      BY <3>1, <3>3, <1>2
    <3> QED BY <3>2, <3>3, <2>5
  <2>7. \A i \in 1 .. m + 1 : workItems'[g[i]] = OpFor[sampleQueue'[i].kind]
    BY <2>1, <2>2, <2>3, <2>5, <1>3
  <2>8. Len(sampleQueue') = m + 1 /\ Len(workItems') = w + 1
    BY <2>2, <2>3
  <2>9. /\ g \in [1 .. Len(sampleQueue') -> 1 .. Len(workItems')]
        /\ \A i, j \in 1 .. Len(sampleQueue') : i < j => g[i] < g[j]
        /\ \A i \in 1 .. Len(sampleQueue') :
              workItems'[g[i]] = OpFor[sampleQueue'[i].kind]
    BY <2>4, <2>6, <2>7, <2>8
  <2> QED BY <2>9, NextItems
<1>5. CASE \E op \in {"OpStart", "OpStop"} : Calls(op)
  <2>1. PICK op \in {"OpStart", "OpStop"} : Calls(op)
    BY <1>5
  <2>2. /\ Len(workItems') = w + 1
        /\ \A i \in 1 .. w : workItems'[i] = workItems[i]
    BY <2>1, OperationAppends, OperationsAre DEF Calls
  <2>3. sampleQueue' = sampleQueue
    BY <2>1 DEF Calls
  <2>4. f \in [DOMAIN sampleQueue' -> DOMAIN workItems']
    BY <2>2, <2>3, <1>2
  <2>5. ItemForEach(f)'
    BY <2>2, <2>3, <1>2, <1>3 DEF ItemForEach
  <2> QED BY <2>4, <2>5 DEF ItemsInOrder
<1>6. CASE DispatchWorkItem
  <2>1. PICK n \in 0 .. m : /\ Took(n)
                            /\ ~isShutdown /\ sampleQueue # <<>> => n >= 1
    BY <1>6, DispatchTakes
  <2>2. PICK ops : Dispatching(ops)
    BY <1>6 DEF DispatchWorkItem, DispatchStart, DispatchStop, DispatchSample,
                DispatchMarkerOrType
  <2>3. /\ Len(workItems') = w - 1
        /\ \A i \in 1 .. w - 1 : workItems'[i] = workItems[i + 1]
    <3>1. /\ Len(workItems') = w - 1
          /\ \A i \in 1 .. Len(workItems') : workItems'[i] = workItems[i + 1]
      BY <2>2, DispatchRemoves
    <3> QED BY <3>1
  <2>4. CASE sampleQueue' = <<>>
    BY <2>4, NoItemsNeeded
  <2>5. CASE sampleQueue' # <<>>
    <3>1. n >= 1 /\ n \in Nat /\ Len(sampleQueue') = m - n
      <4>1. Len(sampleQueue') = m - n /\ n <= m /\ n \in Nat
        BY <2>1, <1>2 DEF Took
      <4>2. Len(sampleQueue') # 0
        BY <2>5, EmptySeq DEF TypeOK, QueuesOK
      <4>3. m # 0
        BY <4>1, <4>2, <1>2
      <4>4. sampleQueue # <<>>
        BY <4>3, EmptySeq
      <4> QED BY <4>1, <4>4, <2>1 DEF ShutdownDrained
    <3> DEFINE g == [i \in 1 .. m - n |-> f[i + n] - 1]
    <3>2. \A i \in 1 .. m - n : /\ i + n \in 1 .. m /\ f[i + n] \in 1 .. w
                                /\ f[1] < f[i + n] /\ f[1] \in 1 .. w
      <4>1. TAKE i \in 1 .. m - n
      <4>2. i + n \in 1 .. m /\ 1 \in 1 .. m /\ 1 < i + n
        BY <3>1, <1>2
      <4> HIDE DEF m, w
      <4> QED BY <4>2, <1>3
    <3>3. \A i \in 1 .. m - n : f[i + n] - 1 \in 1 .. w - 1
      BY <3>2, <1>2
    <3>4. \A i \in 1 .. m - n : g[i] = f[i + n] - 1
      OBVIOUS
    <3>5. g \in [1 .. m - n -> 1 .. w - 1]
      BY <3>3
    <3> HIDE DEF g, m, w
    <3>6. \A i, j \in 1 .. m - n : i < j => g[i] < g[j]
      <4> SUFFICES ASSUME NEW i \in 1 .. m - n, NEW j \in 1 .. m - n, i < j
                   PROVE  g[i] < g[j]
        OBVIOUS
      <4>1. i + n < j + n
        BY <3>1, <1>2
      <4>2. f[i + n] < f[j + n] /\ f[i + n] \in 1 .. w /\ f[j + n] \in 1 .. w
        BY <4>1, <3>2, <1>3
      <4> QED BY <4>2, <3>4, <1>2, SMTT(60)
    <3>7. \A i \in 1 .. m - n : workItems'[g[i]] = OpFor[sampleQueue'[i].kind]
      <4>1. TAKE i \in 1 .. m - n
      <4>2. sampleQueue'[i] = sampleQueue[i + n]
        BY <2>1, <3>1 DEF Took
      <4>3. workItems'[g[i]] = workItems[g[i] + 1] /\ g[i] + 1 = f[i + n]
        <5>1. g[i] \in 1 .. w - 1 /\ g[i] = f[i + n] - 1 /\ f[i + n] \in 1 .. w
          BY <3>2, <3>3, <3>4
        <5>2. workItems'[g[i]] = workItems[g[i] + 1]
          BY <2>3, <5>1
        <5> QED BY <5>1, <5>2, <1>2, SMTT(60)
      <4> QED BY <4>2, <4>3, <3>2, <1>3
    <3>8. Len(sampleQueue') = m - n /\ Len(workItems') = w - 1
      BY <2>3, <3>1
    <3>9. /\ g \in [1 .. Len(sampleQueue') -> 1 .. Len(workItems')]
          /\ \A i, j \in 1 .. Len(sampleQueue') : i < j => g[i] < g[j]
          /\ \A i \in 1 .. Len(sampleQueue') :
                workItems'[g[i]] = OpFor[sampleQueue'[i].kind]
      BY <3>5, <3>6, <3>7, <3>8
    <3> QED BY <3>9, NextItems
  <2> QED BY <2>4, <2>5
<1>7. CASE Drains
  BY <1>7, NoItemsNeeded DEF Drains
<1>8. CASE UNCHANGED <<sampleQueue, workItems>>
  <2>1. f \in [DOMAIN sampleQueue' -> DOMAIN workItems'] /\ ItemForEach(f)'
    BY <1>1, <1>8 DEF ItemForEach
  <2> QED BY <2>1 DEF ItemsInOrder
<1> QED BY <1>4, <1>5, <1>6, <1>7, <1>8, ItemSteps DEF itemVars

LEMMA ItemsHold == Spec => []ItemsInOrder
<1>1. Init => ItemsInOrder
  <2> SUFFICES ASSUME Init PROVE ItemsInOrder
    OBVIOUS
  <2> DEFINE g == [i \in DOMAIN sampleQueue |-> 1]
  <2>1. DOMAIN sampleQueue = {}
    BY DEF Init
  <2>2. g \in [DOMAIN sampleQueue -> DOMAIN workItems]
    BY <2>1
  <2>3. ItemForEach(g)
    BY <2>1 DEF ItemForEach
  <2> HIDE DEF g
  <2> QED BY <2>2, <2>3 DEF ItemsInOrder
<1>2. TypeOK /\ TypeOK' /\ ShutdownDrained /\ ItemsInOrder /\ [Next]_vars
          => ItemsInOrder'
  BY StepKeepsItems
<1> QED BY <1>1, <1>2, TypeCorrect, DrainedHolds, PTL DEF Spec

(* The items of the entries are different items.                           *)
LEMMA ItemsSuffice ==
    ASSUME TypeOK, ItemsInOrder
    PROVE  EntriesHaveItems
<1> DEFINE m == Len(sampleQueue)
<1>1. PICK f \in [DOMAIN sampleQueue -> DOMAIN workItems] : ItemForEach(f)
  BY DEF ItemsInOrder
<1>2. /\ m \in Nat /\ DOMAIN sampleQueue = 1 .. m
      /\ DOMAIN workItems = 1 .. Len(workItems) /\ Len(workItems) \in Nat
  BY SequencesTyped, ItemsTyped
<1>3. \A i \in 1 .. m : f[i] \in DataItems(workItems)
  <2>1. TAKE i \in 1 .. m
  <2>2. f[i] \in DOMAIN workItems /\ workItems[f[i]] = OpFor[sampleQueue[i].kind]
    BY <1>1, <1>2 DEF ItemForEach
  <2>3. sampleQueue[i].kind \in Kinds
    BY <1>2, SequencesTyped
  <2> QED BY <2>2, <2>3 DEF OpFor, Kinds, DataItems
<1>4. \A i, j \in 1 .. m : f[i] = f[j] => i = j
  <2> SUFFICES ASSUME NEW i \in 1 .. m, NEW j \in 1 .. m, i < j
               PROVE  f[i] # f[j]
    BY <1>2
  <2>1. f[i] < f[j] /\ f[i] \in 1 .. Len(workItems)
    BY <1>1, <1>2 DEF ItemForEach
  <2> QED BY <2>1, <1>2
<1>5. IsFiniteSet(DataItems(workItems))
  <2>1. IsFiniteSet(1 .. Len(workItems))
    BY <1>2, FS_Interval
  <2>2. DataItems(workItems) \in SUBSET (1 .. Len(workItems))
    BY <1>2 DEF DataItems
  <2> QED BY <2>1, <2>2, FS_Subset
<1>6. f \in [1 .. m -> DataItems(workItems)]
  BY <1>2, <1>3
<1>7. f \in Injection(1 .. m, DataItems(workItems))
  BY <1>4, <1>6 DEF Injection, IsInjective
<1>8. Cardinality(1 .. m) = m
  <2> HIDE DEF m
  <2>1. 1 \in Int /\ m \in Int
    BY <1>2
  <2>2. Cardinality(1 .. m) = IF 1 > m THEN 0 ELSE m - 1 + 1
    BY <2>1, FS_Interval
  <2> QED BY <2>2, <1>2
<1>9. Cardinality(1 .. m) <= Cardinality(DataItems(workItems))
  BY <1>5, <1>7, FS_Injection
<1> QED BY <1>8, <1>9 DEF EntriesHaveItems

(* Starts and stops are carried out and announced in the order of the      *)
(* calls.                                                                  *)
CallsInv == LastCallPending /\ AnnouncedIsState

IsCall(op) == op \in {"OpStart", "OpStop"}

LEMMA StepKeepsCalls ==
    ASSUME TypeOK, TypeOK', CallsInv, [Next]_vars
    PROVE  CallsInv'
<1> DEFINE w == Len(workItems)
<1> USE DEF CallsInv
<1>1. /\ w \in Nat /\ DOMAIN workItems = 1 .. w
      /\ DOMAIN workItems' = 1 .. Len(workItems') /\ Len(workItems') \in Nat
      /\ DOMAIN sampleQueue = 1 .. Len(sampleQueue) /\ Len(sampleQueue) \in Nat
      /\ DOMAIN sampleQueue' = 1 .. Len(sampleQueue')
  BY SequencesTyped, ItemsTyped
<1>2. CASE Adds
  <2>1. PICK kind \in Kinds, op \in Operations :
            op = OpFor[kind] /\ Appended(kind, op)
    BY <1>2 DEF Adds
  <2>2. UNCHANGED <<state, isShutdown, announced>>
    BY <1>2 DEF Adds, object
  <2>3. /\ Len(workItems') = w + 1
        /\ \A i \in 1 .. w : workItems'[i] = workItems[i]
        /\ ~IsCall(workItems'[w + 1])
    <3>1. ~IsCall(op)
      BY <2>1 DEF OpFor, Kinds, IsCall
    <3> QED BY <2>1, <3>1, OperationAppends DEF Appended
  <2>4. \A i \in DOMAIN workItems' : IsCall(workItems'[i]) =>
            i \in DOMAIN workItems /\ workItems'[i] = workItems[i]
    BY <1>1, <2>3
  <2>5. \A i \in DOMAIN workItems : i \in DOMAIN workItems' /\ workItems'[i] = workItems[i]
    BY <1>1, <2>3
  <2>6. LastCallPending'
    BY <2>2, <2>4, <2>5 DEF LastCallPending, IsCall
  <2>7. AnnouncedIsState'
    BY <2>2, <2>5 DEF AnnouncedIsState
  <2> QED BY <2>6, <2>7
<1>3. CASE \E op \in {"OpStart", "OpStop"} : Calls(op)
  <2>1. PICK op \in {"OpStart", "OpStop"} : Calls(op)
    BY <1>3
  <2>2. /\ Len(workItems') = w + 1
        /\ \A i \in 1 .. w : workItems'[i] = workItems[i]
        /\ workItems'[w + 1] = op
    BY <2>1, OperationAppends, OperationsAre DEF Calls
  <2>3. w + 1 \in DOMAIN workItems'
    BY <1>1, <2>2
  <2>4. LastCallPending'
    <3>1. \A i \in DOMAIN workItems' : i = w + 1 \/ w + 1 > i
      BY <1>1, <2>2
    <3> QED BY <2>1, <2>2, <2>3, <3>1 DEF LastCallPending, Calls
  <2>5. AnnouncedIsState'
    BY <2>2, <2>3 DEF AnnouncedIsState
  <2> QED BY <2>4, <2>5
<1>4. CASE DispatchWorkItem
  <2>1. PICK n \in 0 .. Len(sampleQueue) : Took(n)
    BY <1>4, DispatchTakes
  <2>2. PICK ops : Dispatching(ops)
    BY <1>4 DEF DispatchWorkItem, DispatchStart, DispatchStop, DispatchSample,
                DispatchMarkerOrType
  <2>3. /\ Len(workItems') = w - 1 /\ 1 \in DOMAIN workItems
        /\ \A i \in DOMAIN workItems' :
              i + 1 \in DOMAIN workItems /\ workItems'[i] = workItems[i + 1]
    <3>1. /\ Len(workItems') = w - 1 /\ 1 \in DOMAIN workItems
          /\ \A i \in 1 .. Len(workItems') : workItems'[i] = workItems[i + 1]
      BY <2>2, DispatchRemoves
    <3>2. \A i \in 1 .. Len(workItems') : i + 1 \in DOMAIN workItems
      BY <3>1, <1>1
    <3> QED BY <3>1, <3>2, <1>1
  <2>4. state' = state /\ isShutdown' = isShutdown
    BY <2>2 DEF Dispatching, object
  <2>5. \A j \in DOMAIN workItems : j # 1 =>
            j - 1 \in DOMAIN workItems' /\ workItems'[j - 1] = workItems[j]
    <3>1. TAKE j \in DOMAIN workItems
    <3>2. j # 1 => j - 1 \in DOMAIN workItems' /\ (j - 1) + 1 = j
      BY <1>1, <2>3
    <3> QED BY <3>2, <2>3
  <2>6. LastCallPending'
    <3> SUFFICES ASSUME state' \in {"Started", "Stopped"},
                        NEW i \in DOMAIN workItems', IsCall(workItems'[i]),
                        \A j \in DOMAIN workItems' : j > i => ~IsCall(workItems'[j])
                 PROVE  workItems'[i] = IF state' = "Started" THEN "OpStart" ELSE "OpStop"
      BY DEF LastCallPending, IsCall
    <3>1. \A j \in DOMAIN workItems : j > i + 1 => ~IsCall(workItems[j])
      <4>1. TAKE j \in DOMAIN workItems
      <4>2. j > i + 1 => j # 1 /\ j - 1 > i
        BY <1>1
      <4> QED BY <4>2, <2>5
    <3>2. i + 1 \in DOMAIN workItems /\ workItems'[i] = workItems[i + 1]
      BY <2>3
    <3> QED BY <3>1, <3>2, <2>4 DEF LastCallPending, IsCall
  <2>7. AnnouncedIsState'
    <3> SUFFICES ASSUME state \in {"Started", "Stopped"}, ~isShutdown,
                        \A i \in DOMAIN workItems' : ~IsCall(workItems'[i])
                 PROVE  announced' = state
      BY <2>4 DEF AnnouncedIsState, IsCall
    <3>1. \A j \in DOMAIN workItems : j # 1 => ~IsCall(workItems[j])
      BY <2>5
    <3>2. IsCall(workItems[1]) =>
              workItems[1] = IF state = "Started" THEN "OpStart" ELSE "OpStop"
      <4>1. \A j \in DOMAIN workItems : j > 1 => j # 1
        BY <1>1
      <4> QED BY <4>1, <3>1, <2>3 DEF LastCallPending, IsCall
    <3>3. ~IsCall(workItems[1]) => announced = state
      BY <3>1 DEF AnnouncedIsState, IsCall
    <3>4. CASE DispatchStart
      <4>1. workItems[1] = "OpStart"
        BY <3>4, DispatchRemoves DEF DispatchStart
      <4>2. state = "Started"
        BY <4>1, <3>2 DEF IsCall
      <4> QED BY <3>4, <4>2 DEF DispatchStart
    <3>5. CASE DispatchStop
      <4>1. workItems[1] = "OpStop"
        BY <3>5, DispatchRemoves DEF DispatchStop
      <4>2. state = "Stopped"
        BY <4>1, <3>2 DEF IsCall
      <4> QED BY <3>5, <4>2 DEF DispatchStop
    <3>6. CASE DispatchSample
      <4>1. workItems[1] = "OpProcessSample"
        BY <3>6, DispatchRemoves DEF DispatchSample
      <4> QED BY <3>6, <4>1, <3>3 DEF DispatchSample, IsCall
    <3>7. CASE DispatchMarkerOrType
      <4>1. workItems[1] \in {"OpPlaceMarker", "OpSetMediaType"}
        BY <3>7, DispatchRemoves DEF DispatchMarkerOrType
      <4>2. ~IsCall(workItems[1])
        BY <4>1 DEF IsCall
      <4> QED BY <3>7, <4>2, <3>3 DEF DispatchMarkerOrType
    <3> QED BY <1>4, <3>4, <3>5, <3>6, <3>7 DEF DispatchWorkItem
  <2> QED BY <2>6, <2>7
<1>5. CASE Drains
  BY <1>5 DEF Drains, LastCallPending, AnnouncedIsState
<1>6. CASE state' = "Ready"
  BY <1>6 DEF LastCallPending, AnnouncedIsState
<1>7. CASE UNCHANGED itemVars
  BY <1>7 DEF itemVars, LastCallPending, AnnouncedIsState
<1> QED BY <1>2, <1>3, <1>4, <1>5, <1>6, <1>7, ItemSteps

LEMMA CallsHold == Spec => []CallsInv
<1>1. Init => CallsInv
  BY DEF Init, CallsInv, LastCallPending, AnnouncedIsState
<1>2. TypeOK /\ TypeOK' /\ CallsInv /\ [Next]_vars => CallsInv'
  BY StepKeepsCalls
<1> QED BY <1>1, <1>2, TypeCorrect, PTL DEF Spec

(* Counting.                                                               *)
LEMMA SubsetCounts ==
    ASSUME NEW T, IsFiniteSet(T), NEW S \in SUBSET T
    PROVE  /\ IsFiniteSet(S) /\ Cardinality(S) <= Cardinality(T)
           /\ Cardinality(S) \in Nat /\ Cardinality(T) \in Nat
  BY FS_Subset, FS_CardinalityType

LEMMA PendingCounts ==
    ASSUME NEW items \in Seq(Operations), NEW ops
    PROVE  /\ IsFiniteSet(Pending(items, ops))
           /\ Cardinality(Pending(items, ops)) \in Nat
<1> DEFINE w == Len(items)
<1>1. w \in Nat /\ DOMAIN items = 1 .. w
  BY LenProperties
<1>2. IsFiniteSet(1 .. w)
  <2> HIDE DEF w
  <2>1. 1 \in Int /\ w \in Int
    BY <1>1
  <2> QED BY <2>1, FS_Interval
<1>3. Pending(items, ops) \in SUBSET (1 .. w)
  BY <1>1 DEF Pending
<1> HIDE DEF w
<1> QED BY <1>2, <1>3, SubsetCounts

(* Of the stops pending, only the one at the head is ever taken away.      *)
LEMMA PendingStopsAre == PendingStops = Pending(workItems, {"OpStop"})
  BY DEF PendingStops, Pending

LEMMA StopsTyped ==
    ASSUME TypeOK
    PROVE  IsFiniteSet(PendingStops) /\ Cardinality(PendingStops) \in Nat
  BY PendingStopsAre, PendingCounts DEF TypeOK, QueuesOK

LEMMA StopsStayPending ==
    ASSUME TypeOK, TypeOK', NEW done, Dispatching(done), workItems[1] # "OpStop"
    PROVE  Cardinality(PendingStops) <= Cardinality(PendingStops')
<1> DEFINE w == Len(workItems)
           P == PendingStops
           Q == PendingStops'
           g == [i \in P |-> i - 1]
<1>1. /\ w \in Nat /\ DOMAIN workItems = 1 .. w /\ DOMAIN workItems' = 1 .. w - 1
      /\ \A i \in 1 .. w - 1 : workItems'[i] = workItems[i + 1]
  <2>1. /\ w \in Nat /\ DOMAIN workItems = 1 .. w
        /\ Len(workItems') = w - 1
        /\ DOMAIN workItems' = 1 .. Len(workItems')
        /\ \A i \in 1 .. Len(workItems') : workItems'[i] = workItems[i + 1]
    BY DispatchRemoves
  <2> QED BY <2>1
<1>2. \A i \in P : i \in Int /\ i - 1 \in Q
  <2>1. TAKE i \in P
  <2>2. i \in 1 .. w /\ workItems[i] = "OpStop"
    BY <1>1 DEF PendingStops
  <2>3. i - 1 \in 1 .. w - 1 /\ (i - 1) + 1 = i
    BY <1>1, <2>2
  <2>4. workItems'[i - 1] = "OpStop"
    BY <1>1, <2>2, <2>3
  <2> QED BY <1>1, <2>2, <2>3, <2>4 DEF PendingStops
<1>3. IsFiniteSet(Q)
  <2>1. workItems' \in Seq(Operations)
    BY DEF TypeOK, QueuesOK
  <2>2. IsFiniteSet(Pending(workItems', {"OpStop"}))
    BY <2>1, PendingCounts
  <2> QED BY <2>2 DEF PendingStops, Pending
<1>4. g \in Injection(P, Q)
  <2>1. g \in [P -> Q]
    BY <1>2
  <2>2. \A i, j \in P : g[i] = g[j] => i = j
    <3> SUFFICES ASSUME NEW i \in P, NEW j \in P, i - 1 = j - 1 PROVE i = j
      OBVIOUS
    <3>1. i \in Int /\ j \in Int
      BY <1>2
    <3> QED BY <3>1
  <2> HIDE DEF g, P, Q
  <2> QED BY <2>1, <2>2 DEF Injection, IsInjective
<1> HIDE DEF g, P, Q
<1>5. Cardinality(P) <= Cardinality(Q)
  BY <1>3, <1>4, FS_Injection
<1> QED BY <1>5 DEF P, Q

LEMMA StepKeepsStops ==
    ASSUME TypeOK, TypeOK', StopsDrain, [Next]_vars
    PROVE  StopsDrain'
<1> DEFINE w == Len(workItems)
           c == Cardinality(PendingStops)
           d == Cardinality(PendingStops')
<1>1. /\ w \in Nat /\ DOMAIN workItems = 1 .. w
      /\ DOMAIN workItems' = 1 .. Len(workItems')
      /\ DOMAIN sampleQueue = 1 .. Len(sampleQueue) /\ Len(sampleQueue) \in Nat
      /\ DOMAIN sampleQueue' = 1 .. Len(sampleQueue')
      /\ \A i \in DOMAIN sampleQueue : sampleQueue[i].stops \in Nat
      /\ stops \in Nat /\ c \in Nat /\ IsFiniteSet(PendingStops)
  <2>1. \A i \in DOMAIN sampleQueue : sampleQueue[i] \in Entry
    BY SequencesTyped, ElementOfSeq DEF TypeOK, QueuesOK
  <2> QED BY <2>1, SequencesTyped, ItemsTyped, StopsTyped DEF TypeOK, CountersOK, Entry
<1>2. d \in Nat
  <2>1. workItems' \in Seq(Operations)
    BY DEF TypeOK, QueuesOK
  <2>2. Cardinality(Pending(workItems', {"OpStop"})) \in Nat
    BY <2>1, PendingCounts
  <2> QED BY <2>2 DEF PendingStops, Pending
<1>3. \A i \in DOMAIN sampleQueue : sampleQueue[i].stops + c >= stops
  BY DEF StopsDrain
<1>4. ASSUME \A i \in DOMAIN sampleQueue' : sampleQueue'[i].stops + d >= stops'
      PROVE  StopsDrain'
  BY <1>4 DEF StopsDrain
<1>5. ASSUME NEW op \in Operations, QueueAsyncOperation(op)
      PROVE  d = IF op = "OpStop" THEN c + 1 ELSE c
  <2>1. /\ DOMAIN workItems' = 1 .. w + 1
        /\ \A i \in 1 .. w : workItems'[i] = workItems[i]
        /\ workItems'[w + 1] = op
    BY <1>5, OperationAppends
  <2>2. \A i \in 1 .. w + 1 : i \in 1 .. w \/ i = w + 1
    BY <1>1
  <2>3. CASE op = "OpStop"
    <3>1. PendingStops' = PendingStops \cup {w + 1}
      BY <1>1, <2>1, <2>2, <2>3 DEF PendingStops
    <3>2. w + 1 \notin PendingStops
      BY <1>1 DEF PendingStops
    <3> QED BY <1>1, <2>3, <3>1, <3>2, FS_AddElement
  <2>4. CASE op # "OpStop"
    <3>1. PendingStops' = PendingStops
      BY <1>1, <2>1, <2>2, <2>4 DEF PendingStops
    <3> QED BY <2>4, <3>1
  <2> QED BY <2>3, <2>4
<1>6. CASE Adds
  <2>1. PICK kind \in Kinds, op \in Operations : op = OpFor[kind] /\ Appended(kind, op)
    BY <1>6 DEF Adds
  <2>2. d = c
    <3>1. op # "OpStop"
      BY <2>1 DEF OpFor, Kinds
    <3> QED BY <2>1, <3>1, <1>5 DEF Appended
  <2>3. stops' = stops
    BY <1>6 DEF Adds
  <2>4. \A i \in DOMAIN sampleQueue' :
           \/ i \in DOMAIN sampleQueue /\ sampleQueue'[i] = sampleQueue[i]
           \/ sampleQueue'[i].stops = stops
    BY <2>1, <1>1 DEF Appended
  <2> HIDE DEF c, d
  <2>5. \A i \in DOMAIN sampleQueue' : sampleQueue'[i].stops + d >= stops'
    BY <2>2, <2>3, <2>4, <1>1, <1>3
  <2> QED BY <2>5, <1>4 DEF d
<1>7. CASE \E op \in {"OpStart", "OpStop"} : Calls(op)
  <2>1. PICK op \in {"OpStart", "OpStop"} : Calls(op)
    BY <1>7
  <2>2. d = IF op = "OpStop" THEN c + 1 ELSE c
    BY <2>1, <1>5, OperationsAre DEF Calls
  <2>3. sampleQueue' = sampleQueue /\ stops' = IF op = "OpStart" THEN stops ELSE stops + 1
    BY <2>1 DEF Calls
  <2> HIDE DEF c, d
  <2>4. \A i \in DOMAIN sampleQueue' : sampleQueue'[i].stops + d >= stops'
    BY <2>2, <2>3, <1>1, <1>3
  <2> QED BY <2>4, <1>4 DEF d
<1>8. CASE DispatchWorkItem
  <2>1. PICK n \in 0 .. Len(sampleQueue) : Took(n)
    BY <1>8, DispatchTakes
  <2>2. PICK ops : Dispatching(ops)
    BY <1>8 DEF DispatchWorkItem, DispatchStart, DispatchStop, DispatchSample,
                DispatchMarkerOrType
  <2>3. stops' = stops
    BY <2>2 DEF Dispatching, ghosts
  <2>4. CASE DispatchStop
    <3>1. DOMAIN sampleQueue' = {}
      BY <2>4 DEF DispatchStop, DropSamplesFromQueue
    <3> QED BY <3>1, <1>4
  <2>5. CASE ~DispatchStop
    <3>1. workItems[1] # "OpStop"
      <4>1. CASE DispatchStart
        BY <4>1, DispatchRemoves DEF DispatchStart
      <4>2. CASE DispatchSample
        BY <4>2, DispatchRemoves DEF DispatchSample
      <4>3. CASE DispatchMarkerOrType
        <5>1. workItems[1] \in {"OpPlaceMarker", "OpSetMediaType"}
          BY <4>3, DispatchRemoves DEF DispatchMarkerOrType
        <5> QED BY <5>1
      <4> QED BY <1>8, <2>5, <4>1, <4>2, <4>3 DEF DispatchWorkItem
    <3>2. c <= d
      BY <2>2, <3>1, StopsStayPending
    <3>3. \A i \in DOMAIN sampleQueue' :
             i + n \in DOMAIN sampleQueue /\ sampleQueue'[i] = sampleQueue[i + n]
      <4>1. /\ Len(sampleQueue') = Len(sampleQueue) - n /\ n \in Nat
            /\ \A i \in 1 .. Len(sampleQueue') : sampleQueue'[i] = sampleQueue[i + n]
        BY <2>1, <1>1 DEF Took
      <4>2. \A i \in 1 .. Len(sampleQueue') : i + n \in 1 .. Len(sampleQueue)
        BY <4>1, <1>1
      <4> QED BY <4>1, <4>2, <1>1
    <3> HIDE DEF c, d
    <3>4. \A i \in DOMAIN sampleQueue' : sampleQueue'[i].stops + d >= stops'
      BY <2>3, <3>2, <3>3, <1>1, <1>2, <1>3, SMTT(60)
    <3> QED BY <3>4, <1>4 DEF d
  <2> QED BY <2>4, <2>5
<1>9. CASE Drains
  <2>1. DOMAIN sampleQueue' = {}
    BY <1>9 DEF Drains
  <2> QED BY <2>1, <1>4
<1>10. CASE UNCHANGED <<sampleQueue, workItems, stops>>
  BY <1>10 DEF StopsDrain, PendingStops
<1> QED BY <1>6, <1>7, <1>8, <1>9, <1>10, ItemSteps DEF itemVars

LEMMA StopsHold == Spec => []StopsDrain
<1>1. Init => StopsDrain
  BY DEF Init, StopsDrain
<1>2. TypeOK /\ TypeOK' /\ StopsDrain /\ [Next]_vars => StopsDrain'
  BY StepKeepsStops
<1> QED BY <1>1, <1>2, TypeCorrect, PTL DEF Spec

(* In every interleaving of calls, work items and sends, no entry is       *)
(* stranded in the queue, the announcements follow the calls, and a stop   *)
(* that was carried out leaves nothing behind of what came before it.      *)
THEOREM QueueConsistentHolds == Spec => []QueueConsistent
<1>1. TypeOK /\ ItemsInOrder /\ CallsInv /\ StopsDrain => QueueConsistent
  BY ItemsSuffice DEF CallsInv, QueueConsistent
<1> QED BY <1>1, TypeCorrect, ItemsHold, CallsHold, StopsHold, PTL
-----------------------------------------------------------------------------
(* Requests.  A work item that does not ask for a sample has sent one,     *)
(* whose completion will ask.                                              *)
LEMMA AddedAsks ==
    ASSUME TypeOK, SendOrDrop
    PROVE  /\ sending \subseteq sending'
           /\ ~NeedMoreSamples => \E p \in sending' : p.asks
           /\ NeedMoreSamples => AskedFor' = AskedFor
           /\ \E x : AskedFor' \subseteq AskedFor \cup {x}
<1>1. CASE ~connected
  <2>1. sending' = sending
    BY <1>1, DropTakes DEF SendOrDrop
  <2> QED BY <1>1, <2>1 DEF NeedMoreSamples, AskedFor
<1>2. CASE connected
  <2>1. sending' = sending \cup Added
    BY <1>2, SendTakes DEF SendOrDrop
  <2>2. /\ LastTaken \in 0 .. Len(sampleQueue)
        /\ ~QueueRanEmpty => LastTaken \in OnTime /\ \A j \in OnTime : LastTaken <= j
    BY LastTakenInQueue DEF TypeOK
  <2>3. OnTime \subseteq 1 .. Len(sampleQueue) /\ Len(sampleQueue) \in Nat
    BY SequencesTyped DEF OnTime
  <2>4. \A i \in Sends : i \in OnTime => i = LastTaken
    <3>1. TAKE i \in Sends
    <3>2. i \in 1 .. LastTaken
      BY DEF Sends
    <3>3. i \in OnTime => LastTaken <= i
      BY <2>2 DEF QueueRanEmpty
    <3> QED BY <3>2, <3>3, <2>2, <2>3
  <2> DEFINE x == [id |-> sampleQueue[LastTaken].id, asks |-> TRUE]
  <2>5. \A p \in Added : p.asks => p = x
    <3> SUFFICES ASSUME NEW p \in Added, p.asks PROVE p = x
      OBVIOUS
    <3>1. PICK i \in Sends : p = [id |-> sampleQueue[i].id, asks |-> i \in OnTime]
      BY DEF Added
    <3>2. i \in OnTime
      BY <3>1
    <3>3. i = LastTaken /\ (i \in OnTime) = TRUE
      BY <2>4, <3>2
    <3> QED BY <3>1, <3>3
  <2>6. AskedFor' \subseteq AskedFor \cup {x}
    <3> HIDE DEF x
    <3> QED BY <2>1, <2>5 DEF AskedFor
  <2>7. QueueRanEmpty => AskedFor' = AskedFor
    <3>1. QueueRanEmpty => \A p \in Added : ~p.asks
      <4> SUFFICES ASSUME QueueRanEmpty, NEW p \in Added PROVE ~p.asks
        OBVIOUS
      <4>1. PICK i \in Sends : p = [id |-> sampleQueue[i].id, asks |-> i \in OnTime]
        BY DEF Added
      <4>2. ~(i \in OnTime)
        BY DEF QueueRanEmpty
      <4> QED BY <4>1, <4>2
    <3> QED BY <2>1, <3>1 DEF AskedFor
  <2>8. ~QueueRanEmpty => \E p \in sending' : p.asks
    <3> SUFFICES ASSUME ~QueueRanEmpty PROVE \E p \in sending' : p.asks
      OBVIOUS
    <3> DEFINE n == LastTaken
    <3>1. n \in OnTime /\ n \in 1 .. n
      BY <2>2, <2>3
    <3>2. n \in Sends
      BY <3>1 DEF Sends, SendFate, OnTime
    <3>3. [id |-> sampleQueue[n].id, asks |-> n \in OnTime] \in Added
      BY <3>2 DEF Added
    <3>4. [id |-> sampleQueue[n].id, asks |-> n \in OnTime].asks
      BY <3>1
    <3> QED BY <2>1, <3>3, <3>4
  <2> QED BY <1>2, <2>1, <2>6, <2>7, <2>8 DEF NeedMoreSamples
<1> QED BY <1>1, <1>2

LEMMA StepKeepsAsking ==
    ASSUME TypeOK, TypeOK', NeverStalls, [Next]_vars
    PROVE  NeverStalls'
<1> SUFFICES ASSUME state' = "Started", ~isShutdown'
             PROVE  \/ requests' > 0
                    \/ \E i \in DOMAIN workItems' :
                          workItems'[i] \in {"OpStart", "OpProcessSample"}
                    \/ \E p \in sending' : p.asks
                    \/ failed'
  BY DEF NeverStalls
<1>1. /\ Len(workItems) \in Nat /\ DOMAIN workItems = 1 .. Len(workItems)
      /\ DOMAIN workItems' = 1 .. Len(workItems')
      /\ requests \in Nat
  BY ItemsTyped DEF TypeOK, CountersOK
<1>2. CASE Adds
  <2>1. PICK kind \in Kinds, op \in Operations :
            /\ op = OpFor[kind] /\ Appended(kind, op)
            /\ requests' = IF kind = "sample" THEN requests - 1 ELSE requests
    BY <1>2 DEF Adds
  <2>2. /\ Len(workItems') = Len(workItems) + 1
        /\ \A i \in 1 .. Len(workItems) : workItems'[i] = workItems[i]
        /\ workItems'[Len(workItems) + 1] = op
    BY <2>1, OperationAppends DEF Appended
  <2>3. state = "Started" /\ ~isShutdown /\ sending' = sending /\ failed' = failed
    BY <1>2 DEF Adds, object
  <2>4. CASE kind = "sample"
    <3>1. op = "OpProcessSample"
      BY <2>1, <2>4 DEF OpFor
    <3>2. Len(workItems) + 1 \in DOMAIN workItems'
      BY <1>1, <2>2
    <3> QED BY <2>2, <3>1, <3>2
  <2>5. CASE kind # "sample"
    <3>1. \A i \in DOMAIN workItems : i \in DOMAIN workItems' /\ workItems'[i] = workItems[i]
      BY <1>1, <2>2
    <3> QED BY <2>1, <2>3, <2>5, <3>1 DEF NeverStalls
  <2> QED BY <2>4, <2>5
<1>3. CASE Start
  <2>1. QueueAsyncOperation("OpStart")
    BY <1>3 DEF Start
  <2>2. /\ Len(workItems') = Len(workItems) + 1
        /\ workItems'[Len(workItems) + 1] = "OpStart"
    BY <2>1, OperationAppends, OperationsAre
  <2>3. Len(workItems) + 1 \in DOMAIN workItems'
    BY <1>1, <2>2
  <2> QED BY <2>2, <2>3
<1>4. CASE DispatchWorkItem
  <2>1. state = "Started" /\ ~isShutdown /\ failed' = failed
    BY <1>4 DEF DispatchWorkItem, DispatchStart, DispatchStop, DispatchSample,
                DispatchMarkerOrType, Dispatching, object
  <2>2. CASE SendOrDrop /\ (IF NeedMoreSamples THEN RequestSample ELSE UNCHANGED requests)
    <3>1. CASE NeedMoreSamples
      <4>1. requests' = requests + 1
        BY <2>1, <2>2, <3>1 DEF RequestSample
      <4> QED BY <4>1, <1>1
    <3>2. CASE ~NeedMoreSamples
      BY <2>2, <3>2, AddedAsks
    <3> QED BY <3>1, <3>2
  <2>3. CASE DispatchStop \/ DispatchMarkerOrType
    <3>1. \E op \in {"OpStop", "OpPlaceMarker", "OpSetMediaType"} :
              Dispatching({"OpStop"}) \/ Dispatching({"OpPlaceMarker", "OpSetMediaType"})
      BY <2>3 DEF DispatchStop, DispatchMarkerOrType
    <3>2. /\ workItems[1] \in {"OpStop", "OpPlaceMarker", "OpSetMediaType"}
          /\ Len(workItems') = Len(workItems) - 1
          /\ \A i \in 1 .. Len(workItems') : workItems'[i] = workItems[i + 1]
      BY <3>1, DispatchRemoves
    <3>3. \A i \in DOMAIN workItems : i # 1 =>
              i - 1 \in DOMAIN workItems' /\ workItems'[i - 1] = workItems[i]
      <4>1. TAKE i \in DOMAIN workItems
      <4>2. i # 1 => i - 1 \in 1 .. Len(workItems') /\ (i - 1) + 1 = i
        BY <1>1, <3>2
      <4> QED BY <4>2, <3>2, <1>1
    <3>4. requests' = requests /\ sending \subseteq sending'
      <4>1. CASE DispatchStop
        BY <4>1, DropTakes DEF DispatchStop
      <4>2. CASE DispatchMarkerOrType
        BY <4>2, AddedAsks DEF DispatchMarkerOrType
      <4> QED BY <2>3, <4>1, <4>2
    <3> QED BY <2>1, <3>2, <3>3, <3>4 DEF NeverStalls
  <2> QED BY <1>4, <2>1, <2>2, <2>3 DEF DispatchWorkItem, DispatchStart, DispatchSample
<1>5. CASE SendCompleted
  <2>1. PICK p \in sending : SendSucceeded(p) \/ SendFailed(p)
    BY <1>5 DEF SendCompleted
  <2>2. state = "Started" /\ ~isShutdown /\ UNCHANGED workItems
        /\ sending' = sending \ {p}
    BY <2>1 DEF SendSucceeded, SendFailed, object, queues
  <2>3. CASE SendFailed(p)
    BY <2>2, <2>3 DEF SendFailed
  <2>4. CASE SendSucceeded(p) /\ p.asks
    <3>1. requests' = requests + 1
      BY <2>2, <2>4 DEF SendSucceeded, RequestSample
    <3> QED BY <3>1, <1>1
  <2>5. CASE SendSucceeded(p) /\ ~p.asks
    <3>1. \A q \in sending : q.asks => q \in sending'
      BY <2>2, <2>5
    <3>2. requests' = requests /\ failed' = failed
      BY <2>5 DEF SendSucceeded
    <3> QED BY <2>2, <3>1, <3>2 DEF NeverStalls
  <2> QED BY <2>1, <2>3, <2>4, <2>5
<1>6. CASE RefuseSample
  <2>1. ~isShutdown /\ state = "Started" /\ ~ValidateOperation("OpProcessSample")
    BY <1>6 DEF RefuseSample, object
  <2> QED BY <2>1 DEF ValidateOperation, ValidOperations
<1>7. CASE SetFirstMediaType \/ Stop \/ Shutdown
  BY <1>7 DEF SetFirstMediaType, Stop, Shutdown
<1>8. CASE KeepFirstSample
  BY <1>8, <1>1 DEF KeepFirstSample, events
<1>9. CASE SetConnected
  <2>1. UNCHANGED <<state, isShutdown, workItems, requests, failed>>
        /\ sending \subseteq sending'
    BY <1>9 DEF SetConnected, SendKeptSample, queues, events, network
  <2> QED BY <2>1 DEF NeverStalls
<1>10. CASE Flush
  <2>1. UNCHANGED <<state, isShutdown, workItems, requests, failed, sending>>
    BY <1>10 DEF Flush, DropSamplesFromQueue, object, events
  <2> QED BY <2>1 DEF NeverStalls
<1>11. CASE UNCHANGED vars
  <2>1. UNCHANGED <<state, isShutdown, workItems, requests, failed, sending>>
    BY <1>11 DEF vars, object, queues, network, events
  <2> QED BY <2>1 DEF NeverStalls
<1>12. CASE ChangeMediaType \/ QueueSample \/ PlaceMarker
  BY <1>2, <1>12, EntryAdded
<1> QED BY <1>3, <1>4, <1>5, <1>6, <1>7, <1>8, <1>9, <1>10, <1>11, <1>12
           DEF Next, Pipeline, Sink

LEMMA NeverStallsHolds == Spec => []NeverStalls
<1>1. Init => NeverStalls
  BY DEF Init, NeverStalls
<1>2. TypeOK /\ TypeOK' /\ NeverStalls /\ [Next]_vars => NeverStalls'
  BY StepKeepsAsking
<1> QED BY <1>1, <1>2, TypeCorrect, PTL DEF Spec

(* Counting.                                                               *)
LEMMA ExtraCounts ==
    ASSUME TypeOK
    PROVE  IsFiniteSet(Extra) /\ Cardinality(Extra) \in Nat
<1>1. 1 \in Int /\ accepted \in Int
  BY DEF TypeOK, CountersOK
<1>2. IsFiniteSet(1 .. accepted)
  BY <1>1, FS_Interval
<1>3. Extra \in SUBSET (1 .. accepted)
  BY DEF Extra
<1> QED BY <1>2, <1>3, SubsetCounts

(* An operation queued is one more pending, one carried out is one less.   *)
LEMMA AppendCounts ==
    ASSUME TypeOK, NEW op \in Operations, QueueAsyncOperation(op), NEW ops
    PROVE  Cardinality(Pending(workItems', ops))
               <= Cardinality(Pending(workItems, ops)) + (IF op \in ops THEN 1 ELSE 0)
<1> DEFINE w == Len(workItems)
           P == Pending(workItems, ops)
           Q == Pending(workItems', ops)
<1>1. IsFiniteSet(P) /\ Cardinality(P) \in Nat
  BY PendingCounts DEF TypeOK, QueuesOK
<1>2. /\ w \in Nat /\ DOMAIN workItems = 1 .. w /\ DOMAIN workItems' = 1 .. w + 1
      /\ \A i \in 1 .. w : workItems'[i] = workItems[i]
      /\ workItems'[w + 1] = op
  BY OperationAppends
<1>3. /\ Q \subseteq P \cup {w + 1}
      /\ op \notin ops => Q \subseteq P
  <2>1. \A i \in 1 .. w + 1 : i \in 1 .. w \/ i = w + 1
    BY <1>2
  <2> QED BY <1>2, <2>1 DEF Pending
<1> HIDE DEF w, P, Q
<1>4. CASE op \in ops
  <2>1. /\ IsFiniteSet(P \cup {w + 1})
        /\ Cardinality(P \cup {w + 1}) <= Cardinality(P) + 1
    <3>1. /\ IsFiniteSet(P \cup {w + 1})
          /\ Cardinality(P \cup {w + 1}) =
                IF w + 1 \in P THEN Cardinality(P) ELSE Cardinality(P) + 1
      BY <1>1, FS_AddElement
    <3> QED BY <1>1, <3>1
  <2>2. /\ Cardinality(Q) <= Cardinality(P \cup {w + 1})
        /\ Cardinality(Q) \in Nat /\ Cardinality(P \cup {w + 1}) \in Nat
    BY <1>3, <2>1, SubsetCounts
  <2>3. Cardinality(Q) <= Cardinality(P) + 1
    BY <1>1, <2>1, <2>2
  <2> QED BY <1>4, <2>3 DEF P, Q
<1>5. CASE op \notin ops
  <2>1. Cardinality(Q) <= Cardinality(P)
    BY <1>1, <1>3, <1>5, SubsetCounts
  <2>2. Cardinality(Q) <= Cardinality(P) + 0
    BY <1>1, <2>1
  <2> QED BY <1>5, <2>2 DEF P, Q
<1> QED BY <1>4, <1>5

LEMMA RemoveCounts ==
    ASSUME TypeOK, NEW done, Dispatching(done), NEW ops
    PROVE  Cardinality(Pending(workItems', ops))
               <= Cardinality(Pending(workItems, ops))
                      - (IF workItems[1] \in ops THEN 1 ELSE 0)
<1> DEFINE w == Len(workItems)
           P == Pending(workItems, ops)
           Q == Pending(workItems', ops)
           g == [i \in Q |-> i + 1]
<1>1. IsFiniteSet(P) /\ Cardinality(P) \in Nat
  BY PendingCounts DEF TypeOK, QueuesOK
<1>2. /\ w \in Nat /\ 1 \in DOMAIN workItems /\ DOMAIN workItems = 1 .. w
      /\ DOMAIN workItems' = 1 .. w - 1
      /\ \A i \in 1 .. w - 1 : workItems'[i] = workItems[i + 1]
  <2>1. /\ w \in Nat /\ 1 \in DOMAIN workItems /\ DOMAIN workItems = 1 .. w
        /\ Len(workItems') = w - 1
        /\ DOMAIN workItems' = 1 .. Len(workItems')
        /\ \A i \in 1 .. Len(workItems') : workItems'[i] = workItems[i + 1]
    BY DispatchRemoves
  <2> QED BY <2>1
<1>3. \A i \in Q : i \in Int /\ i + 1 \in P \ {1}
  <2>1. TAKE i \in Q
  <2>2. i \in 1 .. w - 1 /\ workItems'[i] \in ops
    BY <1>2 DEF Pending
  <2>3. workItems[i + 1] \in ops /\ i + 1 \in 1 .. w /\ i + 1 # 1
    BY <1>2, <2>2
  <2> QED BY <1>2, <2>2, <2>3 DEF Pending
<1>4. IsFiniteSet(P \ {1}) /\ Cardinality(P \ {1}) =
          IF 1 \in P THEN Cardinality(P) - 1 ELSE Cardinality(P)
  <2> HIDE DEF P
  <2> QED BY <1>1, FS_RemoveElement
<1>5. 1 \in P <=> workItems[1] \in ops
  BY <1>2 DEF Pending
<1>6. g \in Injection(Q, P \ {1})
  <2>1. g \in [Q -> P \ {1}]
    BY <1>3
  <2>2. \A i, j \in Q : g[i] = g[j] => i = j
    <3> SUFFICES ASSUME NEW i \in Q, NEW j \in Q, i + 1 = j + 1 PROVE i = j
      OBVIOUS
    <3>1. i \in Int /\ j \in Int
      BY <1>3
    <3> QED BY <3>1
  <2> HIDE DEF g, P, Q
  <2> QED BY <2>1, <2>2 DEF Injection, IsInjective
<1>7. Cardinality(Q) <= Cardinality(P \ {1})
  <2> HIDE DEF g, P, Q
  <2> QED BY <1>4, <1>6, FS_Injection
<1>8. CASE 1 \in P
  <2>1. Cardinality(Q) <= Cardinality(P) - 1
    BY <1>4, <1>7, <1>8
  <2> QED BY <1>5, <1>8, <2>1
<1>9. CASE 1 \notin P
  <2>1. Cardinality(Q) <= Cardinality(P) - 0
    BY <1>1, <1>4, <1>7, <1>9
  <2> QED BY <1>5, <1>9, <2>1
<1> QED BY <1>8, <1>9

(* No entry is forgotten: what was in the queue is still there or logged.  *)
LEMMA ExtraKept ==
    ASSUME TypeOK, TypeOK', accepted <= accepted',
           \A j \in DOMAIN log :
              j \in DOMAIN log' /\ log'[j].id = log[j].id
                                /\ log'[j].kind = log[j].kind,
           \A j \in DOMAIN sampleQueue :
              \/ \E k \in DOMAIN sampleQueue' :
                    /\ sampleQueue'[k].id = sampleQueue[j].id
                    /\ sampleQueue'[k].kind = sampleQueue[j].kind
              \/ \E k \in DOMAIN log' :
                    /\ log'[k].id = sampleQueue[j].id
                    /\ log'[k].kind = sampleQueue[j].kind
    PROVE  Extra \subseteq Extra'
<1> SUFFICES ASSUME NEW i \in Extra PROVE i \in Extra'
  OBVIOUS
<1>1. i \in 1 .. accepted'
  <2>1. i \in 1 .. accepted /\ accepted \in Nat /\ accepted' \in Nat
    BY DEF Extra, TypeOK, CountersOK
  <2> QED BY <2>1
<1>2. \/ \E j \in DOMAIN log' : log'[j].id = i /\ log'[j].kind # "sample"
      \/ \E j \in DOMAIN sampleQueue' :
             sampleQueue'[j].id = i /\ sampleQueue'[j].kind # "sample"
  <2>1. CASE \E j \in DOMAIN log : log[j].id = i /\ log[j].kind # "sample"
    BY <2>1
  <2>2. CASE \E j \in DOMAIN sampleQueue :
                 sampleQueue[j].id = i /\ sampleQueue[j].kind # "sample"
    <3>1. PICK j \in DOMAIN sampleQueue :
                 sampleQueue[j].id = i /\ sampleQueue[j].kind # "sample"
      BY <2>2
    <3> QED BY <3>1
  <2> QED BY <2>1, <2>2 DEF Extra
<1> QED BY <1>1, <1>2 DEF Extra

LEMMA TakesKeepsExtra ==
    ASSUME TypeOK, TypeOK', NEW n, Took(n), accepted' = accepted
    PROVE  Extra \subseteq Extra'
<1> DEFINE m == Len(sampleQueue)
           l == Len(log)
<1>1. /\ m \in Nat /\ DOMAIN sampleQueue = 1 .. m
      /\ l \in Nat /\ DOMAIN log = 1 .. l
      /\ DOMAIN sampleQueue' = 1 .. Len(sampleQueue') /\ Len(sampleQueue') \in Nat
      /\ DOMAIN log' = 1 .. Len(log') /\ Len(log') \in Nat
      /\ accepted \in Nat
  BY SequencesTyped
<1>2. /\ n \in 0 .. m /\ Len(sampleQueue') = m - n /\ Len(log') = l + n
      /\ \A i \in 1 .. Len(sampleQueue') : sampleQueue'[i] = sampleQueue[i + n]
      /\ \A i \in 1 .. l : log'[i] = log[i]
      /\ \A i \in 1 .. n : /\ log'[l + i].id = sampleQueue[i].id
                           /\ log'[l + i].kind = sampleQueue[i].kind
  BY DEF Took, TakenAs
<1> HIDE DEF m, l
<1>3. \A j \in DOMAIN log :
         j \in DOMAIN log' /\ log'[j].id = log[j].id /\ log'[j].kind = log[j].kind
  BY <1>1, <1>2
<1>4. \A j \in DOMAIN sampleQueue :
         \/ \E k \in DOMAIN sampleQueue' :
               /\ sampleQueue'[k].id = sampleQueue[j].id
               /\ sampleQueue'[k].kind = sampleQueue[j].kind
         \/ \E k \in DOMAIN log' :
               /\ log'[k].id = sampleQueue[j].id
               /\ log'[k].kind = sampleQueue[j].kind
  <2>1. TAKE j \in DOMAIN sampleQueue
  <2>2. CASE j <= n
    <3>1. j \in 1 .. n /\ l + j \in DOMAIN log'
      BY <1>1, <1>2, <2>2
    <3> QED BY <3>1, <1>2
  <2>3. CASE ~(j <= n)
    <3>1. j - n \in DOMAIN sampleQueue' /\ (j - n) + n = j
      BY <1>1, <1>2, <2>3
    <3>2. sampleQueue'[j - n] = sampleQueue[j]
      BY <1>1, <1>2, <3>1
    <3> QED BY <3>1, <3>2
  <2> QED BY <2>2, <2>3
<1>5. accepted <= accepted'
  BY <1>1
<1> QED BY <1>3, <1>4, <1>5, ExtraKept

(* A marker or a type handed in allows for one more.                       *)
LEMMA AddsCountsExtra ==
    ASSUME TypeOK, TypeOK', Adds, NEW kind \in Kinds, NEW op, Appended(kind, op)
    PROVE  Cardinality(Extra')
               >= Cardinality(Extra) + (IF kind = "sample" THEN 0 ELSE 1)
<1> DEFINE m == Len(sampleQueue)
<1>1. /\ m \in Nat /\ DOMAIN sampleQueue = 1 .. m
      /\ DOMAIN sampleQueue' = 1 .. Len(sampleQueue')
      /\ accepted \in Nat
  BY SequencesTyped
<1>2. /\ accepted' = accepted + 1 /\ Len(sampleQueue') = m + 1
      /\ \A i \in 1 .. m : sampleQueue'[i] = sampleQueue[i]
      /\ sampleQueue'[m + 1].id = accepted + 1
      /\ sampleQueue'[m + 1].kind = kind
  BY DEF Appended
<1>3. log' = log
  BY DEF Adds
<1> HIDE DEF m
<1>4. Extra \subseteq Extra'
  <2>1. \A j \in DOMAIN sampleQueue :
            j \in DOMAIN sampleQueue' /\ sampleQueue'[j] = sampleQueue[j]
    BY <1>1, <1>2
  <2>2. accepted <= accepted'
    BY <1>1, <1>2
  <2>3. \A j \in DOMAIN log :
           j \in DOMAIN log' /\ log'[j].id = log[j].id /\ log'[j].kind = log[j].kind
    BY <1>3
  <2> QED BY <2>1, <2>2, <2>3, ExtraKept
<1>5. IsFiniteSet(Extra) /\ Cardinality(Extra) \in Nat
  BY ExtraCounts
<1>6. IsFiniteSet(Extra') /\ Cardinality(Extra') \in Nat
  <2>1. 1 \in Int /\ accepted' \in Int
    BY DEF TypeOK, CountersOK
  <2>2. IsFiniteSet(1 .. accepted')
    BY <2>1, FS_Interval
  <2>3. Extra' \in SUBSET (1 .. accepted')
    BY DEF Extra
  <2> QED BY <2>2, <2>3, SubsetCounts
<1> DEFINE E == Extra
           F == Extra'
<1>7. CASE kind = "sample"
  <2>1. Cardinality(E) <= Cardinality(F)
    <3>1. E \in SUBSET F /\ IsFiniteSet(F)
      BY <1>4, <1>6
    <3> HIDE DEF E, F
    <3> QED BY <3>1, SubsetCounts
  <2>2. Cardinality(F) >= Cardinality(E) + 0
    BY <1>5, <1>6, <2>1
  <2> QED BY <1>7, <2>2
<1>8. CASE kind # "sample"
  <2>1. accepted + 1 \in F
    <3>1. accepted + 1 \in 1 .. accepted' /\ m + 1 \in DOMAIN sampleQueue'
      BY <1>1, <1>2
    <3> QED BY <1>2, <1>8, <3>1 DEF Extra
  <2>2. accepted + 1 \notin E
    BY <1>1 DEF Extra
  <2> DEFINE x == accepted + 1
  <2>3. E \cup {x} \in SUBSET F /\ x \notin E /\ IsFiniteSet(E) /\ IsFiniteSet(F)
    BY <1>4, <1>5, <1>6, <2>1, <2>2
  <2> HIDE DEF E, F, x
  <2>4. Cardinality(E \cup {x}) = Cardinality(E) + 1
    BY <2>3, FS_AddElement
  <2>5. Cardinality(E \cup {x}) <= Cardinality(F)
    BY <2>3, SubsetCounts
  <2>6. Cardinality(E) \in Nat /\ Cardinality(F) \in Nat
    BY <1>5, <1>6 DEF E, F
  <2>7. Cardinality(F) >= Cardinality(E) + 1
    BY <2>4, <2>5, <2>6
  <2> QED BY <1>8, <2>7 DEF E, F
<1> QED BY <1>7, <1>8

(* The sends that will ask.                                                *)
LEMMA AskingCounts ==
    ASSUME IsFiniteSet(AskedFor), NEW x, AskedFor' \subseteq AskedFor \cup {x}
    PROVE  /\ IsFiniteSet(AskedFor')
           /\ Cardinality(AskedFor') <= Cardinality(AskedFor) + 1
           /\ Cardinality(AskedFor) \in Nat /\ Cardinality(AskedFor') \in Nat
<1> DEFINE A == AskedFor
           B == AskedFor'
<1>1. IsFiniteSet(A) /\ B \in SUBSET (A \cup {x})
  OBVIOUS
<1> HIDE DEF A, B
<1>2. /\ IsFiniteSet(A \cup {x})
      /\ Cardinality(A \cup {x}) =
            IF x \in A THEN Cardinality(A) ELSE Cardinality(A) + 1
  BY <1>1, FS_AddElement
<1>3. /\ IsFiniteSet(B) /\ Cardinality(B) <= Cardinality(A \cup {x})
      /\ Cardinality(B) \in Nat /\ Cardinality(A) \in Nat
  BY <1>1, <1>2, SubsetCounts, FS_CardinalityType
<1>4. Cardinality(B) <= Cardinality(A) + 1
  BY <1>2, <1>3
<1> QED BY <1>3, <1>4 DEF A, B

LEMMA FewerAsk ==
    ASSUME IsFiniteSet(AskedFor), AskedFor' \subseteq AskedFor
    PROVE  /\ IsFiniteSet(AskedFor')
           /\ Cardinality(AskedFor') <= Cardinality(AskedFor)
           /\ Cardinality(AskedFor) \in Nat /\ Cardinality(AskedFor') \in Nat
<1> DEFINE A == AskedFor
           B == AskedFor'
<1>1. IsFiniteSet(A) /\ B \in SUBSET A
  OBVIOUS
<1> HIDE DEF A, B
<1>2. /\ IsFiniteSet(B) /\ Cardinality(B) <= Cardinality(A)
      /\ Cardinality(B) \in Nat /\ Cardinality(A) \in Nat
  BY <1>1, SubsetCounts
<1> QED BY <1>2 DEF A, B

LEMMA FewerExtra ==
    ASSUME TypeOK, TypeOK', Extra \subseteq Extra'
    PROVE  /\ Cardinality(Extra) <= Cardinality(Extra')
           /\ Cardinality(Extra) \in Nat /\ Cardinality(Extra') \in Nat
<1> DEFINE E == Extra
           F == Extra'
<1>1. E \in SUBSET F
  OBVIOUS
<1>2. IsFiniteSet(F)
  <2>1. 1 \in Int /\ accepted' \in Int
    BY DEF TypeOK, CountersOK
  <2>2. IsFiniteSet(1 .. accepted')
    BY <2>1, FS_Interval
  <2>3. Extra' \in SUBSET (1 .. accepted')
    BY DEF Extra
  <2> QED BY <2>2, <2>3, SubsetCounts
<1> HIDE DEF E, F
<1>3. /\ Cardinality(E) <= Cardinality(F)
      /\ Cardinality(E) \in Nat /\ Cardinality(F) \in Nat
  BY <1>1, <1>2, SubsetCounts
<1> QED BY <1>3 DEF E, F

(* While the stream is not shut down, a step that adds to what was asked   *)
(* for uses up a work item, a Start, a marker or a type.                   *)
LEMMA DispatchCounts ==
    ASSUME TypeOK, TypeOK', IsFiniteSet(AskedFor), ~isShutdown, DispatchWorkItem
    PROVE  /\ IsFiniteSet(AskedFor')
           /\ Cardinality(AskedFor) \in Nat /\ Cardinality(AskedFor') \in Nat
           /\ requests' + Cardinality(Chances') + Cardinality(AskedFor')
                <= requests + Cardinality(Chances) + Cardinality(AskedFor)
           /\ Extra \subseteq Extra'
           /\ starts' = starts
<1> DEFINE c == Cardinality(Chances)
           d == Cardinality(Chances')
           a == Cardinality(AskedFor)
           b == Cardinality(AskedFor')
<1>1. Extra \subseteq Extra' /\ starts' = starts
  <2>1. UNCHANGED ghosts
    BY DEF DispatchWorkItem, DispatchStart, DispatchStop, DispatchSample,
           DispatchMarkerOrType, Dispatching
  <2>2. PICK n \in 0 .. Len(sampleQueue) : Took(n)
    BY DispatchTakes
  <2> QED BY <2>1, <2>2, TakesKeepsExtra DEF ghosts
<1>2. c \in Nat /\ requests \in Nat /\ requests' \in Nat
  BY PendingCounts DEF Chances, TypeOK, QueuesOK, CountersOK
<1>3. d \in Nat
  BY PendingCounts DEF Chances, TypeOK, QueuesOK
<1>4. \A done : Dispatching(done) => d <= c - (IF workItems[1] \in Operations \ {"OpStop"} THEN 1 ELSE 0)
  BY RemoveCounts DEF Chances
<1>5. \A done : Dispatching(done) => workItems[1] \in done
  BY DispatchRemoves
<1>6. CASE DispatchStop
  <2>1. sending' = sending /\ requests' = requests
    BY <1>6, DropTakes DEF DispatchStop
  <2>2. /\ IsFiniteSet(AskedFor') /\ b <= a /\ a \in Nat /\ b \in Nat
    BY <2>1, FewerAsk DEF AskedFor
  <2>3. workItems[1] = "OpStop"
    BY <1>5, <1>6 DEF DispatchStop
  <2>4. d <= c - 0
    BY <1>4, <1>6, <2>3 DEF DispatchStop
  <2> HIDE DEF a, b, c, d
  <2>5. requests' + d + b <= requests + c + a
    BY <1>2, <1>3, <2>1, <2>2, <2>4
  <2> QED BY <1>1, <2>2, <2>5 DEF a, b, c, d
<1>7. CASE SendOrDrop /\ \E done : Dispatching(done) /\ "OpStop" \notin done
                                   /\ done \subseteq Operations
  <2>1. d <= c - 1
    <3>1. PICK done : Dispatching(done) /\ "OpStop" \notin done /\ done \subseteq Operations
      BY <1>7
    <3>2. workItems[1] \in Operations \ {"OpStop"}
      BY <1>5, <3>1
    <3> HIDE DEF c, d
    <3> QED BY <1>4, <3>1, <3>2
  <2>2. PICK x : AskedFor' \subseteq AskedFor \cup {x}
    BY <1>7, AddedAsks
  <2>3. IsFiniteSet(AskedFor') /\ b <= a + 1 /\ a \in Nat /\ b \in Nat
    BY <2>2, AskingCounts
  <2>4. CASE NeedMoreSamples
    <3>1. AskedFor' = AskedFor
      BY <1>7, <2>4, AddedAsks
    <3>2. requests' <= requests + 1
      <4>1. requests' = requests \/ requests' = requests + 1
        BY DEF DispatchWorkItem, DispatchStart, DispatchStop, DispatchSample,
               DispatchMarkerOrType, RequestSample
      <4> QED BY <1>2, <4>1
    <3> HIDE DEF c, d
    <3>3. requests' + d + b <= requests + c + a
      BY <1>2, <1>3, <2>1, <2>3, <3>1, <3>2
    <3> QED BY <1>1, <2>3, <3>3 DEF c, d
  <2>5. CASE ~NeedMoreSamples
    <3>1. requests' = requests
      BY <2>5 DEF DispatchWorkItem, DispatchStart, DispatchStop, DispatchSample,
               DispatchMarkerOrType
    <3> HIDE DEF a, b, c, d
    <3>2. requests' + d + b <= requests + c + a
      BY <1>2, <1>3, <2>1, <2>3, <3>1
    <3> QED BY <1>1, <2>3, <3>2 DEF a, b, c, d
  <2> QED BY <2>4, <2>5
<1>8. DispatchStop \/ (SendOrDrop /\ \E done : Dispatching(done) /\ "OpStop" \notin done
                                   /\ done \subseteq Operations)
  <2>1. CASE DispatchStart
    <3>1. SendOrDrop /\ Dispatching({"OpStart"}) /\ {"OpStart"} \subseteq Operations
      BY <2>1, OperationsAre DEF DispatchStart
    <3> QED BY <3>1
  <2>2. CASE DispatchSample
    <3>1. /\ SendOrDrop /\ Dispatching({"OpProcessSample"})
          /\ {"OpProcessSample"} \subseteq Operations
      BY <2>2, OperationsAre DEF DispatchSample
    <3> QED BY <3>1
  <2>3. CASE DispatchMarkerOrType
    <3>1. /\ SendOrDrop /\ Dispatching({"OpPlaceMarker", "OpSetMediaType"})
          /\ {"OpPlaceMarker", "OpSetMediaType"} \subseteq Operations
      BY <2>3, OperationsAre DEF DispatchMarkerOrType
    <3> QED BY <3>1
  <2> QED BY <2>1, <2>2, <2>3 DEF DispatchWorkItem
<1> QED BY <1>6, <1>7, <1>8

LEMMA LessAsked ==
    \A r, c, a, s, e, t, f \in Nat :
        r + c + a <= s + e /\ t <= r + c + a /\ e <= f => t <= s + f
  OBVIOUS

LEMMA SumTyped == \A r, c, a \in Nat : r + c + a \in Nat
  OBVIOUS

LEMMA SumLess ==
    \A r, c, a, q, d, b \in Nat :
        q <= r /\ d <= c /\ b <= a => q + d + b <= r + c + a
  OBVIOUS

LEMMA OneAnswered ==
    \A r, c, a, q, d, b \in Nat :
        q <= r + 1 /\ d <= c /\ b <= a - 1 => q + d + b <= r + c + a
  OBVIOUS

LEMMA RunningKeepsCount ==
    ASSUME TypeOK, TypeOK', IsFiniteSet(AskedFor), ~isShutdown, ~isShutdown',
           RequestsCounted, [Next]_vars
    PROVE  IsFiniteSet(AskedFor') /\ RequestsCounted'
<1> DEFINE c == Cardinality(Chances)
           d == Cardinality(Chances')
           a == Cardinality(AskedFor)
           b == Cardinality(AskedFor')
           e == Cardinality(Extra)
           f == Cardinality(Extra')
<1>1. /\ c \in Nat /\ d \in Nat
      /\ requests \in Nat /\ requests' \in Nat /\ starts \in Nat /\ starts' \in Nat
  BY PendingCounts DEF Chances, TypeOK, QueuesOK, CountersOK
<1>2. requests + c + a <= starts + e
  BY DEF RequestsCounted
<1>3. ASSUME IsFiniteSet(AskedFor'), requests' + d + b <= starts' + f
      PROVE  IsFiniteSet(AskedFor') /\ RequestsCounted'
  BY <1>3 DEF RequestsCounted
<1>4. a \in Nat
  BY FS_CardinalityType
<1>5. e \in Nat /\ f \in Nat
  <2>1. e \in Nat
    BY ExtraCounts
  <2>2. Extra' \subseteq Extra'
    OBVIOUS
  <2>3. f \in Nat
    <3>1. 1 \in Int /\ accepted' \in Int
      BY DEF TypeOK, CountersOK
    <3>2. IsFiniteSet(1 .. accepted')
      BY <3>1, FS_Interval
    <3>3. Extra' \in SUBSET (1 .. accepted')
      BY DEF Extra
    <3> QED BY <3>2, <3>3, SubsetCounts
  <2> QED BY <2>1, <2>3
<1>6. CASE Adds
  <2>1. PICK kind \in Kinds, op \in Operations :
            /\ op = OpFor[kind] /\ Appended(kind, op)
            /\ requests' = IF kind = "sample" THEN requests - 1 ELSE requests
    BY <1>6 DEF Adds
  <2>2. d <= c + 1
    <3>1. Cardinality(Pending(workItems', Operations \ {"OpStop"}))
             <= Cardinality(Pending(workItems, Operations \ {"OpStop"}))
                  + (IF op \in Operations \ {"OpStop"} THEN 1 ELSE 0)
      BY <2>1, AppendCounts DEF Appended
    <3>2. op \in Operations \ {"OpStop"}
      BY <2>1 DEF OpFor, Kinds
    <3> QED BY <3>1, <3>2 DEF Chances
  <2>3. f >= e + (IF kind = "sample" THEN 0 ELSE 1)
    BY <1>6, <2>1, AddsCountsExtra
  <2>4. IsFiniteSet(AskedFor') /\ b = a /\ starts' = starts
    BY <1>6 DEF Adds, AskedFor
  <2> HIDE DEF a, b, c, d, e, f
  <2>5. requests' + d + b <= starts' + f
    <3>1. CASE kind = "sample"
      BY <1>1, <1>2, <1>4, <1>5, <2>1, <2>2, <2>3, <2>4, <3>1
    <3>2. CASE kind # "sample"
      BY <1>1, <1>2, <1>4, <1>5, <2>1, <2>2, <2>3, <2>4, <3>2
    <3> QED BY <3>1, <3>2
  <2> QED BY <1>3, <2>4, <2>5 DEF a, b, c, d, e, f
<1>7. CASE Start \/ Stop
  <2>1. PICK op \in {"OpStart", "OpStop"} :
            /\ QueueAsyncOperation(op)
            /\ starts' = IF op = "OpStart" THEN starts + 1 ELSE starts
    BY <1>7 DEF Start, Stop
  <2>2. d <= c + (IF op = "OpStart" THEN 1 ELSE 0)
    <3>1. op \in Operations /\ (op \in Operations \ {"OpStop"} <=> op = "OpStart")
      BY OperationsAre
    <3>2. Cardinality(Pending(workItems', Operations \ {"OpStop"}))
             <= Cardinality(Pending(workItems, Operations \ {"OpStop"}))
                  + (IF op \in Operations \ {"OpStop"} THEN 1 ELSE 0)
      BY <2>1, <3>1, AppendCounts
    <3> QED BY <3>1, <3>2 DEF Chances
  <2>3. UNCHANGED <<requests, sending, log, sampleQueue, accepted>>
    BY <1>7 DEF Start, Stop, network, events
  <2>4. IsFiniteSet(AskedFor') /\ b = a /\ f = e
    BY <2>3 DEF AskedFor, Extra
  <2> HIDE DEF a, b, c, d, e, f
  <2>5. requests' + d + b <= starts' + f
    <3>1. CASE op = "OpStart"
      BY <1>1, <1>2, <1>4, <1>5, <2>1, <2>2, <2>3, <2>4, <3>1
    <3>2. CASE op # "OpStart"
      BY <1>1, <1>2, <1>4, <1>5, <2>1, <2>2, <2>3, <2>4, <3>2
    <3> QED BY <3>1, <3>2
  <2> QED BY <1>3, <2>4, <2>5 DEF a, b, c, d, e, f
<1>8. CASE DispatchWorkItem
  <2>1. /\ IsFiniteSet(AskedFor') /\ b \in Nat
        /\ requests' + d + b <= requests + c + a
        /\ Extra \subseteq Extra' /\ starts' = starts
    BY <1>8, DispatchCounts
  <2>2. e <= f
    BY <2>1, FewerExtra
  <2>3. b \in Nat /\ requests' + d + b <= requests + c + a /\ starts' = starts
    BY <2>1
  <2> HIDE DEF a, b, c, d, e, f
  <2>4. requests' + d + b <= starts + f
    <3>1. requests' + d + b \in Nat
      BY <1>1, <2>3, SumTyped
    <3>2. requests' + d + b <= requests + c + a /\ e <= f
      BY <2>2, <2>3
    <3> QED BY <1>1, <1>2, <1>4, <1>5, <3>1, <3>2, LessAsked
  <2>5. requests' + d + b <= starts' + f
    BY <2>3, <2>4
  <2> QED BY <1>3, <2>1, <2>5 DEF a, b, c, d, e, f
<1>9. CASE SendCompleted
  <2>1. PICK p \in sending : SendSucceeded(p) \/ SendFailed(p)
    BY <1>9 DEF SendCompleted
  <2>2. UNCHANGED <<workItems, sampleQueue, log, accepted, starts>>
        /\ sending' = sending \ {p}
    BY <2>1 DEF SendSucceeded, SendFailed, queues, ghosts
  <2>3. d = c /\ f = e
    BY <2>2 DEF Chances, Extra
  <2>4. AskedFor' \subseteq AskedFor
    BY <2>2 DEF AskedFor
  <2>5. IsFiniteSet(AskedFor') /\ b <= a /\ b \in Nat
    BY <2>4, FewerAsk
  <2>6. CASE p.asks
    <3>1. AskedFor' = AskedFor \ {p} /\ p \in AskedFor
      BY <2>1, <2>2, <2>6 DEF AskedFor
    <3>2. b = a - 1
      <4> DEFINE A == AskedFor
      <4>1. IsFiniteSet(A) /\ p \in A /\ AskedFor' = A \ {p}
        BY <3>1
      <4> HIDE DEF A
      <4>2. Cardinality(A \ {p}) = Cardinality(A) - 1
        BY <4>1, FS_RemoveElement
      <4> QED BY <4>1, <4>2 DEF A
    <3>3. requests' = requests \/ requests' = requests + 1
      BY <2>1 DEF SendSucceeded, SendFailed, RequestSample
    <3>4. starts' = starts /\ requests' <= requests + 1
      BY <1>1, <2>2, <3>3
    <3> HIDE DEF a, b, c, d, e, f
    <3>5. /\ requests' + d + b <= requests + c + a
          /\ e <= f /\ requests' + d + b \in Nat
      <4>1. d <= c /\ b <= a - 1 /\ e <= f
        BY <1>1, <1>5, <1>4, <2>3, <3>2
      <4>2. requests' + d + b \in Nat
        BY <1>1, <2>5, SumTyped
      <4> QED BY <1>1, <1>4, <2>5, <3>4, <4>1, <4>2, OneAnswered
    <3>6. requests' + d + b <= starts + f
      BY <1>1, <1>2, <1>4, <1>5, <3>5, LessAsked
    <3>7. requests' + d + b <= starts' + f
      BY <3>4, <3>6
    <3> QED BY <1>3, <2>5, <3>7 DEF a, b, c, d, e, f
  <2>7. CASE ~p.asks
    <3>1. requests' = requests
      BY <2>1, <2>7 DEF SendSucceeded, SendFailed
    <3> HIDE DEF a, b, c, d, e, f
    <3>2. requests' + d + b <= starts' + f
      BY <1>1, <1>2, <1>4, <1>5, <2>2, <2>3, <2>5, <3>1
    <3> QED BY <1>3, <2>5, <3>2 DEF a, b, c, d, e, f
  <2> QED BY <2>6, <2>7
<1>10. CASE RefuseSample \/ SetFirstMediaType \/ UNCHANGED vars
  <2>1. UNCHANGED <<workItems, sampleQueue, log, accepted, starts, sending>>
        /\ (requests' = requests \/ requests' = requests - 1)
    BY <1>10 DEF RefuseSample, SetFirstMediaType, vars, queues, network,
                 events, ghosts
  <2>2. d = c /\ f = e /\ b = a /\ IsFiniteSet(AskedFor')
    BY <2>1 DEF Chances, Extra, AskedFor
  <2>3. starts' = starts /\ requests' <= requests /\ d = c /\ f = e /\ b = a
    BY <1>1, <2>1, <2>2
  <2> HIDE DEF a, b, c, d, e, f
  <2>4. /\ requests' + d + b <= requests + c + a
        /\ e <= f /\ requests' + d + b \in Nat
    <3>1. d <= c /\ b <= a /\ e <= f /\ b \in Nat
      BY <1>1, <1>4, <1>5, <2>3
    <3>2. requests' + d + b \in Nat
      BY <1>1, <3>1, SumTyped
    <3> QED BY <1>1, <1>4, <2>3, <3>1, <3>2, SumLess
  <2>5. requests' + d + b <= starts + f
    BY <1>1, <1>2, <1>4, <1>5, <2>4, LessAsked
  <2>6. requests' + d + b <= starts' + f
    BY <2>3, <2>5
  <2> QED BY <1>3, <2>2, <2>6 DEF a, b, c, d, e, f
<1>11. CASE KeepFirstSample \/ SetConnected \/ Flush
  <2>1. UNCHANGED <<workItems, requests, starts>>
    BY <1>11 DEF KeepFirstSample, SetConnected, Flush, queues, events, ghosts
  <2>2. AskedFor' = AskedFor
    <3>1. CASE KeepFirstSample \/ Flush
      BY <3>1 DEF KeepFirstSample, Flush, DropSamplesFromQueue, network, AskedFor
    <3>2. CASE SetConnected
      <4> DEFINE k == [id |-> firstVideoSample.id, asks |-> FALSE]
      <4>1. sending' = sending \/ sending' = sending \cup {k}
        BY <3>2 DEF SetConnected, SendKeptSample, network
      <4>2. ~k.asks
        OBVIOUS
      <4> HIDE DEF k
      <4> QED BY <4>1, <4>2 DEF AskedFor
    <3> QED BY <1>11, <3>1, <3>2
  <2>3. Extra \subseteq Extra'
    <3>1. CASE KeepFirstSample
      <4>1. UNCHANGED <<log, sampleQueue>> /\ accepted' = accepted + 1
        BY <3>1 DEF KeepFirstSample, network, queues
      <4>2. accepted <= accepted'
        BY <4>1 DEF TypeOK, CountersOK
      <4> QED BY <4>1, <4>2, ExtraKept
    <3>2. CASE SetConnected
      <4>1. sampleQueue' = sampleQueue /\ accepted' = accepted
        BY <3>2 DEF SetConnected, queues, ghosts
      <4>2. \A j \in DOMAIN log : j \in DOMAIN log' /\ log'[j] = log[j]
        <5>1. CASE firstVideoSample = NoSample
          BY <3>2, <5>1 DEF SetConnected, network
        <5>2. CASE firstVideoSample # NoSample
          <6>1. PICK o \in Outcome :
                    /\ Len(log') = Len(log) + 1
                    /\ \A i \in 1 .. Len(log) : log'[i] = log[i]
            BY <3>2, <5>2, KeptSampleSent
          <6>2. /\ DOMAIN log = 1 .. Len(log) /\ Len(log) \in Nat
                /\ DOMAIN log' = 1 .. Len(log')
            BY SequencesTyped
          <6> QED BY <6>1, <6>2
        <5> QED BY <5>1, <5>2
      <4>3. accepted <= accepted'
        BY <4>1 DEF TypeOK, CountersOK
      <4> QED BY <4>1, <4>2, <4>3, ExtraKept
    <3>3. CASE Flush
      <4>1. accepted' = accepted
        BY <3>3 DEF Flush, ghosts
      <4>2. Took(Len(sampleQueue))
        BY <3>3, DropTakes DEF Flush
      <4> QED BY <4>1, <4>2, TakesKeepsExtra
    <3> QED BY <1>11, <3>1, <3>2, <3>3
  <2>4. e <= f
    BY <2>3, FewerExtra
  <2>5. d = c /\ b = a /\ IsFiniteSet(AskedFor')
    BY <2>1, <2>2 DEF Chances
  <2> HIDE DEF a, b, c, d, e, f
  <2>6. requests' + d + b <= starts' + f
    BY <1>1, <1>2, <1>4, <1>5, <2>1, <2>4, <2>5
  <2> QED BY <1>3, <2>5, <2>6 DEF a, b, c, d, e, f
<1>12. CASE ChangeMediaType \/ QueueSample \/ PlaceMarker
  BY <1>6, <1>12, EntryAdded
<1>13. CASE Shutdown
  BY <1>13 DEF Shutdown
<1> QED BY <1>7, <1>8, <1>9, <1>10, <1>11, <1>12, <1>13 DEF Next, Pipeline, Sink

RequestsInv ==
    /\ IsFiniteSet(AskedFor)
    /\ RequestsCounted
    /\ isShutdown => RequestsBounded

SampleItems == Pending(workItems, {"OpProcessSample"})

LEMMA BoundedMeans ==
    RequestsBounded <=>
        requests + Cardinality(SampleItems) + Cardinality(AskedFor)
            <= starts + Cardinality(Extra)
<1>1. SampleItems = {i \in DOMAIN workItems : workItems[i] = "OpProcessSample"}
  BY DEF SampleItems, Pending
<1>2. AskedFor = {p \in sending : p.asks}
  BY DEF AskedFor
<1> QED BY <1>1, <1>2 DEF RequestsBounded

LEMMA SamplesAreChances ==
    ASSUME TypeOK
    PROVE  /\ SampleItems \subseteq Chances /\ IsFiniteSet(Chances)
           /\ Cardinality(SampleItems) <= Cardinality(Chances)
           /\ Cardinality(SampleItems) \in Nat /\ Cardinality(Chances) \in Nat
<1> DEFINE S == SampleItems
           C == Chances
<1>1. S \in SUBSET C
  BY OperationsAre DEF SampleItems, Chances, Pending
<1>2. IsFiniteSet(C)
  BY PendingCounts DEF Chances, TypeOK, QueuesOK
<1> HIDE DEF S, C
<1>3. /\ Cardinality(S) <= Cardinality(C)
      /\ Cardinality(S) \in Nat /\ Cardinality(C) \in Nat
  BY <1>1, <1>2, SubsetCounts
<1> QED BY <1>1, <1>2, <1>3 DEF S, C

LEMMA CountedIsBounded ==
    ASSUME TypeOK, RequestsInv
    PROVE  RequestsBounded
<1>1. CASE isShutdown
  BY <1>1 DEF RequestsInv
<1>2. CASE ~isShutdown
  <2> DEFINE s == Cardinality(SampleItems)
             c == Cardinality(Chances)
             a == Cardinality(AskedFor)
             e == Cardinality(Extra)
  <2>1. s <= c /\ s \in Nat /\ c \in Nat
    BY SamplesAreChances
  <2>2. a \in Nat /\ e \in Nat /\ requests \in Nat /\ starts \in Nat
    BY FS_CardinalityType, ExtraCounts DEF RequestsInv, TypeOK, CountersOK
  <2>3. requests + c + a <= starts + e
    BY <1>2 DEF RequestsInv, RequestsCounted
  <2> HIDE DEF s, c, a, e
  <2>4. requests + s + a \in Nat
    BY <2>1, <2>2, SumTyped
  <2>5. requests <= requests /\ a <= a /\ e <= e
    BY <2>2
  <2>6. requests + s + a <= requests + c + a
    BY <2>1, <2>2, <2>5, SumLess
  <2>7. requests + s + a <= starts + e
    BY <2>1, <2>2, <2>3, <2>4, <2>5, <2>6, LessAsked
  <2> QED BY <2>7, BoundedMeans DEF s, a, e
<1> QED BY <1>1, <1>2

(* Once shut down, everything only shrinks.                                *)
LEMMA ShutKeepsBound ==
    ASSUME TypeOK, TypeOK', ShutdownDrained, RequestsInv, isShutdown, [Next]_vars
    PROVE  RequestsInv'
<1> DEFINE s == Cardinality(SampleItems)
           t == Cardinality(SampleItems')
           a == Cardinality(AskedFor)
           b == Cardinality(AskedFor')
           e == Cardinality(Extra)
<1>1. /\ UNCHANGED <<isShutdown, log, sampleQueue>>
      /\ sending' \subseteq sending /\ requests' <= requests
  BY AfterShutdown
<1>2. AskedFor' \subseteq AskedFor
  BY <1>1 DEF AskedFor
<1>3. IsFiniteSet(AskedFor') /\ b <= a /\ a \in Nat /\ b \in Nat
  BY <1>2, FewerAsk DEF RequestsInv
<1>4. UNCHANGED <<accepted, starts>>
  BY DEF Next, Pipeline, Sink, SetFirstMediaType, ChangeMediaType, RefuseSample,
         KeepFirstSample, QueueSample, PlaceMarker, Flush, Start, Stop,
         SetConnected, Shutdown, DispatchWorkItem, DispatchStart, DispatchStop,
         DispatchSample, DispatchMarkerOrType, Dispatching, SendCompleted,
         SendSucceeded, SendFailed, vars, ghosts
<1>5. Extra' = Extra
  BY <1>1, <1>4 DEF Extra
<1>6. t <= s
  <2>1. CASE workItems' = workItems
    <3>1. t = s /\ s \in Nat
      BY <2>1, SamplesAreChances DEF SampleItems
    <3> HIDE DEF s, t
    <3> QED BY <3>1
  <2>2. CASE DispatchWorkItem
    <3>1. PICK done : Dispatching(done)
      BY <2>2 DEF DispatchWorkItem, DispatchStart, DispatchStop, DispatchSample,
                  DispatchMarkerOrType
    <3>2. t <= s - (IF workItems[1] \in {"OpProcessSample"} THEN 1 ELSE 0)
      BY <3>1, RemoveCounts DEF SampleItems
    <3>3. s \in Nat /\ t \in Nat
      BY PendingCounts DEF SampleItems, TypeOK, QueuesOK
    <3> HIDE DEF s, t
    <3> QED BY <3>2, <3>3
  <2>3. workItems' = workItems \/ DispatchWorkItem
    BY DEF Next, Pipeline, Sink, SetFirstMediaType, ChangeMediaType, RefuseSample,
           KeepFirstSample, QueueSample, PlaceMarker, Flush, Start, Stop,
           SetConnected, Shutdown, SendCompleted, SendSucceeded, SendFailed,
           vars, queues
  <2> QED BY <2>1, <2>2, <2>3
<1>7. /\ s \in Nat /\ t \in Nat /\ e \in Nat /\ requests \in Nat /\ requests' \in Nat
      /\ starts \in Nat
  BY PendingCounts, ExtraCounts DEF SampleItems, TypeOK, QueuesOK, CountersOK
<1>8. requests + s + a <= starts + e
  BY BoundedMeans DEF RequestsInv
<1>9. requests' + t + b <= starts + e
  <2>1. b <= a /\ requests' <= requests /\ a \in Nat /\ b \in Nat
    BY <1>1, <1>3
  <2> HIDE DEF s, t, a, b, e
  <2>2. requests' + t + b \in Nat
    BY <1>7, <2>1, SumTyped
  <2>3. requests' + t + b <= requests + s + a
    BY <1>6, <1>7, <2>1, SumLess
  <2>4. /\ requests \in Nat /\ s \in Nat /\ a \in Nat
        /\ starts \in Nat /\ e \in Nat /\ e <= e
    BY <1>7, <2>1
  <2> QED BY <1>8, <2>2, <2>3, <2>4, LessAsked
<1>10. requests' + Cardinality(SampleItems') + Cardinality(AskedFor')
          <= starts' + Cardinality(Extra')
  BY <1>4, <1>5, <1>9
<1>11. RequestsBounded'
  BY <1>10 DEF RequestsBounded, SampleItems, Pending, AskedFor
<1> QED BY <1>1, <1>3, <1>11 DEF RequestsInv, RequestsCounted

LEMMA LostAreSpare ==
    \A r, c, a, t, e, s, f \in Nat :
        e - f <= c - s /\ r + c + a <= t + e => r + s + a <= t + f
  OBVIOUS

(* At Shutdown the markers and types still in the queue are lost, but they *)
(* have work items that are not samples.                                   *)
LEMMA ShutdownKeepsBound ==
    ASSUME TypeOK, TypeOK', ItemsInOrder, RequestsInv, Shutdown
    PROVE  RequestsInv'
<1> DEFINE m == Len(sampleQueue)
           E == Extra
           F == Extra'
           C == Chances
           S == SampleItems
           r == requests
           a == Cardinality(AskedFor)
<1>1. /\ ~isShutdown /\ isShutdown' /\ sampleQueue' = <<>>
      /\ UNCHANGED <<workItems, sending, log, requests, accepted, starts>>
  BY DEF Shutdown, network, events, ghosts
<1>2. AskedFor' = AskedFor /\ SampleItems' = SampleItems
  BY <1>1 DEF AskedFor, SampleItems
<1>3. PICK f \in [DOMAIN sampleQueue -> DOMAIN workItems] : ItemForEach(f)
  BY DEF ItemsInOrder
<1>4. /\ m \in Nat /\ DOMAIN sampleQueue = 1 .. m
      /\ DOMAIN workItems = 1 .. Len(workItems) /\ Len(workItems) \in Nat
  BY SequencesTyped, ItemsTyped
<1>5. \A i \in 1 .. m : sampleQueue[i].kind # "sample" => f[i] \in C \ S
  <2> SUFFICES ASSUME NEW i \in 1 .. m, sampleQueue[i].kind # "sample"
               PROVE  f[i] \in C \ S
    OBVIOUS
  <2>1. f[i] \in DOMAIN workItems /\ workItems[f[i]] = OpFor[sampleQueue[i].kind]
    BY <1>3, <1>4 DEF ItemForEach
  <2>2. sampleQueue[i].kind \in Kinds
    BY <1>4, SequencesTyped
  <2>3. workItems[f[i]] \in {"OpPlaceMarker", "OpSetMediaType"}
    BY <2>1, <2>2 DEF OpFor, Kinds
  <2> QED BY <2>1, <2>3, OperationsAre DEF Chances, SampleItems, Pending
<1>6. \A i, j \in 1 .. m : f[i] = f[j] => i = j
  <2> SUFFICES ASSUME NEW i \in 1 .. m, NEW j \in 1 .. m, i < j
               PROVE  f[i] # f[j]
    BY <1>4
  <2>1. f[i] < f[j] /\ f[i] \in 1 .. Len(workItems)
    BY <1>3, <1>4 DEF ItemForEach
  <2> QED BY <2>1, <1>4
<1>7. \A x \in E \ F : \E j \in 1 .. m :
          sampleQueue[j].id = x /\ sampleQueue[j].kind # "sample"
  <2>1. TAKE x \in E \ F
  <2>2. x \in 1 .. accepted'
    BY <1>1 DEF Extra
  <2>3. ~ \E j \in DOMAIN log : log[j].id = x /\ log[j].kind # "sample"
    <3>1. \A j \in DOMAIN log' : log'[j].id = x => log'[j].kind = "sample"
      BY <2>2 DEF Extra
    <3> QED BY <1>1, <3>1
  <2> QED BY <2>3, <1>4 DEF Extra
<1> DEFINE q(x) == CHOOSE j \in 1 .. m :
                      sampleQueue[j].id = x /\ sampleQueue[j].kind # "sample"
           g == [x \in E \ F |-> f[q(x)]]
<1>8. \A x \in E \ F : /\ q(x) \in 1 .. m /\ sampleQueue[q(x)].id = x
                       /\ sampleQueue[q(x)].kind # "sample"
  BY <1>7
<1>9. g \in Injection(E \ F, C \ S)
  <2> HIDE DEF q, E, F, C, S
  <2>1. \A x \in E \ F : f[q(x)] \in C \ S
    BY <1>5, <1>8
  <2>2. g \in [E \ F -> C \ S]
    BY <2>1
  <2>3. \A x, y \in E \ F : g[x] = g[y] => x = y
    <3> SUFFICES ASSUME NEW x \in E \ F, NEW y \in E \ F, f[q(x)] = f[q(y)]
                 PROVE  x = y
      OBVIOUS
    <3>1. q(x) = q(y)
      BY <1>6, <1>8
    <3> QED BY <3>1, <1>8
  <2> HIDE DEF g
  <2> QED BY <2>2, <2>3 DEF Injection, IsInjective
<1>10. /\ S \subseteq C /\ IsFiniteSet(C)
       /\ Cardinality(S) \in Nat /\ Cardinality(C) \in Nat
  BY SamplesAreChances
<1>11. F \subseteq E /\ IsFiniteSet(E) /\ Cardinality(E) \in Nat
  <2>1. F \subseteq E
    BY <1>1 DEF Extra
  <2> QED BY <2>1, ExtraCounts
<1>12. /\ Cardinality(E) - Cardinality(F) <= Cardinality(C) - Cardinality(S)
       /\ Cardinality(F) \in Nat
  <2> HIDE DEF q, g, E, F, C, S
  <2>1. IsFiniteSet(C \ S)
    BY <1>10, FS_Difference
  <2>2. Cardinality(E \ F) <= Cardinality(C \ S)
    BY <1>9, <2>1, FS_Injection
  <2>3. E \cap F = F /\ C \cap S = S
    BY <1>10, <1>11
  <2>4. /\ Cardinality(E \ F) = Cardinality(E) - Cardinality(E \cap F)
        /\ Cardinality(C \ S) = Cardinality(C) - Cardinality(C \cap S)
    BY <1>10, <1>11, FS_Difference
  <2>5. F \in SUBSET E
    BY <1>11
  <2>6. Cardinality(F) \in Nat
    BY <1>11, <2>5, SubsetCounts
  <2> QED BY <2>2, <2>3, <2>4, <2>6
<1>13. r + Cardinality(C) + a <= starts + Cardinality(E)
  BY <1>1 DEF RequestsInv, RequestsCounted
<1>14. a \in Nat /\ r \in Nat /\ starts \in Nat
  BY FS_CardinalityType DEF RequestsInv, TypeOK, CountersOK
<1>15. r + Cardinality(S) + a <= starts + Cardinality(F)
  <2> DEFINE e == Cardinality(E)
             f0 == Cardinality(F)
             c == Cardinality(C)
             s == Cardinality(S)
  <2>1. /\ e \in Nat /\ f0 \in Nat /\ c \in Nat /\ s \in Nat
        /\ e - f0 <= c - s /\ r + c + a <= starts + e
    BY <1>10, <1>11, <1>12, <1>13
  <2> HIDE DEF e, f0, c, s, r, a
  <2>2. r + s + a <= starts + f0
    BY <1>14, <2>1, LostAreSpare
  <2> QED BY <2>2 DEF e, f0, c, s
<1>16. requests' + Cardinality(SampleItems') + Cardinality(AskedFor')
          <= starts' + Cardinality(Extra')
  BY <1>1, <1>2, <1>15
<1>17. RequestsBounded'
  BY <1>16 DEF RequestsBounded, SampleItems, Pending, AskedFor
<1>18. IsFiniteSet(AskedFor')
  BY <1>2 DEF RequestsInv
<1> QED BY <1>1, <1>17, <1>18 DEF RequestsInv, RequestsCounted

LEMMA RequestsHold == Spec => []RequestsInv
<1>1. Init => RequestsInv
  <2> SUFFICES ASSUME Init PROVE RequestsInv
    OBVIOUS
  <2>1. /\ AskedFor = {} /\ Chances = {} /\ Extra = {}
        /\ requests = 0 /\ starts = 0 /\ isShutdown = FALSE
    BY DEF Init, AskedFor, Chances, Pending, Extra
  <2>2. IsFiniteSet(AskedFor) /\ Cardinality({}) = 0
    BY <2>1, FS_EmptySet
  <2>3. requests + Cardinality(Chances) + Cardinality(AskedFor)
            <= starts + Cardinality(Extra)
    BY <2>1, <2>2
  <2> QED BY <2>1, <2>2, <2>3 DEF RequestsInv, RequestsCounted
<1>2. TypeOK /\ TypeOK' /\ ShutdownDrained /\ ItemsInOrder /\ RequestsInv
          /\ [Next]_vars => RequestsInv'
  <2> SUFFICES ASSUME TypeOK, TypeOK', ShutdownDrained, ItemsInOrder,
                      RequestsInv, [Next]_vars
               PROVE  RequestsInv'
    OBVIOUS
  <2>1. CASE isShutdown
    BY <2>1, ShutKeepsBound
  <2>2. CASE ~isShutdown /\ ~isShutdown'
    BY <2>2, RunningKeepsCount DEF RequestsInv
  <2>3. CASE ~isShutdown /\ isShutdown'
    <3>1. DispatchWorkItem => isShutdown' = isShutdown
      BY DEF DispatchWorkItem, DispatchStart, DispatchStop, DispatchSample,
             DispatchMarkerOrType, Dispatching, object
    <3>2. SendCompleted => isShutdown' = isShutdown
      BY DEF SendCompleted, SendSucceeded, SendFailed, object
    <3>3. Pipeline \/ Start \/ Stop \/ SetConnected \/ UNCHANGED vars
              => isShutdown' = isShutdown
      BY DEF Pipeline, SetFirstMediaType, ChangeMediaType, RefuseSample,
             KeepFirstSample, QueueSample, PlaceMarker, Flush, Start, Stop,
             SetConnected, vars, object
    <3>4. Shutdown
      BY <2>3, <3>1, <3>2, <3>3 DEF Next, Sink
    <3> QED BY <3>4, ShutdownKeepsBound
  <2> QED BY <2>1, <2>2, <2>3
<1> QED BY <1>1, <1>2, TypeCorrect, DrainedHolds, ItemsHold, PTL DEF Spec

(* The sink neither starves nor floods itself: while it runs the pipeline  *)
(* is asked or will be, and never for more than what was started, marked,  *)
(* retyped or used up.                                                     *)
THEOREM BackpressureHolds == Spec => []Backpressure
<1>1. TypeOK /\ RequestsInv /\ NeverStalls => Backpressure
  BY CountedIsBounded DEF Backpressure
<1> QED BY <1>1, TypeCorrect, RequestsHold, NeverStallsHolds, PTL
=============================================================================
