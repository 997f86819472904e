--------------------------- MODULE Encoder_proofs ---------------------------
(***************************************************************************)
(* Proofs about the encoder that several outputs share, for every set of   *)
(* outputs and every number of calls and frames.                           *)
(***************************************************************************)
EXTENDS Encoder, TLAPS

(* The types of the variables that the proofs use and TypeOK leaves out.   *)
ValuesOK ==
    /\ TypeOK
    /\ owner \in {"holding", "destroying", "done"}
    /\ codec \in Nat /\ codecs \in Nat /\ packets \in Nat
    /\ destroyed \in Nat /\ curPts \in Nat /\ lastPts \in Nat
    /\ got \in [Outputs -> Nat]

(* init_mutex is held across a wait by the output that connects or         *)
(* disconnects the encoder, and by nobody else.                            *)
MutexHeld ==
    \A o \in Outputs :
        initMutex = o <=> at[o] \in {"connecting", "disconnecting"}

(* While nobody holds it the encoder is connected exactly when an output   *)
(* is registered.                                                          *)
ConnectedInStep ==
    /\ initMutex = "free" => (active <=> callbacks # {})
    /\ \A o \in Outputs :
           /\ at[o] = "connecting" => callbacks = {o} /\ ~active /\ codec # 0
           /\ at[o] = "disconnecting" => callbacks = {} /\ active
    /\ frame # NoFrame => active

(* An output between its two calls has a codec, unless it was overtaken.   *)
CodecKept ==
    /\ active => codec # 0
    /\ initialized => codec # 0 \/ owner = "done"
    /\ codec # 0 => initialized
    /\ \A o \in Outputs : at[o] = "initialized" =>
           owner = "holding" /\ (o \in overtaken \/ initialized)
    /\ \A o \in Outputs : at[o] = "started" => o \in callbacks \cup overtaken

(* Nobody but those that were overtaken is left that uses the encoder.     *)
Deserted(except) ==
    /\ initMutex = "free" /\ callbacks = {} /\ frame = NoFrame /\ ~active
    /\ \A o \in Outputs \ except : at[o] = "idle" \/ o \in overtaken

(* Who is about to free the encoder is alone with it, and the only one.    *)
OneDestroys ==
    /\ owner # "done" => ~destroyOnStop /\ destroyed = 0
    /\ owner = "destroying" => Deserted({})
    /\ \A o \in Outputs : at[o] = "destroying" =>
           owner = "done" /\ destroyed = 0 /\ Deserted({o})
    /\ destroyed > 0 => destroyed = 1 /\ Deserted({})
    /\ \A o \in overtaken : at[o] \in {"initialized", "started"}

(* A codec in use was given no timestamp past the last one counted, and    *)
(* one that is not in use was given none.                                  *)
TimesInStep == IF active THEN lastPts <= curPts ELSE lastPts = 0

(* An output that was sent a packet was sent the last one, but for the one *)
(* in the encoder's hands.                                                 *)
PacketsInStep ==
    /\ frame.packet \in {0, packets}
    /\ \A o \in Outputs : got[o] # 0 <=> o \in sentFirst
    /\ \A o \in sentFirst : got[o] = IF frame.packet = 0 THEN packets ELSE packets - 1

IInv ==
    /\ ValuesOK /\ MutexHeld /\ ConnectedInStep /\ CodecKept
    /\ OneDestroys /\ TimesInStep /\ PacketsInStep

(* IInv is inductive: one step per action, and under it one per conjunct.  *)
LEMMA StepKeepsIInv ==
    ASSUME IInv, [Next]_vars
    PROVE  IInv'
<1> USE OutputsAssumption DEF vars, codecVars, counters, Move, Places, NoFrame, IInv
<1>1. ASSUME NEW o \in Outputs, Initialize(o)
      PROVE  IInv'
  <2>1. ValuesOK'
    <3>1. TypeOK'
      BY <1>1 DEF Initialize, ShutdownCodec, ValuesOK, TypeOK
    <3>2. codec' \in Nat /\ codecs' \in Nat /\ lastPts' \in Nat
          /\ curPts' \in Nat
      BY <1>1 DEF Initialize, ShutdownCodec, ValuesOK
    <3>3. QED  BY <1>1, <3>1, <3>2 DEF Initialize, ValuesOK
  <2>2. MutexHeld'
    BY <1>1 DEF Initialize, ShutdownCodec, ValuesOK, TypeOK, MutexHeld
  <2>3. ConnectedInStep'
    BY <1>1 DEF Initialize, ShutdownCodec, ValuesOK, TypeOK, MutexHeld, ConnectedInStep
  <2>4. CodecKept'
    <3>1. at \in [Outputs -> Places]
      BY DEF ValuesOK, TypeOK
    <3>2. \A p \in Outputs \ {o} : at'[p] = at[p]
      BY <1>1, <3>1 DEF Initialize, ShutdownCodec
    <3>3. /\ at'[o] = "initialized" => initialized'
          /\ codec' # 0 => initialized'
      BY <1>1, <3>1 DEF Initialize, ShutdownCodec, CodecKept
    <3>4. initialized => initialized'
      BY <1>1 DEF Initialize, ShutdownCodec
    <3>5. at'[o] \in {"idle", "initialized"}
      BY <1>1, <3>1 DEF Initialize, ShutdownCodec
    <3>6. owner' = owner /\ owner = "holding" /\ active' = active
          /\ overtaken' = overtaken /\ callbacks' = callbacks
      BY <1>1 DEF Initialize
    <3>7. (active' => codec' # 0) /\ (initialized' => codec' # 0)
      BY <1>1 DEF Initialize, ShutdownCodec, ValuesOK, CodecKept
    <3>8. QED  BY <3>2, <3>3, <3>4, <3>5, <3>6, <3>7 DEF CodecKept
  <2>5. OneDestroys'
    <3>1. at \in [Outputs -> Places]
      BY DEF ValuesOK, TypeOK
    <3>2. \A p \in Outputs \ {o} : at'[p] = at[p]
      BY <1>1, <3>1 DEF Initialize, ShutdownCodec
    <3>3. at'[o] \in {"idle", "initialized"}
      BY <1>1, <3>1 DEF Initialize, ShutdownCodec
    <3>4. o \notin overtaken
      BY <1>1 DEF Initialize, OneDestroys
    <3>5. /\ owner = "holding" /\ overtaken' = overtaken
          /\ UNCHANGED <<owner, destroyed, destroyOnStop>>
      BY <1>1 DEF Initialize
    <3>6. \A p \in overtaken : p \in Outputs
      BY DEF ValuesOK, TypeOK
    <3>7. QED  BY <3>2, <3>3, <3>4, <3>5, <3>6 DEF OneDestroys
  <2>6. TimesInStep'
    BY <1>1 DEF Initialize, ShutdownCodec, ValuesOK, TypeOK, MutexHeld, ConnectedInStep, TimesInStep
  <2>7. PacketsInStep'
    BY <1>1 DEF Initialize, ShutdownCodec, ValuesOK, TypeOK, ConnectedInStep, PacketsInStep
  <2>8. QED  BY <2>1, <2>2, <2>3, <2>4, <2>5, <2>6, <2>7
<1>2. ASSUME NEW o \in Outputs, Start(o)
      PROVE  IInv'
  <2>1. ValuesOK'
    <3>1. TypeOK'
      BY <1>2 DEF Start, Register, ValuesOK, TypeOK
    <3>2. codec' \in Nat /\ codecs' \in Nat /\ lastPts' \in Nat
          /\ curPts' \in Nat
      BY <1>2 DEF Start, Register, ValuesOK
    <3>3. QED  BY <1>2, <3>1, <3>2 DEF Start, ValuesOK
  <2>2. MutexHeld'
    <3>1. at \in [Outputs -> Places]
      BY DEF ValuesOK, TypeOK
    <3>2. \A p \in Outputs \ {o} : at'[p] = at[p]
      BY <1>2, <3>1 DEF Start, Register
    <3>3. at[o] = "initialized" /\ initMutex = "free"
      BY <1>2 DEF Start
    <3>4. \/ at'[o] = "connecting" /\ initMutex' = o
          \/ at'[o] = "started" /\ initMutex' = "free"
      BY <1>2, <3>1, <3>3 DEF Start, Register
    <3>5. QED  BY <3>2, <3>3, <3>4 DEF MutexHeld
  <2>3. ConnectedInStep'
    BY <1>2, ZenonT(60) DEF Start, Register, ValuesOK, TypeOK, MutexHeld, ConnectedInStep
  <2>4. CodecKept'
    <3>1. at \in [Outputs -> Places]
      BY DEF ValuesOK, TypeOK
    <3>2. \A p \in Outputs \ {o} : at'[p] = at[p]
      BY <1>2, <3>1 DEF Start, Register
    <3>3. /\ at'[o] = "connecting" \/ (at'[o] = "started" /\ o \in callbacks' \cup overtaken')
          /\ at[o] = "initialized" /\ owner' = owner /\ UNCHANGED <<active, codecVars>>
      BY <1>2, <3>1 DEF Start, Register, CodecKept, ValuesOK
    <3>4. \A p \in Outputs \ {o} : /\ p \in overtaken => p \in overtaken'
                                   /\ p \in callbacks => p \in callbacks'
      BY <1>2 DEF Start, Register
    <3>5. QED  BY <3>2, <3>3, <3>4 DEF CodecKept
  <2>5. OneDestroys'
    <3>1. at \in [Outputs -> Places]
      BY DEF ValuesOK, TypeOK
    <3>2. \A p \in Outputs \ {o} : at'[p] = at[p]
      BY <1>2, <3>1 DEF Start, Register
    <3>3. at'[o] \in {"connecting", "started"}
      BY <1>2, <3>1 DEF Start, Register
    <3>4. owner = "holding" /\ owner' = owner /\ destroyed' = destroyed
          /\ destroyOnStop' = destroyOnStop /\ at[o] = "initialized"
      BY <1>2 DEF Start, CodecKept
    <3>5. \A p \in overtaken' : p \in overtaken /\ at'[p] \in {"initialized", "started"}
      BY <1>2, <3>1, <3>2 DEF Start, Register, OneDestroys, ValuesOK, TypeOK
    <3>6. QED  BY <3>2, <3>3, <3>4, <3>5 DEF OneDestroys
  <2>6. TimesInStep'
    BY <1>2 DEF Start, Register, ValuesOK, TypeOK, MutexHeld, ConnectedInStep, TimesInStep
  <2>7. PacketsInStep'
    BY <1>2 DEF Start, Register, ValuesOK, TypeOK, ConnectedInStep, PacketsInStep
  <2>8. QED  BY <2>1, <2>2, <2>3, <2>4, <2>5, <2>6, <2>7
<1>3. ASSUME NEW o \in Outputs, Stop(o)
      PROVE  IInv'
  <2>1. ValuesOK'
    BY <1>3 DEF Stop, ValuesOK, TypeOK
  <2>2. MutexHeld'
    BY <1>3 DEF Stop, ValuesOK, TypeOK, MutexHeld
  <2>3. ConnectedInStep'
    <3>1. at \in [Outputs -> Places]
      BY DEF ValuesOK, TypeOK
    <3>2. \A p \in Outputs \ {o} : at'[p] = at[p]
      BY <1>3, <3>1 DEF Stop
    <3>3. initMutex = "free" /\ (active <=> callbacks # {})
          /\ callbacks' = callbacks \ {o} /\ active' = active /\ frame' = frame
      BY <1>3 DEF Stop, ConnectedInStep
    <3>4. \A p \in Outputs \ {o} : at'[p] \notin {"connecting", "disconnecting"}
      BY <3>2, <3>3 DEF MutexHeld
    <3>5. CASE o \in callbacks /\ callbacks' = {}
      <4>1. at'[o] = "disconnecting" /\ initMutex' = o /\ active
        BY <1>3, <3>1, <3>3, <3>5 DEF Stop
      <4>2. QED  BY <3>3, <3>4, <3>5, <4>1 DEF ConnectedInStep
    <3>6. CASE ~(o \in callbacks /\ callbacks' = {})
      <4>1. at'[o] = "idle"
        BY <1>3, <3>1, <3>6 DEF Stop
      <4>2. callbacks' # {} <=> callbacks # {}
        BY <3>3, <3>6
      <4>3. QED  BY <3>3, <3>4, <4>1, <4>2 DEF ConnectedInStep
    <3>7. QED  BY <3>5, <3>6
  <2>4. CodecKept'
    <3>1. at \in [Outputs -> Places]
      BY DEF ValuesOK, TypeOK
    <3>2. \A p \in Outputs \ {o} : at'[p] = at[p]
      BY <1>3, <3>1 DEF Stop
    <3>3. at'[o] \in {"idle", "disconnecting"} /\ UNCHANGED <<owner, active, codecVars>>
      BY <1>3, <3>1 DEF Stop
    <3>4. \A p \in Outputs \ {o} : /\ p \in overtaken => p \in overtaken'
                                   /\ p \in callbacks => p \in callbacks'
      BY <1>3 DEF Stop
    <3>5. QED  BY <3>2, <3>3, <3>4 DEF CodecKept
  <2>5. OneDestroys'
    <3>1. at \in [Outputs -> Places]
      BY DEF ValuesOK, TypeOK
    <3>2. \A p \in Outputs \ {o} : at'[p] = at[p]
      BY <1>3, <3>1 DEF Stop
    <3>3. /\ at'[o] \in {"idle", "disconnecting"} /\ o \notin overtaken'
          /\ at[o] = "started"
          /\ overtaken' = overtaken \ {o} /\ callbacks' = callbacks \ {o}
          /\ UNCHANGED <<owner, destroyed, destroyOnStop, active, frame>>
      BY <1>3, <3>1 DEF Stop
    <3>4. callbacks = {} => at'[o] = "idle" /\ initMutex' = initMutex
      BY <1>3, <3>1 DEF Stop
    <3>5. \A e \in SUBSET Outputs : Deserted(e) => Deserted(e)'
      BY <3>2, <3>3, <3>4 DEF Deserted
    <3>6. \A p \in overtaken' : at'[p] \in {"initialized", "started"}
      BY <3>2, <3>3 DEF OneDestroys, ValuesOK, TypeOK
    <3>7. QED  BY <3>2, <3>3, <3>5, <3>6 DEF OneDestroys
  <2>6. TimesInStep'
    BY <1>3 DEF Stop, ValuesOK, TypeOK, MutexHeld, ConnectedInStep, TimesInStep
  <2>7. PacketsInStep'
    BY <1>3 DEF Stop, ValuesOK, TypeOK, ConnectedInStep, PacketsInStep
  <2>8. QED  BY <2>1, <2>2, <2>3, <2>4, <2>5, <2>6, <2>7
<1>4. ASSUME NEW o \in Outputs, AddConnection(o)
      PROVE  IInv'
  <2>1. ValuesOK'
    BY <1>4 DEF AddConnection, ValuesOK, TypeOK
  <2>2. MutexHeld'
    BY <1>4 DEF AddConnection, ValuesOK, TypeOK, MutexHeld
  <2>3. ConnectedInStep'
    BY <1>4 DEF AddConnection, ValuesOK, TypeOK, MutexHeld, ConnectedInStep
  <2>4. CodecKept'
    <3>1. at \in [Outputs -> Places]
      BY DEF ValuesOK, TypeOK
    <3>2. \A p \in Outputs \ {o} : at'[p] = at[p]
      BY <1>4, <3>1 DEF AddConnection
    <3>3. at'[o] = "started" /\ o \in callbacks' /\ codec # 0
          /\ UNCHANGED <<owner, callbacks, overtaken, codecVars>>
      BY <1>4, <3>1 DEF AddConnection, ConnectedInStep
    <3>5. QED  BY <3>2, <3>3 DEF CodecKept
  <2>5. OneDestroys'
    BY <1>4 DEF AddConnection, ValuesOK, TypeOK, MutexHeld, ConnectedInStep, CodecKept, OneDestroys, Deserted
  <2>6. TimesInStep'
    <3>1. lastPts = 0 /\ lastPts' = lastPts /\ curPts' = curPts
      BY <1>4 DEF AddConnection, ConnectedInStep, TimesInStep
    <3>2. curPts \in Nat  BY DEF ValuesOK
    <3>3. QED  BY <3>1, <3>2 DEF TimesInStep
  <2>7. PacketsInStep'
    BY <1>4 DEF AddConnection, ValuesOK, TypeOK, ConnectedInStep, PacketsInStep
  <2>8. QED  BY <2>1, <2>2, <2>3, <2>4, <2>5, <2>6, <2>7
<1>5. ASSUME NEW o \in Outputs, RemoveConnection(o)
      PROVE  IInv'
  <2>1. ValuesOK'
    BY <1>5 DEF RemoveConnection, ShutdownCodec, ValuesOK, TypeOK
  <2>2. MutexHeld'
    BY <1>5 DEF RemoveConnection, ShutdownCodec, ValuesOK, TypeOK, MutexHeld
  <2>3. ConnectedInStep'
    BY <1>5 DEF RemoveConnection, ShutdownCodec, ValuesOK, TypeOK, MutexHeld, ConnectedInStep
  <2>4. CodecKept'
    BY <1>5 DEF RemoveConnection, ShutdownCodec, ValuesOK, TypeOK, MutexHeld, ConnectedInStep, CodecKept, OneDestroys, Deserted
  <2>5. OneDestroys'
    <3>1. at \in [Outputs -> Places]
      BY DEF ValuesOK, TypeOK
    <3>2. \A p \in Outputs \ {o} : at'[p] = at[p]
      BY <1>5, <3>1 DEF RemoveConnection, ShutdownCodec
    <3>3. /\ callbacks' = {} /\ initMutex' = "free" /\ ~active' /\ frame' = NoFrame
          /\ destroyed = 0 /\ owner # "destroying"
          /\ UNCHANGED <<owner, destroyed, destroyOnStop>>
          /\ overtaken' = overtaken \cup {p \in Outputs : at[p] = "initialized"}
      <4>1. initMutex = o /\ at[o] = "disconnecting"  BY <1>5 DEF RemoveConnection, MutexHeld
      <4>2. destroyed = 0 /\ owner # "destroying"
        BY <4>1 DEF OneDestroys, Deserted, ValuesOK
      <4>3. QED  BY <1>5, <4>1, <4>2 DEF RemoveConnection, ConnectedInStep
    <3>4. at'[o] = IF destroyOnStop THEN "destroying" ELSE "idle"
      BY <1>5, <3>1 DEF RemoveConnection
    <3>5. \A p \in Outputs \ {o} :
              /\ at[p] # "destroying"
              /\ destroyOnStop => at[p] \in {"idle", "started"}
      <4>1. initMutex = o /\ at[o] = "disconnecting" /\ o # "free"
        BY <1>5 DEF RemoveConnection, MutexHeld
      <4>2. \A p \in Outputs : at[p] # "destroying"
        BY <4>1 DEF OneDestroys, Deserted
      <4>3. \A p \in Outputs \ {o} : at[p] \notin {"connecting", "disconnecting"}
        BY <4>1 DEF MutexHeld
      <4>4. destroyOnStop => \A p \in Outputs : at[p] # "initialized"
        BY DEF OneDestroys, CodecKept
      <4>5. QED  BY <4>2, <4>3, <4>4 DEF ValuesOK, TypeOK
    <3>6. \A p \in overtaken : p # o /\ p \in Outputs
      BY <1>5 DEF RemoveConnection, OneDestroys, ValuesOK, TypeOK
    <3>7. \A p \in Outputs \ {o} : at[p] = "started" => p \in overtaken
      BY <1>5 DEF RemoveConnection, CodecKept, ConnectedInStep
    <3>8. destroyOnStop => owner = "done" /\ Deserted({o})'
      BY <3>2, <3>3, <3>5, <3>7 DEF OneDestroys, Deserted, ValuesOK
    <3>9. \A p \in Outputs : at'[p] = "destroying" => p = o /\ destroyOnStop
      BY <3>2, <3>4, <3>5
    <3>10. \A p \in overtaken' : at'[p] \in {"initialized", "started"}
      <4>1. at[o] = "disconnecting"  BY <1>5 DEF RemoveConnection
      <4>2. QED  BY <3>2, <3>3, <3>6, <4>1 DEF OneDestroys
    <3>11. QED  BY <3>3, <3>8, <3>9, <3>10 DEF OneDestroys
  <2>6. TimesInStep'
    BY <1>5 DEF RemoveConnection, ShutdownCodec, ValuesOK, TypeOK, MutexHeld, ConnectedInStep, TimesInStep
  <2>7. PacketsInStep'
    BY <1>5 DEF RemoveConnection, ShutdownCodec, ValuesOK, TypeOK, ConnectedInStep, PacketsInStep
  <2>8. QED  BY <2>1, <2>2, <2>3, <2>4, <2>5, <2>6, <2>7
<1>6. ASSUME NEW o \in Outputs, OutputDestroys(o)
      PROVE  IInv'
  <2>1. ValuesOK'
    <3>1. at' \in [Outputs -> {"idle", "initialized", "connecting", "started",
                              "disconnecting", "destroying"}]
      BY <1>6 DEF OutputDestroys, ValuesOK, TypeOK
    <3>2. QED  BY <1>6, <3>1 DEF OutputDestroys, Freed, ShutdownCodec, ValuesOK, TypeOK
  <2>2. MutexHeld'
    BY <1>6 DEF OutputDestroys, Freed, ShutdownCodec, ValuesOK, TypeOK, MutexHeld
  <2>3. ConnectedInStep'
    <3>1. initMutex = "free" /\ UNCHANGED <<initMutex, active, callbacks, frame>>
      BY <1>6 DEF OneDestroys, Deserted, OutputDestroys, Freed, ShutdownCodec
    <3>2. \A p \in Outputs : at'[p] \in {"connecting", "disconnecting"} => at'[p] = at[p]
      BY <1>6 DEF OutputDestroys, Freed, ShutdownCodec, ValuesOK, TypeOK
    <3>3. QED  BY <3>1, <3>2 DEF ConnectedInStep, MutexHeld
  <2>4. CodecKept'
    BY <1>6 DEF OutputDestroys, Freed, ShutdownCodec, ValuesOK, TypeOK, MutexHeld, ConnectedInStep, CodecKept, OneDestroys, Deserted
  <2>5. OneDestroys'
    <3>1. at \in [Outputs -> Places]
      BY DEF ValuesOK, TypeOK
    <3>2. \A p \in Outputs \ {o} : at'[p] = at[p]
      BY <1>6, <3>1 DEF OutputDestroys, Freed, ShutdownCodec
    <3>3. /\ owner' = owner /\ owner = "done" /\ destroyed' = 1 /\ at'[o] = "idle"
          /\ UNCHANGED <<initMutex, callbacks, frame, active, overtaken>>
          /\ Deserted({o}) /\ at[o] = "destroying"
      BY <1>6, <3>1 DEF OutputDestroys, Freed, ShutdownCodec, OneDestroys
    <3>4. Deserted({})'
      BY <3>2, <3>3 DEF Deserted
    <3>5. \A p \in Outputs \ {o} : at[p] # "destroying"
      BY <3>3 DEF Deserted, OneDestroys
    <3>6. \A p \in overtaken : p # o /\ p \in Outputs
      BY <3>3 DEF OneDestroys, ValuesOK, TypeOK
    <3>7. QED  BY <3>2, <3>3, <3>4, <3>5, <3>6 DEF OneDestroys
  <2>6. TimesInStep'
    <3>1. ~active
      BY <1>6 DEF OutputDestroys, OneDestroys, Deserted
    <3>2. QED  BY <1>6, <3>1 DEF OutputDestroys, Freed, ShutdownCodec, TimesInStep
  <2>7. PacketsInStep'
    BY <1>6 DEF OutputDestroys, Freed, ShutdownCodec, ValuesOK, TypeOK, ConnectedInStep, PacketsInStep
  <2>8. QED  BY <2>1, <2>2, <2>3, <2>4, <2>5, <2>6, <2>7
<1>7. CASE Destroy
  <2>1. ValuesOK'
    BY <1>7 DEF Destroy, ValuesOK, TypeOK
  <2>2. MutexHeld'
    BY <1>7 DEF Destroy, ValuesOK, TypeOK, MutexHeld
  <2>3. ConnectedInStep'
    BY <1>7 DEF Destroy, ValuesOK, TypeOK, MutexHeld, ConnectedInStep
  <2>4. CodecKept'
    BY <1>7 DEF Destroy, ValuesOK, TypeOK, MutexHeld, ConnectedInStep, CodecKept, OneDestroys, Deserted
  <2>5. OneDestroys'
    BY <1>7 DEF Destroy, ValuesOK, TypeOK, MutexHeld, ConnectedInStep, CodecKept, OneDestroys, Deserted
  <2>6. TimesInStep'
    BY <1>7 DEF Destroy, ValuesOK, TypeOK, MutexHeld, ConnectedInStep, TimesInStep
  <2>7. PacketsInStep'
    BY <1>7 DEF Destroy, ValuesOK, TypeOK, ConnectedInStep, PacketsInStep
  <2>8. QED  BY <2>1, <2>2, <2>3, <2>4, <2>5, <2>6, <2>7
<1>8. CASE OwnerDestroys
  <2>1. ValuesOK'
    BY <1>8 DEF OwnerDestroys, Freed, ShutdownCodec, ValuesOK, TypeOK
  <2>2. MutexHeld'
    BY <1>8 DEF OwnerDestroys, Freed, ShutdownCodec, ValuesOK, TypeOK, MutexHeld
  <2>3. ConnectedInStep'
    <3>1. initMutex = "free" /\ UNCHANGED <<initMutex, active, callbacks, frame>>
      BY <1>8 DEF OneDestroys, Deserted, OwnerDestroys, Freed, ShutdownCodec
    <3>2. \A p \in Outputs : at'[p] \in {"connecting", "disconnecting"} => at'[p] = at[p]
      BY <1>8 DEF OwnerDestroys, Freed, ShutdownCodec, ValuesOK, TypeOK
    <3>3. QED  BY <3>1, <3>2 DEF ConnectedInStep, MutexHeld
  <2>4. CodecKept'
    BY <1>8 DEF OwnerDestroys, Freed, ShutdownCodec, ValuesOK, TypeOK, MutexHeld, ConnectedInStep, CodecKept, OneDestroys, Deserted
  <2>5. OneDestroys'
    BY <1>8 DEF OwnerDestroys, Freed, ShutdownCodec, ValuesOK, TypeOK, MutexHeld, ConnectedInStep, CodecKept, OneDestroys, Deserted
  <2>6. TimesInStep'
    <3>1. ~active
      BY <1>8 DEF OwnerDestroys, OneDestroys, Deserted
    <3>2. QED  BY <1>8, <3>1 DEF OwnerDestroys, Freed, ShutdownCodec, TimesInStep
  <2>7. PacketsInStep'
    BY <1>8 DEF OwnerDestroys, Freed, ShutdownCodec, ValuesOK, TypeOK, ConnectedInStep, PacketsInStep
  <2>8. QED  BY <2>1, <2>2, <2>3, <2>4, <2>5, <2>6, <2>7
<1>9. CASE DoEncode
  <2>1. ValuesOK'
    <3>1. packets' \in Nat /\ curPts' \in Nat /\ lastPts' \in Nat
      BY <1>9 DEF DoEncode, ValuesOK
    <3>2. TypeOK'
      BY <1>9 DEF DoEncode, ValuesOK, TypeOK
    <3>3. QED  BY <1>9, <3>1, <3>2 DEF DoEncode, ValuesOK
  <2>2. MutexHeld'
    BY <1>9 DEF DoEncode, ValuesOK, TypeOK, MutexHeld
  <2>3. ConnectedInStep'
    BY <1>9 DEF DoEncode, ValuesOK, TypeOK, MutexHeld, ConnectedInStep
  <2>4. CodecKept'
    BY <1>9 DEF DoEncode, ValuesOK, TypeOK, MutexHeld, ConnectedInStep, CodecKept, OneDestroys, Deserted
  <2>5. OneDestroys'
    BY <1>9 DEF DoEncode, ValuesOK, TypeOK, MutexHeld, ConnectedInStep, CodecKept, OneDestroys, Deserted
  <2>6. TimesInStep'
    <3>1. lastPts' = curPts' /\ curPts' \in Nat
      BY <1>9 DEF DoEncode, ValuesOK
    <3>2. active'
      BY <1>9 DEF DoEncode
    <3>3. QED  BY <3>1, <3>2 DEF TimesInStep
  <2>7. PacketsInStep'
    <3>1. frame.packet = 0 /\ packets \in Nat /\ UNCHANGED <<got, sentFirst>>
      BY <1>9 DEF DoEncode, ValuesOK
    <3>2. \/ packets' = packets + 1 /\ frame'.packet = packets + 1
          \/ packets' = packets /\ frame'.packet = 0
      BY <1>9 DEF DoEncode
    <3>3. QED  BY <3>1, <3>2 DEF PacketsInStep
  <2>8. QED  BY <2>1, <2>2, <2>3, <2>4, <2>5, <2>6, <2>7
<1>10. CASE SendPacket
  <2>1. ValuesOK'
    <3>1. sentFirst' \subseteq callbacks
      BY <1>10 DEF SendPacket, ValuesOK, TypeOK
    <3>2. frame.packet \in Nat
      BY DEF PacketsInStep, ValuesOK
    <3>3. got' \in [Outputs -> Nat]
      BY <1>10, <3>2 DEF SendPacket, ValuesOK
    <3>4. QED  BY <1>10, <3>1, <3>3 DEF SendPacket, ValuesOK, TypeOK
  <2>2. MutexHeld'
    BY <1>10 DEF SendPacket, IsSent, ValuesOK, TypeOK, MutexHeld
  <2>3. ConnectedInStep'
    BY <1>10 DEF SendPacket, IsSent, ValuesOK, TypeOK, MutexHeld, ConnectedInStep
  <2>4. CodecKept'
    BY <1>10 DEF SendPacket, IsSent, ValuesOK, TypeOK, MutexHeld, ConnectedInStep, CodecKept, OneDestroys, Deserted
  <2>5. OneDestroys'
    BY <1>10 DEF SendPacket, IsSent, ValuesOK, TypeOK, MutexHeld, ConnectedInStep, CodecKept, OneDestroys, Deserted
  <2>6. TimesInStep'
    BY <1>10 DEF SendPacket, IsSent, ValuesOK, TypeOK, MutexHeld, ConnectedInStep, TimesInStep
  <2>7. PacketsInStep'
    BY <1>10 DEF SendPacket, IsSent, ValuesOK, TypeOK, ConnectedInStep, PacketsInStep
  <2>8. QED  BY <2>1, <2>2, <2>3, <2>4, <2>5, <2>6, <2>7
<1>11. CASE UNCHANGED vars
  BY <1>11 DEF ValuesOK, TypeOK, MutexHeld, ConnectedInStep, CodecKept, OneDestroys, Deserted, TimesInStep, PacketsInStep
<1>12. QED  BY <1>1, <1>2, <1>3, <1>4, <1>5, <1>6, <1>7, <1>8, <1>9, <1>10, <1>11 DEF Next, Proceed

LEMMA IInvHolds == Spec => []IInv
<1>1. Init => IInv
  <2> SUFFICES ASSUME Init PROVE IInv  OBVIOUS
  <2> USE OutputsAssumption DEF Init, NoFrame
  <2>1. ValuesOK  BY DEF ValuesOK, TypeOK, Places
  <2>2. MutexHeld /\ ConnectedInStep /\ CodecKept
    BY DEF MutexHeld, ConnectedInStep, CodecKept
  <2>3. OneDestroys /\ TimesInStep /\ PacketsInStep
    BY DEF OneDestroys, TimesInStep, PacketsInStep
  <2>4. QED  BY <2>1, <2>2, <2>3 DEF IInv
<1>2. IInv /\ [Next]_vars => IInv'
  BY StepKeepsIInv
<1>3. QED  BY <1>1, <1>2, PTL DEF Spec

(* Only an output that was overtaken between its two calls starts in vain, *)
(* and the encoder is freed once, when nobody else is left that uses it:   *)
(* obs_encoder_stop, obs_encoder_destroy and do_encode in any order.       *)
THEOREM OnlyOvertakenAreLostHolds == Spec => []OnlyOvertakenAreLost
<1>1. IInv => OnlyOvertakenAreLost
  <2> SUFFICES ASSUME IInv PROVE OnlyOvertakenAreLost  OBVIOUS
  <2>1. TypeOK /\ destroyed \in Nat  BY DEF IInv, ValuesOK
  <2>2. \A o \in Outputs : at[o] = "started" => o \in callbacks \cup overtaken
    BY DEF IInv, CodecKept
  <2>3. destroyed > 0 => destroyed = 1 /\ Deserted({})
    BY DEF IInv, OneDestroys
  <2>4. QED  BY <2>1, <2>2, <2>3 DEF OnlyOvertakenAreLost, Deserted
<1>2. QED  BY <1>1, IInvHolds, PTL

(* Whatever outputs join and leave, do_encode finds a codec and gives it a *)
(* later timestamp than the last, and send_packet sends every output       *)
(* packets without a gap, from a keyframe on.                              *)
THEOREM OutputsDecodeHolds == Spec => OutputsDecode
<1>1. ASSUME IInv, [Next]_vars, frame = NoFrame, frame' # NoFrame
      PROVE  codec # 0 /\ frame'.pts > lastPts
  <2>1. DoEncode
    BY <1>1 DEF Next, Proceed, Initialize, Start, Stop, AddConnection,
                RemoveConnection, OutputDestroys, Destroy, OwnerDestroys, Freed,
                SendPacket, vars
  <2>2. codec # 0  BY <1>1, <2>1 DEF IInv, CodecKept, DoEncode
  <2>3. lastPts <= curPts /\ curPts \in Nat /\ lastPts \in Nat
    BY <1>1, <2>1 DEF IInv, TimesInStep, ValuesOK, DoEncode
  <2>4. frame'.pts = curPts + 1  BY <2>1 DEF DoEncode
  <2>5. QED  BY <2>2, <2>3, <2>4
<1>2. ASSUME IInv, [Next]_vars, NEW o \in Outputs, got'[o] \notin {0, got[o]}
      PROVE  IF got[o] = 0 THEN frame.keyframe ELSE got'[o] = got[o] + 1
  <2>1. SendPacket
    BY <1>2 DEF IInv, ValuesOK, Next, Proceed, Initialize, Start, Stop, AddConnection,
                RemoveConnection, OutputDestroys, Destroy, OwnerDestroys, Freed,
                DoEncode, vars
  <2>2. o \in callbacks /\ frame.packet # 0 /\ IsSent(o) /\ got'[o] = frame.packet
    BY <1>2, <2>1 DEF SendPacket
  <2>3. CASE got[o] = 0
    BY <1>2, <2>2, <2>3 DEF IInv, PacketsInStep, IsSent
  <2>4. CASE got[o] # 0
    <3>1. got[o] = packets - 1 /\ packets \in Nat /\ frame.packet = packets
      BY <1>2, <2>2, <2>4 DEF IInv, PacketsInStep, ValuesOK
    <3>2. QED  BY <2>2, <2>4, <3>1
  <2>5. QED  BY <2>3, <2>4
<1>3. IInv /\ [Next]_vars =>
          [frame = NoFrame /\ frame' # NoFrame =>
              codec # 0 /\ frame'.pts > lastPts]_vars
  BY <1>1
<1>4. IInv /\ [Next]_vars =>
          [\A o \in Outputs : got'[o] \notin {0, got[o]} =>
              IF got[o] = 0 THEN frame.keyframe ELSE got'[o] = got[o] + 1]_vars
  BY <1>2
<1>5. QED
  BY <1>3, <1>4, IInvHolds, PTL
  DEF Spec, OutputsDecode, TimesRiseForCodec, DecodableFromFirst
=============================================================================
