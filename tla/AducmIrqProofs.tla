--------------------------- MODULE AducmIrqProofs ---------------------------
(***************************************************************************)
(* Proofs about drivers/platform/aducm3029/irq.c: for any external         *)
(* interrupts, GPIO groups and pins, and any sequence of calls.            *)
(***************************************************************************)
EXTENDS AducmIrq, TLAPS

ConfValues == {"none", "handler", "nohandler"}

-----------------------------------------------------------------------------
(* What switching interrupts on and off does to the ones delivered.        *)

\* Switching the RTC changes nothing but the RTC, and nothing if it is not asked for.
LEMMA RtcOfFact ==
    ASSUME NEW ids, NEW c \in [Ids -> ConfValues], NEW rtc \in RtcOf(ids, c)
    PROVE  rtc \subseteq ids \cap {"RTC"}
<1>1. c["RTC"] \in ConfValues
  BY DEF Ids
<1>2. CASE "RTC" \notin ids \/ c["RTC"] = "none"
  <2>1. RtcOf(ids, c) = {{}}
    BY <1>2 DEF RtcOf
  <2> QED
    BY <2>1
<1>3. CASE "RTC" \in ids /\ c["RTC"] = "handler"
  <2>1. RtcOf(ids, c) = {{"RTC"}}
    BY <1>3 DEF RtcOf
  <2> QED
    BY <1>3, <2>1
<1>4. CASE "RTC" \in ids /\ c["RTC"] = "nohandler"
  <2>1. RtcOf(ids, c) = {{}, {"RTC"}}
    BY <1>4 DEF RtcOf
  <2> QED
    BY <1>4, <2>1
<1> QED
  BY <1>1, <1>2, <1>3, <1>4 DEF ConfValues

\* irq_enable adds interrupts it was asked for and nothing else.
LEMMA OnFact ==
    ASSUME NEW ids, NEW c \in [Ids -> ConfValues], NEW n \in On(ids, c)
    PROVE  n \subseteq nvic \cup ids /\ ids \ {"RTC"} \subseteq n
<1>1. PICK rtc \in RtcOf(ids, c) : n = nvic \cup (ids \ {"RTC"}) \cup rtc
  BY DEF On
<1>2. rtc \subseteq ids \cap {"RTC"}
  BY RtcOfFact
<1> QED
  BY <1>1, <1>2

\* irq_disable takes away all it was asked for, the RTC perhaps excepted.
LEMMA OffFact ==
    ASSUME NEW ids, NEW c \in [Ids -> ConfValues], NEW n \in Off(ids, c)
    PROVE  n \subseteq nvic /\ n \cap ids \subseteq {"RTC"}
<1>1. PICK rtc \in RtcOf(ids, c) : n = nvic \ ((ids \ {"RTC"}) \cup rtc)
  BY DEF Off
<1> QED
  BY <1>1

-----------------------------------------------------------------------------
(* The inductive invariant.                                                *)

\* A configuration is one of three values, whatever applications pass.
LEMMA ConfFact == TypeOK => conf \in [Ids -> ConfValues]
BY IrqAssumption DEF TypeOK, ConfValues

\* Before the driver is used nothing is enabled.
LEMMA InitIrqInv == Init => IrqInv
BY DEF Init, NoConf, IrqInv, TypeOK, DeliveredHasCallback, Modes

\* Every call keeps the invariant.
LEMMA NextIrqInv == IrqInv /\ [Next]_vars => IrqInv'
<1> SUFFICES ASSUME IrqInv, [Next]_vars
             PROVE  IrqInv'
  OBVIOUS
<1>0. /\ TypeOK /\ enabled \subseteq configured /\ configured \subseteq callbacks \cup bare
      /\ nvic \subseteq callbacks \cup bare
      /\ (wanted \cap nvic) \ {"RTC"} \subseteq enabled
      /\ wanted \cap Xint \subseteq enabled
      /\ ~initialized => wanted = {}
  BY DEF IrqInv, DeliveredHasCallback
<1>c. conf \in [Ids -> ConfValues]
  BY <1>0, ConfFact
<1>1. CASE CtrlInit
  <2>1. CASE initialized
    BY <1>1, <2>1 DEF CtrlInit, IrqInv, TypeOK, DeliveredHasCallback, desc, ext
  <2>2. CASE ~initialized
    BY <1>1, <2>2 DEF CtrlInit, ClearDesc, NoConf, IrqInv, TypeOK,
                      DeliveredHasCallback, desc, ext
  <2> QED
    BY <2>1, <2>2
<1>2. CASE CtrlRemove
  <2>2. /\ callbacks' \subseteq callbacks /\ nvic' = nvic \ (Xint \cup {"UART"})
        /\ bare' \subseteq bare \cup {"RTC"}
    BY <1>2 DEF CtrlRemove, Without
  <2>4. nvic' \subseteq callbacks' \cup bare'
    <3>1. CASE conf["RTC"] = "nohandler"
      BY <1>0, <1>2, <3>1 DEF CtrlRemove, Without, TypeOK, Ids
    <3>2. CASE conf["RTC"] # "nohandler"
      BY <1>0, <1>2, <3>2 DEF CtrlRemove, Without, TypeOK, Ids
    <3> QED
      BY <3>1, <3>2
  <2>3. TypeOK'
    BY <1>0, <1>2, <2>2 DEF CtrlRemove, ClearDesc, NoConf, TypeOK, Ids
  <2> QED
    BY <1>0, <1>2, <2>2, <2>3, <2>4 DEF CtrlRemove, ClearDesc, IrqInv,
                      DeliveredHasCallback
<1>3. CASE GlobalEnable
  <2>1. nvic' \subseteq nvic \cup enabled /\ enabled \ {"RTC"} \subseteq nvic'
    BY <1>3, <1>c, OnFact DEF GlobalEnable
  <2>2. TypeOK'
    BY <1>0, <1>3, <2>1 DEF GlobalEnable, desc, TypeOK
  <2>3. wanted' \cap Xint \subseteq nvic'
    BY <1>0, <1>3, <2>1, IrqAssumption DEF GlobalEnable
  <2> QED
    BY <1>0, <1>3, <2>1, <2>2, <2>3 DEF GlobalEnable, desc, IrqInv, DeliveredHasCallback
<1>4. CASE GlobalDisable
  <2>1. nvic' \subseteq nvic /\ nvic' \cap enabled \subseteq {"RTC"}
    BY <1>4, <1>c, OffFact DEF GlobalDisable
  <2>2. TypeOK'
    BY <1>0, <1>4, <2>1 DEF GlobalDisable, TypeOK
  <2> QED
    BY <1>0, <1>4, <2>1, <2>2 DEF GlobalDisable, IrqInv, DeliveredHasCallback
<1>5. ASSUME NEW id \in Xint, NEW callback \in BOOLEAN, RegisterXint(id, callback)
      PROVE  IrqInv'
  <2>1. TypeOK'
    BY <1>0, <1>5 DEF RegisterXint, SetCallback, TypeOK, Ids
  <2> QED
    BY <1>0, <1>5, <2>1 DEF RegisterXint, SetCallback, IrqInv, DeliveredHasCallback
<1>6. ASSUME NEW config \in Configs, NEW callback \in BOOLEAN, RegisterUart(config, callback)
      PROVE  IrqInv'
  <2>1. TypeOK'
    BY <1>0, <1>6 DEF RegisterUart, SetCallback, TypeOK, Ids
  <2> QED
    BY <1>0, <1>6, <2>1 DEF RegisterUart, SetCallback, IrqInv, DeliveredHasCallback
<1>7. ASSUME NEW config \in Configs, NEW callback \in BOOLEAN, RegisterRtc(config, callback)
      PROVE  IrqInv'
  <2>1. TypeOK'
    BY <1>0, <1>7 DEF RegisterRtc, SetCallback, TypeOK, Ids
  <2> QED
    BY <1>0, <1>7, <2>1 DEF RegisterRtc, SetCallback, IrqInv, DeliveredHasCallback
<1>8. ASSUME NEW id \in Gpio, NEW config \in Configs, NEW callback \in BOOLEAN,
             NEW pin \in Pins, NEW mode \in Modes,
             RegisterGpio(id, config, callback, pin, mode)
      PROVE  IrqInv'
  <2>1. mode \in Pins /\ id \in Ids
    BY IrqAssumption DEF Ids
  <2>2. TypeOK'
    BY <1>0, <1>8, <2>1 DEF RegisterGpio, SetCallback, Polarity, TypeOK
  <2> QED
    BY <1>0, <1>8, <2>2 DEF RegisterGpio, SetCallback, IrqInv, DeliveredHasCallback
<1>9. ASSUME NEW id \in Ids, Enable(id)
      PROVE  IrqInv'
  <2>1. CASE id \notin configured
    BY <1>0, <1>9, <2>1 DEF Enable, IrqInv, TypeOK, DeliveredHasCallback
  <2>2. CASE id \in configured
    <3>1. nvic' \subseteq nvic \cup {id}
      BY <1>9, <2>2, <1>c, OnFact DEF Enable
    <3>2. TypeOK'
      BY <1>0, <1>9, <2>2, <3>1 DEF Enable, TypeOK
    <3> QED
      BY <1>0, <1>9, <2>2, <3>1, <3>2 DEF Enable, IrqInv, DeliveredHasCallback
  <2> QED
    BY <2>1, <2>2
<1>10. ASSUME NEW id \in Ids, Disable(id)
       PROVE  IrqInv'
  <2>1. nvic' \subseteq nvic
    BY <1>10, <1>c, OffFact DEF Disable
  <2>2. TypeOK'
    BY <1>0, <1>10, <2>1 DEF Disable, TypeOK
  <2> QED
    BY <1>0, <1>10, <2>1, <2>2 DEF Disable, IrqInv, DeliveredHasCallback
<1>11. ASSUME NEW id \in Ids, Unregister(id)
       PROVE  IrqInv'
  <2>1. CASE HasHandler(id) /\ conf[id] = "nohandler"
    BY <1>0, <1>11, <2>1 DEF Unregister, desc, ext, IrqInv, TypeOK,
                      DeliveredHasCallback
  <2>2. CASE ~(HasHandler(id) /\ conf[id] = "nohandler")
    <3>1. /\ callbacks \ {id} \subseteq callbacks' /\ callbacks' \subseteq callbacks
          /\ bare' = (bare \ {id}) \cup ({id} \cap {"RTC"})
      BY <1>11, <2>2 DEF Unregister, Without
    <3>2. conf' \in [Ids -> ConfValues] /\ conf' = [conf EXCEPT ![id] = "none"]
      BY <1>c, <1>11, <2>2 DEF Unregister, ConfValues
    <3>3. nvic' \subseteq nvic /\ nvic' \cap {id} \subseteq {"RTC"}
      <4>1. nvic' \in Off({id}, conf')
        BY <1>11, <2>2 DEF Unregister
      <4> QED
        BY <3>2, <4>1, OffFact
    <3>4. TypeOK'
      <4>1. group' \in [Gpio -> SUBSET Pins] /\ polarity' \subseteq Pins
        <5>1. polarity' = polarity
          BY <1>11, <2>2 DEF Unregister
        <5>3. IF id \in Gpio /\ conf[id] # "none"
              THEN group' = [group EXCEPT ![id] = {}] ELSE UNCHANGED group
          BY <1>11, <2>2 DEF Unregister
        <5>2. group \in [Gpio -> SUBSET Pins] /\ polarity \subseteq Pins
          BY <1>0 DEF TypeOK
        <5> QED
          BY <5>1, <5>2, <5>3
      <4>2. conf' \in [Ids -> {"none"} \cup Configs \cup {"handler"}]
        BY <1>0, <3>2 DEF TypeOK
      <4>3. /\ initialized' = initialized /\ enabled' = enabled \ {id}
            /\ configured' = configured \ {id} /\ wanted' = wanted \ {id}
            /\ ok' = TRUE
        BY <1>11, <2>2 DEF Unregister
      <4> QED
        BY <1>0, <3>1, <3>3, <4>1, <4>2, <4>3 DEF TypeOK
    <3> QED
      BY <1>0, <1>11, <2>2, <3>1, <3>3, <3>4 DEF Unregister, IrqInv,
                      DeliveredHasCallback
  <2> QED
    BY <2>1, <2>2
<1>12. CASE UNCHANGED vars
  BY <1>12 DEF vars, desc, ext, IrqInv, TypeOK, DeliveredHasCallback
<1>13. \A id : Callbacks(id) \subseteq BOOLEAN
  BY DEF Callbacks
<1> QED
  BY <1>1, <1>2, <1>3, <1>4, <1>5, <1>6, <1>7, <1>8, <1>9, <1>10, <1>11, <1>12, <1>13
     DEF Next

\* The invariant holds through every sequence of calls of irq.c.
THEOREM IrqInvariance == Spec => []IrqInv
BY InitIrqInv, NextIrqInv, PTL DEF Spec

\* An interrupt that the hardware delivers has a callback, or the application itself left
\* it without one: no other sequence of irq_register_callback, failed or not, irq_enable,
\* irq_global_enable, irq_unregister and irq_ctrl_remove delivers one to nothing.
THEOREM IrqDeliveredHasCallback == Spec => []DeliveredHasCallback
<1>1. IrqInv => DeliveredHasCallback
  BY DEF IrqInv
<1> QED
  BY <1>1, IrqInvariance, PTL

\* irq_global_disable silences every interrupt the application enabled, but the RTC's.
THEOREM IrqGlobalDisable == Spec => GlobalDisableSilences
<1>1. IrqInv /\ [Next]_vars => [GlobalDisable => (wanted \cap nvic)' \subseteq {"RTC"}]_vars
  <2> SUFFICES ASSUME IrqInv, GlobalDisable
               PROVE  (wanted \cap nvic)' \subseteq {"RTC"}
    OBVIOUS
  <2>1. conf \in [Ids -> ConfValues] /\ (wanted \cap nvic) \ {"RTC"} \subseteq enabled
    BY ConfFact DEF IrqInv
  <2>2. nvic' \subseteq nvic /\ nvic' \cap enabled \subseteq {"RTC"} /\ wanted' = wanted
    BY <2>1, OffFact DEF GlobalDisable
  <2> QED
    BY <2>1, <2>2
<1> QED
  BY <1>1, IrqInvariance, PTL DEF Spec, GlobalDisableSilences

\* irq_global_enable delivers again every external interrupt the application enabled.
THEOREM IrqGlobalEnable == Spec => EnableRestores
<1>1. IrqInv /\ [Next]_vars => [GlobalEnable => wanted' \cap Xint \subseteq nvic']_vars
  <2> SUFFICES ASSUME IrqInv, GlobalEnable
               PROVE  wanted' \cap Xint \subseteq nvic'
    OBVIOUS
  <2>1. conf \in [Ids -> ConfValues] /\ wanted \cap Xint \subseteq enabled
    BY ConfFact DEF IrqInv
  <2>2. enabled \ {"RTC"} \subseteq nvic' /\ wanted' = wanted
    BY <2>1, OnFact DEF GlobalEnable
  <2> QED
    BY <2>1, <2>2, IrqAssumption
<1> QED
  BY <1>1, IrqInvariance, PTL DEF Spec, EnableRestores
=============================================================================
