------------------------------ MODULE AducmIrq ------------------------------
(***************************************************************************)
(* drivers/platform/aducm3029/irq.c: the interrupt controller of the       *)
(* ADuCM3029.  The driver keeps what is configured and what is enabled;    *)
(* the NVIC, the external-interrupt block, the RTC and the GPIO groups are *)
(* external and keep their own idea of it.                                 *)
(***************************************************************************)
EXTENDS Integers, FiniteSets

CONSTANTS
    Xint,       \* IDs of the external interrupts
    Gpio,       \* IDs of the GPIO groups
    Pins,       \* pins of the one GPIO port, numbered from 0
    Configs,    \* what applications pass as configuration: "handler", "nohandler"
    Nulls       \* bound: IDs that applications register with a NULL callback too

Ids == Xint \cup Gpio \cup {"UART", "RTC"}
Modes == {0, 1}     \* GPIO_GROUP_NEGATIVE_EDGE, GPIO_GROUP_POSITIVE_EDGE

ASSUME IrqAssumption ==
    /\ Xint \cap Gpio = {} /\ {"UART", "RTC"} \cap (Xint \cup Gpio) = {}
    /\ Pins \subseteq Nat /\ Modes \subseteq Pins
    /\ Configs \subseteq {"handler", "nohandler"}
    /\ Nulls \subseteq Ids

VARIABLES
    initialized,    \* the driver is in use
    conf,           \* conf[irq_id]: "none", "handler", or "nohandler" (its handler is NULL)
    configured,     \* callback_configured: a set of IDs
    enabled,        \* the bit mask of enabled interrupts
    nvic,           \* external: the interrupts that the hardware delivers
    callbacks,      \* external: the IDs with a callback
    group,          \* external: the pins of each GPIO group
    polarity,       \* external: the pins that trigger on the rising edge
    ok,             \* the last call returned SUCCESS
    wanted,         \* history: enabled by the application, and not disabled since
    bare            \* history: without a callback since the application said so

desc == <<conf, configured, enabled>>
ext == <<nvic, callbacks, group, polarity>>
vars == <<initialized, desc, ext, ok, wanted, bare>>

NoConf == [i \in Ids |-> "none"]

Init ==
    /\ initialized = FALSE
    /\ conf = NoConf /\ configured = {} /\ enabled = {}
    /\ nvic = {} /\ callbacks = {} /\ group = [g \in Gpio |-> {}] /\ polarity = {}
    /\ ok = TRUE
    /\ wanted = {} /\ bare = {}

ClearDesc == conf' = NoConf /\ configured' = {} /\ enabled' = {}

\* irq_ctrl_init; a second one is refused.
CtrlInit ==
    /\ IF initialized THEN UNCHANGED <<initialized, desc>>
                      ELSE initialized' = TRUE /\ ClearDesc
    /\ ok' = ~initialized
    /\ UNCHANGED <<ext, wanted, bare>>

-----------------------------------------------------------------------------
(* irq_register_callback, by the kind of interrupt.                        *)

\* The callback that is passed is put in place, NULL or not.
SetCallback(id, callback) ==
    /\ callbacks' = IF callback THEN callbacks \cup {id} ELSE callbacks \ {id}
    /\ bare' = IF callback THEN bare \ {id} ELSE bare \cup {id}
    /\ configured' = configured \cup {id}

RegisterXint(id, callback) ==
    /\ initialized /\ id \in Xint
    /\ conf' = [conf EXCEPT ![id] = "handler"]
    /\ SetCallback(id, callback)
    /\ ok' = TRUE
    /\ UNCHANGED <<initialized, enabled, nvic, group, polarity, wanted>>

\* The configuration of the UART is its descriptor, or NULL.
RegisterUart(config, callback) ==
    /\ initialized
    /\ conf' = [conf EXCEPT !["UART"] = IF config = "handler" THEN "handler" ELSE "none"]
    /\ IF config = "handler" THEN SetCallback("UART", callback)
                             ELSE UNCHANGED <<callbacks, bare, configured>>
    /\ ok' = (config = "handler")
    /\ UNCHANGED <<initialized, enabled, nvic, group, polarity, wanted>>

RegisterRtc(config, callback) ==
    /\ initialized
    /\ conf' = [conf EXCEPT !["RTC"] = config]
    /\ IF config = "handler" THEN SetCallback("RTC", callback)
                             ELSE UNCHANGED <<callbacks, bare, configured>>
    /\ ok' = (config = "handler")
    /\ UNCHANGED <<initialized, enabled, nvic, group, polarity, wanted>>

\* The polarity register has the pin's bit cleared and the bit numbered mode set.
Polarity(pin, mode) == (polarity \ {pin}) \cup {mode}

\* A pin joins a GPIO group; without a callback the group keeps the one it has, if any.
RegisterGpio(id, config, callback, pin, mode) ==
    /\ initialized /\ id \in Gpio
    /\ conf' = [conf EXCEPT ![id] = config]
    /\ IF config = "handler"
       THEN /\ SetCallback(id, callback \/ id \in callbacks)
            /\ group' = [group EXCEPT ![id] = @ \cup {pin}]
            /\ polarity' = Polarity(pin, mode)
       ELSE UNCHANGED <<callbacks, bare, group, polarity, configured>>
    /\ ok' = (config = "handler")
    /\ UNCHANGED <<initialized, enabled, nvic, wanted>>

-----------------------------------------------------------------------------
(* irq_enable, irq_disable and the global switches.                       *)

\* What becomes of the RTC when ids are switched, the configuration being c: its
\* interrupt is switched through its handler, and a NULL handler is undefined behaviour.
RtcOf(ids, c) ==
    CASE "RTC" \notin ids \/ c["RTC"] = "none" -> {{}}
      [] "RTC" \in ids /\ c["RTC"] = "handler" -> {{"RTC"}}
      [] "RTC" \in ids /\ c["RTC"] = "nohandler" -> {{}, {"RTC"}}

\* The possible sets of interrupts delivered after irq_enable and irq_disable of ids.
On(ids, c) == {nvic \cup (ids \ {"RTC"}) \cup rtc : rtc \in RtcOf(ids, c)}
Off(ids, c) == {nvic \ ((ids \ {"RTC"}) \cup rtc) : rtc \in RtcOf(ids, c)}

\* Mutant: enables what is not configured.
Enable_unconfigured(id) ==
    /\ initialized
    /\ enabled' = enabled \cup {id} /\ wanted' = wanted \cup {id}
    /\ nvic' \in On({id}, conf)
    /\ ok' = TRUE
    /\ UNCHANGED <<initialized, conf, configured, callbacks, bare, group, polarity>>

\* irq_enable
Enable(id) ==
    /\ initialized
    /\ \/ /\ id \notin configured
          /\ ok' = FALSE
          /\ UNCHANGED <<enabled, nvic, wanted>>
       \/ /\ id \in configured
          /\ enabled' = enabled \cup {id} /\ wanted' = wanted \cup {id}
          /\ nvic' \in On({id}, conf)
          /\ ok' = TRUE
    /\ UNCHANGED <<initialized, conf, configured, callbacks, bare, group, polarity>>

\* irq_disable
Disable(id) ==
    /\ initialized
    /\ nvic' \in Off({id}, conf)
    /\ enabled' = enabled \ {id} /\ wanted' = wanted \ {id}
    /\ ok' = TRUE
    /\ UNCHANGED <<initialized, conf, configured, callbacks, bare, group, polarity>>

\* irq_global_enable: the enabled external interrupts in the NVIC, irq_enable for the rest.
GlobalEnable ==
    /\ initialized
    /\ nvic' \in On(enabled, conf)
    /\ ok' = TRUE
    /\ UNCHANGED <<initialized, desc, callbacks, bare, group, polarity, wanted>>

\* Mutant: the GPIO groups are forgotten.
GlobalDisable_no_gpio ==
    /\ initialized
    /\ nvic' \in Off(enabled \ Gpio, conf)
    /\ enabled' = enabled \cap Xint
    /\ ok' = TRUE
    /\ UNCHANGED <<initialized, conf, configured, callbacks, bare, group, polarity,
                   wanted>>

\* Mutant: the external interrupts are forgotten too.
GlobalDisable_forgets ==
    /\ initialized
    /\ nvic' \in Off(enabled, conf)
    /\ enabled' = {}
    /\ ok' = TRUE
    /\ UNCHANGED <<initialized, conf, configured, callbacks, bare, group, polarity,
                   wanted>>

\* irq_global_disable: the enabled external interrupts in the NVIC, irq_disable for the
\* rest, which also forgets that they were enabled.
GlobalDisable ==
    /\ initialized
    /\ nvic' \in Off(enabled, conf)
    /\ enabled' = enabled \cap Xint
    /\ ok' = TRUE
    /\ UNCHANGED <<initialized, conf, configured, callbacks, bare, group, polarity,
                   wanted>>

-----------------------------------------------------------------------------
(* irq_unregister and irq_ctrl_remove.                                     *)

HasHandler(id) == id \in Gpio \cup {"RTC"}

\* The callbacks once those of ids are taken back: a callback other than an external
\* interrupt's is reached through its configuration.
Without(ids) == callbacks \ {i \in ids : i \in Xint \/ conf[i] # "none"}

\* Mutant: the interrupt is not disabled.
Unregister_still_on(id) ==
    /\ initialized
    /\ callbacks' = Without({id}) /\ bare' = (bare \ {id}) \cup ({id} \cap {"RTC"})
    /\ conf' = [conf EXCEPT ![id] = "none"]
    /\ configured' = configured \ {id}
    /\ ok' = TRUE
    /\ UNCHANGED <<initialized, enabled, nvic, group, polarity, wanted>>

\* irq_unregister: take the callback back, clear the configuration, irq_disable.  By then
\* the configuration that irq_disable needs for the RTC is gone: the RTC stays on, and
\* has no callback because the application said so.
Unregister(id) ==
    /\ initialized
    /\ \/ /\ HasHandler(id) /\ conf[id] = "nohandler"
          /\ ok' = FALSE
          /\ UNCHANGED <<desc, ext, wanted, bare>>
       \/ /\ ~(HasHandler(id) /\ conf[id] = "nohandler")
          /\ callbacks' = Without({id}) /\ bare' = (bare \ {id}) \cup ({id} \cap {"RTC"})
          /\ IF id \in Gpio /\ conf[id] # "none"
             THEN group' = [group EXCEPT ![id] = {}]
             ELSE UNCHANGED group
          /\ conf' = [conf EXCEPT ![id] = "none"]
          /\ configured' = configured \ {id}
          /\ nvic' \in Off({id}, conf')
          /\ enabled' = enabled \ {id} /\ wanted' = wanted \ {id}
          /\ ok' = TRUE
          /\ UNCHANGED polarity
    /\ UNCHANGED initialized

\* irq_ctrl_remove: the external interrupts, the UART and the RTC; not the GPIO groups.
CtrlRemove ==
    /\ initialized
    /\ LET rtc == IF conf["RTC"] = "nohandler" THEN {} ELSE {"RTC"} IN
       /\ callbacks' = Without(Xint \cup {"UART"} \cup rtc)
       /\ bare' = (bare \cap (Gpio \cup {"RTC"})) \cup rtc
    /\ nvic' = nvic \ (Xint \cup {"UART"})
    /\ initialized' = FALSE /\ ClearDesc
    /\ wanted' = {}
    /\ ok' = TRUE
    /\ UNCHANGED <<group, polarity>>

\* What applications pass as callback of an interrupt: FALSE is NULL.
Callbacks(id) == {TRUE} \cup {FALSE : i \in Nulls \cap {id}}

Next ==
    \/ CtrlInit \/ CtrlRemove \/ GlobalEnable \/ GlobalDisable
    \/ \E id \in Xint : \E callback \in Callbacks(id) : RegisterXint(id, callback)
    \/ \E config \in Configs, callback \in Callbacks("UART") : RegisterUart(config, callback)
    \/ \E config \in Configs, callback \in Callbacks("RTC") : RegisterRtc(config, callback)
    \/ \E id \in Gpio, config \in Configs, pin \in Pins, mode \in Modes :
          \E callback \in Callbacks(id) : RegisterGpio(id, config, callback, pin, mode)
    \/ \E id \in Ids : Enable(id) \/ Disable(id) \/ Unregister(id)

Spec == Init /\ [][Next]_vars

-----------------------------------------------------------------------------
(* Properties.                                                             *)

TypeOK ==
    /\ initialized \in BOOLEAN /\ ok \in BOOLEAN
    /\ conf \in [Ids -> {"none"} \cup Configs \cup {"handler"}]
    /\ enabled \cup configured \cup nvic \cup callbacks \cup wanted \cup bare \subseteq Ids
    /\ group \in [Gpio -> SUBSET Pins] /\ polarity \subseteq Pins

\* An interrupt that the hardware delivers has a callback to go to, through any sequence
\* of registering (failed calls included), enabling, global switching, unregistering and
\* removing, unless the application itself left it without one: it registered it with a
\* NULL callback, which irq_register_callback accepts, or unregistered the RTC, which
\* irq_unregister leaves on.
DeliveredHasCallback == nvic \subseteq callbacks \cup bare

\* irq_global_disable leaves nothing delivered that the application enabled, after any
\* sequence of enabling and global switching; the RTC is left out, since it is switched
\* through a handler that a failed registration or irq_unregister takes away.
GlobalDisableSilences == [][GlobalDisable => (wanted \cap nvic)' \subseteq {"RTC"}]_vars

\* irq_global_enable brings back the external interrupts, through any number of global
\* switches before it; the others have been forgotten by irq_global_disable, although
\* irq.c:322 promises "all previously enabled interrupts".
EnableRestores == [][GlobalEnable => wanted' \cap Xint \subseteq nvic']_vars

\* The inductive invariant of the driver.  An enabled interrupt is configured and a
\* configured one has the callback it was registered with, so switching on what is enabled only delivers to
\* callbacks; what is delivered at the application's wish is still noted as enabled, so
\* switching off what is enabled silences it; an external interrupt the application wants
\* is noted as enabled even while it is switched off; a driver that is not in use owes nothing.
IrqInv ==
    /\ TypeOK
    /\ enabled \subseteq configured
    /\ configured \subseteq callbacks \cup bare
    /\ DeliveredHasCallback
    /\ (wanted \cap nvic) \ {"RTC"} \subseteq enabled
    /\ wanted \cap Xint \subseteq enabled
    /\ ~initialized => wanted = {}

=============================================================================
