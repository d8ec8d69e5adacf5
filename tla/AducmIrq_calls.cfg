SPECIFICATION Spec
CONSTANTS
    Xint = {"XINT0"}
    Gpio = {"GPIO_A"}
    Pins = {0, 1}
    Configs = {"handler", "nohandler"}
    Nulls = {"XINT0", "GPIO_A"}
INVARIANT IrqInv
INVARIANT DeliveredHasCallback
PROPERTY GlobalDisableSilences
PROPERTY EnableRestores
