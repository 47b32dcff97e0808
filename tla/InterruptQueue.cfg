SPECIFICATION Spec
CONSTANTS
  Interrupts <- MCInterrupts
  Devices = {d1, d2}
  NoDevice = NoDevice
INVARIANTS
  NoLostRequest
  NoLostDelayedTrap
  NoMissedWakeup
  PromptDelivery
PROPERTIES
  ImplementsController
  WaitEnds
