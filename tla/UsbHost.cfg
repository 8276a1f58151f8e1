SPECIFICATION UsbSpec
CONSTANTS
  MSGQUEUE_OBJECTS = 2
  USBH_MAX_ERROR_COUNT = 1
  USBH_MAX_PIPES_NBR = 8
  Retries = 1
  Timeouts = 0
  Devices = {"pad", "speaker", "composite"}
  Plugs = 2
INVARIANT EnumerationDriven
INVARIANT PipesHeld
INVARIANT WaiterIsOwner
PROPERTY EnumerationEnds
PROPERTY ClassRequestEnds
CHECK_DEADLOCK FALSE
