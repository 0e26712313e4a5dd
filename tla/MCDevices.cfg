SPECIFICATION DevicesSpec
CONSTANTS
  UartStores <- AllUartStores
  LineWords <- SomeLineWords
  MerWords <- OnOff
  Commands <- SomeCommands
INVARIANT LinesFollow SeipIsOutput
CHECK_DEADLOCK FALSE
