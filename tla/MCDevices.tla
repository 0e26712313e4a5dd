----------------------------- MODULE MCDevices -----------------------------
(* An instance of Devices for TLC: what the guest writes. *)
EXTENDS Devices

\* All stores to the UART, bits outside the bytes written being FALSE.
AllUartStores ==
  {s \in UartStore : \A b \in {1, 3, 5} :
                       s.bits[b] => b \in s.first .. s.first + s.size - 1}

SomeLineWords == {{}, {"dat"}, Lines}
OnOff         == {{}, MerBits}

\* A read that answers, a write that does not.
SomeCommands ==
  {[op0 |-> FALSE, resp |-> TRUE, data |-> "read"],
   [op0 |-> FALSE, resp |-> FALSE, data |-> "write"]}
=============================================================================
