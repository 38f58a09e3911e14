----------------------------- MODULE MCPlatform -----------------------------
(* An instance of Platform for TLC. *)
EXTENDS Platform

Store(r, v) == [reg |-> r, value |-> v]

\* A loopback self-test, then line settings, then interrupts.
SelfTestThenOn ==
    <<Store("FCR", {"ENABLE_FIFO", "CLEAR_RCVR"}),
      Store("MCR", {"LOOP"}),
      Store("TX", 0),
      Store("RX", 0),
      Store("MCR", {"OUT2"}),
      Store("LCR", {"DLAB"}),
      Store("TX", 0),
      Store("LCR", {"WLEN0", "CLEAR_RCVR"}),
      Store("PRIORITY", 1),
      Store("ENABLE", 0),
      Store("IER", {"RDI"})>>

OwnHart == [c \in Contexts |-> c]
NoSMode == {}
Harts   == Contexts
Second  == {1}
Ends    == {1, 2}
=============================================================================
