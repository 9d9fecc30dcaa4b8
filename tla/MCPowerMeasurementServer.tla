---------------------- MODULE MCPowerMeasurementServer ----------------------
(* Instances of PowerMeasurementServer for TLC. *)
EXTENDS PowerMeasurementServer

CONSTANTS r1, r2,        \* request threads
          p, q, h,       \* streams: two of the card, one of the hardware
          k1, k2         \* sockets

TwoRequests == {r1, r2}

\* Two streams of the card share the log file, a third has a socket of its own.
Shared == [s \in {p, q, h} |-> IF s = h THEN k2 ELSE k1]
\* The identifier of k2 begins with that of k1, as 224.1.1.1:9998 does with
\* 224.1.1.1:999.
Prefix == [k \in {k1, k2} |-> IF k = k1 THEN {k1, k2} ELSE {k}]
Ones == [s \in Streams |-> 1]
=============================================================================
