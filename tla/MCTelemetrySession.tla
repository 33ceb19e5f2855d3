-------------------------- MODULE MCTelemetrySession --------------------------
(* A client with a good or a bad token sends two readings of a SensorFrame: sensor 1 at
   one second, with the value 22.0 or 4.0.  Every two neighbouring bytes of every frame
   may be damaged, among others so that one type becomes another, a length shorter or
   longer, and so that the checksum misses it. *)
EXTENDS TelemetrySession

\* The test vector of tests/test_protocol.cpp, "123456789"
ASSUME KnownVector == crc16(<<49, 50, 51, 52, 53, 54, 55, 56, 57>>) = 10673

Tokens == {<<71, 1>>, <<66, 2>>}
GoodTokens == {<<71, 1>>}
Sample(b) == <<1, 0, 0, 0, 64, 66, 15, 0, 0, 0, 0, 0, 0, 0, 0, 0, 0, 0, b, 64>>
Readings == {Sample(54), Sample(16)}

(* What the checksum <<84, 105>> of Sample(54) misses: its first ten bytes have the
   checksum <<101, 105>>, and it becomes 105 ^ 53 = 92 in the last byte if the first
   byte becomes 1 ^ 18 = 19. *)
Missed == {<<10, 101>>, <<92, 19>>}
ASSUME MissedAreAccepted ==
  /\ crc16(Sample(54)) = 256 * 84 + 105 /\ crc16(SubSeq(Sample(54), 1, 10)) = 256 * 101 + 105
  /\ crc16([Sample(54) EXCEPT ![1] = 19]) = 256 * 84 + 92

Bursts == Missed \cup {<<0, 0>>, <<0, 1>>, <<0, 2>>, <<0, 20>>, <<1, 1>>, <<1, 2>>, <<1, 3>>,
                       <<1, 4>>, <<2, 1>>, <<71, 1>>, <<78, 69>>, <<127, 127>>}
===============================================================================
