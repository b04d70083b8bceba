---------------------------- MODULE MCFirmware ----------------------------
(* A node with up to four keys at the times 0 to 2, packets for one        *)
(* channel while the node may be on channel 1, and a clock that wraps at 6.*)
EXTENDS Firmware

MCTime == 0 .. 2
MCPacket == {<< <<2>> >>, << <<1, 2>> >>}
MCUpload == {<<0, 1>>, <<0, 0>>}
MCGarbage == {<< >>, <<2>>}

MCDrift == {0, 1, W - 1}
=============================================================================
