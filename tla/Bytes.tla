------------------------------- MODULE Bytes -------------------------------
(***************************************************************************)
(* Memory, files and datagrams byte by byte, as far as offsets and widths  *)
(* matter: a byte knows which value of how many bytes it belongs to and    *)
(* which of them it is.  Server, node and exporter are little-endian and   *)
(* use packed layouts, so a value is read back if exactly its bytes are    *)
(* read, and anything else is Garbage.                                     *)
(***************************************************************************)
EXTENDS Integers

Garbage == -1

Byte(value, i, width) == [of |-> value, at |-> i, width |-> width]

Uninitialised == Byte(Garbage, 0, 0)

(* A buffer after a value of this width was written at an address.         *)
Put(buffer, address, value, width) ==
  [a \in DOMAIN buffer |->
     IF a \in address .. address + width - 1
       THEN Byte(value, a - address, width)
       ELSE buffer[a]]

(* What a read of that many bytes at an address yields.                    *)
Get(buffer, address, width) ==
  IF \A i \in 0 .. width - 1 :
       /\ address + i \in DOMAIN buffer
       /\ buffer[address + i] = Byte(buffer[address].of, i, width)
    THEN buffer[address].of
    ELSE Garbage
=============================================================================
