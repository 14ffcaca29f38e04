--------------------------------- MODULE Crc ---------------------------------
(***************************************************************************)
(* The cyclic redundancy check of the sensor SGP30.                        *)
(***************************************************************************)
EXTENDS Integers, Bitwise

(* One byte, bit by bit; res is an unsigned short.                          *)
CrcBits[res \in 0..65535, j \in 0..8] ==
  IF j = 0 THEN res
  ELSE CrcBits[IF (res \div 128) % 2 = 1 THEN ((2 * res) % 65536) ^^ 49 ELSE (2 * res) % 65536, j - 1]

(* crc of two bytes, with 0xFF and the polynomial 0x31                      *)
Crc(data) == CrcBits[(CrcBits[255 ^^ data[1], 8] % 256) ^^ data[2], 8] % 256
===============================================================================
