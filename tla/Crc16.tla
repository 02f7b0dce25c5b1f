------------------------------- MODULE Crc16 -------------------------------
(* The checksum of a packet (crc16.c): CRC-16 with the reflected polynomial  *)
(* 0xA001, starting from 0.                                                  *)
EXTENDS Galois

Xor16(x, y) == 256 * Xor[x \div 256][y \div 256] + Xor[x % 256][y % 256]

\* init_crc16_tab: eight shifts for every byte.
crc_tab16 ==
  [c \in Byte |->
     LET crc[j \in 0 .. 8] ==
           IF j = 0 THEN 0
           ELSE LET last == crc[j - 1]
                IN  IF last % 2 # Bit(c, j - 1) THEN Xor16(last \div 2, 40961)
                    ELSE last \div 2
     IN  crc[8]]

\* The checksum of the first n bytes.
crc_16(bytes, n) ==
  LET crc[a \in 0 .. n] ==
        IF a = 0 THEN 0
        ELSE LET last == crc[a - 1]
             IN  Xor16(last \div 256, crc_tab16[Xor[last % 256][bytes[a - 1]]])
  IN  crc[n]
=============================================================================
