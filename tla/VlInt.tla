------------------------------- MODULE VlInt -------------------------------
(***************************************************************************)
(* The variable-length integers of a Skeleton 4 index packet               *)
(* (bytes_required and write_vl_int, src/src/theorautils.c): seven bits    *)
(* per byte, the least significant first, the last byte marked by its top  *)
(* bit. Decoded is the reference: what a reader of the packet makes of it. *)
(* Offsets and times are far below 2^63: ogg_int64_t has no overflow here. *)
(***************************************************************************)
EXTENDS Integers, FiniteSets, SequencesExt, FiniteSetsExt

(* The loop of bytes_required that shifts n right until nothing is left.       *)
Bits[n \in Nat] == IF n = 0 THEN 0 ELSE Bits[n \div 2] + 1

(* Mutant: zero is thought to take no byte.                                    *)
BytesRequiredZero(n) ==
    Bits[n] \div 7 + (IF Bits[n] % 7 # 0 THEN 1 ELSE 0)

BytesRequired(n) ==
    Bits[n] \div 7 + (IF Bits[n] % 7 # 0 \/ Bits[n] = 0 THEN 1 ELSE 0)

(* The loop of write_vl_int: seven bits a round, and the terminating bit on    *)
(* the byte that leaves nothing of k.                                          *)
Put[k \in Nat] ==
    IF k \div 128 = 0 THEN <<k + 128>> ELSE <<k % 128>> \o Put[k \div 128]

(* The bytes that write_vl_int puts out for n.                                 *)
VlBytes(n) == Put[n]

(* The numbers in a sequence of bytes, from the last byte to the first: one    *)
(* that is not marked belongs to the number behind it, and to none at the end. *)
Decoded(bytes) ==
    LET last[k \in 0 .. Len(bytes)] ==
            IF k = 0 THEN << >>
            ELSE LET byte == bytes[Len(bytes) + 1 - k]
                     rest == last[k - 1]
                 IN  IF byte >= 128 THEN <<byte - 128>> \o rest
                     ELSE IF rest = << >> THEN << >>
                     ELSE <<byte + 128 * rest[1]>> \o Tail(rest)
    IN  last[Len(bytes)]
=============================================================================
