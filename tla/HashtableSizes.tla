--------------------------- MODULE HashtableSizes ---------------------------
(***************************************************************************)
(* The sizes of a ConcurrentHashtable's storage versions: the table of     *)
(* primes in ConcurrentContainers.cpp, and the load factor.                *)
(***************************************************************************)
EXTENDS Integers, Sequences

primes ==
  <<13, 29, 61, 113, 251, 509, 1021, 2039, 4093, 8179, 16381, 32749, 65521,
    131063, 262139, 524269, 1048573, 2097143, 4194301, 8388593, 16777213,
    33554393, 67108859, 134217689, 268435399, 536870909, 1073741789>>

\* The loop on idx: the position of the highest bit of n, zero for n = 0.
HighestBit[n \in Nat] == IF n < 2 THEN 0 ELSE 1 + HighestBit[n \div 2]

\* 1 << k.
Bit[k \in Nat] == IF k = 0 THEN 1 ELSE 2 * Bit[k - 1]

get_prime_number_greater_or_equal_to(value) ==
  LET idx == HighestBit[value \div 8]
  IN  IF idx >= Len(primes) THEN Bit[idx + 4] - 1 ELSE primes[idx + 1]

\* load_factor_exceeded: m_count > size * 0.75, where m_count, an unsigned
\* number, is huge when it has been decremented below zero.
LoadFactorExceeded(count, size) == count < 0 \/ 4 * count > 3 * size
=============================================================================
