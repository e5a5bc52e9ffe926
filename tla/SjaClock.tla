------------------------------ MODULE SjaClock ------------------------------
(***************************************************************************)
(* The arithmetic of the switch's clock (sja1105.h).  PTPTSCLK counts 8 ns *)
(* ticks in 64 bits; an egress timestamp register only keeps the low bits  *)
(* of the count (24 in the switch, Wrap = 2^24 here in general).  The      *)
(* 64-bit count itself wraps after centuries and is taken as unbounded.    *)
(***************************************************************************)
EXTENDS Integers

CONSTANT Wrap  (* one more than the largest value of a timestamp register *)

ASSUME WrapAssumption == Wrap \in Nat \ {0}

NsPerTick == 8

\* What an egress timestamp register keeps of the clock (reg >> 8).
LowBits(t) == t % Wrap

\* Mutant: the upper part is never that of the previous lap.
RecreateSameLap(clkval, tsval) ==
  ((clkval \div Wrap) * Wrap + tsval) * NsPerTick

\* sja1105_recreate_ts: the upper part of a later clock value, or of the lap
\* before when the register is ahead of the clock's low bits.
RecreateTs(clkval, tsval) ==
  LET upper == IF clkval % Wrap < tsval THEN (clkval \div Wrap) - 1
                                        ELSE clkval \div Wrap
  IN (upper * Wrap + tsval) * NsPerTick

=============================================================================
