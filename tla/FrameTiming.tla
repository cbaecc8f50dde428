------------------------------ MODULE FrameTiming ------------------------------
(***************************************************************************)
(* How long a frame is shown: the codec reports flicks, the caller gets a    *)
(* time.Duration in nanoseconds.  The code's numbers are 2^64, 10^9 and       *)
(* 705600000; they are parameters because TLC's integers have 32 bits.  The    *)
(* assumption keeps the ratio of the two units.                                *)
(***************************************************************************)
EXTENDS Integers

CONSTANTS
  Word64,            \* number of uint64 values
  Second,            \* time.Second, in nanoseconds
  FlicksPerSecond

ASSUME TimingAssumption ==
  /\ Word64 \in Nat \ {0} /\ Word64 % 2 = 0
  /\ Second \in Nat \ {0} /\ FlicksPerSecond \in Nat \ {0}
  /\ Second < Word64 \div 2
  /\ Second * 441 = FlicksPerSecond * 625

int64(n) == ((n + Word64 \div 2) % Word64) - Word64 \div 2

\* Go's integer division truncates toward zero.
quotient(n, d) == IF n < 0 THEN -((-n) \div d) ELSE n \div d

\* time.Duration(flicks) * time.Second / 705600000
duration(flicks) == quotient(int64(int64(flicks) * Second), FlicksPerSecond)

=============================================================================
