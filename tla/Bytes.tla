------------------------------- MODULE Bytes -------------------------------
(***************************************************************************)
(* What the transforms and the entropy coders of a block share: bytes and  *)
(* slices of them, the outcome of a Forward or an Inverse, the helpers of  *)
(* src/v2/internal/Global.go.  A byte has 8 bits in the code and ByteBits  *)
(* here, so that the codes at the end of the range of a byte, the tables   *)
(* and the headers are reached by short blocks.                            *)
(***************************************************************************)
EXTENDS Integers, Sequences, FiniteSets, TLC

CONSTANT ByteBits   \* bits in a byte (8)

ByteCount == 2 ^ ByteBits
TopByte == ByteCount - 1
Byte == 0 .. TopByte

(* Go's s[i] and s[a:b]. *)
At(s, i) == s[i + 1]
Slice(s, a, b) == SubSeq(s, a + 1, b)
Times(n, s) == [i \in 1 .. n * Len(s) |-> s[((i - 1) % Len(s)) + 1]]

Smaller(a, b) == IF a <= b THEN a ELSE b
Larger(a, b) == IF a >= b THEN a ELSE b
Least(S) == CHOOSE x \in S : \A y \in S : x <= y
Greatest(S) == CHOOSE x \in S : \A y \in S : y <= x
Ascending(S) == [k \in 1 .. Cardinality(S) |->
                   CHOOSE x \in S : Cardinality({y \in S : y < x}) = k - 1]

(* A function with its values computed once: TLC would otherwise evaluate  *)
(* the expression of [x \in S |-> e] at every application.                 *)
Table(f) == f @@ <<>>

(* The outcomes of a transform: done, with the bytes written; or an error. *)
(* An error of Forward makes the sequence go on without that transform, an *)
(* error of Inverse makes the decoding of the block fail.                  *)
Done(out) == [ok |-> TRUE, out |-> out]
Failed == [ok |-> FALSE, out |-> <<>>]

(* Log2NoCheck of an x > 0: the table LOG2 holds it for a byte, the shifts *)
(* bring a larger x down to one.                                           *)
Log2(x) == CHOOSE n \in 0 .. 30 : 2 ^ n <= x /\ x < 2 ^ (n + 1)

(* The value of the digits ds in base b, most significant first, and the n *)
(* digits of a value; the bits of a value are its digits in base 2.        *)
Value(ds, b) ==
  LET prefix[i \in 0 .. Len(ds)] ==
        IF i = 0 THEN 0 ELSE prefix[i - 1] * b + ds[i]
  IN prefix[Len(ds)]
Digits(v, n, b) == [i \in 1 .. n |-> (v \div b ^ (n - i)) % b]

(* ComputeJobsPerTask: how many of the jobs every task gets, the first     *)
(* ones one more when they cannot be shared equally.                       *)
JobsPerTask(jobs, tasks) ==
  LET q == IF jobs <= tasks THEN 1 ELSE jobs \div tasks
      r == IF jobs <= tasks THEN 0 ELSE jobs - q * tasks
  IN [t \in 1 .. tasks |-> IF t <= r THEN q + 1 ELSE q]

(* The order of the suffixes of s that start at i and at j. *)
SuffixBefore(s, i, j) ==
  LET n == Len(s)
      k == Least({x \in 0 .. n - Larger(i, j) :
                  x = n - Larger(i, j) \/ At(s, i + x) # At(s, j + x)})
  IN j + k < n /\ (i + k = n \/ At(s, i + k) < At(s, j + k))

(* The suffix array by its meaning, and its inverse, the ranks. *)
SuffixRanks(s) ==
  LET starts == 0 .. Len(s) - 1
  IN Table([i \in starts |-> Cardinality({j \in starts : SuffixBefore(s, j, i)})])

(* ComputeHistogram, order 0: sixteen bytes at a time, then the rest. *)
Histogram(block) ==
  Table([s \in Byte |-> Cardinality({i \in 1 .. Len(block) : block[i] = s})])

(* ComputeHistogram, order 1, for pairs <<previous, current>>: a short     *)
(* block in one scan behind a 0, a longer one in four scans, each with the *)
(* last byte of the quarter before it as its first context.                *)
Histogram1(block, short) ==
  LET n == Len(block)
      quarter == n \div 4
      scans == IF n < short THEN {<<0, n>>}
               ELSE {<<k * quarter, (k + 1) * quarter>> : k \in 0 .. 2}
                    \cup {<<3 * quarter, n>>}
      context(scan, i) == IF i > scan[1] THEN At(block, i - 1)
                          ELSE IF i = 0 THEN 0 ELSE At(block, scan[1] - 1)
      pairs == UNION {{<<i, context(scan, i), At(block, i)>> :
                         i \in scan[1] .. scan[2] - 1} : scan \in scans}
  IN Table([p \in {<<q[2], q[3]>> : q \in pairs} |->
              Cardinality({q \in pairs : <<q[2], q[3]>> = p})])
=============================================================================
