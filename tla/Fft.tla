--------------------------------- MODULE Fft ---------------------------------
(***************************************************************************)
(* fft.cc: the sine table, the bit-reversal table and the butterflies of a *)
(* radix-2 transform of two buffers in place.  The numbers are those of a  *)
(* finite field whose circle has P - 1 points: there sine and cosine obey  *)
(* the laws that the code relies on, and all arithmetic is exact.          *)
(* Rounding is not modelled, nor is the inverse transform (n < 0), which   *)
(* the program does not use.                                               *)
(***************************************************************************)
EXTENDS Integers

CONSTANTS P,         \* the prime
          Generator  \* generates the circle, once around in P - 1 steps

Field == 0..(P - 1)

\* The point k / m of the way around: cosine and, times Circle(4, 1), sine.
Points[e \in 0..(P - 2)] ==
    IF e = 0 THEN 1
    ELSE LET half == Points[e \div 2]
         IN  (half * half * (IF e % 2 = 1 THEN Generator ELSE 1)) % P
Circle(m, k) == Points[(k * ((P - 1) \div m)) % (P - 1)]

Reciprocal(x) == CHOOSE y \in Field : (x * y) % P = 1

Half     == Reciprocal(2)
HalfTurn == Reciprocal((2 * Circle(4, 1)) % P)

Cosine(m, k) == ((Circle(m, k) + Circle(m, -k)) * Half) % P
Sine(m, k) == ((Circle(m, k) - Circle(m, -k)) * HalfTurn) % P

\* An odd prime; a quarter turn is a whole number of steps.
ASSUME FieldAssumption ==
    /\ P \in Nat /\ P > 2 /\ \A d \in 2..(P - 1) : P % d # 0
    /\ (P - 1) % 4 = 0
    /\ Generator \in Field
    /\ {Points[e] : e \in 0..(P - 2)} = Field \ {0}

\* The sum of f[0] to f[n - 1], and that sum in the field.
Sum(f, n) ==
    LET sum[i \in 0..n] == IF i = 0 THEN 0 ELSE sum[i - 1] + f[i - 1]
    IN  sum[n]

Total(f, n) == Sum(f, n) % P

-----------------------------------------------------------------------------
(* The tables of a transform of n points, n a power of two from 4 on.      *)

\* sqrt() of a sine squared: the root that is a sine of the first quarter.
Root(n, x) == CHOOSE r \in {Sine(n, k) : k \in 0..(n \div 4)} : (r * r) % P = x % P

\* mutant: the difference of the cosine is moved on first
DifferencesLate(n) ==
    LET half == Sine(2 * n, 1)
        dc0  == (2 * half * half) % P
        t    == 2 * dc0
        step[i \in 0..(n \div 8)] ==
            IF i = 0 THEN [c |-> 1, s |-> 0, dc |-> dc0, ds |-> Root(n, dc0 * (2 - dc0))]
            ELSE LET last == step[i - 1]
                     s == (last.s + last.ds) % P
                 IN  [c |-> (last.c - last.dc) % P, s |-> s,
                      dc |-> (last.dc + t * last.c) % P, ds |-> (last.ds - t * s) % P]
    IN  step

\* The loop over the first eighth, by differences: its variables after i turns.
Differences(n) ==
    LET half == Sine(2 * n, 1)
        dc0  == (2 * half * half) % P
        t    == 2 * dc0
        step[i \in 0..(n \div 8)] ==
            IF i = 0 THEN [c |-> 1, s |-> 0, dc |-> dc0, ds |-> Root(n, dc0 * (2 - dc0))]
            ELSE LET last == step[i - 1]
                     c == (last.c - last.dc) % P
                     s == (last.s + last.ds) % P
                 IN  [c |-> c, s |-> s, dc |-> (last.dc + t * c) % P,
                      ds |-> (last.ds - t * s) % P]
    IN  step

\* sintbl: sines from the loop, its cosines mirrored, sqrt(0.5) between them,
\* the quarter mirrored, and each half the negative of the half before.
make_sintbl(n) ==
    LET n2 == n \div 2
        n4 == n \div 4
        eighth == Differences(n)
        quarter(i) == IF 2 * i < n4 THEN eighth[i].s
                      ELSE IF 2 * i = n4 THEN Root(n, Half)
                      ELSE eighth[n4 - i].c
        table[i \in 0..(n + n4 - 1)] ==
            IF i <= n4 THEN quarter(i)
            ELSE IF i < n2 THEN quarter(n2 - i)
            ELSE (0 - table[i - n2]) % P
    IN  table

\* bitrev: counts from the highest digit down, with the carry going right.
make_bitrev(n) ==
    LET carried[k \in 0..n] ==
            [j \in 0..n |-> IF k <= j /\ k > 0 THEN carried[k \div 2][j - k] ELSE j + k]
        table[i \in 0..(n - 1)] == IF i = 0 THEN 0 ELSE carried[n \div 2][table[i - 1]]
    IN  table

-----------------------------------------------------------------------------
(* The transform.                                                          *)

\* The swaps, from the first place on; each pair once.
BitReversed(n, bitrev, x) ==
    LET swapped[places \in 0..n] ==
            IF places = 0 THEN x
            ELSE LET buffer == swapped[places - 1]
                     i == places - 1
                     j == bitrev[i]
                 IN  IF i < j THEN [buffer EXCEPT ![i] = buffer[j], ![j] = buffer[i]]
                     ELSE buffer
    IN  swapped[n]

\* mutant: the sign of the sine is that of the inverse transform
ButterfliesInverse(n, sintbl, x, y, k) ==
    LET c(i)  == sintbl[(i % k) * (n \div (2 * k)) + n \div 4]
        s(i)  == 0 - sintbl[(i % k) * (n \div (2 * k))]
        dx(i) == s(i) * y[i + k] + c(i) * x[i + k]
        dy(i) == c(i) * y[i + k] - s(i) * x[i + k]
        upper(i) == i % (2 * k) < k
    IN  [x |-> [i \in 0..(n - 1) |-> (IF upper(i) THEN x[i] + dx(i) ELSE x[i - k] - dx(i - k)) % P],
         y |-> [i \in 0..(n - 1) |-> (IF upper(i) THEN y[i] + dy(i) ELSE y[i - k] - dy(i - k)) % P]]

\* The butterflies with distance k, of which each touches a pair of its own.
Butterflies(n, sintbl, x, y, k) ==
    LET c(i)  == sintbl[(i % k) * (n \div (2 * k)) + n \div 4]
        s(i)  == sintbl[(i % k) * (n \div (2 * k))]
        dx(i) == s(i) * y[i + k] + c(i) * x[i + k]
        dy(i) == c(i) * y[i + k] - s(i) * x[i + k]
        upper(i) == i % (2 * k) < k
    IN  [x |-> [i \in 0..(n - 1) |-> (IF upper(i) THEN x[i] + dx(i) ELSE x[i - k] - dx(i - k)) % P],
         y |-> [i \in 0..(n - 1) |-> (IF upper(i) THEN y[i] + dy(i) ELSE y[i - k] - dy(i - k)) % P]]
=============================================================================
