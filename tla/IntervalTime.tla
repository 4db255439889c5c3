---------------------------- MODULE IntervalTime ----------------------------
(***************************************************************************)
(* PRIntervalTime, the wrapping tick counter the watchdog computes with,   *)
(* and IsBefore, the comparison that "correctly deals with wrap-around"    *)
(* as long as both instants stay within half the range of each other.      *)
(***************************************************************************)
EXTENDS Integers

CONSTANTS
    HALF,         \* half the range of the counter: 2^31 in the code
    MaxInterval,  \* MAX_TIMEOUT_INTERVAL, in ticks
    Latency       \* the longest a runnable thread is kept off the processor

ASSUME IntervalAssumption ==
    /\ HALF \in Nat /\ MaxInterval \in Nat /\ Latency \in Nat
    /\ 0 < MaxInterval
    /\ MaxInterval + Latency < HALF

Span == 2 * HALF
Ticks == 0 .. Span - 1
\* A mutant: the check against MAX_TIMEOUT_INTERVAL is forgotten.
IntervalsUnchecked == 1 .. Span - 1

Intervals == 1 .. MaxInterval

\* Unsigned sum and difference.  Both operands are Ticks, so reducing modulo
\* Span is one conditional correction.
Plus(a, b) == IF a + b < Span THEN a + b ELSE a + b - Span
Minus(a, b) == IF b <= a THEN a - b ELSE a - b + Span

\* int32(t1 - t2) < 0
IsBefore(t1, t2) == Minus(t1, t2) >= HALF
Reached(t, d) == ~IsBefore(t, d)

\* d is at most MaxInterval ahead of t, or at most Latency behind it: the
\* range in which IsBefore(t, d) orders t and d as real time does.
Near(t, d) == Minus(d, t) <= MaxInterval \/ Minus(t, d) <= Latency
=============================================================================
