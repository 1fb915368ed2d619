----------------------------- MODULE ResizeCoeffs -----------------------------
(***************************************************************************)
(* The coefficient tables of the antialiased resize (ContractMetadata.cpp). *)
(* The code computes them in doubles.  Here positions are integers in units *)
(* of 1/(2*out) input pixels, so that center, support and the half pixel    *)
(* are exact; a quotient that should be a whole number may come out just    *)
(* below it, unless the scale is a whole number and doubles are exact.      *)
(***************************************************************************)
EXTENDS Integers, FiniteSetsExt

Center(in, out, o) == (2 * o + 1) * in
Support(in, out) == 2 * Max({in, out})
HalfPixel(out) == out
Ksize(in, out) == 2 * ((Support(in, out) + 2 * out - 1) \div (2 * out)) + 1

(* What static_cast<int> may make of position / (2*out), clamped at 0.      *)
Truncated(in, out, position) ==
  IF position <= 0 THEN {0}
  ELSE LET whole == position \div (2 * out)
       IN  IF position % (2 * out) = 0 /\ in % out # 0 THEN {whole - 1, whole} ELSE {whole}

(* The variant starts the window half a pixel late.                         *)
XMinsLate(in, out, o) ==
  Truncated(in, out, Center(in, out, o) - Support(in, out) + 2 * HalfPixel(out))

XMins(in, out, o) == Truncated(in, out, Center(in, out, o) - Support(in, out) + HalfPixel(out))

XMaxs(in, out, o) ==
  {Min({x, in}) : x \in Truncated(in, out, Center(in, out, o) + Support(in, out) + HalfPixel(out))}

(* The triangle filter at input pixel p for output pixel o, before it is    *)
(* divided by the total of the row.                                         *)
Distance(in, out, o, p) ==
  LET d == 2 * out * p + HalfPixel(out) - Center(in, out, o) IN IF d < 0 THEN -d ELSE d
Weight(in, out, o, p) == Max({0, Support(in, out) - Distance(in, out, o, p)})

(* One row of the table: where its window starts, and n weights.            *)
Row(in, out, o, xmin, xmax) ==
  [bound   |-> xmin,
   weights |-> [t \in 0 .. xmax - xmin - 1 |-> Weight(in, out, o, xmin + t)]]

Rows(in, out, o) ==
  {Row(in, out, o, xmin, xmax) : xmin \in XMins(in, out, o), xmax \in XMaxs(in, out, o)}

(* What ResizeAntialias multiplies input pixel p with for a row: it reads   *)
(* min(ksize, in - bound) weights, zero where the row has none.             *)
Applied(in, out, row, p) ==
  LET t == p - row.bound
  IN  IF t \in 0 .. Min({Ksize(in, out), in - row.bound}) - 1 /\ t \in DOMAIN row.weights
      THEN row.weights[t] ELSE 0

(* The fast path returns the image itself, whatever the table says.         *)
Identity(in, out) == in = out
=============================================================================
