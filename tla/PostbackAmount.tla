--------------------------- MODULE PostbackAmount ---------------------------
(***************************************************************************)
(* The amount of a postback (handle_postback): rubles and kopecks quoted   *)
(* as a decimal, read by std::stod into a double, multiplied by 100.0 and  *)
(* cast to an integer number of kopecks.                                   *)
(*                                                                         *)
(* Floating point with significands of Precision bits, 53 in the code.  An *)
(* amount of n kopecks is n/100, and what rounding does to it depends on   *)
(* the residues modulo 100 of n times a power of two; these repeat when    *)
(* the exponent grows by 20, so 13 bits give every amount below 64 rubles  *)
(* the result that 53 bits give it.                                        *)
(***************************************************************************)
EXTENDS Naturals

CONSTANTS
  Precision,     (* bits of a significand                                  *)
  MaxAmount      (* bound: the largest amount quoted, in kopecks           *)

ASSUME AmountAssumption ==
  /\ Precision \in Nat /\ Precision > 7
  /\ MaxAmount \in 0..(100 * 2^(Precision - 7) - 1)

VARIABLES
  quoted,        (* the partner's amount, in kopecks                       *)
  amount         (* conv.amount, as it is stored                           *)

amountVars == <<quoted, amount>>

(* a / b to the nearest integer, ties to even.                             *)
Nearest(a, b) ==
  LET q == a \div b
      r == a % b
  IN  IF 2 * r > b \/ (2 * r = b /\ q % 2 = 1) THEN q + 1 ELSE q

(* The double nearest to n/100 (n > 0): sig / 2^scale.                     *)
Stod(n) ==
  LET k == CHOOSE k \in 0..(Precision + 7) :
             100 * 2^(Precision - 1) <= n * 2^k /\ n * 2^k < 100 * 2^Precision
  IN  [sig |-> Nearest(n * 2^k, 100), scale |-> k]

(* The double nearest to 100 * x.                                          *)
Times100(x) ==
  LET s == CHOOSE s \in 6..7 :
             2^(Precision - 1 + s) <= x.sig * 100 /\ x.sig * 100 < 2^(Precision + s)
  IN  [sig |-> Nearest(x.sig * 100, 2^s), scale |-> x.scale - s]

(* static_cast to an integer: towards zero.                                *)
Trunc(x) == x.sig \div 2^x.scale

(* The bug: the rubles are cast before they are multiplied.                *)
KopekOfRubles(n) == IF n = 0 THEN 0 ELSE Trunc(Stod(n)) * 100

Kopek(n) == IF n = 0 THEN 0 ELSE Trunc(Times100(Stod(n)))

-----------------------------------------------------------------------------
AmountInit == quoted = 0 /\ amount = 0

QuoteAmount ==
  /\ quoted < MaxAmount
  /\ quoted' = quoted + 1
  /\ amount' = Kopek(quoted + 1)

AmountSpec == AmountInit /\ [][QuoteAmount]_amountVars

(* handlers.cpp:493: the conversion loses at most one kopeck, never adds   *)
(* one, and is exact for whole rubles and for halves and quarters of one.  *)
OffByAtMostOne ==
  /\ amount \in {quoted - 1, quoted}
  /\ quoted % 25 = 0 => amount = quoted

(* models.hpp:10 "Money is kopecks everywhere. No floating point currency, *)
(* ever.": the kopecks stored are the kopecks quoted.  The conversion at   *)
(* handlers.cpp:493 goes through a double and loses one of some amounts.   *)
AmountIsExact == amount = quoted
=============================================================================
