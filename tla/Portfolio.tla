----------------------------- MODULE Portfolio -----------------------------
(***************************************************************************)
(* Portfolio of wickhunter/portfolio/position.py: the position of each     *)
(* symbol with its average price, over the fills the runtime books.        *)
(***************************************************************************)
EXTENDS Numbers

CONSTANTS
  Name,           \* symbols
  Lot,            \* the quantities of a fill
  Price,
  MaxFills        \* bound on the fills

ASSUME PortfolioAssumption ==
  Lot \subseteq Nat \ {0} /\ Price \subseteq Nat \ {0} /\ MaxFills \in Nat

VARIABLES
  positions,      \* by symbol; one without fills is flat
  fills           \* history: the fills, in their order

portfolio == <<positions, fills>>

FillOf == [symbol : Name, side : {"BUY", "SELL"}, qty : Lot, price : Price]

-----------------------------------------------------------------------------
\* An average price is a fraction n / d; NoPosition has the code's 0.
NoPosition == [qty |-> 0, avg |-> [n |-> 0, d |-> 1]]

signed_qty(f) == IF f.side = "BUY" THEN f.qty ELSE - f.qty

\* The fill opens a position, or adds to one of its side.
Adds(q, m) == q = 0 \/ (q > 0 /\ m > 0) \/ (q < 0 /\ m < 0)

\* It turns the position over.
Flips(q, new) == (q > 0 /\ new < 0) \/ (q < 0 /\ new > 0)

\* The average price of a position and a fill that adds to it.
Weighed(p, f) ==
  [n |-> Abs(p.qty) * p.avg.n + (f.qty * f.price) * p.avg.d,
   d |-> Abs(p.qty + signed_qty(f)) * p.avg.d]

\* Mutant of apply_fill: a position that turns keeps its average price.
apply_fill_unturned(p, f) ==
  LET qty == p.qty + signed_qty(f)
  IN  [qty |-> qty,
       avg |-> IF qty = 0 THEN NoPosition.avg
               ELSE IF Adds(p.qty, signed_qty(f)) THEN Weighed(p, f)
               ELSE p.avg]

\* Adding weighs the prices, turning over starts from the price of the fill,
\* reducing keeps the average.
apply_fill(p, f) ==
  LET qty == p.qty + signed_qty(f)
  IN  [qty |-> qty,
       avg |-> IF qty = 0 THEN NoPosition.avg
               ELSE IF Adds(p.qty, signed_qty(f)) THEN Weighed(p, f)
               ELSE IF Flips(p.qty, qty) THEN [n |-> f.price, d |-> 1]
               ELSE p.avg]

on_fill(f) ==
  /\ Len(fills) < MaxFills
  /\ positions' = [positions EXCEPT ![f.symbol] = apply_fill(@, f)]
  /\ fills' = Append(fills, f)

PortfolioInit == positions = [s \in Name |-> NoPosition] /\ fills = <<>>

PortfolioNext == \E f \in FillOf : on_fill(f)

PortfolioSpec == PortfolioInit /\ [][PortfolioNext]_portfolio

-----------------------------------------------------------------------------
(* Properties *)

\* The net quantity of a symbol after the first n fills, at n.
Net(fs, s) ==
  PartialSums([i \in DOMAIN fs |-> IF fs[i].symbol = s THEN signed_qty(fs[i]) ELSE 0])

Sign(n) == IF n > 0 THEN 1 ELSE IF n < 0 THEN -1 ELSE 0

\* The fill k opened the position in s as it is, or turned it to its side.
Opens(fs, s, k) ==
  LET side == Sign(Net(fs, s)[Len(fs)])
  IN  /\ \A j \in k .. Len(fs) : Sign(Net(fs, s)[j]) = side
      /\ Sign(Net(fs, s)[k - 1]) # side

\* The fills since the fill k that entered the side of the position in s.
Entries(fs, s, k) ==
  {i \in k .. Len(fs) :
     fs[i].symbol = s /\ Sign(signed_qty(fs[i])) = Sign(Net(fs, s)[Len(fs)])}

\* What was paid for the position since the fill k, after n fills at n: for the
\* fill k only what it brought to this side.
Paid(fs, s, k) ==
  PartialSums([i \in DOMAIN fs |->
    IF i < k \/ fs[i].symbol # s THEN 0
    ELSE IF i = k THEN Abs(Net(fs, s)[k]) * fs[k].price
    ELSE fs[i].qty * fs[i].price])

\* A position is the sum of its fills.  Its average price lies between the
\* prices at which its side was bought into since it was last flat or on the
\* other side, and it is their mean, weighted by quantity, if nothing was taken
\* off meanwhile.
AverageIsExplained ==
  \A s \in Name :
    LET p == positions[s]
        first == CHOOSE k \in DOMAIN fills : Opens(fills, s, k)
        entries == Entries(fills, s, first)
    IN  /\ p.qty = Net(fills, s)[Len(fills)]
        /\ p.qty = 0 => p.avg = NoPosition.avg
        /\ p.qty # 0 =>
             /\ \E i \in entries : fills[i].price * p.avg.d <= p.avg.n
             /\ \E i \in entries : fills[i].price * p.avg.d >= p.avg.n
             /\ {i \in first .. Len(fills) : fills[i].symbol = s} = entries =>
                  p.avg.n * Abs(p.qty) = p.avg.d * Paid(fills, s, first)[Len(fills)]
=============================================================================
