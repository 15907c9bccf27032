--------------------------- MODULE OkxCloseProofs ---------------------------
(***************************************************************************)
(* Theorems about OkxClose, for any number of rounds, any quantities and   *)
(* any trading of others.                                                  *)
(***************************************************************************)
EXTENDS OkxClose, TLAPS

Types ==
  /\ pos \in Int /\ net \in Int
  /\ working \in [buy : Nat, sell : Nat]
  /\ qty \in Nat \cup {None} /\ target \in Nat \cup {None}
  /\ (qty = None) <=> (target = None)
  /\ closed \in Nat /\ grown \in Nat /\ shrunk \in Nat /\ late \in Nat
  /\ misread \in BOOLEAN /\ pc \in {"idle", "read", "place", "reread", "returned"}
  /\ mark \in [closed : Nat, grown : Nat, shrunk : Nat, unmatched : Nat]
  /\ mark.closed <= closed /\ mark.grown <= grown /\ mark.shrunk <= shrunk

\* Nothing was ordered before the call, success is said at its end, and only a
\* call with a quantity reads again.
Phases ==
  /\ pc = "idle" => closed = 0 /\ Unmatched = 0 /\ late = 0
  /\ answer = "ok" => pc = "returned"
  /\ pc = "reread" => target # None

\* Between the reads of a round, the position is the one that was read, but for
\* what traded since: a first read that goes on has read the truth.
Balance ==
  pc \in {"place", "reread"} =>
    Abs(pos) = Abs(net) - (closed - mark.closed) - (shrunk - mark.shrunk) + (grown - mark.grown)

\* How much is ordered at most, at each await: the quantity still to close is
\* what is left of the argument, at the read the round began with.
Ordered ==
  qty # None =>
    /\ pc = "read" => closed + Unmatched + target <= qty + grown + late
    /\ pc \in {"place", "reread"} =>
         mark.closed + mark.unmatched + target <= qty + mark.grown + late
    /\ pc = "place" => closed + Unmatched <= mark.closed + mark.unmatched
    /\ pc = "reread" => closed + Unmatched <= mark.closed + mark.unmatched + close_qty(net)
    /\ pc = "returned" => closed + Unmatched <= qty + grown + late

\* How much has been closed at least, at each await, if no query failed.
Shrunk ==
  (qty # None /\ ~ misread) =>
    /\ pc = "read" => qty <= target + closed + shrunk
    /\ pc \in {"place", "reread"} => qty <= target + mark.closed + mark.shrunk
    /\ answer = "ok" => qty <= closed + shrunk

\* The inductive invariant: each await has its own account.
Inv == Types /\ Phases /\ Balance /\ Ordered /\ Shrunk

-----------------------------------------------------------------------------
\* What the side of an order does to the lots not yet matched.
LEMMA WorkingSide ==
  ASSUME NEW w \in [buy : Nat, sell : Nat], NEW side \in {"buy", "sell"}, NEW n \in Nat
  PROVE  /\ w[side] \in Nat
         /\ [w EXCEPT ![side] = n] \in [buy : Nat, sell : Nat]
         /\ [w EXCEPT ![side] = n].buy + [w EXCEPT ![side] = n].sell = w.buy + w.sell - w[side] + n
<1>1. CASE side = "buy"
  BY <1>1
<1>2. CASE side = "sell"
  BY <1>2
<1> QED BY <1>1, <1>2

\* One lot more or less: by how much the position grows.
LEMMA AbsStep ==
  ASSUME NEW p \in Int, NEW d \in {-1, 1}
  PROVE  /\ Abs(p) \in Nat /\ Abs(p + d) \in Nat
         /\ IF Abs(p + d) > Abs(p) THEN Abs(p + d) = Abs(p) + 1 ELSE Abs(p + d) = Abs(p) - 1
         /\ (d = -1 /\ p > 0) \/ (d = 1 /\ p < 0) => Abs(p + d) = Abs(p) - 1
BY DEF Abs

-----------------------------------------------------------------------------
\* A call never orders more than is left, nor more than there is.
LEMMA CloseQty ==
  ASSUME Types
  PROVE  /\ Unmatched \in Nat /\ Abs(net) \in Nat /\ Abs(pos) \in Nat
         /\ close_qty(net) \in Nat /\ close_qty(net) <= Abs(net)
         /\ target # None => close_qty(net) <= target /\ close_qty(net) = Least(Abs(net), target)
<1>1. Unmatched \in Nat /\ Abs(net) \in Nat /\ Abs(pos) \in Nat
  BY DEF Types, Unmatched, Abs
<1>2. CASE target = None
  BY <1>1, <1>2 DEF close_qty
<1>3. CASE target # None
  <2>1. target \in Nat
    BY <1>3 DEF Types
  <2> QED BY <1>1, <1>3, <2>1 DEF close_qty, Least
<1> QED BY <1>1, <1>2, <1>3

-----------------------------------------------------------------------------
\* The invariant holds at the start.
LEMMA InitInv ==
  ASSUME CloseInit
  PROVE  Inv
<1>1. Types
  <2>1. pos \in Int /\ net \in Int
    BY CloseAssumption DEF CloseInit
  <2>2. working \in [buy : Nat, sell : Nat]
    BY DEF CloseInit
  <2>3. mark \in [closed : Nat, grown : Nat, shrunk : Nat, unmatched : Nat]
    BY DEF CloseInit
  <2>4. mark.closed <= closed /\ mark.grown <= grown /\ mark.shrunk <= shrunk
    BY DEF CloseInit
  <2>5. qty = None /\ target = None /\ misread \in BOOLEAN /\ pc = "idle"
    BY DEF CloseInit
  <2>6. closed \in Nat /\ grown \in Nat /\ shrunk \in Nat /\ late \in Nat
    BY DEF CloseInit
  <2> QED BY <2>1, <2>2, <2>3, <2>4, <2>5, <2>6 DEF Types
<1>2. Phases
  BY CloseAssumption DEF CloseInit, Phases, Unmatched
<1>3. Balance /\ Ordered /\ Shrunk
  BY DEF CloseInit, Balance, Ordered, Shrunk
<1> QED BY <1>1, <1>2, <1>3 DEF Inv

-----------------------------------------------------------------------------
(* The steps of the venue and of the others *)

\* What such a step does to the counts: a lot that trades moves from what is
\* not matched to what is closed, and every trade is in the balance.
Traded ==
  /\ UNCHANGED <<pc, qty, target, net, answer, late, misread, mark>>
  /\ pos' \in Int /\ working' \in [buy : Nat, sell : Nat]
  /\ closed' \in Nat /\ grown' \in Nat /\ shrunk' \in Nat
  /\ closed <= closed' /\ grown <= grown' /\ shrunk <= shrunk'
  /\ closed' + Unmatched' <= closed + Unmatched
  /\ Abs(pos') = Abs(pos) + (grown' - grown) - (closed' - closed) - (shrunk' - shrunk)

\* A match of the venue is such a step.
LEMMA MatchIsTraded ==
  ASSUME Types, NEW side \in {"buy", "sell"}, VenueMatch(side)
  PROVE  Traded
<1>1. UNCHANGED <<pc, qty, target, net, answer, grown, shrunk, late, misread, mark>>
  BY DEF VenueMatch, call
<1>2. /\ pos \in Int /\ working \in [buy : Nat, sell : Nat] /\ closed \in Nat
      /\ grown \in Nat /\ shrunk \in Nat
  BY DEF Types
<1>3. working[side] \in Nat /\ working[side] > 0
  BY <1>2, WorkingSide DEF VenueMatch
<1>4. CASE Reduces(side)
  <2>1. /\ pos' = IF side = "sell" THEN pos - 1 ELSE pos + 1
        /\ working' = [working EXCEPT ![side] = working[side] - 1]
        /\ closed' = closed + 1
    BY <1>4 DEF VenueMatch
  <2>2. working[side] - 1 \in Nat
    BY <1>3
  <2>3. working' \in [buy : Nat, sell : Nat] /\ Unmatched' = Unmatched - 1
    BY <1>2, <1>3, <2>1, <2>2, WorkingSide DEF Unmatched
  <2>4. pos' \in Int /\ Abs(pos') = Abs(pos) - 1
    BY <1>2, <1>4, <2>1 DEF Reduces, Abs
  <2>5. Unmatched \in Nat /\ Abs(pos) \in Nat
    BY <1>2 DEF Unmatched, Abs
  <2> QED BY <1>1, <1>2, <2>1, <2>3, <2>4, <2>5 DEF Traded
<1>5. CASE ~ Reduces(side)
  <2>1. working' = [working EXCEPT ![side] = 0] /\ pos' = pos /\ closed' = closed
    BY <1>5 DEF VenueMatch
  <2>2. working' \in [buy : Nat, sell : Nat] /\ Unmatched' = Unmatched - working[side]
    BY <1>2, <1>3, <2>1, WorkingSide DEF Unmatched
  <2>3. Unmatched \in Nat /\ Abs(pos) \in Nat
    BY <1>2 DEF Unmatched, Abs
  <2> QED BY <1>1, <1>2, <1>3, <2>1, <2>2, <2>3 DEF Traded
<1> QED BY <1>4, <1>5

\* So is a trade of somebody else.
LEMMA OtherIsTraded ==
  ASSUME Types, NEW d \in {-1, 1}, OtherTrade(d)
  PROVE  Traded
<1>1. UNCHANGED <<pc, qty, target, net, answer, working, closed, late, misread, mark>>
  BY DEF OtherTrade, call
<1>2. /\ pos \in Int /\ working \in [buy : Nat, sell : Nat] /\ closed \in Nat
      /\ grown \in Nat /\ shrunk \in Nat
  BY DEF Types
<1>3. pos' = pos + d /\ pos' \in Int
  BY <1>2 DEF OtherTrade
<1>4. Unmatched' = Unmatched /\ Unmatched \in Nat
  BY <1>1, <1>2 DEF Unmatched
<1>5. Abs(pos) \in Nat /\ Abs(pos + d) \in Nat
  BY <1>2, AbsStep
<1>6. CASE Abs(pos + d) > Abs(pos)
  <2>1. grown' = grown + 1 /\ shrunk' = shrunk /\ Abs(pos') = Abs(pos) + 1
    BY <1>2, <1>3, <1>6, AbsStep DEF OtherTrade
  <2> QED BY <1>1, <1>2, <1>3, <1>4, <1>5, <2>1 DEF Traded
<1>7. CASE ~ (Abs(pos + d) > Abs(pos))
  <2>1. shrunk' = shrunk + 1 /\ grown' = grown /\ Abs(pos') = Abs(pos) - 1
    BY <1>2, <1>3, <1>7, AbsStep DEF OtherTrade
  <2> QED BY <1>1, <1>2, <1>3, <1>4, <1>5, <2>1 DEF Traded
<1> QED BY <1>6, <1>7

\* Before the call nothing is matched, so nothing is closed then.
LEMMA TradedKeeps ==
  ASSUME Inv, Traded, pc = "idle" => closed' = closed
  PROVE  Inv'
<1>1. /\ UNCHANGED <<pc, qty, target, net, answer, late, misread, mark>>
      /\ close_qty(net)' = close_qty(net)
  BY DEF Traded, close_qty
<1>2. Types /\ Phases /\ Balance /\ Ordered /\ Shrunk
  BY DEF Inv
<1>3. Types'
  <2>1. /\ mark' \in [closed : Nat, grown : Nat, shrunk : Nat, unmatched : Nat]
        /\ mark'.closed <= closed' /\ mark'.grown <= grown' /\ mark'.shrunk <= shrunk'
    BY <1>2 DEF Traded, Types
  <2> QED BY <1>1, <1>2, <2>1 DEF Traded, Types
<1>4. PICK c \in Nat, u \in Nat, g \in Nat, s \in Nat :
        c = closed' /\ u = Unmatched' /\ g = grown' /\ s = shrunk'
  BY <1>3 DEF Types, Unmatched
<1>5. /\ closed <= c /\ grown <= g /\ shrunk <= s
      /\ c + u <= closed + Unmatched
  BY <1>4 DEF Traded
<1>6. Unmatched \in Nat /\ closed \in Nat /\ grown \in Nat /\ shrunk \in Nat /\ late \in Nat
  BY <1>2 DEF Types, Unmatched
<1>7. /\ mark.closed \in Nat /\ mark.grown \in Nat /\ mark.shrunk \in Nat
      /\ mark.unmatched \in Nat
  BY <1>2 DEF Types
<1>8. Phases'
  <2>1. closed = 0 /\ Unmatched = 0 /\ c = 0 => u = 0
    BY <1>5, <1>6
  <2> QED BY <1>1, <1>2, <1>4, <2>1 DEF Phases
<1>9. Balance'
  <2>1. Abs(net) \in Nat /\ Abs(net)' = Abs(net) /\ Abs(pos) \in Nat
    BY <1>1, <1>2 DEF Types, Abs
  <2>2. Abs(pos)' = Abs(pos) + (g - grown) - (c - closed) - (s - shrunk)
    BY <1>4 DEF Traded, Abs
  <2>3. pc \in {"place", "reread"} =>
          Abs(pos)' = Abs(net) - (c - mark.closed) - (s - mark.shrunk) + (g - mark.grown)
    BY <1>2, <1>6, <1>7, <2>1, <2>2 DEF Balance
  <2> QED BY <1>1, <1>4, <2>1, <2>3 DEF Balance
<1>10. Ordered'
  <2>1. SUFFICES ASSUME qty # None PROVE Ordered'
    BY <1>1 DEF Ordered
  <2>2. target \in Nat /\ qty \in Nat /\ close_qty(net) \in Nat
    BY <1>2, <2>1, CloseQty DEF Types
  <2>3. pc = "read" => c + u + target <= qty + g + late
    BY <1>2, <1>5, <1>6, <2>1, <2>2 DEF Ordered
  <2>4. pc \in {"place", "reread"} =>
          mark.closed + mark.unmatched + target <= qty + mark.grown + late
    BY <1>2, <2>1 DEF Ordered
  <2>5. /\ pc = "place" => c + u <= mark.closed + mark.unmatched
        /\ pc = "reread" => c + u <= mark.closed + mark.unmatched + close_qty(net)
    BY <1>2, <1>5, <1>6, <1>7, <2>1, <2>2 DEF Ordered
  <2>6. pc = "returned" => c + u <= qty + g + late
    BY <1>2, <1>5, <1>6, <2>1, <2>2 DEF Ordered
  <2> QED BY <1>1, <1>4, <2>3, <2>4, <2>5, <2>6 DEF Ordered
<1>11. Shrunk'
  <2>1. SUFFICES ASSUME qty # None, ~ misread PROVE Shrunk'
    BY <1>1 DEF Shrunk
  <2>2. target \in Nat /\ qty \in Nat
    BY <1>2, <2>1 DEF Types
  <2>3. pc = "read" => qty <= target + c + s
    BY <1>2, <1>5, <1>6, <2>1, <2>2 DEF Shrunk
  <2>4. pc \in {"place", "reread"} => qty <= target + mark.closed + mark.shrunk
    BY <1>2, <2>1 DEF Shrunk
  <2>5. answer = "ok" => qty <= c + s
    BY <1>2, <1>5, <1>6, <2>1, <2>2 DEF Shrunk
  <2> QED BY <1>1, <1>4, <2>3, <2>4, <2>5 DEF Shrunk
<1> QED BY <1>3, <1>8, <1>9, <1>10, <1>11 DEF Inv

\* The steps of the venue and of others keep the invariant.
LEMMA OutsideKeeps ==
  ASSUME Inv,
         \/ \E side \in {"buy", "sell"} : VenueMatch(side)
         \/ \E d \in {-1, 1} : OtherTrade(d)
  PROVE  Inv'
<1>1. ASSUME NEW side \in {"buy", "sell"}, VenueMatch(side) PROVE Inv'
  <2>1. pc # "idle"
    <3>1. working[side] \in Nat /\ working[side] > 0 /\ Unmatched >= working[side]
      BY <1>1 DEF Inv, Types, VenueMatch, Unmatched
    <3> QED BY <3>1 DEF Inv, Phases
  <2> QED BY <1>1, <2>1, MatchIsTraded, TradedKeeps DEF Inv
<1>2. ASSUME NEW d \in {-1, 1}, OtherTrade(d) PROVE Inv'
  <2>1. closed' = closed
    BY <1>2 DEF OtherTrade
  <2> QED BY <1>2, <2>1, OtherIsTraded, TradedKeeps DEF Inv
<1> QED BY <1>1, <1>2

-----------------------------------------------------------------------------
(* The steps of the call *)

\* The account at every await bounds what is ordered, with the next order too.
LEMMA Bounds ==
  ASSUME Inv, qty # None
  PROVE  /\ closed + Unmatched <= qty + grown + late
         /\ pc = "place" => closed + Unmatched + close_qty(net) <= qty + grown + late
<1>1. Types /\ Phases /\ Ordered
  BY DEF Inv
<1>2. /\ Unmatched \in Nat /\ close_qty(net) \in Nat /\ qty \in Nat /\ target \in Nat
      /\ close_qty(net) <= target
  BY <1>1, CloseQty DEF Types
<1>3. /\ closed \in Nat /\ grown \in Nat /\ late \in Nat
      /\ mark.closed \in Nat /\ mark.unmatched \in Nat /\ mark.grown \in Nat /\ mark.grown <= grown
  BY <1>1 DEF Types
<1>4. CASE pc = "idle"
  BY <1>1, <1>2, <1>3, <1>4 DEF Phases
<1>5. CASE pc = "read"
  BY <1>1, <1>2, <1>3, <1>5 DEF Ordered
<1>6. CASE pc = "place"
  BY <1>1, <1>2, <1>3, <1>6 DEF Ordered
<1>7. CASE pc = "reread"
  BY <1>1, <1>2, <1>3, <1>7 DEF Ordered
<1>8. CASE pc = "returned"
  BY <1>1, <1>8 DEF Ordered
<1> QED BY <1>1, <1>4, <1>5, <1>6, <1>7, <1>8 DEF Types

\* What the venue takes is counted among the lots not yet matched.
LEMMA OrderWorks ==
  ASSUME Types, place_order
  PROVE  working' \in [buy : Nat, sell : Nat] /\ Unmatched' = Unmatched + close_qty(net)
<1>1. close_side \in {"buy", "sell"}
  BY DEF close_side
<1>2. working[close_side] + close_qty(net) \in Nat
  BY <1>1, WorkingSide, CloseQty DEF Types
<1>3. working' = [working EXCEPT ![close_side] = working[close_side] + close_qty(net)]
  BY DEF place_order
<1>4. working[close_side] \in Nat /\ working.buy \in Nat /\ working.sell \in Nat
  BY <1>1, WorkingSide DEF Types
<1>5. working' \in [buy : Nat, sell : Nat]
  BY <1>1, <1>2, <1>3, WorkingSide DEF Types
<1>6. working'.buy + working'.sell =
        working.buy + working.sell - working[close_side] + (working[close_side] + close_qty(net))
  BY <1>1, <1>2, <1>3, WorkingSide DEF Types
<1> QED BY <1>4, <1>5, <1>6, CloseQty DEF Unmatched

\* To return keeps the invariant, if what was ordered stays within its bound
\* and success is not said of a quantity.
LEMMA ReturnKeeps ==
  ASSUME Inv, UNCHANGED <<pos, qty, target, net, counters, late, misread, mark>>,
         working' \in [buy : Nat, sell : Nat], pc' = "returned",
         answer' = "ok" => qty = None,
         qty # None => closed + Unmatched' <= qty + grown + late
  PROVE  Inv'
<1>1. Types
  BY DEF Inv
<1>2. Types'
  BY <1>1 DEF Types, counters
<1>3. Phases' /\ Balance'
  BY DEF Phases, Balance
<1>4. Ordered' /\ Shrunk'
  BY DEF Ordered, Shrunk, counters
<1> QED BY <1>2, <1>3, <1>4 DEF Inv

\* The call begins: nothing was ordered.
LEMMA BeginKeeps ==
  ASSUME Inv, NEW q \in Asked \cup {None}, Begin(q)
  PROVE  Inv'
<1>1. Types /\ Phases
  BY DEF Inv
<1>2. /\ pc = "idle" /\ pc' = "read" /\ qty' = q /\ target' = q
      /\ UNCHANGED <<pos, working, net, answer, closed, grown, shrunk, late, misread, mark>>
      /\ Unmatched' = Unmatched
  BY DEF Begin, counters, Unmatched
<1>3. q \in Nat \cup {None}
  BY CloseAssumption
<1>4. Types'
  BY <1>1, <1>2, <1>3 DEF Types
<1>5. Phases' /\ Balance'
  BY <1>1, <1>2 DEF Phases, Balance
<1>6. closed = 0 /\ Unmatched = 0 /\ late = 0 /\ answer # "ok" /\ grown \in Nat /\ shrunk \in Nat
  BY <1>1, <1>2 DEF Phases, Types
<1>7. Ordered'
  <2>1. q # None => 0 + 0 + q <= q + grown + 0
    BY <1>3, <1>6
  <2> QED BY <1>2, <1>6, <2>1 DEF Ordered
<1>8. Shrunk'
  <2>1. q # None => q <= q + 0 + shrunk
    BY <1>3, <1>6
  <2> QED BY <1>2, <1>6, <2>1 DEF Shrunk
<1> QED BY <1>4, <1>5, <1>7, <1>8 DEF Inv

\* The first read of a round: the counters are marked, and a round that goes on
\* has read the position of the venue, for a misread one is flat.
LEMMA ReadKeeps ==
  ASSUME Inv, NEW p \in {pos, 0}, ReadPosition(p)
  PROVE  Inv'
<1>1. Types /\ Phases /\ Ordered /\ Shrunk
  BY DEF Inv
<1>2. /\ pc = "read" /\ net' = p /\ misread' = (misread \/ p # pos)
      /\ mark' = [closed |-> closed, grown |-> grown, shrunk |-> shrunk, unmatched |-> Unmatched]
      /\ UNCHANGED <<pos, working, qty, target, closed, grown, shrunk, late>>
      /\ Unmatched' = Unmatched
  BY DEF ReadPosition, get_net_position_qty, counters, Unmatched
<1>3. /\ Unmatched \in Nat /\ closed \in Nat /\ grown \in Nat /\ shrunk \in Nat /\ late \in Nat
      /\ pos \in Int /\ answer # "ok"
  BY <1>1, <1>2, CloseQty DEF Types, Phases
<1>4. answer' # "ok" /\ pc' \in {"returned", "place"}
  BY <1>3 DEF ReadPosition, Answer
<1>5. pc' = "place" => p = pos
  <2>1. SUFFICES ASSUME pc' = "place" PROVE p # 0
    OBVIOUS
  <2>2. close_qty(p) > 0
    BY <1>1, <2>1 DEF ReadPosition, Answer, Types, close_qty, Abs, Least
  <2> QED BY <1>1, <2>2 DEF Types, close_qty, Abs, Least
<1>6. Types'
  <2>1. mark' \in [closed : Nat, grown : Nat, shrunk : Nat, unmatched : Nat]
    BY <1>2, <1>3
  <2>2. mark'.closed <= closed' /\ mark'.grown <= grown' /\ mark'.shrunk <= shrunk'
    BY <1>2, <1>3
  <2>3. misread' \in BOOLEAN /\ net' \in Int
    BY <1>2, <1>3
  <2> QED BY <1>1, <1>2, <1>4, <2>1, <2>2, <2>3 DEF Types
<1>7. Phases'
  BY <1>4 DEF Phases
<1>8. Balance'
  <2>1. Abs(pos) \in Nat
    BY <1>3 DEF Abs
  <2>2. Abs(pos) = Abs(pos) - (closed - closed) - (shrunk - shrunk) + (grown - grown)
    BY <1>3, <2>1
  <2>3. pc' # "reread" /\ (pc' = "place" => net' = pos /\ pos' = pos)
    BY <1>2, <1>4, <1>5
  <2> QED BY <1>2, <2>2, <2>3 DEF Balance, Abs
<1>9. Ordered'
  <2>1. SUFFICES ASSUME qty # None PROVE Ordered'
    BY <1>2 DEF Ordered
  <2>2. target \in Nat /\ qty \in Nat
    BY <1>1, <2>1 DEF Types
  <2>3. closed + Unmatched + target <= qty + grown + late
    BY <1>1, <1>2, <2>1 DEF Ordered
  <2>4. closed + Unmatched <= qty + grown + late
    BY <1>3, <2>2, <2>3
  <2> QED BY <1>2, <1>3, <1>4, <2>2, <2>3, <2>4 DEF Ordered
<1>10. Shrunk'
  BY <1>1, <1>2, <1>4 DEF Shrunk
<1> QED BY <1>6, <1>7, <1>8, <1>9, <1>10 DEF Inv

\* An accepted order is within what is left; without a quantity the call ends.
LEMMA AcceptedKeeps ==
  ASSUME Inv, PlaceAccepted
  PROVE  Inv'
<1>1. Types /\ Phases /\ Balance /\ Ordered /\ Shrunk
  BY DEF Inv
<1>2. /\ pc = "place" /\ UNCHANGED <<pos, qty, target, net, counters, late, misread, mark>>
      /\ close_qty(net)' = close_qty(net)
  BY DEF PlaceAccepted, place_order, close_qty
<1>3. working' \in [buy : Nat, sell : Nat] /\ Unmatched' = Unmatched + close_qty(net)
  BY <1>1, OrderWorks DEF PlaceAccepted
<1>4. CASE target = None
  <2>1. pc' = "returned" /\ qty = None
    BY <1>1, <1>4 DEF PlaceAccepted, Answer, Types
  <2> QED BY <1>2, <1>3, <2>1, ReturnKeeps
<1>5. CASE target # None
  <2>1. pc' = "reread" /\ answer' = answer
    BY <1>5 DEF PlaceAccepted
  <2>2. Types'
    BY <1>1, <1>2, <1>3, <2>1 DEF Types, counters
  <2>3. Phases'
    BY <1>1, <1>2, <1>5, <2>1 DEF Phases
  <2>4. Balance'
    BY <1>1, <1>2, <2>1 DEF Balance, Abs, counters
  <2>5. Ordered'
    <3>1. SUFFICES ASSUME qty # None PROVE Ordered'
      BY <1>2 DEF Ordered
    <3>2. closed + Unmatched <= mark.closed + mark.unmatched
      BY <1>1, <1>2, <3>1 DEF Ordered
    <3>3. /\ Unmatched \in Nat /\ close_qty(net) \in Nat /\ closed \in Nat
          /\ mark.closed \in Nat /\ mark.unmatched \in Nat
      BY <1>1, CloseQty DEF Types
    <3>4. closed + (Unmatched + close_qty(net)) <= mark.closed + mark.unmatched + close_qty(net)
      BY <3>2, <3>3
    <3> QED BY <1>1, <1>2, <1>3, <2>1, <3>1, <3>4 DEF Ordered, counters
  <2>6. Shrunk'
    BY <1>1, <1>2, <2>1 DEF Phases, Shrunk, counters
  <2> QED BY <2>2, <2>3, <2>4, <2>5, <2>6 DEF Inv
<1> QED BY <1>4, <1>5

\* A race leads to another round or to the end; nothing was ordered.
LEMMA RacedKeeps ==
  ASSUME Inv, PlaceRaced
  PROVE  Inv'
<1>1. Types /\ Phases /\ Ordered /\ Shrunk
  BY DEF Inv
<1>2. /\ pc = "place" /\ Unmatched' = Unmatched
      /\ UNCHANGED <<pos, working, qty, target, net, counters, late, misread, mark>>
  BY DEF PlaceRaced, Unmatched
<1>3. CASE attempt < MaxRetries
  <2>1. pc' = "read" /\ answer' = answer
    BY <1>3 DEF PlaceRaced, Continue
  <2>2. Types'
    BY <1>1, <1>2, <2>1 DEF Types, counters
  <2>3. Phases' /\ Balance'
    BY <1>1, <1>2, <2>1 DEF Phases, Balance
  <2>4. SUFFICES ASSUME qty # None PROVE Ordered' /\ Shrunk'
    BY <1>2, <2>2, <2>3 DEF Inv, Ordered, Shrunk
  <2>5. /\ Unmatched \in Nat /\ target \in Nat /\ qty \in Nat
        /\ closed \in Nat /\ grown \in Nat /\ shrunk \in Nat /\ late \in Nat
    BY <1>1, <2>4, CloseQty DEF Types
  <2>6. /\ mark.closed \in Nat /\ mark.grown \in Nat /\ mark.shrunk \in Nat /\ mark.unmatched \in Nat
        /\ mark.closed <= closed /\ mark.grown <= grown /\ mark.shrunk <= shrunk
    BY <1>1 DEF Types
  <2>7. closed + Unmatched + target <= qty + grown + late
    BY <1>1, <1>2, <2>4, <2>5, <2>6 DEF Ordered
  <2>8. ~ misread => qty <= target + closed + shrunk
    BY <1>1, <1>2, <2>4, <2>5, <2>6 DEF Shrunk
  <2>9. Ordered'
    BY <1>2, <2>1, <2>7 DEF Ordered, counters
  <2>10. Shrunk'
    BY <1>1, <1>2, <2>1, <2>8 DEF Phases, Shrunk, counters
  <2> QED BY <2>9, <2>10
<1>4. CASE ~ (attempt < MaxRetries)
  <2>1. pc' = "returned" /\ answer' # "ok"
    BY <1>4 DEF PlaceRaced, Continue, Answer
  <2> QED BY <1>1, <1>2, <2>1, Bounds, ReturnKeeps DEF Types
<1> QED BY <1>3, <1>4

\* A failure ends the call, the order taken or not.
LEMMA FailsKeeps ==
  ASSUME Inv, PlaceFails
  PROVE  Inv'
<1>1. Types
  BY DEF Inv
<1>2. /\ pc = "place" /\ pc' = "returned" /\ answer' # "ok"
      /\ UNCHANGED <<pos, qty, target, net, counters, late, misread, mark>>
  BY DEF PlaceFails, Answer
<1>3. CASE place_order
  BY <1>1, <1>2, <1>3, OrderWorks, CloseQty, Bounds, ReturnKeeps DEF Types
<1>4. CASE UNCHANGED working
  <2>1. working' \in [buy : Nat, sell : Nat] /\ Unmatched' = Unmatched
    BY <1>1, <1>4 DEF Types, Unmatched
  <2> QED BY <1>2, <2>1, Bounds, ReturnKeeps
<1> QED BY <1>3, <1>4 DEF PlaceFails

\* So does a read that raises.
LEMMA RaisesKeeps ==
  ASSUME Inv, ReadRaises
  PROVE  Inv'
<1>1. Types
  BY DEF Inv
<1>2. /\ pc' = "returned" /\ answer' # "ok" /\ working' = working /\ Unmatched' = Unmatched
      /\ UNCHANGED <<pos, qty, target, net, counters, late, misread, mark>>
  BY DEF ReadRaises, Answer, Unmatched
<1> QED BY <1>1, <1>2, Bounds, ReturnKeeps DEF Types

-----------------------------------------------------------------------------
(* The second read *)

\* What is left after a round.  A read of the truth says by how much the
\* position shrank, and the balance says who made it shrink; a misread one says
\* that all of it went, and no more than all of it was ordered.
LEMMA Remainder ==
  ASSUME Inv, pc = "reread", qty # None, NEW p \in {pos, 0},
         NEW left, left = Positive(target - Reduced(p)),
         NEW more, more = Positive(Unmatched - mark.unmatched)
  PROVE  /\ left \in Nat /\ more \in Nat
         /\ closed + Unmatched <= qty + grown + (late + more)
         /\ left > 0 => closed + Unmatched + left <= qty + grown + (late + more)
         /\ (~ misread /\ p = pos) => qty <= left + closed + shrunk
<1>1. Types /\ Balance /\ Ordered /\ Shrunk
  BY DEF Inv
<1>2. /\ closed \in Nat /\ grown \in Nat /\ shrunk \in Nat /\ late \in Nat
      /\ qty \in Nat /\ target \in Nat
      /\ mark.closed \in Nat /\ mark.grown \in Nat /\ mark.shrunk \in Nat /\ mark.unmatched \in Nat
      /\ mark.closed <= closed /\ mark.grown <= grown /\ mark.shrunk <= shrunk
  BY <1>1 DEF Types
<1>3. /\ Unmatched \in Nat /\ Abs(net) \in Nat /\ Abs(pos) \in Nat
      /\ close_qty(net) \in Nat /\ close_qty(net) <= Abs(net) /\ close_qty(net) <= target
  BY <1>1, <1>2, CloseQty DEF Types
<1>4. p \in Int /\ Abs(p) \in Nat
  BY <1>1, <1>3 DEF Types, Abs
<1>5. Reduced(p) \in Nat /\ (Reduced(p) = Abs(net) - Abs(p) \/ (Reduced(p) = 0 /\ Abs(net) <= Abs(p)))
  BY <1>3, <1>4 DEF Reduced, Positive
<1>6. left \in Nat /\ more \in Nat
  BY <1>2, <1>3, <1>5 DEF Positive
<1>7. /\ left > 0 => left = target - Reduced(p)
      /\ left >= target - Reduced(p)
      /\ more >= Unmatched - mark.unmatched
  BY <1>2, <1>3, <1>5 DEF Positive
<1>8. /\ mark.closed + mark.unmatched + target <= qty + mark.grown + late
      /\ closed + Unmatched <= mark.closed + mark.unmatched + close_qty(net)
  BY <1>1 DEF Ordered
<1>9. closed + Unmatched <= qty + grown + (late + more)
  BY <1>2, <1>3, <1>6, <1>8
<1>10. CASE p = pos
  <2>1. Abs(p) = Abs(net) - (closed - mark.closed) - (shrunk - mark.shrunk) + (grown - mark.grown)
    BY <1>1, <1>10 DEF Balance
  <2>2. left > 0 => closed + Unmatched + left <= qty + grown + (late + more)
    BY <1>2, <1>3, <1>4, <1>5, <1>6, <1>7, <1>8, <2>1
  <2>3. ~ misread => qty <= target + mark.closed + mark.shrunk
    BY <1>1 DEF Shrunk
  <2>4. ~ misread => qty <= left + closed + shrunk
    BY <1>2, <1>3, <1>4, <1>5, <1>6, <1>7, <2>1, <2>3
  <2> QED BY <1>6, <1>9, <2>2, <2>4
<1>11. CASE p # pos
  <2>1. Reduced(p) = Abs(net)
    BY <1>3, <1>11 DEF Reduced, Positive, Abs
  <2>2. left > 0 => closed + Unmatched + left <= qty + grown + (late + more)
    BY <1>2, <1>3, <1>6, <1>7, <1>8, <2>1
  <2> QED BY <1>6, <1>9, <1>11, <2>2
<1> QED BY <1>10, <1>11

\* The second read keeps the invariant.
LEMMA RereadKeeps ==
  ASSUME Inv, NEW p \in {pos, 0}, RereadPosition(p)
  PROVE  Inv'
<1>1. Types /\ Phases
  BY DEF Inv
<1>2. /\ pc = "reread" /\ misread' = (misread \/ p # pos) /\ answer # "ok"
      /\ UNCHANGED <<pos, working, qty, net, closed, grown, shrunk, mark>>
      /\ Unmatched' = Unmatched
  BY <1>1 DEF RereadPosition, get_net_position_qty, counters, Unmatched, Phases
<1>3. qty # None /\ target # None
  BY <1>1, <1>2 DEF Phases, Types
<1>4. PICK left, more :
        /\ left = Positive(target - Reduced(p)) /\ more = Positive(Unmatched - mark.unmatched)
        /\ target' = left /\ late' = late + more
  BY DEF RereadPosition
<1>5. /\ left \in Nat /\ more \in Nat
      /\ closed + Unmatched <= qty + grown + (late + more)
      /\ left > 0 => closed + Unmatched + left <= qty + grown + (late + more)
      /\ (~ misread /\ p = pos) => qty <= left + closed + shrunk
  BY <1>2, <1>3, <1>4, Remainder
<1>6. pc' \in {"read", "returned"} /\ (pc' = "read" => left > 0 /\ answer' = answer)
  BY <1>4 DEF RereadPosition, Continue, Answer
<1>7. answer' = "ok" => pc' = "returned" /\ left = 0
  BY <1>2, <1>4, <1>5 DEF RereadPosition, Continue, Answer
<1>8. Types'
  <2>1. qty' \in Nat /\ target' \in Nat /\ qty' # None /\ (target' = None <=> FALSE)
    <3>1. None \notin Nat
      BY CloseAssumption
    <3> QED BY <1>1, <1>2, <1>3, <1>4, <1>5, <3>1 DEF Types
  <2>2. late' \in Nat /\ misread' \in BOOLEAN
    BY <1>1, <1>2, <1>4, <1>5 DEF Types
  <2> QED BY <1>1, <1>2, <1>6, <2>1, <2>2 DEF Types
<1>9. Phases' /\ Balance'
  BY <1>6, <1>7 DEF Phases, Balance
<1>10. Ordered'
  BY <1>2, <1>4, <1>5, <1>6 DEF Ordered
<1>11. Shrunk'
  <2>1. SUFFICES ASSUME ~ misread' PROVE Shrunk'
    BY DEF Shrunk
  <2>2. qty <= left + closed + shrunk
    BY <1>2, <1>5, <2>1
  <2>3. left = 0 => qty <= closed + shrunk
    BY <1>1, <1>5, <2>2 DEF Types
  <2> QED BY <1>2, <1>4, <1>6, <1>7, <2>2, <2>3 DEF Shrunk
<1> QED BY <1>8, <1>9, <1>10, <1>11 DEF Inv

-----------------------------------------------------------------------------
(* The theorems *)

\* Every step keeps the invariant.
LEMMA NextInv ==
  ASSUME Inv, [CloseNext]_close
  PROVE  Inv'
<1>1. ASSUME NEW q \in Asked \cup {None}, Begin(q) PROVE Inv'
  BY <1>1, BeginKeeps
<1>2. ASSUME NEW p \in {pos, 0}, ReadPosition(p) PROVE Inv'
  BY <1>2, ReadKeeps
<1>3. ASSUME NEW p \in {pos, 0}, RereadPosition(p) PROVE Inv'
  BY <1>3, RereadKeeps
<1>4. CASE PlaceAccepted \/ PlaceRaced \/ PlaceFails \/ ReadRaises
  BY <1>4, AcceptedKeeps, RacedKeeps, FailsKeeps, RaisesKeeps
<1>5. CASE \/ \E side \in {"buy", "sell"} : VenueMatch(side)
           \/ \E d \in {-1, 1} : OtherTrade(d)
  BY <1>5, OutsideKeeps
<1>6. CASE UNCHANGED close
  <2>1. /\ Types' = Types /\ Phases' = Phases /\ Balance' = Balance
        /\ Ordered' = Ordered /\ Shrunk' = Shrunk
    BY <1>6 DEF close, call, counters, Types, Phases, Balance, Ordered, Shrunk,
                Unmatched, close_qty, Abs
  <2> QED BY <2>1 DEF Inv
<1> QED BY <1>1, <1>2, <1>3, <1>4, <1>5, <1>6 DEF CloseNext

\* So it holds of every behaviour.
LEMMA Invariant == CloseSpec => []Inv
<1>1. CloseInit => Inv
  BY InitInv
<1>2. Inv /\ [CloseNext]_close => Inv'
  BY NextInv
<1> QED BY <1>1, <1>2, PTL DEF CloseSpec

\* However many rounds the call takes and whatever others trade between its
\* awaits, it orders no more than it was asked to close, but for what others
\* added and what the venue had not matched yet when it was looked for.
THEOREM OvershootExplained == CloseSpec => []OvershootIsExplained
<1>1. Inv => OvershootIsExplained
  BY Bounds DEF OvershootIsExplained
<1> QED BY <1>1, Invariant, PTL

\* A success that no failed query forged means that the quantity is closed.
THEOREM SuccessShrinks == CloseSpec => []SuccessIsShrunk
<1>1. Inv => SuccessIsShrunk
  BY DEF Inv, Types, Shrunk, SuccessIsShrunk
<1> QED BY <1>1, Invariant, PTL

=============================================================================
