------------------------------ MODULE OkxClose ------------------------------
(***************************************************************************)
(* One call of OKXSwapClient.close_position_market (exchange/okx_swap.py)  *)
(* against a venue whose position others trade too.                        *)
(*                                                                         *)
(* The call reads the position, places a reduce-only market order, reads   *)
(* again to learn what is left of the quantity it was asked to close, and  *)
(* goes round.  Each request is an await: others trade, and the venue      *)
(* matches what it accepted, between any two of them.                      *)
(***************************************************************************)
EXTENDS Numbers

CONSTANTS
  MaxRetries,     \* max_retries, at least 1
  Asked,          \* the quantities that may be asked for
  MaxPos,         \* bound on the position, in lots
  MaxOthers,      \* bound on the lots others trade
  None

ASSUME CloseAssumption ==
  /\ MaxRetries \in Nat \ {0} /\ MaxPos \in Nat /\ MaxOthers \in Nat
  /\ Asked \subseteq Nat /\ None \notin Int \cup {"ok"}

VARIABLES
  pos,            \* the net position of the venue
  working,        \* lots accepted and not yet matched, by side
  pc,             \* the await the call is in, or "returned"
  attempt,        \* the round of the loop
  qty,            \* the argument: a quantity, or None for the whole position
  target,         \* target_remaining
  net,            \* net_pos as it was read
  answer,         \* what the call returned
  closed,         \* history: lots its orders closed
  grown, shrunk,  \* history: lots by which others grew or shrank the position
  late,           \* history: lots not yet matched when they were looked for
  misread,        \* history: did a failed query pass for a flat position?
  mark            \* history: the counters at the last read

call == <<pc, attempt, qty, target, net, answer>>
counters == <<closed, grown, shrunk>>
close == <<pos, working, call, counters, late, misread, mark>>

Unmatched == working.buy + working.sell

-----------------------------------------------------------------------------
(* The venue and the others (external) *)

\* A reduce-only order of this side has something to reduce.
Reduces(side) == IF side = "sell" THEN pos > 0 ELSE pos < 0

\* One lot of an accepted order trades; if the position has gone or turned
\* meanwhile, the reduce-only rule cancels the order.
VenueMatch(side) ==
  /\ working[side] > 0
  /\ IF Reduces(side)
     THEN /\ pos' = IF side = "sell" THEN pos - 1 ELSE pos + 1
          /\ working' = [working EXCEPT ![side] = @ - 1]
          /\ closed' = closed + 1
     ELSE working' = [working EXCEPT ![side] = 0] /\ UNCHANGED <<pos, closed>>
  /\ UNCHANGED <<call, grown, shrunk, late, misread, mark>>

\* Somebody else buys or sells a lot.
OtherTrade(d) ==
  /\ grown + shrunk < MaxOthers /\ Abs(pos + d) <= MaxPos
  /\ pos' = pos + d
  /\ IF Abs(pos + d) > Abs(pos)
     THEN grown' = grown + 1 /\ UNCHANGED shrunk
     ELSE shrunk' = shrunk + 1 /\ UNCHANGED grown
  /\ UNCHANGED <<working, call, closed, late, misread, mark>>

-----------------------------------------------------------------------------
(* get_net_position_qty *)

\* The position as the call reads it: an error payload, or one without the
\* instrument, is read as no position.
get_net_position_qty(p) ==
  /\ p \in {pos, 0}
  /\ misread' = (misread \/ p # pos)

-----------------------------------------------------------------------------
(* close_position_market *)

Answer(what) == pc' = "returned" /\ answer' = what

\* The next round of the loop, if one is left.
Continue ==
  IF attempt < MaxRetries
  THEN pc' = "read" /\ attempt' = attempt + 1 /\ UNCHANGED answer
  ELSE Answer("exhausted") /\ UNCHANGED attempt

\* Mutant of close_qty: the quantity asked for is forgotten.
close_qty_whole(p) == Abs(p)

close_qty(p) == IF target = None THEN Abs(p) ELSE Least(Abs(p), target)

close_side == IF net > 0 THEN "sell" ELSE "buy"

\* The call begins, with abs(qty) to close or with None.
Begin(q) ==
  /\ pc = "idle" /\ pc' = "read"
  /\ qty' = q /\ target' = q /\ attempt' = 1
  /\ UNCHANGED <<pos, working, net, answer, counters, late, misread, mark>>

\* First await of a round: nothing to close, or an order to place.
ReadPosition(p) ==
  /\ pc = "read"
  /\ get_net_position_qty(p)
  /\ net' = p
  /\ mark' = [closed |-> closed, grown |-> grown, shrunk |-> shrunk, unmatched |-> Unmatched]
  /\ IF close_qty(p) <= 0 THEN Answer("no_position") ELSE pc' = "place" /\ UNCHANGED answer
  /\ UNCHANGED <<pos, working, attempt, qty, target, counters, late>>

\* The venue takes the reduce-only order.
place_order ==
  /\ pc = "place" /\ Reduces(close_side)
  /\ working' = [working EXCEPT ![close_side] = @ + close_qty(net)]

\* Accepted: without a quantity that is all, otherwise the effect is read.
PlaceAccepted ==
  /\ place_order
  /\ IF target = None THEN Answer("ok") ELSE pc' = "reread" /\ UNCHANGED answer
  /\ UNCHANGED <<pos, attempt, qty, target, net, counters, late, misread, mark>>

\* 51169 or 51170, the position has gone or turned: another round.
PlaceRaced ==
  /\ pc = "place"
  /\ Continue
  /\ UNCHANGED <<pos, working, qty, target, net, counters, late, misread, mark>>

\* Another code, or an answer that is lost or unreadable, the order taken or
\* not: the call returns it or raises.
PlaceFails ==
  /\ pc = "place"
  /\ place_order \/ UNCHANGED working
  /\ Answer("error")
  /\ UNCHANGED <<pos, attempt, qty, target, net, counters, late, misread, mark>>

\* Mutant of Reduced: what was ordered is taken for what was closed.
ReducedAsOrdered(p) == close_qty(net)

\* By how much the position shrank since the first read, whoever did it.
Reduced(p) == Positive(Abs(net) - Abs(p))

\* Second await after an accepted order: what remains is for the next round.
RereadPosition(p) ==
  /\ pc = "reread"
  /\ get_net_position_qty(p)
  /\ target' = Positive(target - Reduced(p))
  /\ late' = late + Positive(Unmatched - mark.unmatched)
  /\ IF target' > 0 THEN Continue ELSE Answer("ok") /\ UNCHANGED attempt
  /\ UNCHANGED <<pos, working, qty, net, counters, mark>>

\* A read raises: so does the call.
ReadRaises ==
  /\ pc \in {"read", "reread"}
  /\ Answer("error")
  /\ UNCHANGED <<pos, working, attempt, qty, target, net, counters, late, misread, mark>>

CloseInit ==
  /\ pos \in -MaxPos .. MaxPos
  /\ working = [buy |-> 0, sell |-> 0]
  /\ pc = "idle" /\ attempt = 0 /\ qty = None /\ target = None /\ net = 0 /\ answer = None
  /\ closed = 0 /\ grown = 0 /\ shrunk = 0 /\ late = 0 /\ misread = FALSE
  /\ mark = [closed |-> 0, grown |-> 0, shrunk |-> 0, unmatched |-> 0]

CloseNext ==
  \/ \E q \in Asked \cup {None} : Begin(q)
  \/ \E p \in {pos, 0} : ReadPosition(p) \/ RereadPosition(p)
  \/ PlaceAccepted \/ PlaceRaced \/ PlaceFails \/ ReadRaises
  \/ \E side \in {"buy", "sell"} : VenueMatch(side)
  \/ \E d \in {-1, 1} : OtherTrade(d)

CloseSpec == CloseInit /\ [][CloseNext]_close

-----------------------------------------------------------------------------
(* Properties *)

\* The call never orders more than it was asked to close, over all its rounds,
\* but for what others added meanwhile (the position did not shrink, so it
\* orders again) and what the venue had not matched yet when it looked.
OvershootIsExplained ==
  qty # None => closed + Unmatched <= qty + grown + late

\* An answer of success means that the position has shrunk by the quantity
\* asked for, by its orders or by others, unless a query failed: then an open
\* position is read as flat, and success is reported over it.
SuccessIsShrunk ==
  (answer = "ok" /\ qty # None /\ ~ misread) => closed + shrunk >= qty
=============================================================================
