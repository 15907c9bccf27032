--------------------------- MODULE RuntimeProofs ---------------------------
(***************************************************************************)
(* Theorems about Runtime, for every set of fills, with or without         *)
(* emergency symbols, and for any cooldown.                                *)
(***************************************************************************)
EXTENDS Runtime, TLAPS

\* The part of the types that the invariants need: the breaker's reason and the
\* clock play no role.
Types ==
  /\ halted \in BOOLEAN /\ raised \in BOOLEAN /\ dropped \in BOOLEAN
  /\ active \in BOOLEAN /\ live \in BOOLEAN /\ orphan \in BOOLEAN /\ report \in BOOLEAN
  /\ events \in Seq(BOOLEAN) /\ resets \in Nat /\ unread \in BOOLEAN

\* A runtime is halted by an emergency stop only.
HaltHasEvent == halted => events # <<>>

\* The inductive invariant.  FillsAccounted needs HaltHasEvent: a halted
\* runtime is done with fills it does not book.
Inv ==
  /\ Types /\ HaltHasEvent
  /\ BreachMeansHalted /\ StoppedIsFlat /\ ActiveIsLive /\ FillsAccounted

-----------------------------------------------------------------------------
\* What an emergency stop does, whichever handler asks for it: the runtime is
\* halted behind a new event, flat if the backend accepted on an answer it read;
\* or the backend raised, and neither happened.
LEMMA TriggerEffect ==
  ASSUME Types, ActiveIsLive, ~ halted, _trigger_emergency_stop
  PROVE  /\ active' \in BOOLEAN /\ live' \in BOOLEAN /\ orphan' \in BOOLEAN
         /\ report' \in BOOLEAN /\ raised' \in BOOLEAN
         /\ events' \in Seq(BOOLEAN) /\ unread' \in BOOLEAN
         /\ \/ raised' /\ ~ halted' /\ events' = events
            \/ /\ halted' = TRUE /\ events' # <<>> /\ raised' = raised
               /\ (HasSymbols /\ events'[Len(events')] /\ ~ unread') => ~ live' /\ ~ orphan'
         /\ (active' /\ ~ report' /\ ~ dropped) => live'
<1>1. PICK result \in {"ok", "unread", "failed", "raised"} :
        /\ emergency_stop(result)
        /\ IF result = "raised"
           THEN raised' = TRUE /\ UNCHANGED <<halted, events, unread>>
           ELSE /\ halted' = TRUE /\ events' = Append(events, Accepted(result))
                /\ unread' = (result = "unread")
                /\ UNCHANGED raised
  BY DEF _trigger_emergency_stop
<1>2. /\ Canceled \/ UNCHANGED backend
      /\ (HasSymbols /\ result = "ok") => Canceled
  BY <1>1 DEF emergency_stop
<1>3. /\ active' \in BOOLEAN /\ live' \in BOOLEAN /\ orphan' \in BOOLEAN /\ report' \in BOOLEAN
      /\ (active' /\ ~ report' /\ ~ dropped) => live'
  <2>1. CASE Canceled
    <3>1. live' = FALSE /\ orphan' = FALSE /\ active' = active /\ report' = (report \/ live)
      BY <2>1 DEF Canceled
    <3>2. report' \in BOOLEAN /\ (~ report' => ~ report /\ ~ live)
      BY <3>1 DEF Types
    <3>3. active' \in BOOLEAN /\ (active' => active)
      BY <3>1 DEF Types
    <3>4. live' \in BOOLEAN /\ orphan' \in BOOLEAN
      BY <3>1
    <3> QED BY <3>2, <3>3, <3>4 DEF ActiveIsLive
  <2>2. CASE UNCHANGED backend
    BY <2>2 DEF backend, Types, ActiveIsLive
  <2> QED BY <1>2, <2>1, <2>2
<1>4. Canceled => ~ live' /\ ~ orphan'
  BY DEF Canceled
<1>5. CASE result = "raised"
  BY <1>1, <1>3, <1>5 DEF Types
<1>6. CASE result # "raised"
  <2> DEFINE ok == Accepted(result)
             blind == result = "unread"
  <2>0. ok \in BOOLEAN /\ blind \in BOOLEAN /\ (ok /\ ~ blind => result = "ok")
    BY DEF Accepted
  <2>1. halted' = TRUE /\ raised' = raised /\ events' = Append(events, ok) /\ unread' = blind
    BY <1>1, <1>6
  <2>2. /\ events' \in Seq(BOOLEAN) /\ events' # <<>>
        /\ events'[Len(events')] = ok
    <3> HIDE DEF ok
    <3> QED BY <2>0, <2>1 DEF Types
  <2>3. (HasSymbols /\ ok /\ ~ blind) => ~ live' /\ ~ orphan'
    BY <1>2, <1>4, <2>0
  <2> HIDE DEF ok, blind
  <2> QED BY <1>3, <2>0, <2>1, <2>2, <2>3 DEF Types
<1> QED BY <1>5, <1>6

\* A change of the quote in a running runtime keeps the backend's part.
LEMMA SubmitEffect ==
  ASSUME Types, ActiveIsLive, submit_quote_plan
  PROVE  /\ active' \in BOOLEAN /\ live' \in BOOLEAN /\ orphan' \in BOOLEAN /\ report' \in BOOLEAN
         /\ (active' /\ ~ report' /\ ~ dropped) => live'
<1>1. CASE UNCHANGED backend
  BY <1>1 DEF Types, ActiveIsLive, backend
<1>2. CASE /\ live' = FALSE /\ active' = FALSE /\ report' = FALSE /\ orphan' \in {orphan, TRUE}
  <2>1. orphan' \in BOOLEAN
    BY <1>2 DEF Types
  <2>2. active' \in BOOLEAN /\ live' \in BOOLEAN /\ report' \in BOOLEAN /\ ~ active'
    BY <1>2
  <2> QED BY <2>1, <2>2
<1>3. CASE /\ live' = TRUE /\ active' = TRUE /\ report' = FALSE /\ UNCHANGED orphan
  <2>1. active' \in BOOLEAN /\ live' \in BOOLEAN /\ report' \in BOOLEAN /\ live'
    BY <1>3
  <2> QED BY <1>3, <2>1 DEF Types
<1> QED BY <1>1, <1>2, <1>3 DEF submit_quote_plan

\* A handler that only asks for a stop, in a running runtime, keeps the
\* invariant: it halts, or raised is set.
LEMMA TriggerKeeps ==
  ASSUME Inv, ~ halted, _trigger_emergency_stop,
         UNCHANGED <<booked, hedged, dropped, resets>>,
         done' = done \/ ~ raised'
  PROVE  Inv'
<1>1. Types /\ ActiveIsLive
  BY DEF Inv
<1>2. /\ active' \in BOOLEAN /\ live' \in BOOLEAN /\ orphan' \in BOOLEAN
      /\ report' \in BOOLEAN /\ raised' \in BOOLEAN
      /\ events' \in Seq(BOOLEAN) /\ unread' \in BOOLEAN
      /\ (active' /\ ~ report' /\ ~ dropped) => live'
  BY <1>1, TriggerEffect
<1>3. CASE raised' /\ ~ halted' /\ events' = events
  <2>1. Types'
    <3>1. halted' \in BOOLEAN
      BY <1>1, <1>3 DEF _trigger_emergency_stop, Types
    <3> QED BY <1>1, <1>2, <3>1 DEF Types
  <2>2. HaltHasEvent' /\ BreachMeansHalted' /\ StoppedIsFlat'
    BY <1>3 DEF HaltHasEvent, BreachMeansHalted, StoppedIsFlat
  <2>3. ActiveIsLive'
    BY <1>2 DEF ActiveIsLive
  <2>4. FillsAccounted'
    BY <1>3 DEF Inv, FillsAccounted
  <2> QED BY <2>1, <2>2, <2>3, <2>4 DEF Inv
<1>4. CASE /\ halted' = TRUE /\ events' # <<>> /\ raised' = raised
           /\ (HasSymbols /\ events'[Len(events')] /\ ~ unread') => ~ live' /\ ~ orphan'
  <2>1. Types'
    BY <1>1, <1>2, <1>4 DEF Types
  <2>2. HaltHasEvent' /\ BreachMeansHalted'
    BY <1>4 DEF HaltHasEvent, BreachMeansHalted
  <2>3. StoppedIsFlat'
    BY <1>4 DEF StoppedIsFlat
  <2>4. ActiveIsLive'
    BY <1>2 DEF ActiveIsLive
  <2>5. FillsAccounted'
    BY <1>4 DEF Inv, FillsAccounted
  <2> QED BY <2>1, <2>2, <2>3, <2>4, <2>5 DEF Inv
<1> QED BY <1>1, <1>3, <1>4, TriggerEffect

-----------------------------------------------------------------------------
\* The invariant holds at the start.
LEMMA InitInv == Init => Inv
<1> SUFFICES ASSUME Init PROVE Inv
  OBVIOUS
<1>1. Types
  <2>1. /\ halted \in BOOLEAN /\ raised \in BOOLEAN /\ dropped \in BOOLEAN
        /\ active \in BOOLEAN /\ live \in BOOLEAN /\ orphan \in BOOLEAN /\ report \in BOOLEAN
    BY DEF Init
  <2>2. events \in Seq(BOOLEAN) /\ resets \in Nat
    BY DEF Init
  <2>3. unread \in BOOLEAN
    BY DEF Init
  <2> QED BY <2>1, <2>2, <2>3 DEF Types
<1>2. ~ halted /\ ~ active /\ account = None /\ tripped = None /\ None # "refused"
  BY RuntimeAssumption DEF Init
<1>3. HaltHasEvent /\ BreachMeansHalted /\ StoppedIsFlat /\ ActiveIsLive
  BY <1>2 DEF HaltHasEvent, BreachMeansHalted, StoppedIsFlat, ActiveIsLive
<1>4. FillsAccounted
  BY DEF Init, FillsAccounted
<1> QED BY <1>1, <1>3, <1>4 DEF Inv

\* Every step keeps it.
LEMMA NextInv ==
  ASSUME Inv, [Next]_vars
  PROVE  Inv'
<1> USE DEF Inv, HaltHasEvent
<1>1. ASSUME NEW f \in Fill, StepHalted(f) PROVE Inv'
  BY <1>1 DEF StepHalted, Types, BreachMeansHalted, StoppedIsFlat, ActiveIsLive, FillsAccounted,
              backend, history
<1>2. ASSUME NEW f \in Fill, StepHardStop(f) PROVE Inv'
  <2>1. /\ ~ halted /\ _trigger_emergency_stop
        /\ UNCHANGED <<booked, hedged, dropped, resets>>
        /\ done' = done \/ ~ raised'
    BY <1>2 DEF StepHardStop
  <2> QED BY <2>1, TriggerKeeps
<1>3. ASSUME NEW f \in Fill, NEW bad \in SUBSET ToSet(Reasons), StepTripped(f, bad) PROVE Inv'
  <2>1. /\ ~ halted /\ _trigger_emergency_stop
        /\ UNCHANGED <<booked, hedged, dropped, resets>>
        /\ done' = done \/ ~ raised'
    BY <1>3 DEF StepTripped
  <2> QED BY <2>1, TriggerKeeps
<1>4. ASSUME NEW f \in Fill, NEW allowed \in BOOLEAN, NEW accepted \in BOOLEAN,
             StepRun(f, allowed, accepted)
      PROVE  Inv'
  <2>1. /\ ~ halted /\ tripped' = None /\ submit_quote_plan
        /\ hedged' \in {hedged, hedged \cup {f}} /\ booked' = booked \cup {f}
        /\ done' = done \cup {f}
        /\ UNCHANGED <<account, halted, events, raised, dropped, unread, resets>>
    BY <1>4 DEF StepRun, on_b_fill, on_fill, history
  <2> QED BY <2>1, SubmitEffect
       DEF Types, BreachMeansHalted, StoppedIsFlat, ActiveIsLive, FillsAccounted
<1>5. ASSUME NEW f \in Fill, StepRaises(f) \/ build_hedge_order_raises(f) PROVE Inv'
  <2>1. /\ ~ halted /\ tripped' = None /\ submit_quote_plan
        /\ UNCHANGED <<account, halted, events, hedged, booked, done, raised, dropped, unread, resets>>
    BY <1>5 DEF StepRaises, build_hedge_order_raises, fills, history
  <2> QED BY <2>1, SubmitEffect
       DEF Types, BreachMeansHalted, StoppedIsFlat, ActiveIsLive, FillsAccounted
<1>6. ASSUME NEW snapshot \in Snapshot, on_account_update(snapshot) PROVE Inv'
  <2>1. /\ ~ halted
        /\ account' \in {account, snapshot}
        /\ UNCHANGED <<now, tripped, booked, hedged, done, dropped, resets>>
    BY <1>6 DEF on_account_update, fills
  <2>2. CASE snapshot # None /\ ~ can_accept_account_snapshot(snapshot)
    <3>1. _trigger_emergency_stop
      BY <1>6, <2>2 DEF on_account_update
    <3> QED BY <2>1, <3>1, TriggerKeeps
  <2>3. CASE snapshot = None \/ can_accept_account_snapshot(snapshot)
    <3>1. /\ account' = account \/ account' = "accepted"
          /\ UNCHANGED <<halted, events, active, live, orphan, report, raised, unread>>
      BY <1>6, <2>3 DEF on_account_update, can_accept_account_snapshot, backend
    <3> QED BY <2>1, <3>1
         DEF Types, BreachMeansHalted, StoppedIsFlat, ActiveIsLive, FillsAccounted
  <2> QED BY <2>2, <2>3
<1>7. ASSUME on_user_report PROVE Inv'
  BY <1>7 DEF on_user_report, Types, BreachMeansHalted, StoppedIsFlat, ActiveIsLive,
              FillsAccounted, fills
<1>8. ASSUME reset_halt PROVE Inv'
  <2>1. /\ halted' = FALSE /\ raised' = FALSE /\ tripped' = None /\ resets' = resets + 1
        /\ UNCHANGED <<account, events, booked, hedged, done, active, live, orphan, report, dropped, unread>>
    BY <1>8 DEF reset_halt, fills, backend
  <2>2. Types' /\ HaltHasEvent'
    <3>1. halted' \in BOOLEAN /\ raised' \in BOOLEAN /\ ~ halted'
      BY <2>1
    <3>2. resets' \in Nat
      BY <2>1 DEF Types
    <3> QED BY <2>1, <3>1, <3>2 DEF Types
  <2>3. BreachMeansHalted' /\ StoppedIsFlat'
    BY <2>1 DEF Types, BreachMeansHalted, StoppedIsFlat
  <2>4. ActiveIsLive' /\ FillsAccounted'
    BY <2>1 DEF ActiveIsLive, FillsAccounted
  <2> QED BY <2>2, <2>3, <2>4
<1>9. ASSUME QuoteEnds \/ OrphanEnds PROVE Inv'
  <2>1. UNCHANGED <<account, now, halted, tripped, events, booked, hedged, done, active,
                    raised, dropped, unread, resets>>
    BY <1>9 DEF QuoteEnds, OrphanEnds, fills, history
  <2>2. \/ live' = FALSE /\ report' = TRUE /\ orphan' = orphan
        \/ orphan' = FALSE /\ live' = live /\ report' = report
    BY <1>9 DEF QuoteEnds, OrphanEnds
  <2>3. Types' /\ HaltHasEvent'
    BY <2>1, <2>2 DEF Types
  <2>4. BreachMeansHalted' /\ FillsAccounted'
    BY <2>1 DEF BreachMeansHalted, FillsAccounted
  <2>5. StoppedIsFlat'
    BY <2>1, <2>2 DEF StoppedIsFlat
  <2>6. ActiveIsLive'
    BY <2>1, <2>2 DEF ActiveIsLive
  <2> QED BY <2>3, <2>4, <2>5, <2>6
<1>10. ASSUME Tick \/ UNCHANGED vars PROVE Inv'
  BY <1>10 DEF Tick, vars, Types, BreachMeansHalted, StoppedIsFlat, ActiveIsLive,
               FillsAccounted, fills, backend, history
<1> QED BY <1>1, <1>2, <1>3, <1>4, <1>5, <1>6, <1>7, <1>8, <1>9, <1>10 DEF Next

\* The invariant holds always.
LEMMA Invariant == Spec => []Inv
<1>1. Inv /\ [Next]_vars => Inv'
  BY NextInv
<1> QED BY <1>1, InitInv, PTL DEF Spec

-----------------------------------------------------------------------------
\* For any cooldown and any number of resets, a tripped breaker or a breach of
\* the account is never met by a running runtime, but after a stop that raised
\* or a reset.
THEOREM BreachHalts == Spec => []BreachMeansHalted
<1>1. Inv => BreachMeansHalted
  BY DEF Inv
<1> QED BY <1>1, Invariant, PTL

\* A halted runtime whose stop was accepted on an answer the backend could read
\* has nothing live on the venue, not even a quote the backend had given up.
THEOREM AcceptedStopIsFlat == Spec => []StoppedIsFlat
<1>1. Inv => StoppedIsFlat
  BY DEF Inv
<1> QED BY <1>1, Invariant, PTL

\* The backend's active quote is live unless a report of its end is on its way
\* or was dropped by a halted runtime.
THEOREM ActiveQuoteIsLive == Spec => []ActiveIsLive
<1>1. Inv => ActiveIsLive
  BY DEF Inv
<1> QED BY <1>1, Invariant, PTL

\* No hedge without its booked fill, and no fill is passed over without an
\* emergency stop.
THEOREM NoFillVanishes == Spec => []FillsAccounted
<1>1. Inv => FillsAccounted
  BY DEF Inv
<1> QED BY <1>1, Invariant, PTL

-----------------------------------------------------------------------------
(* The types, of the clock and the breaker too *)

Rest ==
  /\ now \in 0 .. MaxTime
  /\ tripped \in [reason : ToSet(Reasons), at : 0 .. MaxTime] \cup {None}
  /\ account \in Snapshot
  /\ booked \subseteq Fill /\ hedged \subseteq Fill /\ done \subseteq Fill
  /\ resets \in 0 .. MaxResets

\* Of some reasons that hold, there is a first one.
LEMMA FirstReason ==
  ASSUME NEW bad \in SUBSET ToSet(Reasons), bad # {}
  PROVE  first(bad) \in ToSet(Reasons)
<1> DEFINE P(i) == Reasons[i] \in bad /\ \A j \in 1 .. i - 1 : Reasons[j] \notin bad
<1>1. /\ DOMAIN Reasons = 1 .. 4 /\ ToSet(Reasons) = {Reasons[i] : i \in 1 .. 4}
  BY DEF Reasons, ToSet
<1>2. \E i \in 1 .. 4 : Reasons[i] \in bad
  BY <1>1
<1>3. \E i \in DOMAIN Reasons : P(i)
  <2> HIDE DEF P
  <2>1. CASE Reasons[1] \in bad
    <3>1. 1 \in DOMAIN Reasons /\ 1 .. 1 - 1 = {}
      BY <1>1
    <3> QED BY <2>1, <3>1 DEF P
  <2>2. CASE Reasons[1] \notin bad /\ Reasons[2] \in bad
    <3>1. 2 \in DOMAIN Reasons /\ 1 .. 2 - 1 = {1}
      BY <1>1
    <3> QED BY <2>2, <3>1 DEF P
  <2>3. CASE Reasons[1] \notin bad /\ Reasons[2] \notin bad /\ Reasons[3] \in bad
    <3>1. 3 \in DOMAIN Reasons /\ 1 .. 3 - 1 = {1, 2}
      BY <1>1
    <3> QED BY <2>3, <3>1 DEF P
  <2>4. CASE Reasons[1] \notin bad /\ Reasons[2] \notin bad /\ Reasons[3] \notin bad
             /\ Reasons[4] \in bad
    <3>1. 4 \in DOMAIN Reasons /\ 1 .. 4 - 1 = {1, 2, 3}
      BY <1>1
    <3> QED BY <2>4, <3>1 DEF P
  <2>5. 1 .. 4 = {1, 2, 3, 4}
    OBVIOUS
  <2> QED BY <1>2, <2>1, <2>2, <2>3, <2>4, <2>5
<1>4. (CHOOSE i \in DOMAIN Reasons : P(i)) \in DOMAIN Reasons
  <2> HIDE DEF P
  <2> QED BY <1>3
<1> HIDE DEF P
<1>5. first(bad) = Reasons[CHOOSE i \in DOMAIN Reasons : P(i)]
  BY DEF first, P
<1> QED BY <1>1, <1>4, <1>5

\* What the breaker stores after it has looked at the conditions that hold.
LEMMA EvaluateType ==
  ASSUME Rest, NEW bad \in SUBSET ToSet(Reasons)
  PROVE  evaluate(bad) \in [reason : ToSet(Reasons), at : 0 .. MaxTime] \cup {None}
<1>1. ASSUME bad # {}
      PROVE  [reason |-> first(bad), at |-> now] \in [reason : ToSet(Reasons), at : 0 .. MaxTime]
  BY <1>1, FirstReason DEF Rest
<1> QED BY <1>1 DEF evaluate, Rest

LEMMA RestInit == Init => Rest
BY RuntimeAssumption DEF Init, Rest, Snapshot

LEMMA RestStep ==
  ASSUME Rest, [Next]_vars
  PROVE  Rest'
<1>1. ASSUME NEW f \in Fill, StepHalted(f) \/ StepHardStop(f) \/ StepRaises(f)
                             \/ build_hedge_order_raises(f)
      PROVE  Rest'
  <2>1. {} \in SUBSET ToSet(Reasons)
    OBVIOUS
  <2>2. tripped' = tripped \/ tripped' = evaluate({})
    BY <1>1 DEF StepHalted, StepHardStop, StepRaises, build_hedge_order_raises
  <2>3. UNCHANGED <<now, account, booked, hedged, resets>> /\ done' \in {done, done \cup {f}}
    BY <1>1 DEF StepHalted, StepHardStop, StepRaises, build_hedge_order_raises, fills, history
  <2> QED BY <2>1, <2>2, <2>3, EvaluateType DEF Rest
<1>2. ASSUME NEW f \in Fill, NEW bad \in SUBSET ToSet(Reasons), StepTripped(f, bad) PROVE Rest'
  <2>1. /\ tripped' = evaluate(bad) /\ UNCHANGED <<now, account, booked, hedged, resets>>
        /\ done' \in {done, done \cup {f}}
    BY <1>2 DEF StepTripped
  <2> QED BY <2>1, EvaluateType DEF Rest
<1>3. ASSUME NEW f \in Fill, NEW allowed \in BOOLEAN, NEW accepted \in BOOLEAN,
             StepRun(f, allowed, accepted)
      PROVE  Rest'
  <2>1. /\ tripped' = None /\ UNCHANGED <<now, account, resets>>
        /\ booked' = booked \cup {f} /\ done' = done \cup {f}
        /\ hedged' \in {hedged, hedged \cup {f}}
    BY <1>3 DEF StepRun, on_b_fill, on_fill, history
  <2> QED BY <2>1 DEF Rest
<1>4. ASSUME NEW snapshot \in Snapshot, on_account_update(snapshot) PROVE Rest'
  BY <1>4 DEF on_account_update, Rest, fills
<1>5. CASE reset_halt
  BY <1>5, RuntimeAssumption DEF reset_halt, Rest, fills
<1>6. CASE Tick
  BY <1>6, RuntimeAssumption DEF Tick, Rest, fills, history
<1>7. CASE on_user_report \/ QuoteEnds \/ OrphanEnds \/ UNCHANGED vars
  <2>1. UNCHANGED <<now, tripped, account, booked, hedged, done, resets>>
    BY <1>7 DEF on_user_report, QuoteEnds, OrphanEnds, vars, fills, history
  <2> QED BY <2>1 DEF Rest
<1> QED BY <1>1, <1>2, <1>3, <1>4, <1>5, <1>6, <1>7 DEF Next

\* Every variable keeps its type; the breaker trips on a reason that there is,
\* at a time the clock has reached.
THEOREM TypeCorrect == Spec => []TypeOK
<1>1. Rest /\ [Next]_vars => Rest'
  BY RestStep
<1>2. Spec => []Rest
  BY <1>1, RestInit, PTL DEF Spec
<1>3. Inv /\ Rest => TypeOK
  BY DEF Inv, Types, Rest, TypeOK
<1> QED BY <1>2, <1>3, Invariant, PTL
=============================================================================
