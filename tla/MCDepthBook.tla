---------------------------- MODULE MCDepthBook ----------------------------
(***************************************************************************)
(* DepthBook on a small feed: seven venue books that pass through every    *)
(* answer of should_arm but the configuration ones, and four events, one   *)
(* of each kind of feed.                                                   *)
(***************************************************************************)
EXTENDS DepthBook

MCPrice == {9998, 10000, 10010, 10040}

\* The book with the given sizes and nothing else.
Sizes(b1, b2, a1, a2) ==
  [l \in {"bid", "ask"} \X MCPrice |->
     CASE l = <<"bid", 9998>>  -> b1
       [] l = <<"bid", 10000>> -> b2
       [] l = <<"ask", 10010>> -> a1
       [] l = <<"ask", 10040>> -> a2
       [] OTHER -> 0]

\* Deep; thinner; collapsed; best bid gone; too wide; no bid; collapsed again.
Books == << Sizes(5, 9, 5, 0), Sizes(5, 1, 5, 0), Sizes(2, 1, 5, 0), Sizes(2, 0, 5, 0),
            Sizes(2, 0, 0, 3), Sizes(0, 0, 0, 3), Sizes(0, 3, 1, 3) >>

MCVenue == [i \in 0 .. 6 |-> Books[i + 1]]

Diff(U, u, pu) == [first |-> U, final |-> u, prev |-> pu]

\* A range without pu; a range without pu that overlaps it; an OKX message, with
\* U = u = seqId, ids skipped and prevSeqId for continuity; a Binance futures
\* range with the previous u.
MixedFeed == << Diff(1, 2, 0), Diff(2, 3, 0), Diff(5, 5, 3), Diff(6, 6, 5) >>
=============================================================================
