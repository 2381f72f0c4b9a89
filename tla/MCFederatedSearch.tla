------------------------- MODULE MCFederatedSearch --------------------------
(* A small instance of FederatedSearch for TLC.                             *)
EXTENDS FederatedSearch

Vary(S(_, _), L(_, _)) == [c \in Candidates |-> [semantic |-> S(c[1], c[2]), lexical |-> L(c[1], c[2])]]

AllSignals ==
  { Vary(LAMBDA m, i : m, LAMBDA m, i : 0),
    Vary(LAMBDA m, i : i, LAMBDA m, i : (m + i) % 2),
    Vary(LAMBDA m, i : (m + i) % 3, LAMBDA m, i : (i % 2) * m),
    Vary(LAMBDA m, i : 0, LAMBDA m, i : i) }
=============================================================================
