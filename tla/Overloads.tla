------------------------------ MODULE Overloads ------------------------------
(***************************************************************************)
(* Resolver/ResolveCall.cpp: the choice among the methods that take the    *)
(* arguments of a call.  Each has a rank for every argument, the lower the *)
(* better (ArgMatchKind).                                                  *)
(***************************************************************************)
EXTENDS Naturals

isBetterThan(a, b) == (\A i \in DOMAIN a : a[i] <= b[i]) /\ (\E i \in DOMAIN a : a[i] < b[i])

\* The methods that none is better than; a call needs exactly one.
Unbeaten(ranks) ==
  {m \in DOMAIN ranks : ~\E o \in DOMAIN ranks : isBetterThan(ranks[o], ranks[m])}

\* m is the method meant: it is better than each other one.
BeatsAll(m, ranks) ==
  m \in DOMAIN ranks /\ \A o \in DOMAIN ranks \ {m} : isBetterThan(ranks[m], ranks[o])
=============================================================================
