------------------------------ MODULE MCDomains ------------------------------
(* Domains for TLC: names of few characters, cut after three.               *)
EXTENDS Domains, TLC

CONSTANTS i1, i2

TwoInstances == {i1, i2}
SafeCharacters == {"a", "b", "-"}
DefaultName    == <<"i", "n", "s">>

\* Names that are told apart, that are not (a b and a-b), of which something is
\* cut at an end or at the third character, and of which nothing is left.
SomeNames ==
  {<<"a", " ", "b">>, <<"a", "-", "b">>, <<"a", "b">>,
   <<" ", "b", "-">>, <<"a", "b", "a", "a">>, <<" ", "-">>}

InstanceSymmetry == Permutations(Instances)
==============================================================================
