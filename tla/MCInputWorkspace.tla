--------------------------- MODULE MCInputWorkspace ---------------------------
(***************************************************************************)
(* Instances of InputWorkspace for TLC.                                     *)
(***************************************************************************)
EXTENDS InputWorkspace

Spends     == {"Electricity", "GasSupply", "Vegetables"}
Activities == {"Electricity", "GasSupply"}
SpendFactors    == [Electricity |-> 3, GasSupply |-> 1, Vegetables |-> 2]
ActivityFactors == [Electricity |-> 2, GasSupply |-> 5]

Line(words, number) == [words |-> words, number |-> number]
\* One image with two lines of one category, one that OCR cannot read.
Texts   == [bill  |-> <<Line({"electric"}, 2), Line({"fuel", "electric"}, 3)>>,
            photo |-> << >>]
Samples == [bill  |-> <<Line({"train", "transport"}, 1)>>,
            photo |-> <<Line({}, NoNumber), Line({"electric"}, 1)>>]
TypedAmounts == {-1, 0, 2}
=============================================================================
