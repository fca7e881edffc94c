---------------------------- MODULE MCSupplyDriver ----------------------------
(* One supply with more volts than amperes and one with more amperes; what is *)
(* set is negative, small, or above the nominal voltage of the first.         *)
EXTENDS SupplyDriver

MCNominals == {<<42, 10>>, <<8, 60>>}
MCSettings == {-1, 13, 425}
MCInitial == [voltage |-> 75, current |-> 13]
MCDamage == {1, 128}
===============================================================================
