------------------------------ MODULE MCTables ------------------------------
EXTENDS TablesSystem
TwoUnits == {1, 2}
OneAddr  == {0}
TwoAddrs == {0, 1}
TwoDevs  == {"d", "e"}
TwoRegs  == {"a", "b"}
ThreeRegs == {"a", "b", "c"}
OneBuiltIn == <<"b">>
OnOff == {0, 1}
-----------------------------------------------------------------------------
\* Every block is in one place, and the variables have their types.
BlocksSound == TypeOK /\ ListsSound

\* The registers there are, and those of the model, are what is measured.
AllMeasured == RegsMeasured /\ BuiltInsStay
=============================================================================
