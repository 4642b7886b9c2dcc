------------------------------ MODULE MCUpdate ------------------------------
(* A flash of two pages of two words, an old image of one page and two new *)
(* ones: one that ends inside a page and one that fills the area.          *)
EXTENDS Update
CONSTANTS x, y
MCByte   == {x, y}
MCOld    == <<x, x>>
MCImages == {<<x, y, y>>, <<y, x, y, x>>}
Power    == {"flashfail"}
=============================================================================
