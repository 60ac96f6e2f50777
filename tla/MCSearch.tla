-------------------------------- MODULE MCSearch --------------------------------
(***************************************************************************)
(* A search whose text is equally far from two items, and no HyDE document. *)
(***************************************************************************)
EXTENDS SearchPages

TiedFtsOrder  == <<1>>
TiedSemOrders == {<<2, 3>>, <<3, 2>>}

===============================================================================
