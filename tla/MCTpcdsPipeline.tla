--------------------------- MODULE MCTpcdsPipeline ---------------------------
(* One table in both formats, or two of which the name of one begins that  *)
(* of the other, and one delete fraction, for TLC.                         *)
EXTENDS TpcdsPipeline

StoreBegins == {<<"store", "store_sales">>}
OneFraction == <<"1%">>
=============================================================================
