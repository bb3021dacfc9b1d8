--------------------------- MODULE MCHeaderSupplier ---------------------------
(* Instances of HeaderSupplier: the goroutines are model values and the       *)
(* constants come from the configurations.                                    *)
EXTENDS HeaderSupplier
=============================================================================
