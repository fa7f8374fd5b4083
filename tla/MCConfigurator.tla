--------------------------- MODULE MCConfigurator ---------------------------
(* Four partitions, one of them unnameable: two may go together while a third
   stays. Liveness is checked, so no symmetry is used. *)
EXTENDS Configurator
=============================================================================
