--------------------------- MODULE MCRequestCache ---------------------------
(* Two members of one organization and one of another. *)
EXTENDS RequestCache, TLC

CONSTANTS ana, ben, cleo, acme, bolt

MCReaders ==
  {<<"palette", ana>>, <<"nova", ana>>, <<"novaLearner", ana>>, <<"nova", ben>>}
MCOrgOf == [m \in Members |-> IF m = cleo THEN bolt ELSE acme]
=============================================================================
