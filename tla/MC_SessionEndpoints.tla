------------------------ MODULE MC_SessionEndpoints ------------------------
(* Two peers, two paths each, room for three Endpoint objects.             *)
EXTENDS SessionEndpoints

CONSTANTS e1, e2, t1, t2

MCEndpointIds == {e1, e2}
MCFourTuples == {t1, t2}

=============================================================================
