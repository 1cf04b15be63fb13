----------------------- MODULE MC_InterceptorRegistry -----------------------
(* Three distinct builders (nack, report, twcc) and room for four adds, so  *)
(* a builder can be registered twice.                                       *)
EXTENDS InterceptorRegistry

CONSTANTS nack, report, twcc

MCBuilders == {nack, report, twcc}

=============================================================================
