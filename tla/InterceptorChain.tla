--------------------------- MODULE InterceptorChain ---------------------------
(***************************************************************************)
(* What an interceptor registry promises (spec.md 9, the Interceptor       *)
(* paragraph): an ordered list of stages.  Registering appends a stage;    *)
(* building yields the chain a message passes through, outermost first,    *)
(* which is the stages in registration order, and the identity (no stage)  *)
(* when nothing is registered.                                             *)
(***************************************************************************)
EXTENDS Sequences

CONSTANT Stages

VARIABLES
    registered,   \* stages, in registration order
    chain         \* the chain the last build produced, outermost first

Init == registered = <<>> /\ chain = <<>>

Register(s) == registered' = Append(registered, s) /\ UNCHANGED chain

Build == chain' = registered /\ UNCHANGED registered

Next == (\E s \in Stages : Register(s)) \/ Build

Spec == Init /\ [][Next]_<<registered, chain>>

=============================================================================
