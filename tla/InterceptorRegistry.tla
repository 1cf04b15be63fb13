------------------------ MODULE InterceptorRegistry ------------------------
(***************************************************************************)
(* The interceptor Registry of src/src/interceptor/mod.rs: Registry::add   *)
(* collects InterceptorBuilders, Registry::build(id) asks each builder for *)
(* an Interceptor and chains them, starting from NoOp and walking the      *)
(* builders in reverse.                                                     *)
(*                                                                         *)
(* An Interceptor is represented by the list of stages a message passes,   *)
(* outermost first.  NoOp is the empty list: NoOp::chain returns NoOp and  *)
(* drops the next stage.  The interceptors the builders make (nack,        *)
(* report, twcc) are not under src/; spec.md (the Interceptor paragraph of *)
(* the design notes) says they form a chain of responsibility, so their    *)
(* chain(next) puts the interceptor in front of next.                      *)
(***************************************************************************)
EXTENDS Naturals, Sequences

CONSTANTS
    Builders,       \* InterceptorBuilder values that can be registered
    MaxBuilders     \* bound on Registry::add calls

VARIABLES
    builders,   \* Registry.builders, in registration order
    built       \* the chain the last Registry::build returned

vars == <<builders, built>>

NoOp == <<>>

\* Interceptor::chain(self, next) of an interceptor made by builder b.
ChainStage(b, next) == <<b>> \o next

\* Mutation variant: the builders are walked in registration order (the
\* .rev() dropped).
BuildChainForward(bs) ==
    LET n == Len(bs)
        after[j \in 0..n] == IF j = 0 THEN NoOp ELSE ChainStage(bs[j], after[j - 1])
    IN  after[n]

\* Registry::build(id): next starts as NoOp; for every builder, last
\* registered first, next = builder.build(id).chain(next).  after[j] is next
\* after j iterations of the loop.
BuildChain(bs) ==
    LET n == Len(bs)
        after[j \in 0..n] == IF j = 0 THEN NoOp
                             ELSE ChainStage(bs[n - j + 1], after[j - 1])
    IN  after[n]

\* Registry::new(): no builders; nothing built yet.
Init ==
    /\ builders = <<>>
    /\ built = NoOp

\* Registry::add(builder)
Add(b) ==
    /\ Len(builders) < MaxBuilders
    /\ builders' = Append(builders, b)
    /\ UNCHANGED built

\* Registry::build(id)
Build ==
    /\ built' = BuildChain(builders)
    /\ UNCHANGED builders

Next ==
    \/ \E b \in Builders : Add(b)
    \/ Build

Spec == Init /\ [][Next]_vars

Chain == INSTANCE InterceptorChain WITH Stages <- Builders,
                                       registered <- builders, chain <- built

\* spec.md 9 (Interceptor chain): build order is outermost-first and the
\* registration order is reversed at construction, so every Registry::add
\* registers a stage and every Registry::build yields the chain that passes
\* a message through the interceptors in the order they were added, and the
\* identity stage NoOp for an empty registry.
ImplementsChain == Chain!Spec

=============================================================================
