--------------------- MODULE InterceptorRegistryProofs ---------------------
(***************************************************************************)
(* Registry::build chains the interceptors in registration order, for      *)
(* every list of builders: the registry implements the abstract chain of   *)
(* InterceptorChain (ImplementsChain, which the run interceptor_order      *)
(* checks for three builders and four adds).                              *)
(*                                                                         *)
(* The loop over .rev() is the recursive function `after` of BuildChain.   *)
(* After j iterations, next is the last j builders in registration order; *)
(* this is shown by exhibiting that list of suffixes as a function that    *)
(* satisfies the same recursion, which has only one solution on 0..n.     *)
(***************************************************************************)
EXTENDS InterceptorRegistry, NaturalsInduction, TLAPS

\* The function `after` that BuildChain's LET defines for the list bs.
BuildLoop(bs) ==
    CHOOSE f : f = [j \in 0 .. Len(bs) |->
                      IF j = 0 THEN NoOp ELSE ChainStage(bs[Len(bs) - j + 1], f[j - 1])]

\* The last j builders of bs, for j = 0 .. Len(bs).
Suffixes(bs) == [j \in 0 .. Len(bs) |-> SubSeq(bs, Len(bs) - j + 1, Len(bs))]

LEMMA BuildChainIsLoop ==
    ASSUME NEW bs
    PROVE  BuildChain(bs) = BuildLoop(bs)[Len(bs)]
BY DEF BuildChain, BuildLoop

\* Whatever the builders, build yields them in registration order.
LEMMA BuildChainInOrder ==
    ASSUME NEW S, NEW bs \in Seq(S)
    PROVE  BuildChain(bs) = bs
<1> DEFINE Step(v, j) == ChainStage(bs[Len(bs) - j + 1], v)
<1>1. 0 \in Nat /\ Len(bs) \in Nat
  OBVIOUS
<1>2. FiniteNatInductiveDefConclusion(BuildLoop(bs), NoOp, Step, 0, Len(bs))
  <2>1. FiniteNatInductiveDefHypothesis(BuildLoop(bs), NoOp, Step, 0, Len(bs))
    BY DEF FiniteNatInductiveDefHypothesis, BuildLoop
  <2>2. QED
    BY <1>1, <2>1, FiniteNatInductiveDef
\* The suffixes satisfy the loop's recursion: one more iteration puts the
\* next builder from the end in front of what was built.
<1>3. FiniteNatInductiveDefConclusion(Suffixes(bs), NoOp, Step, 0, Len(bs))
  <2>1. SubSeq(bs, Len(bs) + 1, Len(bs)) = NoOp
    BY DEF NoOp
  <2>2. ASSUME NEW j \in 1 .. Len(bs)
        PROVE  SubSeq(bs, Len(bs) - j + 1, Len(bs)) =
                 <<bs[Len(bs) - j + 1]>> \o SubSeq(bs, Len(bs) - (j - 1) + 1, Len(bs))
    OBVIOUS
  <2>3. ASSUME NEW j \in 0 .. Len(bs)
        PROVE  Suffixes(bs)[j] = IF j = 0 THEN NoOp ELSE Step(Suffixes(bs)[j - 1], j)
    <3>1. CASE j = 0
      BY <2>1, <3>1 DEF Suffixes
    <3>2. CASE j # 0
      <4>1. j \in 1 .. Len(bs) /\ j - 1 \in 0 .. Len(bs)
        BY <3>2
      <4>2. Suffixes(bs)[j - 1] = SubSeq(bs, Len(bs) - (j - 1) + 1, Len(bs))
        BY <4>1 DEF Suffixes
      <4>3. QED
        BY <2>2, <3>2, <4>1, <4>2 DEF Suffixes, Step, ChainStage
    <3>3. QED
      BY <3>1, <3>2
  <2>4. QED
    BY <2>3 DEF FiniteNatInductiveDefConclusion, Suffixes
<1>4. BuildLoop(bs) = Suffixes(bs)
  BY <1>1, <1>2, <1>3, FiniteNatInductiveUnique
<1>5. QED
  BY <1>4, BuildChainIsLoop DEF Suffixes

-----------------------------------------------------------------------------

\* Registry.builders only ever holds registered builders.
BuildersType == builders \in Seq(Builders)

LEMMA BuildersTypeInvariant == Spec => []BuildersType
<1>1. Init => BuildersType
  BY DEF Init, BuildersType
<1>2. BuildersType /\ [Next]_vars => BuildersType'
  BY DEF BuildersType, Next, Add, Build, vars
<1>3. QED
  BY <1>1, <1>2, PTL DEF Spec

\* Every Registry::add registers a stage, and every Registry::build yields
\* the interceptors outermost first in the order they were added (NoOp for
\* an empty registry): the registry refines InterceptorChain.
THEOREM ChainRefinement == Spec => ImplementsChain
<1>1. Init => Chain!Init
  BY DEF Init, Chain!Init, NoOp
<1>2. BuildersType /\ [Next]_vars => [Chain!Next]_<<builders, built>>
  <2> SUFFICES ASSUME BuildersType, [Next]_vars
               PROVE  [Chain!Next]_<<builders, built>>
    OBVIOUS
  <2>1. ASSUME NEW b \in Builders, Add(b)
        PROVE  Chain!Register(b)
    BY <2>1 DEF Add, Chain!Register
  <2>2. CASE Build
    <3>1. built' = builders /\ builders' = builders
      BY <2>2, BuildChainInOrder DEF Build, BuildersType
    <3>2. QED
      BY <3>1 DEF Chain!Build, Chain!Next
  <2>3. CASE UNCHANGED vars
    BY <2>3 DEF vars
  <2>4. QED
    BY <2>1, <2>2, <2>3 DEF Next, Chain!Next
<1>3. QED
  BY <1>1, <1>2, BuildersTypeInvariant, PTL DEF Spec, ImplementsChain, Chain!Spec

=============================================================================
