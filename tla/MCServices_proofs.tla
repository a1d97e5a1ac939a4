-------------------------- MODULE MCServices_proofs --------------------------
(***************************************************************************)
(* What is proved of each component of MCServices holds of the whole, for  *)
(* every value of the constants: the components share no state, so that    *)
(* the whole implements the specification of each of them.                 *)
(***************************************************************************)
EXTENDS MCServices, Services_proofs, Workflows_proofs

\* At first every component is as it is at first on its own.
LEMMA WholeInit ==
    MCInit => /\ Init /\ LoginInit /\ IndexInit /\ GeoInit /\ PairInit
              /\ AlertInit /\ ApplyInit /\ TransportInit /\ PrInit
  BY DEF MCInit

\* A step of the whole is a step of the component that runs, and none of the
\* others.
LEMMA WholeNext ==
  ASSUME [MCNext]_servicesVars
  PROVE  /\ [Next]_vars /\ [LoginNext]_loginVars /\ [IndexNext]_indexVars
         /\ [GeoNext]_geoVars /\ [PairNext]_pairVars
         /\ [AlertNext]_alertVars /\ [ApplyNext]_applyVars
         /\ [TransportNext]_transportVars /\ [PrNext]_prVars
  <1>1. CASE MCNext
    BY <1>1 DEF MCNext
  <1>2. CASE UNCHANGED servicesVars
    BY <1>2 DEF servicesVars
  <1>3. QED BY <1>1, <1>2

\* The whole implements each of its components.
THEOREM ComponentsImplemented ==
    MCSpec => /\ Spec /\ LoginSpec /\ IndexSpec /\ GeoSpec /\ PairSpec
              /\ AlertSpec /\ ApplySpec /\ TransportSpec /\ PrSpec
  BY WholeInit, WholeNext, PTL
  DEF MCSpec, Spec, LoginSpec, IndexSpec, GeoSpec, PairSpec, AlertSpec,
      ApplySpec, TransportSpec, PrSpec

\* Type correctness of every component: the state of the services of a
\* panel, of two panels that push to each other, of a chain being applied
\* and of the automation of a pull request.
THEOREM ServicesTyped == MCSpec => []ServicesTypeOK
  <1>1. ASSUME TypeOK, LoginTypeOK, IndexTypeOK, GeoTypeOK, PairTypeOK,
               AlertTypeOK, ApplyTypeOK, TransportTypeOK, PrTypeOK
        PROVE  ServicesTypeOK
    BY <1>1 DEF ServicesTypeOK
  <1>2. QED
    BY <1>1, ComponentsImplemented, AddressTypeCorrect, LoginTypeCorrect,
       IndexTypeCorrect, GeoTypeCorrect, PairTypeCorrect, AlertTypeCorrect,
       ApplyTypeCorrect, TransportTypeCorrect, FlowTypeCorrect, PTL

\* What the components promise, every safety property that is checked of the
\* whole, holds of it.
THEOREM ServicesHold ==
    MCSpec => /\ [](/\ AddressesDistinct /\ CarefulKeepsAddresses
                    /\ AddressAttemptsBounded /\ RecentAttemptsBounded
                    /\ LookupIsLongestPrefix /\ ServesTheFile
                    /\ RollbackReportsPeer /\ DuplicatesNeedOverlap
                    /\ ExceededMeansAlert /\ SuccessMeansApplied
                    /\ CachedPairResolved /\ MergesReviewedHead)
              /\ KeepsGoodDatabase /\ PeerSetBackOnlyOvertaken
              /\ AloneMeansInForce
  BY ComponentsImplemented, Distinct, Careful, AddressBounded, RecentBounded,
     LongestPrefixFound, FileServed, RollbackReported, DuplicatesBounded,
     FirstAlertRaised, ChainApplied, PairResolved, ReviewedHeadMerged,
     GoodDatabaseKept, SetBackOnlyOvertaken, AloneInForce, PTL
=============================================================================
