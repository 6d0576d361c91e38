----------------------------- MODULE Parts_proofs ----------------------------
(* Theorems about the composition of the parts that share no state: what is *)
(* proved of a part by itself holds of it where all of them are put         *)
(* together, for any constants that the parts may take.                     *)
EXTENDS MCParts, Routes_proofs, Streams_proofs, Pages_proofs, AuditGate_proofs

(* Every part starts as it does alone.                                      *)
LEMMA PartsStart ==
    PartsInit =>
        /\ PwInit /\ GwInit /\ ApInit /\ CkInit /\ LsInit /\ MsInit /\ GhInit
        /\ SwInit /\ MfInit /\ DlInit /\ StInit /\ MdInit /\ AgInit
BY DEF PartsInit

(* A step of the composition is one of each part, or leaves the part alone. *)
LEMMA PartsStep ==
    ASSUME [PartsNext]_partsVars
    PROVE  /\ [PwNext]_pwVars /\ [GwNext]_gwVars /\ [ApNext]_apVars /\ [CkNext]_ckVars
           /\ [LsNext]_lsVars /\ [MsNext]_msVars /\ [GhNext]_ghVars
           /\ [SwNext]_swVars /\ [MfNext]_mfVars /\ [DlNext]_dlVars
           /\ [StNext]_stVars /\ [MdNext]_mdVars /\ [AgNext]_agVars
<1>1. CASE PartsNext
  BY <1>1 DEF PartsNext
<1>2. CASE UNCHANGED partsVars
  BY <1>2 DEF partsVars
<1> QED
  BY <1>1, <1>2

(* A behaviour of the composition is, seen from each part, a behaviour of   *)
(* that part.                                                               *)
THEOREM PartsAreIndependent ==
    PartsSpec =>
        /\ PwSpec /\ GwSpec /\ ApSpec /\ CkSpec /\ LsSpec /\ MsSpec /\ GhSpec
        /\ SwSpec /\ MfSpec /\ DlSpec /\ StSpec /\ MdSpec /\ AgSpec
<1>1. [PartsNext]_partsVars =>
        /\ [PwNext]_pwVars /\ [GwNext]_gwVars /\ [ApNext]_apVars /\ [CkNext]_ckVars
        /\ [LsNext]_lsVars /\ [MsNext]_msVars /\ [GhNext]_ghVars
        /\ [SwNext]_swVars /\ [MfNext]_mfVars /\ [DlNext]_dlVars
        /\ [StNext]_stVars /\ [MdNext]_mdVars /\ [AgNext]_agVars
  BY PartsStep
<1> QED
  BY <1>1, PartsStart, PTL
     DEF PartsSpec, PwSpec, GwSpec, ApSpec, CkSpec, LsSpec, MsSpec, GhSpec, SwSpec,
         MfSpec, DlSpec, StSpec, MdSpec, AgSpec

(* Every part of the composition stays within its types.                    *)
THEOREM PartsTypes == PartsSpec => []PartsTypeOK
<1>1. ASSUME /\ PwTypeOK /\ GwTypeOK /\ LsTypeOK /\ MsTypeOK /\ GhTypeOK /\ SwTypeOK
             /\ MfTypeOK /\ DlTypeOK /\ StTypeOK /\ MdTypeOK /\ AgTypeOK
      PROVE  PartsTypeOK
  BY <1>1 DEF PartsTypeOK
<1> QED
  BY <1>1, PartsAreIndependent, PasswordTypes, GatewayTypes, LogTypes, MetricsTypes,
     CiTypes, SwitcherTypes, MenuTypes, DashboardTypes, SettingsTypes, ModalTypes,
     AuditTypeCorrect, PTL

(* The invariants and the step properties of the parts, all at once: no     *)
(* part's promise depends on which of them moves.                           *)
THEOREM PartsKeepTheirPromises ==
    PartsSpec =>
        /\ [](/\ RetiredStaysRetired /\ PinnedIsPublic /\ ExemptionIsTheOperators
              /\ BodiesAreReleased /\ PolicyMatchesRegistries /\ ForgeryIsIgnored
              /\ OneClientOneKey /\ RunningChildIsKnown /\ LinesAreOfTheSelection
              /\ CiCacheIsSound /\ RemovedStaysRemoved /\ RevocationIsExclusive
              /\ VerdictIsJustified)
        /\ OrphansHaveThreeOrigins /\ EveryFeedHasItsWindow /\ SuccessIsRecent
        /\ DropsOnlyTheRemoved /\ RemovalHandsFocusOn
BY PartsAreIndependent, RetiredPasswords, PinnedConnections, Exemption, Bodies,
   PolicyIsTheRegistries, ForgeriesAreIgnored, ClientsHaveOneKey, KnownChild,
   ScreenLines, CiCache, RemovedWidgetsStay, OneRevocationAtATime,
   AuditVerdictIsJustified, OrphanOrigins, MetricsWindows, RecentSuccess,
   DropsNeedARemoval, RemovalsHandFocusOn, PTL
=============================================================================
