---------------------------- MODULE SystemProofs ----------------------------
(***************************************************************************)
(* Proofs about the installation of MCSystem: its parts keep their state   *)
(* apart, so the invariants proved of Access, Directory, Instagram, Vault, *)
(* Custody and Disclosure on their own are invariants of the whole.  In    *)
(* every step one part moves as its own specification says and the others  *)
(* stutter.                                                                *)
(***************************************************************************)
EXTENDS MCSystem, FiniteSetTheorems, SequenceTheorems

\* The invariants of the parts that are proved.
SystemInvariant ==
    /\ AccessInvariant /\ DirectoryInvariant /\ InstagramInvariant /\ VaultInvariant
    /\ focus = "Keys" => Keys!CustodyInvariant
    /\ focus = "Disclosures" => Disclosures!Sound

\* The registers start as they are installed, whichever part moves.
LEMMA SystemInitSound ==
    ASSUME SystemInit
    PROVE  SystemInvariant
  <1>1. Init
    BY DEF SystemInit, AccessOff
  <1>2. DirectoryInit
    BY DEF SystemInit, DirectoryOff
  <1>2a. InstagramInit
    BY DEF SystemInit, InstagramOff
  <1>2b. VaultInit
    BY DEF SystemInit, WhatsVaultOff
  <1>3. focus = "Keys" => Keys!Init
    BY DEF SystemInit
  <1>4. focus = "Disclosures" => Disclosures!Init
    BY DEF SystemInit
  <1>5. AccessInvariant
    BY <1>1, InitSound
  <1>6. DirectoryInvariant
    BY <1>2, DirectoryInitSound, SystemAssumption
  <1>6a. InstagramInvariant
    BY <1>2a, InstagramStarts, SystemAssumption
  <1>6b. VaultInvariant
    BY <1>2b, VaultStarts, SystemAssumption
  <1>7. focus = "Keys" => Keys!CustodyInvariant
    BY <1>3, Keys!InitSound, SystemAssumption
  <1>8. focus = "Disclosures" => Disclosures!Sound
    BY <1>4, Disclosures!InitSound, SystemAssumption
  <1> QED
    BY <1>5, <1>6, <1>6a, <1>6b, <1>7, <1>8 DEF SystemInvariant

\* What a step of the installation is to each of the parts.
LEMMA StepOfParts ==
    ASSUME [SystemNext]_systemVars
    PROVE  /\ focus' = focus
           /\ [Next]_vars /\ [DirectoryNext]_directoryVars /\ [InstagramNext]_instagramVars /\ [VaultNext]_vaultVars
           /\ focus = "Keys" => [Keys!Next]_Keys!vars
           /\ focus = "Disclosures" => [Disclosures!Next]_Disclosures!vars
           /\ focus # "Disclosures" => UNCHANGED Disclosures!vars
  <1>1. focus' = focus
    BY DEF SystemNext, systemVars
  <1>2. [Next]_vars
    BY DEF SystemNext, systemVars
  <1>3. [DirectoryNext]_directoryVars
    BY DEF SystemNext, systemVars
  <1>3a. [InstagramNext]_instagramVars
    BY DEF SystemNext, systemVars
  <1>3b. [VaultNext]_vaultVars
    BY DEF SystemNext, systemVars
  <1>4. focus = "Keys" => Keys!Next \/ UNCHANGED keysVars
    BY DEF SystemNext, systemVars
  <1>5. IF focus = "Disclosures" THEN Disclosures!Next \/ UNCHANGED disclosuresVars ELSE UNCHANGED disclosuresVars
    BY DEF SystemNext, systemVars
  <1>6. UNCHANGED keysVars => UNCHANGED Keys!vars
    BY DEF keysVars, Keys!vars
  <1>7. UNCHANGED disclosuresVars => UNCHANGED Disclosures!vars
    BY DEF disclosuresVars, Disclosures!vars
  <1> QED
    BY <1>1, <1>2, <1>3, <1>3a, <1>3b, <1>4, <1>5, <1>6, <1>7

LEMMA SystemStepSound ==
    ASSUME SystemInvariant, [SystemNext]_systemVars
    PROVE  SystemInvariant'
  <1>1. AccessInvariant'
    BY StepOfParts, StepSound DEF SystemInvariant
  <1>2. DirectoryInvariant'
    BY StepOfParts, DirectoryStepSound, SystemAssumption DEF SystemInvariant
  <1>2a. InstagramInvariant'
    BY StepOfParts, InstagramSteps, SystemAssumption DEF SystemInvariant
  <1>2b. VaultInvariant'
    BY StepOfParts, VaultSteps, SystemAssumption DEF SystemInvariant
  <1>3. focus = "Keys" => Keys!CustodyInvariant'
    BY StepOfParts, Keys!StepSound, SystemAssumption DEF SystemInvariant
  <1>4. focus = "Disclosures" => Disclosures!Sound'
    BY StepOfParts, Disclosures!NextKeeps, SystemAssumption DEF SystemInvariant
  <1> QED
    BY <1>1, <1>2, <1>2a, <1>2b, <1>3, <1>4, StepOfParts DEF SystemInvariant

\* The invariants of Access, Directory, Instagram, Vault, Custody and Disclosure hold
\* together, in every reachable state of the installation.
THEOREM SystemInductive == SystemSpec => []SystemInvariant
  <1>1. SystemInit => SystemInvariant
    BY SystemInitSound
  <1>2. SystemInvariant /\ [SystemNext]_systemVars => SystemInvariant'
    BY SystemStepSound
  <1> QED
    BY <1>1, <1>2, PTL DEF SystemSpec

\* No crash of the daemon or of a command loses a key that something still needs:
\* the database opens, every client's seed and every chain epoch's key are there
\* (rekey, rotate, rotate_credential, rotate_client, commit_import).
THEOREM InstalledKeysSurvive == SystemSpec => []KeysStayUsable
  <1>1. SystemInvariant => KeysStayUsable
    BY Keys!InvariantUsable, SystemAssumption DEF SystemInvariant, KeysStayUsable
  <1> QED
    BY <1>1, SystemInductive, PTL

\* What a client was shown within the window stays under the hard threshold
\* (disclosure/budget.py).
THEOREM InstalledBudgetIsKept == SystemSpec => []BudgetHolds
  <1>1. SystemInvariant => BudgetHolds
    BY Disclosures!InvariantByPart, Disclosures!InvariantBounded, SystemAssumption
       DEF SystemInvariant, BudgetHolds
  <1> QED
    BY <1>1, SystemInductive, PTL

\* A payload that is out is in the chain and under its anchor, and the record never
\* says it was withheld (refresh_anchor, repair_anchor).
THEOREM InstalledReleasesAreAccounted == SystemSpec => []ReleaseIsAccounted
  <1>1. SystemInvariant => ReleaseIsAccounted
    BY Disclosures!InvariantByPart, Disclosures!InvariantAccounted DEF SystemInvariant, ReleaseIsAccounted
  <1> QED
    BY <1>1, SystemInductive, PTL

\* A payload is released under the authority of that moment, whatever the owner did
\* while its retrieval was awaited; no other part of the installation releases any
\* (disclosure/coordinator.py).
THEOREM InstalledReleasesAreLive == SystemSpec => ReleasedUnderLiveAuthority
  <1>1. ASSUME SystemInvariant, [SystemNext]_systemVars
        PROVE  (\A n \in released' \ released : Disclosures!ReleasedLive(n)) \/ UNCHANGED Disclosures!vars
    <2>1. CASE focus = "Disclosures"
      BY <1>1, <2>1, StepOfParts, Disclosures!StepReleasesLive, SystemAssumption DEF SystemInvariant
    <2>2. CASE focus # "Disclosures"
      BY <1>1, <2>2, StepOfParts
    <2> QED BY <2>1, <2>2
  <1>2. SystemInvariant /\ [SystemNext]_systemVars
        => [\A n \in released' \ released : Disclosures!ReleasedLive(n)]_Disclosures!vars
    BY <1>1
  <1>3. SystemInit => SystemInvariant
    BY SystemInitSound
  <1>4. SystemInvariant /\ [SystemNext]_systemVars => SystemInvariant'
    BY SystemStepSound
  <1> QED
    BY <1>2, <1>3, <1>4, PTL
       DEF SystemSpec, ReleasedUnderLiveAuthority, Disclosures!ReleasedUnderLiveAuthority, Disclosures!ReleasedLive

\* The promises of the two registers, of Instagram and of the vault hold in the
\* installation as they do alone.
THEOREM InstalledRegistersAreSound ==
    SystemSpec => [](GrantsStaySingle /\ AcceptedIsCurrent /\ DirectoryStaysSound /\ InstagramKeepsCount
                     /\ VaultKeepsItsWord)
  <1>1. SystemInvariant => GrantsStaySingle /\ AcceptedIsCurrent /\ DirectoryStaysSound /\ InstagramKeepsCount
                           /\ VaultKeepsItsWord
    BY InvariantSingle, InvariantCurrent, InvariantSound, InstagramPromise, VaultPromise, SystemAssumption
       DEF SystemInvariant
  <1> QED
    BY <1>1, SystemInductive, PTL
=============================================================================
