------------------------- MODULE RegistrationProofs -------------------------
(***************************************************************************)
(* Proofs about Registration for any devices, either kind of application,  *)
(* and any number of launches, faults and codes.                           *)
(***************************************************************************)
EXTENDS Registration, TLAPS

-----------------------------------------------------------------------------
(* Type correctness, with what is at hand in each phase.  That what is     *)
(* saved is not saved by a process that was told of a revocation is part   *)
(* of it.                                                                  *)

Typed == TypeOK /\ AtHand /\ NoPairingOnceRevoked

LEMMA InitTyped == Init => Typed
<1> SUFFICES ASSUME Init PROVE Typed
  OBVIOUS
<1>1. launches \in 0..MaxLaunches /\ faults \in 0..MaxFaults /\ tries \in 0..MaxTries
  BY RegistrationAssumption DEF Init, RegistrationAssumption
<1>2. device \in [Devices -> {"free", "pending", "active", "revoked", "unknown"}]
  BY DEF Init
<1> QED
  BY <1>1, <1>2 DEF Init, Typed, TypeOK, AtHand, NoPairingOnceRevoked

\* The counters stay within their bounds.
LEMMA FaultType == ASSUME TypeOK, Fault PROVE faults' \in 0..MaxFaults
BY RegistrationAssumption DEF RegistrationAssumption, TypeOK, Fault

LEMMA CountType ==
    ASSUME TypeOK
    PROVE  /\ launches < MaxLaunches => launches + 1 \in 0..MaxLaunches
           /\ tries < MaxTries => tries + 1 \in 0..MaxTries
BY RegistrationAssumption DEF RegistrationAssumption, TypeOK

\* So does what the server knows when it learns something of a device.
LEMMA DeviceType ==
    ASSUME TypeOK
    PROVE  \A d \in Devices, s \in {"free", "pending", "active", "revoked", "unknown"} :
               [device EXCEPT ![d] = s] \in [Devices -> {"free", "pending", "active", "revoked", "unknown"}]
BY DEF TypeOK

\* Every step keeps the type of every variable.
LEMMA NextTypeOK ==
    ASSUME Typed, [Next]_vars
    PROVE  TypeOK'
<1> USE FaultType, CountType, DeviceType DEF Typed, TypeOK, AtHand, runVars, diskVars, countVars, ghostVars
<1>1. CASE LoadFile
  <2>1. CASE file \in Devices
    BY <1>1, <2>1 DEF LoadFile, Loaded, Build, PairOrFail, StartFails
  <2>2. CASE file \notin Devices
    BY <1>1, <2>2 DEF LoadFile
  <2> QED
    BY <2>1, <2>2
<1>2. CASE LoadKeyring
  BY <1>2 DEF LoadKeyring, Loaded, Build, PairOrFail, StartFails
<1>27. CASE ReadFails
  BY <1>27 DEF ReadFails
<1>28. CASE KeyringFails
  BY <1>28 DEF KeyringFails, LoadRaises, StartFails
<1>3. CASE MigrateWrites
  BY <1>3 DEF MigrateWrites
<1>4. CASE MigrateFails
  BY <1>4 DEF MigrateFails, WriteBreaks, LoadRaises, StartFails
<1>5. CASE MigrateDeletes
  BY <1>5 DEF MigrateDeletes, Loaded, LoadRaises, Build, PairOrFail, StartFails
<1>6. CASE Refresh
  BY <1>6 DEF Refresh
<1>7. CASE RefreshRevoked
  BY <1>7 DEF RefreshRevoked
<1>8. CASE RefreshFails
  BY <1>8 DEF RefreshFails, Forget, PairOrFail, StartFails
<1>9. CASE Resave
  BY <1>9 DEF Resave
<1>10. CASE ResaveFails
  BY <1>10 DEF ResaveFails, Forget, PairOrFail, StartFails
<1>11. CASE Pair
  BY <1>11 DEF Pair, StartFails
<1>12. CASE PairRefused
  BY <1>12 DEF PairRefused, StartFails
<1>13. CASE Verify
  BY <1>13 DEF Verify, StartFails
<1>14. CASE VerifyFails
  BY <1>14 DEF VerifyFails, StartFails
<1>15. CASE Save
  BY <1>15 DEF Save
<1>16. CASE SaveFails
  BY <1>16 DEF SaveFails, WriteBreaks, StartFails
<1>17. CASE Launch
  BY <1>17 DEF Launch
<1>18. CASE End
  BY <1>18 DEF End, WriteBreaks
<1>19. CASE ObtainCode
  BY <1>19 DEF ObtainCode, Build
<1>20. CASE NoCode
  BY <1>20 DEF NoCode
<1>21. CASE Connects
  BY <1>21 DEF Connects
<1>22. CASE Disconnects
  BY <1>22 DEF Disconnects
<1>23. CASE ToldRevoked
  BY <1>23 DEF ToldRevoked
<1>24. CASE TokenExpires
  BY <1>24 DEF TokenExpires
<1>25. ASSUME NEW d \in Devices, DeviceGoes(d) PROVE TypeOK'
  BY <1>25 DEF DeviceGoes
<1>26. CASE UNCHANGED vars
  BY <1>26 DEF vars
<1> QED
  BY <1>1, <1>2, <1>3, <1>4, <1>5, <1>6, <1>7, <1>8, <1>9, <1>10, <1>11, <1>12, <1>13,
     <1>14, <1>15, <1>16, <1>17, <1>18, <1>19, <1>20, <1>21, <1>22, <1>23, <1>24, <1>25, <1>26, <1>27, <1>28 DEF Next, Start

\* Every step keeps what is at hand, and pairs only where nothing was revoked.
LEMMA NextAtHand ==
    ASSUME Typed, RegistrationAssumption, [Next]_vars
    PROVE  AtHand' /\ NoPairingOnceRevoked'
<1> USE DEF Typed, TypeOK, AtHand, NoPairingOnceRevoked, RegistrationAssumption, runVars, diskVars, countVars, ghostVars
<1>1. CASE LoadFile
  BY <1>1 DEF LoadFile, Loaded, Build, PairOrFail, StartFails
<1>2. CASE LoadKeyring
  BY <1>2 DEF LoadKeyring, Loaded, Build, PairOrFail, StartFails
<1>27. CASE ReadFails
  BY <1>27 DEF ReadFails
<1>28. CASE KeyringFails
  BY <1>28 DEF KeyringFails, LoadRaises, StartFails
<1>3. CASE MigrateWrites
  BY <1>3 DEF MigrateWrites
<1>4. CASE MigrateFails
  BY <1>4 DEF MigrateFails, WriteBreaks, LoadRaises, StartFails
<1>5. CASE MigrateDeletes
  BY <1>5 DEF MigrateDeletes, Loaded, LoadRaises, Build, PairOrFail, StartFails
<1>6. CASE Refresh
  BY <1>6 DEF Refresh
<1>7. CASE RefreshRevoked
  BY <1>7 DEF RefreshRevoked
<1>8. CASE RefreshFails
  BY <1>8 DEF RefreshFails, Forget, PairOrFail, StartFails
<1>9. CASE Resave
  BY <1>9 DEF Resave
<1>10. CASE ResaveFails
  BY <1>10 DEF ResaveFails, Forget, PairOrFail, StartFails
<1>11. CASE Pair
  BY <1>11 DEF Pair, StartFails
<1>12. CASE PairRefused
  BY <1>12 DEF PairRefused, StartFails
<1>13. CASE Verify
  BY <1>13 DEF Verify, StartFails
<1>14. CASE VerifyFails
  BY <1>14 DEF VerifyFails, StartFails
<1>15. CASE Save
  BY <1>15 DEF Save
<1>16. CASE SaveFails
  BY <1>16 DEF SaveFails, WriteBreaks, StartFails
<1>17. CASE Launch
  BY <1>17 DEF Launch
<1>18. CASE End
  BY <1>18 DEF End, WriteBreaks
<1>19. CASE ObtainCode
  BY <1>19 DEF ObtainCode, Build
<1>20. CASE NoCode
  BY <1>20 DEF NoCode
<1>21. CASE Connects
  BY <1>21 DEF Connects
<1>22. CASE Disconnects
  BY <1>22 DEF Disconnects
<1>23. CASE ToldRevoked
  BY <1>23 DEF ToldRevoked
<1>24. CASE TokenExpires
  BY <1>24 DEF TokenExpires
<1>25. ASSUME NEW d \in Devices, DeviceGoes(d) PROVE AtHand' /\ NoPairingOnceRevoked'
  BY <1>25 DEF DeviceGoes
<1>26. CASE UNCHANGED vars
  BY <1>26 DEF vars
<1> QED
  BY <1>1, <1>2, <1>3, <1>4, <1>5, <1>6, <1>7, <1>8, <1>9, <1>10, <1>11, <1>12, <1>13,
     <1>14, <1>15, <1>16, <1>17, <1>18, <1>19, <1>20, <1>21, <1>22, <1>23, <1>24, <1>25, <1>26, <1>27, <1>28 DEF Next, Start

LEMMA NextTyped == Typed /\ [Next]_vars => Typed'
BY NextTypeOK, NextAtHand, RegistrationAssumption DEF Typed

\* Every variable of Registration keeps its type.
THEOREM RegistrationTypeCorrect == Spec => []TypeOK
<1>1. Typed => TypeOK
  BY DEF Typed
<1> QED
  BY InitTyped, NextTyped, <1>1, PTL DEF Spec

\* A process that was told its device is revoked does not ask for a code nor pair.
THEOREM NeverPairsOnceRevoked == Spec => []NoPairingOnceRevoked
<1>1. Typed => NoPairingOnceRevoked
  BY DEF Typed
<1> QED
  BY InitTyped, NextTyped, <1>1, PTL DEF Spec

LEMMA AlwaysTyped == Spec => []Typed
BY InitTyped, NextTyped, PTL DEF Spec

-----------------------------------------------------------------------------
(* The stored identity is the one that runs.                               *)

\* The file changes only where the connection thread ends with it or is started
\* on it.
LEMMA NextRemembered ==
    ASSUME Typed, RunningIsRemembered, [Next]_vars
    PROVE  RunningIsRemembered'
<1> USE DEF Typed, TypeOK, AtHand, NoPairingOnceRevoked, RunningIsRemembered, runVars, diskVars, countVars, ghostVars
<1>1. CASE LoadFile
  BY <1>1 DEF LoadFile, Loaded, Build, PairOrFail, StartFails
<1>2. CASE LoadKeyring
  BY <1>2 DEF LoadKeyring, Loaded, Build, PairOrFail, StartFails
<1>27. CASE ReadFails
  BY <1>27 DEF ReadFails
<1>28. CASE KeyringFails
  BY <1>28 DEF KeyringFails, LoadRaises, StartFails
<1>3. CASE MigrateWrites
  BY <1>3 DEF MigrateWrites
<1>4. CASE MigrateFails
  BY <1>4 DEF MigrateFails, WriteBreaks, LoadRaises, StartFails
<1>5. CASE MigrateDeletes
  BY <1>5 DEF MigrateDeletes, Loaded, LoadRaises, Build, PairOrFail, StartFails
<1>6. CASE Refresh
  BY <1>6 DEF Refresh
<1>7. CASE RefreshRevoked
  BY <1>7 DEF RefreshRevoked
<1>8. CASE RefreshFails
  BY <1>8 DEF RefreshFails, Forget, PairOrFail, StartFails
<1>9. CASE Resave
  BY <1>9 DEF Resave
<1>10. CASE ResaveFails
  BY <1>10 DEF ResaveFails, Forget, PairOrFail, StartFails
<1>11. CASE Pair
  BY <1>11 DEF Pair, StartFails
<1>12. CASE PairRefused
  BY <1>12 DEF PairRefused, StartFails
<1>13. CASE Verify
  BY <1>13 DEF Verify, StartFails
<1>14. CASE VerifyFails
  BY <1>14 DEF VerifyFails, StartFails
<1>15. CASE Save
  BY <1>15 DEF Save
<1>16. CASE SaveFails
  BY <1>16 DEF SaveFails, WriteBreaks, StartFails
<1>17. CASE Launch
  BY <1>17 DEF Launch
<1>18. CASE End
  BY <1>18 DEF End, WriteBreaks
<1>19. CASE ObtainCode
  BY <1>19 DEF ObtainCode, Build
<1>20. CASE NoCode
  BY <1>20 DEF NoCode
<1>21. CASE Connects
  BY <1>21 DEF Connects
<1>22. CASE Disconnects
  BY <1>22 DEF Disconnects
<1>23. CASE ToldRevoked
  BY <1>23 DEF ToldRevoked
<1>24. CASE TokenExpires
  BY <1>24 DEF TokenExpires
<1>25. ASSUME NEW d \in Devices, DeviceGoes(d) PROVE RunningIsRemembered'
  BY <1>25 DEF DeviceGoes
<1>26. CASE UNCHANGED vars
  BY <1>26 DEF vars
<1> QED
  BY <1>1, <1>2, <1>3, <1>4, <1>5, <1>6, <1>7, <1>8, <1>9, <1>10, <1>11, <1>12, <1>13,
     <1>14, <1>15, <1>16, <1>17, <1>18, <1>19, <1>20, <1>21, <1>22, <1>23, <1>24, <1>25, <1>26, <1>27, <1>28 DEF Next, Start

\* Whoever runs as a registered device has it on disk.
THEOREM Remembered == Spec => []RunningIsRemembered
<1>1. Init => RunningIsRemembered
  BY DEF Init, RunningIsRemembered
<1>2. Typed /\ RunningIsRemembered /\ [Next]_vars => RunningIsRemembered'
  BY NextRemembered
<1> QED
  BY AlwaysTyped, <1>1, <1>2, PTL DEF Spec

-----------------------------------------------------------------------------
(* The migration loses nothing.                                            *)

\* What leaves the keyring is in the file, and what leaves the file is counted.
LEMMA NextMigration ==
    ASSUME Typed, RunningIsRemembered, MigrationKeeps, RegistrationAssumption, [Next]_vars
    PROVE  MigrationKeeps'
<1> USE DEF Typed, TypeOK, AtHand, NoPairingOnceRevoked, RunningIsRemembered, MigrationKeeps, RegistrationAssumption, runVars, diskVars, countVars, ghostVars
<1>1. CASE LoadFile
  BY <1>1 DEF LoadFile, Loaded, Build, PairOrFail, StartFails
<1>2. CASE LoadKeyring
  BY <1>2 DEF LoadKeyring, Loaded, Build, PairOrFail, StartFails
<1>27. CASE ReadFails
  BY <1>27 DEF ReadFails
<1>28. CASE KeyringFails
  BY <1>28 DEF KeyringFails, LoadRaises, StartFails
<1>3. CASE MigrateWrites
  BY <1>3 DEF MigrateWrites
<1>4. CASE MigrateFails
  BY <1>4 DEF MigrateFails, WriteBreaks, LoadRaises, StartFails
<1>5. CASE MigrateDeletes
  BY <1>5 DEF MigrateDeletes, Loaded, LoadRaises, Build, PairOrFail, StartFails
<1>6. CASE Refresh
  BY <1>6 DEF Refresh
<1>7. CASE RefreshRevoked
  BY <1>7 DEF RefreshRevoked
<1>8. CASE RefreshFails
  BY <1>8 DEF RefreshFails, Forget, PairOrFail, StartFails
<1>9. CASE Resave
  BY <1>9 DEF Resave
<1>10. CASE ResaveFails
  BY <1>10 DEF ResaveFails, Forget, PairOrFail, StartFails
<1>11. CASE Pair
  BY <1>11 DEF Pair, StartFails
<1>12. CASE PairRefused
  BY <1>12 DEF PairRefused, StartFails
<1>13. CASE Verify
  BY <1>13 DEF Verify, StartFails
<1>14. CASE VerifyFails
  BY <1>14 DEF VerifyFails, StartFails
<1>15. CASE Save
  BY <1>15 DEF Save
<1>16. CASE SaveFails
  BY <1>16 DEF SaveFails, WriteBreaks, StartFails
<1>17. CASE Launch
  BY <1>17 DEF Launch
<1>18. CASE End
  BY <1>18 DEF End, WriteBreaks
<1>19. CASE ObtainCode
  BY <1>19 DEF ObtainCode, Build
<1>20. CASE NoCode
  BY <1>20 DEF NoCode
<1>21. CASE Connects
  BY <1>21 DEF Connects
<1>22. CASE Disconnects
  BY <1>22 DEF Disconnects
<1>23. CASE ToldRevoked
  BY <1>23 DEF ToldRevoked
<1>24. CASE TokenExpires
  BY <1>24 DEF TokenExpires
<1>25. ASSUME NEW d \in Devices, DeviceGoes(d) PROVE MigrationKeeps'
  BY <1>25 DEF DeviceGoes
<1>26. CASE UNCHANGED vars
  BY <1>26 DEF vars
<1> QED
  BY <1>1, <1>2, <1>3, <1>4, <1>5, <1>6, <1>7, <1>8, <1>9, <1>10, <1>11, <1>12, <1>13,
     <1>14, <1>15, <1>16, <1>17, <1>18, <1>19, <1>20, <1>21, <1>22, <1>23, <1>24, <1>25, <1>26, <1>27, <1>28 DEF Next, Start

\* The identity of an older version is in the keyring or in the file until the
\* server was asked about it, a later save of it broke, or it could not be read
\* (identity_store.py 106-122).
THEOREM MigrationLosesNothing == Spec => []MigrationKeeps
<1>1. Init => MigrationKeeps
  BY DEF Init, MigrationKeeps
<1>2. Typed /\ RunningIsRemembered /\ MigrationKeeps /\ [Next]_vars => MigrationKeeps'
  BY NextMigration, RegistrationAssumption
<1> QED
  BY AlwaysTyped, Remembered, <1>1, <1>2, PTL DEF Spec

-----------------------------------------------------------------------------
(* A revoked identity stays away.                                          *)

Gone == ToldTrue /\ RevokedStaysGone

\* A revoked device stays revoked, and a device that is saved is not among those.
LEMMA NextGone ==
    ASSUME Typed, RunningIsRemembered, Gone, RegistrationAssumption, [Next]_vars
    PROVE  Gone'
<1> USE DEF Gone, ToldTrue, RevokedStaysGone, Typed, TypeOK, AtHand, NoPairingOnceRevoked, RunningIsRemembered, RegistrationAssumption, runVars, diskVars, countVars, ghostVars
<1>1. CASE LoadFile
  BY <1>1 DEF LoadFile, Loaded, Build, PairOrFail, StartFails
<1>2. CASE LoadKeyring
  BY <1>2 DEF LoadKeyring, Loaded, Build, PairOrFail, StartFails
<1>27. CASE ReadFails
  BY <1>27 DEF ReadFails
<1>28. CASE KeyringFails
  BY <1>28 DEF KeyringFails, LoadRaises, StartFails
<1>3. CASE MigrateWrites
  BY <1>3 DEF MigrateWrites
<1>4. CASE MigrateFails
  BY <1>4 DEF MigrateFails, WriteBreaks, LoadRaises, StartFails
<1>5. CASE MigrateDeletes
  BY <1>5 DEF MigrateDeletes, Loaded, LoadRaises, Build, PairOrFail, StartFails
<1>6. CASE Refresh
  BY <1>6 DEF Refresh
<1>7. CASE RefreshRevoked
  BY <1>7 DEF RefreshRevoked
<1>8. CASE RefreshFails
  BY <1>8 DEF RefreshFails, Forget, PairOrFail, StartFails
<1>9. CASE Resave
  BY <1>9 DEF Resave
<1>10. CASE ResaveFails
  BY <1>10 DEF ResaveFails, Forget, PairOrFail, StartFails
<1>11. CASE Pair
  BY <1>11 DEF Pair, StartFails
<1>12. CASE PairRefused
  BY <1>12 DEF PairRefused, StartFails
<1>13. CASE Verify
  BY <1>13 DEF Verify, StartFails
<1>14. CASE VerifyFails
  BY <1>14 DEF VerifyFails, StartFails
<1>15. CASE Save
  BY <1>15 DEF Save
<1>16. CASE SaveFails
  BY <1>16 DEF SaveFails, WriteBreaks, StartFails
<1>17. CASE Launch
  BY <1>17 DEF Launch
<1>18. CASE End
  BY <1>18 DEF End, WriteBreaks
<1>19. CASE ObtainCode
  BY <1>19 DEF ObtainCode, Build
<1>20. CASE NoCode
  BY <1>20 DEF NoCode
<1>21. CASE Connects
  BY <1>21 DEF Connects
<1>22. CASE Disconnects
  BY <1>22 DEF Disconnects
<1>23. CASE ToldRevoked
  BY <1>23 DEF ToldRevoked
<1>24. CASE TokenExpires
  BY <1>24 DEF TokenExpires
<1>25. ASSUME NEW d \in Devices, DeviceGoes(d) PROVE Gone'
  BY <1>25 DEF DeviceGoes
<1>26. CASE UNCHANGED vars
  BY <1>26 DEF vars
<1> QED
  BY <1>1, <1>2, <1>3, <1>4, <1>5, <1>6, <1>7, <1>8, <1>9, <1>10, <1>11, <1>12, <1>13,
     <1>14, <1>15, <1>16, <1>17, <1>18, <1>19, <1>20, <1>21, <1>22, <1>23, <1>24, <1>25, <1>26, <1>27, <1>28 DEF Next, Start

\* An identity removed because of a revocation is never stored again, but for one
\* that is still in the keyring.
THEOREM RevokedNeverReturns == Spec => []RevokedStaysGone
<1>1. Init => Gone
  BY RegistrationAssumption DEF Init, Gone, ToldTrue, RevokedStaysGone, RegistrationAssumption
<1>2. Typed /\ RunningIsRemembered /\ Gone /\ [Next]_vars => Gone'
  BY NextGone, RegistrationAssumption
<1>3. Gone => RevokedStaysGone
  BY DEF Gone
<1> QED
  BY AlwaysTyped, Remembered, <1>1, <1>2, <1>3, PTL DEF Spec

-----------------------------------------------------------------------------
(* A restart leads back: what RestartReconnects needs besides fairness.     *)

\* Device d is stored and active, and the process is on its way to connect as it.
OnTheWayBack(d) ==
    /\ file = d /\ device[d] = "active"
    /\ \/ phase \in {"look", "load"} /\ moving \in {"no", "delete"}
       \/ phase = "refresh" /\ mem = d
       \/ phase = "resave" /\ mem = d /\ fresh
       \/ phase = "up" /\ mem = d /\ fresh /\ link # "none"

\* How far it is.
Distance == CASE phase = "look" -> 4 [] phase = "load" -> 3 [] phase = "refresh" -> 2
              [] phase = "resave" -> 1 [] OTHER -> 0

\* A registered PC that starts is on its way back until it is connected: no step of
\* the start leads elsewhere, to a pairing or to nothing, and each leads closer,
\* with a code in config.json or an entry in the keyring as well.  Only a fault, the
\* server, the end of the process or the age of the token stop it (start_agent,
\* tray_app.py 244-338; ContractPcRunner.start, agent.py 176-349).
OnlyFaultsDivert ==
    [][\A d \in Devices : OnTheWayBack(d) =>
          \/ OnTheWayBack(d)' /\ (Start => Distance' < Distance)
          \/ faults' # faults \/ device'[d] # "active" \/ End \/ TokenExpires]_vars

LEMMA FaultCounts == ASSUME TypeOK, Fault PROVE faults' # faults
<1>1. faults \in Nat
  BY RegistrationAssumption DEF RegistrationAssumption, TypeOK
<1> QED
  BY <1>1 DEF Fault

LEMMA StartLeadsBack ==
    ASSUME Typed, NEW d \in Devices, OnTheWayBack(d), Start, faults' = faults
    PROVE  OnTheWayBack(d)' /\ Distance' < Distance
<1> USE FaultCounts DEF OnTheWayBack, Distance, Typed, AtHand, diskVars, countVars, ghostVars, runVars
<1>1. CASE LoadFile
  BY <1>1, RegistrationAssumption DEF LoadFile, Loaded, Build, RegistrationAssumption
<1>2. CASE MigrateDeletes
  BY <1>2, RegistrationAssumption DEF MigrateDeletes, Loaded, Build, RegistrationAssumption
<1>3. CASE ReadFails \/ LoadKeyring \/ KeyringFails \/ MigrateWrites \/ MigrateFails
  BY <1>3 DEF ReadFails, LoadKeyring, KeyringFails, MigrateWrites, MigrateFails
<1>4. CASE Refresh
  BY <1>4 DEF Refresh
<1>5. CASE RefreshRevoked \/ RefreshFails
  BY <1>5 DEF RefreshRevoked, RefreshFails
<1>6. CASE Resave
  BY <1>6 DEF Resave
<1>7. CASE ResaveFails \/ Pair \/ PairRefused \/ Verify \/ VerifyFails \/ Save \/ SaveFails
  BY <1>7 DEF ResaveFails, Pair, PairRefused, Verify, VerifyFails, Save, SaveFails
<1> QED
  BY <1>1, <1>2, <1>3, <1>4, <1>5, <1>6, <1>7 DEF Start

\* A registered PC comes back as the same device (tray_app.py 244-338,
\* agent.py 176-349).
THEOREM OnlyFaultsDivertIt == Spec => OnlyFaultsDivert
<1>1. ASSUME Typed, [Next]_vars, NEW d \in Devices, OnTheWayBack(d)
      PROVE  \/ OnTheWayBack(d)' /\ (Start => Distance' < Distance)
             \/ faults' # faults \/ device'[d] # "active" \/ End \/ TokenExpires
  <2> SUFFICES ASSUME faults' = faults, device'[d] = "active", ~End, ~TokenExpires
               PROVE  OnTheWayBack(d)' /\ (Start => Distance' < Distance)
    OBVIOUS
  <2>1. CASE Start
    BY <1>1, <2>1, StartLeadsBack
  <2>2. CASE ~Start
    <3> USE DEF OnTheWayBack, diskVars, runVars, countVars, ghostVars
    <3>1. CASE Launch \/ ObtainCode \/ NoCode
      BY <1>1, <3>1 DEF Launch, ObtainCode, NoCode
    <3>2. CASE Connects \/ Disconnects
      BY <1>1, <2>2, <3>2 DEF Connects, Disconnects
    <3>3. CASE ToldRevoked
      BY <1>1, <3>3 DEF ToldRevoked, Typed, AtHand
    <3>4. CASE \E e \in Devices : DeviceGoes(e)
      BY <1>1, <2>2, <3>4 DEF DeviceGoes
    <3>5. CASE UNCHANGED vars
      BY <1>1, <2>2, <3>5 DEF vars
    <3> QED
      BY <1>1, <2>2, <3>1, <3>2, <3>3, <3>4, <3>5 DEF Next
  <2> QED
    BY <2>1, <2>2
<1>2. Typed /\ [Next]_vars =>
        [\A d \in Devices : OnTheWayBack(d) =>
            \/ OnTheWayBack(d)' /\ (Start => Distance' < Distance)
            \/ faults' # faults \/ device'[d] # "active" \/ End \/ TokenExpires]_vars
  BY <1>1
<1> QED
  BY AlwaysTyped, <1>2, PTL DEF Spec, OnlyFaultsDivert
=============================================================================
