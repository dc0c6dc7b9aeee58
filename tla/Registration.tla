---------------------------- MODULE Registration ----------------------------
(***************************************************************************)
(* How a PC becomes a registered device and stays one: the start of the    *)
(* tray (tray_app.py, start_agent and register), ContractPcRunner.start up *)
(* to the connection thread (agent.py), the stored identity and its        *)
(* migration from the keyring (identity_store.py), the requests            *)
(* (pairing_client.py), and what becomes of the identity while connected.  *)
(*                                                                         *)
(* An identity (device id, token, key pair) is named by its device: a      *)
(* refresh is signed with the key, so the stored token decides nothing.    *)
(* A step ends at a request, a file operation or a window; the process may *)
(* end there too.                                                          *)
(***************************************************************************)
EXTENDS Naturals

CONSTANTS
    Devices,        \* device ids the server can give
    None,           \* no device
    Torn,           \* a file that is not an identity
    Frozen,         \* is_frozen(): the packaged application
    MaxLaunches,    \* bound: starts of the process
    MaxFaults,      \* bound: failed requests and file operations, lost connections
    MaxTries        \* bound: codes asked for

ASSUME RegistrationAssumption ==
    /\ None \notin Devices /\ Torn \notin Devices /\ None # Torn
    /\ Frozen \in BOOLEAN
    /\ MaxLaunches \in Nat /\ MaxFaults \in Nat /\ MaxTries \in Nat

VARIABLES
    phase,      \* where start_agent is
    moving,     \* in load(): where it is, once the file has given no identity
    code,       \* where the pairing_code of the runner at hand comes from
    mem, fresh, \* _device_id, and whether _device_token is one the server takes
    link,       \* the connection thread: not there, between connections, READY
    file,       \* device-identity.json
    keyring,    \* the entry an older version left
    config,     \* the pairingCode of config.json
    device,     \* server: what it knows of each device
    launches, faults, tries,
    told,       \* history: devices this PC was told were revoked
    toldNow,    \* history: it was told so in this process
    legacy,     \* history: the device the keyring held at first
    dropped,    \* history: devices whose identity was removed, or torn when saved again
    unread      \* history: devices whose identity could not be read when it was last looked for

runVars   == <<moving, code, mem, fresh, link>>
diskVars  == <<file, keyring>>
countVars == <<launches, faults, tries>>
ghostVars == <<told, toldNow, legacy, dropped, unread>>
vars == <<phase, runVars, diskVars, config, device, countVars, ghostVars>>

TypeOK ==
    /\ phase \in {"off", "look", "load", "refresh", "resave", "ask", "pair", "verify", "save",
                  "up", "failed"}
    /\ moving \in {"no", "keyring", "write", "delete"}
    /\ code \in {"none", "config", "typed"}
    /\ mem \in Devices \cup {None} /\ fresh \in BOOLEAN
    /\ link \in {"none", "down", "up"}
    /\ file \in Devices \cup {None, Torn} /\ keyring \in Devices \cup {None}
    /\ config \in {"none", "good", "used"}
    /\ device \in [Devices -> {"free", "pending", "active", "revoked", "unknown"}]
    /\ launches \in 0..MaxLaunches /\ faults \in 0..MaxFaults /\ tries \in 0..MaxTries
    /\ told \in SUBSET Devices /\ toldNow \in BOOLEAN
    /\ legacy \in Devices \cup {None} /\ dropped \in SUBSET Devices /\ unread \in SUBSET Devices

\* A first start, with or without a code in config.json, of a new installation or
\* of one an older version registered.
Init ==
    /\ phase = "off" /\ moving = "no" /\ code = "none"
    /\ mem = None /\ fresh = FALSE /\ link = "none"
    /\ file = None /\ keyring \in Devices \cup {None}
    /\ config \in {"none", "good"}
    /\ device = [d \in Devices |-> IF d = keyring THEN "active" ELSE "free"]
    /\ launches = 0 /\ faults = 0 /\ tries = 0
    /\ told = {} /\ toldNow = FALSE /\ legacy = keyring /\ dropped = {} /\ unread = {}

-----------------------------------------------------------------------------
(* The process *)

\* The only instance starts, and setup calls start_agent.
Launch ==
    /\ phase = "off" /\ launches < MaxLaunches
    /\ launches' = launches + 1 /\ phase' = "look"
    /\ UNCHANGED <<runVars, diskVars, config, device, faults, tries, ghostVars>>

\* The writing of d fails or its writer ends: the file may be as it was, torn, or
\* whole when only what comes after the text fails.
WriteBreaks(d) ==
    \/ file' \in {file, d} /\ UNCHANGED dropped
    \/ file' = Torn /\ dropped' = dropped \cup ({file} \cap Devices)

\* quit_app, a crash, a shutdown: what is in memory is gone.
End ==
    /\ phase # "off" /\ phase' = "off"
    /\ moving' = "no" /\ code' = "none" /\ mem' = None /\ fresh' = FALSE
    /\ link' = "none" /\ toldNow' = FALSE
    /\ CASE moving = "write" -> WriteBreaks(keyring)
         [] phase \in {"resave", "save"} -> WriteBreaks(mem)
         [] OTHER -> UNCHANGED <<file, dropped>>
    /\ UNCHANGED <<keyring, config, device, countVars, told, legacy, unread>>

Fault == faults < MaxFaults /\ faults' = faults + 1

\* A runner is built with a code from c, and started.
Build(c) == phase' = "load" /\ code' = c /\ mem' = None /\ fresh' = FALSE

\* The runner's start raises, and not DeviceRevokedError.  start_agent gives up if
\* the code was from config.json; register() asks again, but only if packaged.
StartFails ==
    /\ phase' = IF code = "config" \/ (code = "typed" /\ ~Frozen) THEN "failed" ELSE "ask"
    /\ code' = "none" /\ mem' = None /\ fresh' = FALSE

\* _pair_if_needed without a session.
PairOrFail ==
    IF code = "none" THEN StartFails
    ELSE phase' = "pair" /\ mem' = None /\ fresh' = FALSE /\ UNCHANGED code

\* The identity is forgotten, in memory and on disk.
Forget ==
    /\ file' = None /\ dropped' = dropped \cup {mem}
    /\ PairOrFail

-----------------------------------------------------------------------------
(* FileIdentityStore.load, called by start_agent and by the runner's start *)

\* load() returns d.
Loaded(d) ==
    IF phase = "look"
    THEN IF config = "none" /\ d = None
         THEN phase' = "ask" /\ UNCHANGED <<code, mem, fresh>>
         ELSE Build(IF config = "none" THEN "none" ELSE "config")
    ELSE IF d = None THEN PairOrFail
         ELSE phase' = "refresh" /\ mem' = d /\ UNCHANGED <<code, fresh>>

\* load() raises: start_agent's own call is outside every try.
LoadRaises ==
    IF phase = "look" THEN phase' = "failed" /\ UNCHANGED <<code, mem, fresh>> ELSE StartFails

\* Faulty variant: whatever is in the file is taken for an identity.
LoadFileUnchecked ==
    /\ phase \in {"look", "load"} /\ moving = "no"
    /\ IF file # None
       THEN Loaded(file) /\ unread' = unread \ {file} /\ UNCHANGED moving
       ELSE moving' = "keyring" /\ UNCHANGED <<phase, code, mem, fresh, unread>>
    /\ UNCHANGED <<link, diskVars, config, device, countVars, told, toldNow, legacy, dropped>>

\* A file that is not there, or torn, gives no identity.
LoadFile ==
    /\ phase \in {"look", "load"} /\ moving = "no"
    /\ IF file \in Devices
       THEN Loaded(file) /\ unread' = unread \ {file} /\ UNCHANGED moving
       ELSE moving' = "keyring" /\ UNCHANGED <<phase, code, mem, fresh, unread>>
    /\ UNCHANGED <<link, diskVars, config, device, countVars, told, toldNow, legacy, dropped>>

\* Nor does one that cannot be read: the OSError is passed over.
ReadFails ==
    /\ phase \in {"look", "load"} /\ moving = "no"
    /\ file \in Devices /\ Fault
    /\ moving' = "keyring" /\ unread' = unread \cup {file}
    /\ UNCHANGED <<phase, code, mem, fresh, link, diskVars, config, device, launches, tries,
                   told, toldNow, legacy, dropped>>

LoadKeyring ==
    /\ moving = "keyring"
    /\ IF keyring = None
       THEN Loaded(None) /\ moving' = "no"
       ELSE moving' = "write" /\ UNCHANGED <<phase, code, mem, fresh>>
    /\ UNCHANGED <<link, diskVars, config, device, countVars, ghostVars>>

\* The keyring is locked, or there is none.
KeyringFails ==
    /\ moving = "keyring" /\ moving' = "no" /\ Fault
    /\ LoadRaises
    /\ UNCHANGED <<link, diskVars, config, device, launches, tries, ghostVars>>

\* Faulty variant: the entry is deleted first.
MigrateDeletesFirst ==
    /\ moving = "write" /\ moving' = "delete"
    /\ keyring' = None
    /\ UNCHANGED <<phase, code, mem, fresh, link, file, config, device, countVars, ghostVars>>

MigrateWrites ==
    /\ moving = "write" /\ moving' = "delete"
    /\ file' = keyring /\ unread' = unread \ {keyring}
    /\ UNCHANGED <<phase, code, mem, fresh, link, keyring, config, device, countVars,
                   told, toldNow, legacy, dropped>>

\* save() raises.
MigrateFails ==
    /\ moving = "write" /\ moving' = "no" /\ Fault
    /\ WriteBreaks(keyring) /\ LoadRaises
    /\ UNCHANGED <<link, keyring, config, device, launches, tries, told, toldNow, legacy, unread>>

\* The entry is deleted; that it is not there any more is passed over.
MigrateDeletes ==
    /\ moving = "delete" /\ moving' = "no"
    /\ \/ keyring' = None /\ Loaded(file) /\ UNCHANGED faults
       \/ Fault /\ Loaded(file) /\ UNCHANGED keyring
       \/ Fault /\ LoadRaises /\ UNCHANGED keyring
    /\ UNCHANGED <<link, file, config, device, launches, tries, ghostVars>>

-----------------------------------------------------------------------------
(* _try_refresh_session *)

\* The server renews the token of a device it has.
Refresh ==
    /\ phase = "refresh" /\ device[mem] = "active"
    /\ phase' = "resave" /\ fresh' = TRUE
    /\ UNCHANGED <<moving, code, mem, link, diskVars, config, device, countVars, ghostVars>>

\* Faulty variant: what is raised for a revoked device is taken for any failure.
RefreshRevokedForgets ==
    /\ phase = "refresh" /\ device[mem] = "revoked"
    /\ told' = told \cup {mem} /\ toldNow' = TRUE
    /\ Forget
    /\ UNCHANGED <<moving, link, keyring, config, device, countVars, legacy, unread>>

\* DEVICE_REVOKED: the stored identity is removed; start_agent passes it on.
RefreshRevoked ==
    /\ phase = "refresh" /\ device[mem] = "revoked"
    /\ told' = told \cup {mem} /\ toldNow' = TRUE
    /\ file' = None /\ dropped' = dropped \cup {mem}
    /\ phase' = "failed"
    /\ UNCHANGED <<runVars, keyring, config, device, countVars, legacy, unread>>

\* Every other failure: the server does not know the device, or no answer comes
\* (no network, an error of the server, a clock out of step).
RefreshFails ==
    /\ phase = "refresh"
    /\ \/ device[mem] = "unknown" /\ UNCHANGED faults
       \/ Fault
    /\ Forget
    /\ UNCHANGED <<moving, link, keyring, config, device, launches, tries, told, toldNow, legacy, unread>>

\* Faulty variant: it is paired all the same.
ResavePairs ==
    /\ phase = "resave" /\ file' = mem
    /\ PairOrFail
    /\ UNCHANGED <<moving, link, keyring, config, device, countVars, ghostVars>>

\* The identity is saved with the new token, and the connection thread starts.
Resave ==
    /\ phase = "resave" /\ phase' = "up" /\ link' = "down"
    /\ file' = mem
    /\ UNCHANGED <<moving, code, mem, fresh, keyring, config, device, countVars, ghostVars>>

\* An error of the file system counts as a failed refresh.
ResaveFails ==
    /\ phase = "resave" /\ Fault
    /\ Forget
    /\ UNCHANGED <<moving, link, keyring, config, device, launches, tries, told, toldNow, legacy, unread>>

-----------------------------------------------------------------------------
(* register() and _pair_if_needed *)

\* A code: typed into the window, or issued for the test account if not packaged.
ObtainCode ==
    /\ phase = "ask" /\ tries < MaxTries /\ tries' = tries + 1
    /\ Build("typed")
    /\ UNCHANGED <<moving, link, diskVars, config, device, launches, faults, ghostVars>>

\* The window is closed, or no code is issued.
NoCode ==
    /\ phase = "ask" /\ phase' = "failed"
    /\ UNCHANGED <<runVars, diskVars, config, device, countVars, ghostVars>>

\* The server takes the code, once, and names a device.
Pair ==
    /\ phase = "pair" /\ (code = "config" => config = "good")
    /\ config' = IF code = "config" THEN "used" ELSE config
    /\ \E d \in Devices :
          /\ device[d] = "free" /\ device' = [device EXCEPT ![d] = "pending"]
          /\ \/ phase' = "verify" /\ mem' = d /\ UNCHANGED <<code, fresh, faults>>
             \/ Fault /\ StartFails
    /\ UNCHANGED <<moving, link, diskVars, launches, tries, ghostVars>>

\* A code that is wrong, used or too old.
PairRefused ==
    /\ phase = "pair" /\ StartFails
    /\ UNCHANGED <<moving, link, diskVars, config, device, countVars, ghostVars>>

Verify ==
    /\ phase = "verify"
    /\ device' = [device EXCEPT ![mem] = "active"]
    /\ \/ phase' = "save" /\ fresh' = TRUE /\ UNCHANGED <<code, mem, faults>>
       \/ Fault /\ StartFails
    /\ UNCHANGED <<moving, link, diskVars, config, launches, tries, ghostVars>>

\* The request for the session, or the signature, comes to nothing.
VerifyFails ==
    /\ phase = "verify" /\ Fault /\ StartFails
    /\ UNCHANGED <<moving, link, diskVars, config, device, launches, tries, ghostVars>>

\* Faulty variant: the new identity is not saved.
SaveNothing ==
    /\ phase = "save" /\ phase' = "up" /\ link' = "down"
    /\ UNCHANGED <<moving, code, mem, fresh, file, keyring, config, device, countVars, ghostVars>>

Save ==
    /\ phase = "save" /\ phase' = "up" /\ link' = "down"
    /\ file' = mem
    /\ UNCHANGED <<moving, code, mem, fresh, keyring, config, device, countVars, ghostVars>>

SaveFails ==
    /\ phase = "save" /\ Fault
    /\ WriteBreaks(mem) /\ StartFails
    /\ UNCHANGED <<moving, link, keyring, config, device, launches, tries, told, toldNow, legacy, unread>>

Start ==
    \/ LoadFile \/ ReadFails \/ LoadKeyring \/ KeyringFails
    \/ MigrateWrites \/ MigrateFails \/ MigrateDeletes
    \/ Refresh \/ RefreshRevoked \/ RefreshFails \/ Resave \/ ResaveFails
    \/ Pair \/ PairRefused \/ Verify \/ VerifyFails \/ Save \/ SaveFails

-----------------------------------------------------------------------------
(* The connection thread, from outside: AgentSession has its inside *)

Connects ==
    /\ link = "down" /\ device[mem] = "active" /\ fresh
    /\ link' = "up"
    /\ UNCHANGED <<phase, moving, code, mem, fresh, diskVars, config, device, countVars, ghostVars>>

Disconnects ==
    /\ link = "up" /\ link' = "down" /\ Fault
    /\ UNCHANGED <<phase, moving, code, mem, fresh, diskVars, config, device, launches, tries, ghostVars>>

\* Faulty variant: the stored identity is kept.
ToldRevokedKept ==
    /\ link # "none" /\ device[mem] = "revoked"
    /\ told' = told \cup {mem} /\ toldNow' = TRUE
    /\ link' = "none"
    /\ UNCHANGED <<phase, moving, code, mem, fresh, file, dropped, keyring, config, device, countVars, legacy, unread>>

\* PROTOCOL_ERROR with DEVICE_REVOKED, while a connection is made or up: the
\* identity is removed, stop().
ToldRevoked ==
    /\ link # "none" /\ device[mem] = "revoked"
    /\ told' = told \cup {mem} /\ toldNow' = TRUE
    /\ file' = None /\ dropped' = dropped \cup {mem}
    /\ link' = "none"
    /\ UNCHANGED <<phase, moving, code, mem, fresh, keyring, config, device, countVars, legacy, unread>>

-----------------------------------------------------------------------------
(* The server and time *)

\* 24 hours have passed since the token was given.
TokenExpires ==
    /\ phase = "up" /\ fresh /\ fresh' = FALSE
    /\ UNCHANGED <<phase, moving, code, mem, link, diskVars, config, device, countVars, ghostVars>>

\* The user removes the device, or the server loses it.
DeviceGoes(d) ==
    /\ device[d] = "active"
    /\ \E s \in {"revoked", "unknown"} : device' = [device EXCEPT ![d] = s]
    /\ UNCHANGED <<phase, runVars, diskVars, config, countVars, ghostVars>>

Next ==
    \/ Launch \/ End \/ Start \/ ObtainCode \/ NoCode
    \/ Connects \/ Disconnects \/ ToldRevoked
    \/ TokenExpires \/ \E d \in Devices : DeviceGoes(d)

Spec == Init /\ [][Next]_vars

\* The start and the connection thread run; users, servers and faults need not.
FairSpec == Spec /\ WF_vars(Start) /\ WF_vars(Connects)

-----------------------------------------------------------------------------
(* Safety *)

\* A process that was told of the revocation does not register the PC anew, in
\* whatever try of whichever runner it was told (agent.py:308, tray_app.py:325).
NoPairingOnceRevoked == toldNow => phase \in {"up", "failed"}

\* A runner that is up comes back as the same device after a restart, unless it
\* was told that there is no such device any more.
RunningIsRemembered == (phase = "up" /\ ~toldNow) => file = mem

\* The identity of an older version is in one of the two places until the server
\* was asked about it, wherever a file operation, the keyring or the process fails
\* (identity_store.py:120), but for one case: the file that has it could not be read
\* when it was last looked for.  That counts as no identity (identity_store.py:111),
\* and what is paired then, or what the keyring has, is saved over it.
MigrationKeeps == legacy \notin {None} \cup dropped \cup unread => legacy \in {file, keyring}

\* What was removed because of a revocation does not come back, unless it lives on
\* in the keyring.
RevokedStaysGone == file \notin told \ {legacy}

\* What the four rest on.  A device is at hand where the code uses one; what is
\* refreshed is what the file has, and what is paired, or comes from the keyring,
\* replaces nothing but what could not be read.
AtHand ==
    /\ phase \in {"refresh", "resave", "verify", "save"} => mem \in Devices
    /\ phase \in {"refresh", "resave"} => file = mem
    /\ phase \in {"pair", "verify", "save"} => file \notin Devices \ unread
    /\ link # "none" => phase = "up" /\ mem \in Devices /\ ~toldNow
    /\ moving # "no" => phase \in {"look", "load"}
    /\ moving \in {"keyring", "write"} => file \notin Devices \ unread
    /\ moving = "write" => keyring # None
    /\ moving = "delete" => file = keyring /\ file \in Devices
    /\ keyring \in {None, legacy}

\* A device is told to be revoked only if it is, and a new one is not among them.
ToldTrue ==
    /\ \A d \in told : device[d] = "revoked"
    /\ phase \in {"verify", "save"} => mem \notin told

-----------------------------------------------------------------------------
(* Liveness *)

\* A restart of a registered PC connects it as the same device, and nobody has to
\* do anything, unless a fault, the server, the clock or the end of the process
\* is in the way.
RestartReconnects ==
    \A d \in Devices, n \in 0..MaxFaults :
        (phase = "look" /\ moving = "no" /\ file = d /\ device[d] = "active" /\ faults = n)
            ~> (\/ link = "up" /\ mem = d
                \/ faults # n \/ device[d] # "active" \/ phase = "off" \/ (phase = "up" /\ ~fresh))
=============================================================================
