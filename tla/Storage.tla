------------------------------ MODULE Storage ------------------------------
(***************************************************************************)
(* What a repeater keeps over a restart: core/CryptoIdentity.cpp and       *)
(* core/NodeConfig.cpp share one EEPROM.  The identity lies at bytes 0 to  *)
(* 96, the location at bytes 0 to 9:                                       *)
(*                                                                         *)
(*    area        identity               location                          *)
(*    "0"         STORAGE_MAGIC          high byte of LOCATION_MAGIC       *)
(*    "1"         publicKey[0]           low byte of LOCATION_MAGIC        *)
(*    "2-9"       publicKey[1..8]        latitude, longitude               *)
(*    "10-96"     the rest of the keys   -                                 *)
(*                                                                         *)
(* EEPROM.write() changes a copy in RAM, commit() stores it in one row of  *)
(* flash (external).  The power may fail at any moment.                    *)
(***************************************************************************)
EXTENDS Naturals, FiniteSets

CONSTANTS Locations, MaxKeys   \* bound of a TLC run: identities generated

ASSUME StorageAssumption == MaxKeys \in Nat

VARIABLES
    flash, buffer,          \* EEPROM, and the library's copy of it
    phase,
    identity,               \* publicKey and privateKey in RAM, per area
    nodeHash,
    location,               \* latitude and longitude, or NoLocation
    keys,                   \* identities generated so far
    located,                \* ghost: has a location command been carried out?
    everUp                  \* ghost: identities the node has run under

bootVars == <<identity, nodeHash, location>>
vars == <<flash, buffer, phase, bootVars, keys, located, everUp>>

\* Values of an area: blank, zero, a magic, a part of key k or a location.
Blank == <<"blank">>
Zero == <<"zero">>
StorageMagic == <<"0xC5">>
MagicHigh == <<"0x4C">>
MagicLow == <<"0x4F">>
Key(k) == <<"key", k>>
At(l) == <<"location", l>>
NoLocation == <<"none">>

Area == {"0", "1", "2-9", "10-96"}
KeyAreas == Area \ {"0"}
Location == {At(l) : l \in Locations} \cup {NoLocation}
Value == {Blank, Zero, StorageMagic, MagicHigh, MagicLow}
         \cup {Key(k) : k \in 0..MaxKeys} \cup {At(l) : l \in Locations}

Phase == {"off", "reading", "saving", "configuring", "up", "committing"}

TypeOK ==
    /\ flash \in [Area -> Value] /\ buffer \in [Area -> Value]
    /\ phase \in Phase
    /\ identity \in [KeyAreas -> Value]
    /\ nodeHash \in Value
    /\ location \in Location
    /\ keys \in 0..MaxKeys
    /\ located \in BOOLEAN
    /\ everUp \subseteq [KeyAreas -> Value]

Init ==
    /\ flash = [a \in Area |-> Blank]
    /\ buffer = flash
    /\ phase = "off"
    /\ identity = [a \in KeyAreas |-> Zero]
    /\ nodeHash = Zero
    /\ location = NoLocation
    /\ keys = 0
    /\ located = FALSE
    /\ everUp = {}

\* setup(): EEPROM.begin()
PowerOn == /\ phase = "off"
           /\ phase' = "reading"
           /\ buffer' = flash
           /\ UNCHANGED <<flash, bootVars, keys, located, everUp>>

PowerLoss ==
    /\ phase # "off"
    /\ phase' = "off"
    /\ identity' = [a \in KeyAreas |-> Zero]
    /\ nodeHash' = Zero
    /\ location' = NoLocation
    /\ UNCHANGED <<flash, buffer, keys, located, everUp>>

\* CryptoIdentity::loadFromEEPROM()
LoadIdentity ==
    /\ phase = "reading"
    /\ buffer["0"] = StorageMagic
    /\ identity' = [a \in KeyAreas |-> buffer[a]]
    /\ phase' = "configuring"
    /\ UNCHANGED <<flash, buffer, nodeHash, location, keys, located, everUp>>

\* generateNewIdentity() and the writes of saveToEEPROM()
GenerateIdentity ==
    /\ phase = "reading"
    /\ buffer["0"] # StorageMagic
    /\ keys < MaxKeys
    /\ keys' = keys + 1
    /\ identity' = [a \in KeyAreas |-> Key(keys')]
    /\ buffer' = [a \in Area |-> IF a = "0" THEN StorageMagic ELSE identity'[a]]
    /\ phase' = "saving"
    /\ UNCHANGED <<flash, nodeHash, location, located, everUp>>

\* A faulty saveToEEPROM() that forgets to commit.
SaveUncommitted ==
    /\ phase = "saving"
    /\ phase' = "configuring"
    /\ UNCHANGED <<flash, buffer, bootVars, keys, located, everUp>>

\* The commit of saveToEEPROM()
SaveIdentity ==
    /\ phase = "saving"
    /\ flash' = buffer
    /\ phase' = "configuring"
    /\ UNCHANGED <<buffer, bootVars, keys, located, everUp>>

\* A faulty loadLocationFromEEPROM() that trusts whatever it reads.
LoadedUnchecked == buffer["2-9"]

\* loadLocationFromEEPROM()
LoadedLocation ==
    IF buffer["0"] = MagicHigh /\ buffer["1"] = MagicLow THEN buffer["2-9"]
                                                         ELSE NoLocation

\* NodeConfig::initialize(), after the identity is there
InitializeConfig ==
    /\ phase = "configuring"
    /\ nodeHash' = identity["1"]
    /\ location' = LoadedLocation
    /\ phase' = "up"
    /\ everUp' = everUp \cup {identity}
    /\ UNCHANGED <<flash, buffer, identity, keys, located>>

\* A faulty save that leaves the magic byte alone.
WriteLocationBehindMagic(l) ==
    buffer' = [buffer EXCEPT !["1"] = MagicLow, !["2-9"] = At(l)]

\* The writes of saveLocationToEEPROM()
WriteLocation(l) ==
    buffer' = [buffer EXCEPT !["0"] = MagicHigh, !["1"] = MagicLow, !["2-9"] = At(l)]

\* "!location lat lon" -> setLocation()
SetLocation(l) ==
    /\ phase = "up"
    /\ WriteLocation(l)
    /\ location' = At(l)
    /\ located' = TRUE
    /\ phase' = "committing"
    /\ UNCHANGED <<flash, identity, nodeHash, keys, everUp>>

\* "!location clear" -> clearLocation()
ClearLocation ==
    /\ phase = "up"
    /\ buffer' = [buffer EXCEPT !["0"] = Zero, !["1"] = Zero]
    /\ location' = NoLocation
    /\ located' = TRUE
    /\ phase' = "committing"
    /\ UNCHANGED <<flash, identity, nodeHash, keys, everUp>>

\* The commit of setLocation() and clearLocation()
CommitLocation ==
    /\ phase = "committing"
    /\ flash' = buffer
    /\ phase' = "up"
    /\ UNCHANGED <<buffer, bootVars, keys, located, everUp>>

Next ==
    \/ PowerOn \/ PowerLoss
    \/ LoadIdentity \/ GenerateIdentity \/ SaveIdentity \/ InitializeConfig
    \/ \E l \in Locations : SetLocation(l)
    \/ ClearLocation \/ CommitLocation

Spec == Init /\ [][Next]_vars

----------------------------------------------------------------------------
Running == phase \in {"up", "committing"}

\* The identity a node runs under is one key pair, never half a key and half a
\* location, although the two overlap in the EEPROM and the power may fail
\* between any write and its commit.
IdentityWhole ==
    Running => \E k \in 1..MaxKeys : identity = [a \in KeyAreas |-> Key(k)]

\* Restarts and power failures do not change the identity of a node, as long
\* as no location command does.
IdentitySurvivesRestart == ~ located => Cardinality(everUp) <= 1

\* README.md:129: "Ed25519 identity generated on first boot": a node has one
\* identity for good, also after location commands.
IdentityFromFirstBoot == Cardinality(everUp) <= 1
============================================================================
