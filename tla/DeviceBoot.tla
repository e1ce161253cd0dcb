----------------------------- MODULE DeviceBoot -----------------------------
(***************************************************************************)
(* What the pendant keeps in flash across boots, the boot counter and the  *)
(* provisioned server key, and what its RAM makes of it: app_main() up to  *)
(* the commands, and the GATT writes that provision and reset it.          *)
(*                                                                         *)
(* NVS (external): a call may fail, and what was written since the last    *)
(* commit survives a crash entry by entry, or not.  NVS erases itself when *)
(* it is full or outdated.  Power may fail at any step.                    *)
(***************************************************************************)
EXTENDS Naturals

CONSTANTS
    ServerKeys,    \* server keys
    Zero,          \* SERVER_ED25519_PUBKEY, the key of no server
    Missing,       \* no such entry
    MaxBoots,      \* bound: boots
    MaxFailures    \* bound: NVS calls that fail

ASSUME BootAssumption ==
    /\ Zero \notin ServerKeys /\ Missing \notin ServerKeys \cup Nat \cup {Zero}
    /\ MaxBoots \in Nat /\ MaxFailures \in Nat

VARIABLES
    flash,       \* what the next boot finds: boot_id, srvkey and provd
    written,     \* what this boot reads: flash and what is not committed yet
    boot,        \* "off", the next step of app_main(), or "up"
    access,      \* the next step of the GATT write in progress, or "none"
    offered,     \* the key it carries, Missing in a factory reset
    s_boot_id,
    s_state,     \* provisioned
    s_key,
    s_pubkey,    \* the command verifier's key
    boots, failures,
    \* history
    used,        \* boot ids the device has run under
    told,        \* the key the phone was last told is installed, Missing if none is
    lost,        \* entries that a silent failure may have taken
    misread      \* this boot could not read the key

ram == <<s_boot_id, s_state, s_key, s_pubkey>>
history == <<used, told, lost, misread>>
bootVars == <<flash, written, boot, access, offered, ram, boots, failures, history>>

Entries == {"boot_id", "srvkey", "provd"}
ProvEntries == {"srvkey", "provd"}

\* The outcome of an NVS call.
Call(ok) == IF ok THEN UNCHANGED failures
            ELSE failures < MaxFailures /\ failures' = failures + 1

Writes(entry, v) == written' = [written EXCEPT ![entry] = v]

Commits(entries) == flash' = [e \in Entries |-> IF e \in entries THEN written[e] ELSE flash[e]]

-----------------------------------------------------------------------------
PowerOn(erased) ==
    /\ boot = "off" /\ boots < MaxBoots
    /\ boots' = boots + 1
    /\ boot' = "count"
    /\ flash' = IF erased THEN [e \in Entries |-> Missing] ELSE flash
    /\ written' = flash'
    /\ s_boot_id' = 0 /\ s_state' = FALSE /\ s_key' = Zero /\ s_pubkey' = Zero
    /\ lost' = IF erased THEN Entries ELSE lost
    /\ misread' = FALSE
    /\ UNCHANGED <<access, offered, failures, used, told>>

\* Mutation: the count is not stored.
CountOnly(id) == UNCHANGED written

Count(id) == Writes("boot_id", id)

\* boot_id_init(): a count that is missing, or cannot be read, starts from 0.
BootIdSet(readable) ==
    /\ boot = "count"
    /\ Call(readable)
    /\ Count(IF readable /\ written["boot_id"] # Missing THEN written["boot_id"] + 1 ELSE 1)
    /\ lost' = IF readable THEN lost ELSE lost \cup {"boot_id"}
    /\ boot' = "commit"
    /\ UNCHANGED <<flash, access, offered, ram, boots, used, told, misread>>

\* It cannot be opened or set: this boot has the id 0.
BootIdFails ==
    /\ boot = "count"
    /\ Call(FALSE)
    /\ boot' = "provision"
    /\ UNCHANGED <<flash, written, access, offered, ram, boots, history>>

\* The result of the commit is not looked at.
BootIdCommit(ok) ==
    /\ boot = "commit"
    /\ Call(ok)
    /\ IF ok THEN Commits({"boot_id"}) ELSE UNCHANGED flash
    /\ s_boot_id' = written["boot_id"]
    /\ used' = used \cup {written["boot_id"]}
    /\ lost' = IF ok THEN lost ELSE lost \cup {"boot_id"}
    /\ boot' = "provision"
    /\ UNCHANGED <<written, access, offered, s_state, s_key, s_pubkey, boots, told, misread>>

Provisioned == written["srvkey"] # Missing /\ written["provd"] = 1

\* provisioning_init(): both the key and the flag, or nothing.
ProvisioningInit(ok) ==
    /\ boot = "provision"
    /\ Call(ok)
    /\ s_state' = (ok /\ Provisioned)
    /\ s_key' = IF ok /\ Provisioned THEN written["srvkey"] ELSE Zero
    /\ s_pubkey' = IF ok /\ Provisioned THEN written["srvkey"] ELSE s_pubkey
    /\ misread' = ~ok
    /\ boot' = "commands"
    /\ UNCHANGED <<flash, written, access, offered, s_boot_id, boots, used, told, lost>>

\* commands_init() seeds the verifier, unless the crypto library fails.
CommandsInit(ok) ==
    /\ boot = "commands"
    /\ s_pubkey' = IF ok THEN Zero ELSE s_pubkey
    /\ boot' = "ensure"
    /\ UNCHANGED <<flash, written, access, offered, s_boot_id, s_state, s_key, boots,
                   failures, history>>

\* Mutation: the seed is left in place.
SeedKept == s_pubkey

LiveKey == IF s_state THEN s_key ELSE s_pubkey

EnsureLiveKey ==
    /\ boot = "ensure"
    /\ s_pubkey' = LiveKey
    /\ boot' = "up"
    /\ UNCHANGED <<flash, written, access, offered, s_boot_id, s_state, s_key, boots,
                   failures, history>>

-----------------------------------------------------------------------------
\* The GATT writes, one at a time on the host task, that get as far as changing the
\* key's entry.  A key is refused while one is installed, a reset never is.
KeyWrite(key) ==
    /\ boot = "up" /\ access = "none"
    /\ ~s_state
    /\ Writes("srvkey", key)
    /\ access' = "flag" /\ offered' = key
    /\ told' = Missing
    /\ UNCHANGED <<flash, boot, ram, boots, failures, used, lost, misread>>

ResetWrite ==
    /\ boot = "up" /\ access = "none"
    /\ Writes("srvkey", Missing)
    /\ access' = "flag" /\ offered' = Missing
    /\ told' = Missing
    /\ UNCHANGED <<flash, boot, ram, boots, failures, used, lost, misread>>

\* "best-effort flag": its result is not looked at.
FlagWrite(ok) ==
    /\ access = "flag"
    /\ Call(ok)
    /\ IF ok THEN Writes("provd", IF offered = Missing THEN 0 ELSE 1) ELSE UNCHANGED written
    /\ lost' = IF ok THEN lost \ ProvEntries ELSE lost \cup {"provd"}
    /\ access' = "commit"
    /\ UNCHANGED <<flash, boot, offered, ram, boots, used, told, misread>>

\* Mutation: the commit is forgotten.
CommitsNothing == UNCHANGED flash

CommitsKey == Commits(ProvEntries)

ProvCommit ==
    /\ access = "commit"
    /\ CommitsKey
    /\ access' = "flip"
    /\ UNCHANGED <<written, boot, offered, ram, boots, failures, history>>

\* The write is refused; what it wrote so far stays.
ProvCommitFails ==
    /\ access = "commit"
    /\ Call(FALSE)
    /\ access' = "none"
    /\ UNCHANGED <<flash, written, boot, offered, ram, boots, history>>

\* RAM, the verifier and the phone follow.
Flip ==
    /\ access = "flip"
    /\ s_state' = (offered # Missing)
    /\ s_key' = IF offered = Missing THEN Zero ELSE offered
    /\ s_pubkey' = IF offered = Missing THEN Zero ELSE offered
    /\ told' = offered
    /\ access' = "none"
    /\ UNCHANGED <<flash, written, boot, offered, s_boot_id, boots, failures, used, lost,
                   misread>>

\* Each entry written and not committed is kept or not.
PowerFails(kept) ==
    /\ boot # "off"
    /\ boot' = "off" /\ access' = "none"
    /\ flash' = [e \in Entries |-> IF e \in kept THEN written[e] ELSE flash[e]]
    /\ UNCHANGED <<written, offered, ram, boots, failures, history>>

BootInit ==
    /\ flash = [e \in Entries |-> Missing] /\ written = flash
    /\ boot = "off" /\ access = "none" /\ offered = Missing
    /\ s_boot_id = 0 /\ s_state = FALSE /\ s_key = Zero /\ s_pubkey = Zero
    /\ boots = 0 /\ failures = 0
    /\ used = {} /\ told = Missing /\ lost = {} /\ misread = FALSE

BootNext ==
    \/ \E erased \in BOOLEAN : PowerOn(erased)
    \/ \E ok \in BOOLEAN : \/ BootIdSet(ok) \/ BootIdCommit(ok)
                           \/ ProvisioningInit(ok) \/ CommandsInit(ok)
                           \/ FlagWrite(ok)
    \/ BootIdFails
    \/ EnsureLiveKey
    \/ \E key \in ServerKeys : KeyWrite(key)
    \/ ResetWrite
    \/ ProvCommit
    \/ ProvCommitFails
    \/ Flip
    \/ \E kept \in SUBSET Entries : PowerFails(kept)

BootSpec == BootInit /\ [][BootNext]_bootVars

-----------------------------------------------------------------------------
BootTypeOK ==
    /\ flash \in [Entries -> ServerKeys \cup Nat \cup {Missing}]
    /\ written \in [Entries -> ServerKeys \cup Nat \cup {Missing}]
    /\ boot \in {"off", "count", "commit", "provision", "commands", "ensure", "up"}
    /\ access \in {"none", "flag", "commit", "flip"}
    /\ access # "none" => boot = "up"
    /\ offered \in ServerKeys \cup {Missing}
    /\ s_state \in BOOLEAN
    /\ s_key \in ServerKeys \cup {Zero} /\ s_pubkey \in ServerKeys \cup {Zero}

\* "belt-and-suspenders: ensure live key": once the device is up, commands are verified
\* with the installed key and, without one, with the key of no server.
VerifierIsInstalled ==
    boot = "up" => s_pubkey = (IF s_state THEN s_key ELSE Zero)

\* "so a reboot sees the persisted key": the key the phone was told is installed is the
\* installed one after any number of crashes, unless NVS failed silently or was erased.
RebootSeesKey ==
    boot = "up" /\ told # Missing /\ lost \cap ProvEntries = {} /\ ~misread
        => s_state /\ s_key = told

\* "disambiguates rel_ts_ms across boots": no two boots run under the same id, unless
\* NVS failed or was erased.
FreshBootId ==
    [][boot = "commit" /\ boot' = "provision"
          => s_boot_id' \notin used \/ "boot_id" \in lost]_bootVars
=============================================================================
