---------------------------- MODULE KeystoneKeys ----------------------------
(***************************************************************************)
(* The key repositories of keystone: fernet keys (tokens) and credential   *)
(* keys, which its charm handles alike.  Each unit has a repository on     *)
(* disk; the leader sets it up, rotates it and publishes it in a secret,   *)
(* and the other units copy the secret to their disks.                     *)
(*                                                                         *)
(* A repository is a function from file names to keys: file 0 is the       *)
(* staged key, the highest file the primary, which signs; every key of a   *)
(* repository verifies.                                                    *)
(***************************************************************************)
EXTENDS Integers, FiniteSets, Functions

CONSTANTS
    KUnits,       \* the units of keystone
    MaxActive,    \* fernet_max_active_keys
    MaxKeys,      \* bound on the keys ever generated
    KPlans,       \* the sets of faults that go together in a behaviour
    MaxKFaults    \* bound on the faults of one behaviour

ASSUME KeysAssumption ==
    /\ KUnits # {} /\ IsFiniteSet(KUnits)
    /\ MaxActive \in Nat /\ MaxActive >= 3
    /\ MaxKeys \in Nat /\ MaxKFaults \in Nat

Keys  == 1 .. MaxKeys
Files == 0 .. MaxKeys
NoKeys == <<>>

VARIABLES
    kleader,    \* the leader
    disk,       \* disk[u]: the repository of u
    published,  \* the content of the secret, NoKeys before there is one
    labelled,   \* the units that ran keystone_bootstrap (run_once_per_unit)
    kready,     \* "leader_ready" in the peer databag
    khooks,     \* khooks[u]: "configure" and "rotate" hooks that wait
    minted,     \* keys generated so far
    kplan,      \* what may go wrong in this behaviour
    kfaults     \* faults so far

keysVars == <<kleader, disk, published, labelled, kready, khooks, minted, kplan,
              kfaults>>

KeysTypeOK ==
    /\ kleader \in KUnits
    /\ \A r \in Range(disk) \cup {published} :
          DOMAIN r \subseteq Files /\ Range(r) \subseteq Keys
    /\ labelled \subseteq KUnits
    /\ kready \in BOOLEAN
    /\ khooks \in [KUnits -> SUBSET {"configure", "rotate"}]
    /\ minted \in 0 .. MaxKeys
    /\ kfaults \in 0 .. MaxKFaults

Highest(r) == CHOOSE f \in DOMAIN r : \A g \in DOMAIN r : g <= f
Primary(r) == r[Highest(r)]
Serves(u) == disk[u] # NoKeys

KFault(k) ==
    /\ k \in kplan
    /\ kfaults < MaxKFaults
    /\ kfaults' = kfaults + 1

-----------------------------------------------------------------------------
(* keystone-manage and the files.                                          *)

\* fernet_setup, credential_setup: nothing when there are keys.
SetUp(r) == IF r = NoKeys THEN [f \in 0 .. 1 |-> minted + 1 + f] ELSE r

\* A plausible mistake: the key of file 0 is made twice.
MintedTwice(r) == IF r = NoKeys THEN 3 ELSE 0

MintedBySetUp(r) == IF r = NoKeys THEN 2 ELSE 0

\* A plausible mistake: the new key signs at once.
RotatedUnstaged(r) ==
    [f \in DOMAIN r \cup {Highest(r) + 1} |->
        IF f = Highest(r) + 1 THEN minted + 1 ELSE r[f]]

\* fernet_rotate, credential_rotate: the staged key becomes the primary, a new
\* one is staged, and the oldest keys go.
Rotated(r) ==
    LET files == DOMAIN r \cup {Highest(r) + 1}
        kept  == {f \in files : f = 0 \/ f > Highest(r) + 2 - MaxActive}
    IN  [f \in kept |-> IF f = 0 THEN minted + 1
                        ELSE IF f = Highest(r) + 1 THEN r[0] ELSE r[f]]

\* write_keys that dies: some of the files are written, no old one removed.
HalfWritten(r, new, S) ==
    [f \in DOMAIN r \cup S |-> IF f \in S THEN new[f] ELSE r[f]]

\* A plausible mistake: keys are taken over once.
NewerKeysFirstOnly(u) == IF disk[u] = NoKeys THEN published ELSE disk[u]

\* update_fernet_keys_from_peer, and _on_secret_changed: what u finds in the
\* secret replaces what it has.
NewerKeys(u) == IF published # NoKeys THEN published ELSE disk[u]

-----------------------------------------------------------------------------
(* Hooks.                                                                  *)

HookDone(u, e, wakes) ==
    khooks' = [v \in KUnits |-> IF v = u THEN khooks[v] \ {e}
                                ELSE IF wakes THEN khooks[v] \cup {"configure"}
                                ELSE khooks[v]]

\* configure_charm, at a unit that waits for its leader
ConfigureWaits(u) ==
    /\ u # kleader /\ ~ kready
    /\ HookDone(u, "configure", FALSE)
    /\ UNCHANGED <<disk, published, labelled, kready, minted, kfaults>>

\* configure_unit, at a unit that is not the leader; secret-changed and
\* relation-changed of the peers do no more.
ConfigureUnit(u) ==
    /\ u # kleader /\ kready
    /\ HookDone(u, "configure", FALSE)
    /\ disk' = [disk EXCEPT ![u] = NewerKeys(u)]
    /\ UNCHANGED <<published, labelled, kready, minted, kfaults>>

\* configure_unit and configure_app_leader, with keystone_bootstrap unless this
\* unit has run it: the leader copies the secret before it sets up its own.
ConfigureLeader(u) ==
    LET boots == u \notin labelled
        found == NewerKeys(u)
        keys  == IF boots THEN SetUp(found) ELSE found
    IN  /\ u = kleader
        /\ boots => minted + 2 <= MaxKeys
        /\ disk' = [disk EXCEPT ![u] = keys]
        /\ minted' = minted + IF boots THEN MintedBySetUp(found) ELSE 0
        /\ \/ /\ HookDone(u, "configure", ~ kready \/ (boots /\ published # keys))
              /\ published' = IF boots THEN keys ELSE published
              /\ labelled' = labelled \cup {u}
              /\ kready' = TRUE
              /\ UNCHANGED kfaults
           \/ \* The hook dies with the keys on disk and will run again.
              /\ KFault("kill")
              /\ UNCHANGED <<published, labelled, kready, khooks>>

\* A hook that dies while it writes the keys it copies
ConfigureDies(u) ==
    /\ u = kleader \/ kready
    /\ published # NoKeys
    /\ \E S \in SUBSET DOMAIN published :
          disk' = [disk EXCEPT ![u] = HalfWritten(disk[u], published, S)]
    /\ KFault("kill")
    /\ UNCHANGED <<published, labelled, kready, khooks, minted>>

KConfigure(u) ==
    /\ "configure" \in khooks[u]
    /\ ConfigureWaits(u) \/ ConfigureUnit(u) \/ ConfigureLeader(u) \/ ConfigureDies(u)
    /\ UNCHANGED <<kleader, kplan>>

\* _on_secret_rotate; a unit that has lost the lease before it sets the content
\* fails, runs again, and finds it is not the leader.
KRotate(u) ==
    /\ "rotate" \in khooks[u]
    /\ \/ /\ u # kleader
          /\ HookDone(u, "rotate", FALSE)
          /\ UNCHANGED <<kleader, disk, published, minted, kfaults>>
       \/ /\ u = kleader /\ Serves(u) /\ minted < MaxKeys
          /\ disk' = [disk EXCEPT ![u] = Rotated(disk[u])]
          /\ minted' = minted + 1
          /\ \/ /\ published' = disk'[u]
                /\ HookDone(u, "rotate", TRUE)
                /\ UNCHANGED <<kleader, kfaults>>
             \/ /\ KFault("kill")
                /\ UNCHANGED <<kleader, published, khooks>>
             \/ /\ KFault("lease")
                /\ kleader' \in KUnits \ {u}
                /\ UNCHANGED <<published, khooks>>
    /\ UNCHANGED <<labelled, kready, kplan>>

-----------------------------------------------------------------------------
(* Juju.                                                                   *)

\* The secret is due for rotation, long after the others have copied it.
RotationDue ==
    /\ published # NoKeys /\ minted < MaxKeys
    /\ \A u \in KUnits : "rotate" \notin khooks[u]
    /\ "overlap" \in kplan \/ \A u \in KUnits : khooks[u] = {}
    /\ khooks' = [khooks EXCEPT ![kleader] = @ \cup {"rotate"}]
    /\ UNCHANGED <<kleader, disk, published, labelled, kready, minted, kplan,
                   kfaults>>

KElect(u) ==
    /\ u # kleader
    /\ KFault("elect")
    /\ kleader' = u
    /\ UNCHANGED <<disk, published, labelled, kready, khooks, minted, kplan>>

\* Any event of the framework that configures the charm
KEvent(u) ==
    /\ KFault("event")
    /\ khooks' = [khooks EXCEPT ![u] = @ \cup {"configure"}]
    /\ UNCHANGED <<kleader, disk, published, labelled, kready, minted, kplan>>

KeysInit ==
    /\ kleader \in KUnits
    /\ disk = [u \in KUnits |-> NoKeys]
    /\ published = NoKeys
    /\ labelled = {}
    /\ kready = FALSE
    /\ khooks = [u \in KUnits |-> {"configure"}]
    /\ minted = 0
    /\ kplan \in KPlans
    /\ kfaults = 0

KeysNext ==
    \/ \E u \in KUnits : KConfigure(u) \/ KRotate(u) \/ KElect(u) \/ KEvent(u)
    \/ RotationDue

KeysSpec == KeysInit /\ [][KeysNext]_keysVars

-----------------------------------------------------------------------------
(* Properties.                                                             *)

\* What any unit signs before a step, every unit that serves verifies after it,
\* whichever unit rotates: keys are staged before they sign (_on_secret_rotate).
\* A hook that dies, a lease lost in one or a unit two rotations behind breaks it.
TokensSurvive ==
    [][\/ kplan \cap {"kill", "lease", "overlap"} # {}
       \/ \A u, v \in KUnits :
             Serves(u) /\ Serves(v) => Primary(disk[u]) \in Range(disk'[v])]_keysVars

\* Once there is a secret and all hooks have run, every unit has its keys, even
\* where hooks died in the middle of a rotation or a copy (write_keys).  A leader
\* that rotates its disk and loses the leadership before it sets the content
\* keeps keys that nobody else has.
KeysAgree ==
    \/ "lease" \in kplan
    \/ {"kill", "elect"} \subseteq kplan
    \/ (published # NoKeys /\ \A u \in KUnits : khooks[u] = {})
         => \A u \in KUnits : disk[u] = published
=============================================================================
