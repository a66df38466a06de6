----------------------------- MODULE MCKeystone -----------------------------
(* Small instances of what keystone does for itself and for its clients.   *)
(* The parts share no state: a behaviour is about one of them, which it    *)
(* chooses first.                                                          *)
EXTENDS IdentityOps, KeystoneKeys, ServiceAccounts, TempestResources

CONSTANT Parts

VARIABLE part

\* Service users over identity-ops whose rotations and removals do not wait for
\* open exchanges: requests are replaced before keystone has taken them.
Replaced == INSTANCE IdentityOps WITH Overlap <- TRUE, MaxFaults <- 1

MCNames == {<<"heat", "heat2">>}
MCClients == {<<"heat", 1>>, <<"heat", 2>>, <<"heat2", 1>>, <<"heat-cfn", 1>>}
MCDashedClients == {<<"heat-cfn", 1>>}

others(p) == part # p

\* The parts a behaviour is not about stay in one state.
Parked ==
    /\ others("ops") /\ others("replaced") => leader = CHOOSE u \in Units : TRUE
    /\ others("keys") => /\ kleader = CHOOSE u \in KUnits : TRUE
                         /\ kplan = CHOOSE p \in KPlans : TRUE
    /\ others("accounts") => svcPlan = CHOOSE p \in SvcPlans : TRUE
    /\ others("requests") => tPlan = CHOOSE p \in TPlans : TRUE

MCInit ==
    /\ part \in Parts
    /\ Init /\ KeysInit /\ SvcInit /\ TempestInit
    /\ Parked

MCNext ==
    /\ part' = part
    /\ \/ part = "ops" /\ Next /\ UNCHANGED <<keysVars, svcVars, tempestVars>>
       \/ /\ part = "replaced" /\ Replaced!Next
          /\ cred' < MaxVersion  \* one rotation less
          /\ UNCHANGED <<keysVars, svcVars, tempestVars>>
       \/ part = "keys" /\ KeysNext /\ UNCHANGED <<vars, svcVars, tempestVars>>
       \/ part = "accounts" /\ SvcNext /\ UNCHANGED <<vars, keysVars, tempestVars>>
       \/ part = "requests" /\ TempestNext /\ UNCHANGED <<vars, keysVars, svcVars>>

MCSpec == MCInit /\ [][MCNext]_<<part, vars, keysVars, svcVars, tempestVars>>

\* Juju runs the hooks of every part.  KeystoneHook is enabled where setup or a
\* request waits.
FairSpecs ==
    /\ MCSpec
    /\ \A u \in Units : /\ WF_vars(part \in {"ops", "replaced"} /\ ProviderReady(u))
                        /\ WF_vars(part \in {"ops", "replaced"} /\ ResponseAvailable(u))
    /\ WF_vars(part \in {"ops", "replaced"} /\ Keystone)
    /\ \A a \in Apps : WF_svcVars(part = "accounts" /\ SvcRemove(a))
    /\ \A c \in Clients : WF_svcVars(part = "accounts" /\ ClientConfigures(c))
    /\ WF_tempestVars(part = "requests" /\ TempestHook)
    /\ \/ []<>~ (part = "requests" /\ (~ installed \/ kOps))
       \/ []<><<KeystoneHook>>_tempestVars
\* The types of all parts.
KeystoneTypes == TypeOK /\ KeysTypeOK /\ SvcTypeOK /\ TempestTypeOK

\* ConfigUsable of IdentityOps (_update_config_credentials), where rotations wait
\* for the exchange before them.
OpsConfigUsable == part = "ops" => ConfigUsable
=============================================================================
