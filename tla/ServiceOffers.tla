---------------------------- MODULE ServiceOffers ----------------------------
(***************************************************************************)
(* One application offers something to another over the databag of their   *)
(* relation: a secret, an address, a key, or just that it is ready.  Every *)
(* such pair is put together from four pieces: the library of the provider *)
(* and of the requirer, the charm that decides when to write, and the      *)
(* handler that decides when the client is configured anew.  The catalogue *)
(* below has the pieces of each offer; the actions are what they share.    *)
(*                                                                         *)
(* The provider has two units, of which only the leader may write; a unit  *)
(* that is not the leader drops what it would have written.  One action is *)
(* one hook: databags change when it ends.                                 *)
(***************************************************************************)
EXTENDS Integers, FiniteSets

CONSTANTS
    PUnits,     \* the units of the provider
    OfferPlans, \* offers and the faults of a behaviour about them
    MaxValue,   \* bound on the values the provider comes to offer
    MaxOFaults  \* bound on the faults of a behaviour

OfferFaults ==
    { "elect",     \* leadership moves while the leader runs no hook
      "unwell",    \* the API of the provider does not answer its own check
      "relations", \* the provider loses its mandatory relations
      "again",     \* something else configures a unit of the provider
      "value",     \* what is offered changes, or is withdrawn
      "remove" }   \* the relation is removed

-----------------------------------------------------------------------------
(* Rules: when the leader writes, and what.                                *)

Rules ==
    { "never",
      "value",        \* the value of the moment
      "unguarded",    \* the same, in a hook that fails where the unit cannot
                      \* be configured yet, and is run until it can
      "configures",   \* the request is answered by configure_charm
      "secret",       \* the value, once the secret of the application is made
      "making",       \* the value, in the hook that makes this secret
      "bootstrapped", \* whether the unit is bootstrapped()
      "earlier",      \* whether it was bootstrapped() before configure_app
      "end",          \* ready, when configure_charm gets to configure_app
      "healthy",      \* ready, after configure_charm, if the API answers
      "serving",      \* the value, if the unit is bootstrapped()
      "first" }       \* the value, if it is bootstrapped and none is there

\* The four pieces of an offer
Library == [wake : SUBSET {"joined", "changed"}]
ClientHooks == {"changed", "departed", "broken"}
Reader  == [hears : SUBSET ClientHooks, empty : BOOLEAN]
Charm   == [request : Rules, configure : Rules, change : Rules,
            absent : {"never", "written", "kept"}, \* what becomes of no value
            plain : BOOLEAN]   \* not built on the base charm
Handler == [calls : SUBSET ClientHooks,
            drops : BOOLEAN]   \* does without a relation that is being broken

-----------------------------------------------------------------------------
(* The providers' libraries: which hook of the relation asks the charm.    *)

CeilometerServiceProvides == [wake |-> {"changed"}]
GnocchiServiceProvides    == [wake |-> {"changed"}]
ServiceReadinessProvider  == [wake |-> {"changed"}]
DesignateServiceProvides  == [wake |-> {"changed"}]
NovaServiceProvides       == [wake |-> {"changed"}]
DomainConfigProvides      == [wake |-> {"changed"}]
IdentityEndpointsProvides == [wake |-> {"changed"}]
TrustedDashboardAnnounces == [wake |-> {"changed"}]
TrustedDashboardAsks      == [wake |-> {"changed"}]
CORSOriginProvider        == [wake |-> {"joined"}]
KeystoneSAMLProvider      == [wake |-> {"joined"}]
ManilaProvides            == [wake |-> {"joined"}]
SwitchConfigProvides      == [wake |-> {"joined"}]
IdentityServiceProvides     == [wake |-> {"changed"}]
IdentityCredentialsProvides == [wake |-> {"changed"}]
OVSDBCMSProvides            == [wake |-> {"changed"}]
CephAccessProvides          == [wake |-> {"changed"}]
\* The provider of the storage API requires storage backends.
StorageBackendRequires      == [wake |-> {"changed"}]

-----------------------------------------------------------------------------
(* The requirers' libraries: which hooks they turn into events, and whether *)
(* they do so for a databag that offers nothing.                            *)

CeilometerServiceRequires == [hears |-> {"changed", "broken"}, empty |-> TRUE]
GnocchiServiceRequires    == [hears |-> {"changed", "broken"}, empty |-> TRUE]
ServiceReadinessRequirer  == [hears |-> {"changed", "broken"}, empty |-> TRUE]
DesignateServiceRequires  == [hears |-> {"changed", "broken"}, empty |-> TRUE]
NovaServiceRequires       == [hears |-> {"changed", "broken"}, empty |-> TRUE]
DomainConfigRequires      == [hears |-> {"changed", "broken"}, empty |-> TRUE]
IdentityEndpointsRequires == [hears |-> {"changed", "broken"}, empty |-> TRUE]
TrustedDashboardListens   == [hears |-> {"changed", "broken"}, empty |-> FALSE]
TrustedDashboardReads     == [hears |-> {"changed", "broken"}, empty |-> FALSE]
CORSOriginRequirer        == [hears |-> {"changed", "broken"}, empty |-> TRUE]
KeystoneSAMLRequirer      == [hears |-> {"changed", "broken"}, empty |-> FALSE]
ManilaRequires ==
    [hears |-> {"changed", "departed", "broken"}, empty |-> TRUE]
SwitchConfigRequires ==
    [hears |-> {"changed", "departed", "broken"}, empty |-> TRUE]

IdentityServiceRequires ==
    [hears |-> {"changed", "departed", "broken"}, empty |-> TRUE]
IdentityCredentialsRequires ==
    [hears |-> {"changed", "departed", "broken"}, empty |-> TRUE]
OVSDBCMSRequires ==
    [hears |-> {"changed", "departed", "broken"}, empty |-> FALSE]
CephAccessRequires ==
    [hears |-> {"changed", "departed", "broken"}, empty |-> FALSE]
StorageBackendProvides == [hears |-> {"changed"}, empty |-> FALSE]

-----------------------------------------------------------------------------
(* The providers' charms: what is written at a request, at the end of      *)
(* configure_charm, and in the hook that changes what is offered.          *)

MadeOnce(rq, cf) == [request |-> rq, configure |-> cf, change |-> "never",
                     absent |-> "never", plain |-> FALSE]

CeilometerOperatorCharm == MadeOnce("secret", "making")
GnocchiOperatorCharm    == MadeOnce("bootstrapped", "end")
PlacementOperatorCharm  == MadeOnce("bootstrapped", "healthy")
IronicReadiness         == MadeOnce("bootstrapped", "end")
MasakariReadiness       == MadeOnce("bootstrapped", "end")
\* Barbican tells its readiness at the end of configure_unit, come what may.
BarbicanReadiness       == MadeOnce("bootstrapped", "earlier")
CinderBackendApi        == MadeOnce("configures", "serving")
CinderVolumeCephAccess  == MadeOnce("serving", "end")
DesignateOperatorCharm ==
    [request |-> "value", configure |-> "never", change |-> "value",
     absent |-> "never", plain |-> FALSE]
NovaOperatorCharm ==
    [request |-> "value", configure |-> "secret", change |-> "secret",
     absent |-> "written", plain |-> FALSE]
KeystoneLDAPK8SCharm ==
    [request |-> "value", configure |-> "end", change |-> "end",
     absent |-> "kept", plain |-> FALSE]
\* A plausible mistake: clients that ask before keystone serves are forgotten.
EndpointsOnlyOnRequest ==
    [request |-> "serving", configure |-> "never", change |-> "serving",
     absent |-> "never", plain |-> FALSE]

KeystoneEndpoints ==
    [request |-> "serving", configure |-> "first", change |-> "serving",
     absent |-> "never", plain |-> FALSE]
KeystoneIdentity ==
    [request |-> "serving", configure |-> "first", change |-> "serving",
     absent |-> "never", plain |-> FALSE]
KeystoneCredentials ==
    [request |-> "serving", configure |-> "first", change |-> "serving",
     absent |-> "never", plain |-> FALSE]
KeystoneFederation ==
    [request |-> "value", configure |-> "never", change |-> "value",
     absent |-> "kept", plain |-> FALSE]
HorizonDashboard ==
    [request |-> "unguarded", configure |-> "serving", change |-> "serving",
     absent |-> "never", plain |-> FALSE]
HorizonOrigin ==
    [request |-> "configures", configure |-> "serving", change |-> "serving",
     absent |-> "never", plain |-> FALSE]
KeystoneSamlK8SCharm ==
    [request |-> "value", configure |-> "value", change |-> "value",
     absent |-> "kept", plain |-> TRUE]
ManilaShareCephfsCharm ==
    [request |-> "value", configure |-> "never", change |-> "value",
     absent |-> "written", plain |-> FALSE]
SwitchConfigCharm ==
    [request |-> "value", configure |-> "value", change |-> "value",
     absent |-> "kept", plain |-> TRUE]
NetconfSwitchConfigCharm ==
    [request |-> "value", configure |-> "value", change |-> "value",
     absent |-> "kept", plain |-> TRUE]
\* The library of the relay writes its address whenever a charm is made of it.
OvnRelayAddress ==
    [request |-> "configures", configure |-> "value", change |-> "value",
     absent |-> "kept", plain |-> FALSE]
OvnProxyStrings ==
    [request |-> "configures", configure |-> "value", change |-> "value",
     absent |-> "written", plain |-> FALSE]

-----------------------------------------------------------------------------
(* The clients' handlers: which events configure the client anew.          *)

CeilometerServiceRequiresHandler ==
    [calls |-> {"changed", "broken"}, drops |-> FALSE]
GnocchiServiceRequiresHandler ==
    [calls |-> {"changed", "broken"}, drops |-> TRUE]
ServiceReadinessRequiresHandler ==
    [calls |-> {"changed", "broken"}, drops |-> FALSE]
DesignateServiceRequiresHandler ==
    [calls |-> {"changed", "broken"}, drops |-> FALSE]
NovaServiceRequiresHandler ==
    [calls |-> {"changed", "broken"}, drops |-> FALSE]
DomainConfigHandler ==
    [calls |-> {"changed", "broken"}, drops |-> TRUE]
IdentityEndpointsRequiresHandler ==
    [calls |-> {"changed", "broken"}, drops |-> FALSE]
TrustedDashboardProvidesHandler ==
    [calls |-> {"changed"}, drops |-> FALSE]
TrustedDashboardRequiresHandler ==
    [calls |-> {"changed", "broken"}, drops |-> FALSE]
CORSOriginRequiresHandler ==
    [calls |-> {"changed", "broken"}, drops |-> FALSE]
KeystoneSAML2RequiresHandler ==
    [calls |-> {"changed", "broken"}, drops |-> TRUE]
ManilaRequiresHandler ==
    [calls |-> {"changed", "departed", "broken"}, drops |-> FALSE]
SwitchConfigRequiresHandler ==
    [calls |-> {"changed", "departed", "broken"}, drops |-> FALSE]
IdentityServiceRequiresHandler ==
    [calls |-> {"changed", "departed", "broken"}, drops |-> TRUE]
IdentityCredentialsRequiresHandler ==
    [calls |-> {"changed", "departed", "broken"}, drops |-> TRUE]
OVSDBCMSRequiresHandler ==
    [calls |-> {"changed", "departed", "broken"}, drops |-> TRUE]
CephAccessRequiresHandler ==
    [calls |-> {"changed", "departed", "broken"}, drops |-> TRUE]
StorageBackendProvidesHandler == [calls |-> {"changed"}, drops |-> FALSE]

Offer(l, c, r, h) == [library |-> l, charm |-> c, reader |-> r, handler |-> h]

Catalogue ==
    [ceilometer |-> Offer(CeilometerServiceProvides, CeilometerOperatorCharm,
                          CeilometerServiceRequires, CeilometerServiceRequiresHandler),
     gnocchi    |-> Offer(GnocchiServiceProvides, GnocchiOperatorCharm,
                          GnocchiServiceRequires, GnocchiServiceRequiresHandler),
     placement  |-> Offer(ServiceReadinessProvider, PlacementOperatorCharm,
                          ServiceReadinessRequirer, ServiceReadinessRequiresHandler),
     dnsaas     |-> Offer(DesignateServiceProvides, DesignateOperatorCharm,
                          DesignateServiceRequires, DesignateServiceRequiresHandler),
     nova       |-> Offer(NovaServiceProvides, NovaOperatorCharm,
                          NovaServiceRequires, NovaServiceRequiresHandler),
     domain     |-> Offer(DomainConfigProvides, KeystoneLDAPK8SCharm,
                          DomainConfigRequires, DomainConfigHandler),
     endpoints  |-> Offer(IdentityEndpointsProvides, KeystoneEndpoints,
                          IdentityEndpointsRequires, IdentityEndpointsRequiresHandler),
     federation |-> Offer(TrustedDashboardAsks, KeystoneFederation,
                          TrustedDashboardReads, TrustedDashboardProvidesHandler),
     dashboard  |-> Offer(TrustedDashboardAnnounces, HorizonDashboard,
                          TrustedDashboardListens, TrustedDashboardRequiresHandler),
     cors       |-> Offer(CORSOriginProvider, HorizonOrigin,
                          CORSOriginRequirer, CORSOriginRequiresHandler),
     saml       |-> Offer(KeystoneSAMLProvider, KeystoneSamlK8SCharm,
                          KeystoneSAMLRequirer, KeystoneSAML2RequiresHandler),
     manila     |-> Offer(ManilaProvides, ManilaShareCephfsCharm,
                          ManilaRequires, ManilaRequiresHandler),
     switches   |-> Offer(SwitchConfigProvides, SwitchConfigCharm,
                          SwitchConfigRequires, SwitchConfigRequiresHandler),
     netconf    |-> Offer(SwitchConfigProvides, NetconfSwitchConfigCharm,
                          SwitchConfigRequires, SwitchConfigRequiresHandler),
     ironic     |-> Offer(ServiceReadinessProvider, IronicReadiness,
                          ServiceReadinessRequirer, ServiceReadinessRequiresHandler),
     masakari   |-> Offer(ServiceReadinessProvider, MasakariReadiness,
                          ServiceReadinessRequirer, ServiceReadinessRequiresHandler),
     barbican   |-> Offer(ServiceReadinessProvider, BarbicanReadiness,
                          ServiceReadinessRequirer, ServiceReadinessRequiresHandler),
     identity   |-> Offer(IdentityServiceProvides, KeystoneIdentity,
                          IdentityServiceRequires, IdentityServiceRequiresHandler),
     credentials |-> Offer(IdentityCredentialsProvides, KeystoneCredentials,
                           IdentityCredentialsRequires, IdentityCredentialsRequiresHandler),
     relay      |-> Offer(OVSDBCMSProvides, OvnRelayAddress,
                          OVSDBCMSRequires, OVSDBCMSRequiresHandler),
     proxy      |-> Offer(OVSDBCMSProvides, OvnProxyStrings,
                          OVSDBCMSRequires, OVSDBCMSRequiresHandler),
     cephaccess |-> Offer(CephAccessProvides, CinderVolumeCephAccess,
                          CephAccessRequires, CephAccessRequiresHandler),
     storage    |-> Offer(StorageBackendRequires, CinderBackendApi,
                          StorageBackendProvides, StorageBackendProvidesHandler)]

OfferNames == DOMAIN Catalogue

ASSUME OffersAssumption ==
    /\ \A n \in OfferNames :
          Catalogue[n] \in [library : Library, charm : Charm,
                           reader : Reader, handler : Handler]
    /\ OfferPlans \subseteq [offer : OfferNames, faults : SUBSET OfferFaults]
    /\ PUnits # {} /\ MaxValue \in Nat \ {0} /\ MaxOFaults \in Nat

-----------------------------------------------------------------------------

VARIABLES
    oplan,     \* the offer and the faults of this behaviour
    relation,  \* "none", "up", "leaving" (departed), "gone" (broken)
    pleader,   \* the leader of the provider
    preadies,  \* the mandatory relations of the provider are ready
    booted,    \* booted[u]: u is bootstrapped
    announced, \* "leader_ready"
    made,      \* the secret of the application is in the peer databag
    value,     \* what the provider has to offer, or 0
    bag,       \* what its application databag offers, or 0
    pdue,      \* pdue[u]: the hooks that wait for u of the provider
    cdue,      \* the hooks that wait for the client
    used,      \* what the client is configured with, or 0
    readable,  \* the databag of a broken relation can still be read
    missed,    \* the leader has not written since it may have missed an event
    ofaults    \* faults so far

offerVars == <<oplan, relation, pleader, preadies, booted, announced, made,
               value, bag, pdue, cdue, used, readable, missed, ofaults>>

Chosen == Catalogue[oplan.offer]

ProviderHooks == {"request", "configure", "change"}

OffersTypeOK ==
    /\ oplan \in OfferPlans
    /\ relation \in {"none", "up", "leaving", "gone"}
    /\ pleader \in PUnits
    /\ {preadies, announced, made, readable, missed} \subseteq BOOLEAN
    /\ booted \in [PUnits -> BOOLEAN]
    /\ value \in 0 .. MaxValue /\ bag \in 0 .. MaxValue /\ used \in 0 .. MaxValue
    /\ pdue \in [PUnits -> SUBSET ProviderHooks]
    /\ cdue \subseteq ClientHooks
    /\ ofaults \in 0 .. MaxOFaults

OffersInit ==
    /\ oplan \in OfferPlans
    /\ relation = "none"
    /\ pleader = CHOOSE u \in PUnits : TRUE
    /\ preadies = FALSE
    /\ booted = [u \in PUnits |-> FALSE]
    /\ announced = FALSE /\ made = FALSE /\ missed = FALSE
    /\ value = IF Chosen.charm.absent = "never" THEN 1 ELSE 0
    /\ bag = 0 /\ used = 0
    /\ pdue = [u \in PUnits |-> {"configure"}]
    /\ cdue = {}
    /\ readable \in BOOLEAN
    /\ ofaults = 0

OFault(k) ==
    /\ k \in oplan.faults
    /\ ofaults < MaxOFaults
    /\ ofaults' = ofaults + 1

-----------------------------------------------------------------------------
(* The provider.                                                           *)

\* Charms with a secret of their own wait for their leader to make it.
HasSecret == "secret" \in {Chosen.charm.request, Chosen.charm.configure}

\* configure_charm of the base charm gets to configure_app, which for a
\* follower ends with "Leader not ready".
GetsThrough(u) ==
    \/ Chosen.charm.plain
    \/ preadies /\ (u = pleader \/ announced) /\ (HasSecret => made')

\* The libraries check is_leader() and look for the relation.
LeaderWrites(u) == u = pleader /\ relation = "up"

\* What the databag offers after rule r of unit u, in a hook after which the
\* secret and the bootstrap are as primed.
Written(r, u) ==
    LET serves == Chosen.charm.plain \/ (booted'[u] /\ announced')
        offers == CASE r = "never"  -> FALSE
                    [] r \in {"value", "bootstrapped", "unguarded"} -> TRUE
                    [] r = "secret"  -> made'
                    [] r = "making"  -> made' /\ ~ made
                    [] r \in {"end", "healthy"} -> GetsThrough(u)
                    [] r = "serving" -> serves
                    [] r = "earlier" -> TRUE
                    [] r = "first"   -> GetsThrough(u) /\ bag = 0
    IN  IF ~ offers \/ (value = 0 /\ Chosen.charm.absent = "kept") THEN bag
        ELSE IF r = "bootstrapped" /\ ~ serves THEN 0
        ELSE IF r = "earlier" /\ ~ (booted'[u] /\ announced) THEN 0
        ELSE value

\* The databag as the hook leaves it; a change of it is news for the client.
\* What was written before its time is not written again, nor is a change that
\* keystone's leader hears of before it serves, where an earlier one has written.
Publish(u, r) ==
    /\ bag' = IF LeaderWrites(u) THEN Written(r, u) ELSE bag
    /\ cdue' = IF bag' # bag THEN cdue \cup {"changed"} ELSE cdue
    /\ LET early == Chosen.charm.configure = "earlier" /\ announced' # announced
           late  == /\ Chosen.charm.configure = "first" /\ r = "serving"
                    /\ u = pleader /\ bag' \notin {0, value}
       IN  missed' = ((missed \/ early \/ late)
                        /\ ~ (LeaderWrites(u) /\ Written(r, u) = value))

\* configure_charm, first of the charm itself, then of the base charm, whose
\* guard ends it early.  post_config_setup of placement asks its own API.
ConfigureProvider(u, rule) ==
    /\ made' = (made \/ (u = pleader /\ HasSecret))
    /\ booted' = [booted EXCEPT ![u] = @ \/ GetsThrough(u)]
    /\ announced' = (announced \/ (u = pleader /\ GetsThrough(u)))
    /\ \/ Publish(u, rule) /\ UNCHANGED ofaults
       \/ /\ rule = "healthy"
          /\ OFault("unwell")
          /\ missed' = TRUE
          /\ UNCHANGED <<bag, cdue>>

\* Only an announcement that is new wakes the other unit.
ProviderConfigures(u) ==
    /\ "configure" \in pdue[u]
    /\ ConfigureProvider(u, Chosen.charm.configure)
    /\ pdue' = [v \in PUnits |->
                  IF v = u THEN pdue[v] \ {"configure"}
                  ELSE IF announced' # announced \/ made' # made
                         THEN pdue[v] \cup {"configure"} ELSE pdue[v]]
    /\ UNCHANGED <<oplan, relation, pleader, preadies, value, used, readable>>

\* An ingress, an option or a relation has changed what is on offer.
ProviderChanges(u) ==
    /\ "change" \in pdue[u]
    /\ ConfigureProvider(u, Chosen.charm.change)
    /\ pdue' = [v \in PUnits |->
                  IF v = u THEN pdue[v] \ {"change"}
                  ELSE IF announced' # announced \/ made' # made
                         THEN pdue[v] \cup {"configure"} ELSE pdue[v]]
    /\ UNCHANGED <<oplan, relation, pleader, preadies, value, used, readable>>

\* The client has come: the library asks the charm.  Horizon writes, and then
\* configures its unit.
ProviderAnswers(u) ==
    /\ "request" \in pdue[u]
    /\ \/ /\ Chosen.charm.request = "configures"
          /\ ConfigureProvider(u, Chosen.charm.configure)
       \/ /\ Chosen.charm.request # "configures"
          /\ IF Chosen.charm.request = "unguarded"
               THEN /\ preadies /\ (u = pleader \/ announced)
                    /\ booted' = [booted EXCEPT ![u] = TRUE]
               ELSE UNCHANGED booted
          /\ UNCHANGED <<announced, made, ofaults>>
          /\ Publish(u, Chosen.charm.request)
    /\ pdue' = [v \in PUnits |->
                  IF v = u THEN pdue[v] \ {"request"}
                  ELSE IF announced' # announced THEN pdue[v] \cup {"configure"}
                  ELSE pdue[v]]
    /\ UNCHANGED <<oplan, relation, pleader, preadies, value, used, readable>>

\* A hook that fails is run again before any other of its unit.
Stuck(u) ==
    /\ "request" \in pdue[u]
    /\ Chosen.charm.request = "unguarded"

ProviderHook(u) ==
    \/ ProviderAnswers(u)
    \/ ~ Stuck(u) /\ (ProviderConfigures(u) \/ ProviderChanges(u))

-----------------------------------------------------------------------------
(* The client.                                                             *)

\* What a hook of the client reads.
Read(hook) ==
    IF relation = "gone" /\ (hook # "broken" \/ ~ readable \/ Chosen.handler.drops)
      THEN 0 ELSE bag

\* The library makes an event of the hook, and the handler configures the charm.
Tells(hook) ==
    /\ hook \in Chosen.reader.hears \cap Chosen.handler.calls
    /\ Chosen.reader.empty \/ hook = "broken" \/ Read(hook) # 0

\* Relation hooks of a departed relation are dropped, except for the last.
ClientHook(hook) ==
    /\ hook \in cdue
    /\ hook = "broken" => "departed" \notin cdue
    /\ cdue' = cdue \ {hook}
    /\ used' = IF Tells(hook) THEN Read(hook) ELSE used
    /\ UNCHANGED <<oplan, relation, pleader, preadies, booted, announced, made,
                   value, bag, pdue, readable, missed, ofaults>>

-----------------------------------------------------------------------------
(* The environment.                                                        *)

Relate ==
    /\ relation = "none"
    /\ relation' = "up"
    /\ pdue' = [u \in PUnits |-> pdue[u] \cup {"request"}]
    /\ cdue' = cdue \cup {"changed"}
    /\ UNCHANGED <<oplan, pleader, preadies, booted, announced, made, value,
                   bag, used, readable, missed, ofaults>>

\* The relation is removed: departed comes for its units, broken at its end.
Unrelate ==
    /\ OFault("remove")
    /\ \/ /\ relation = "up"
          /\ relation' = "leaving"
          /\ cdue' = {"departed"}
       \/ /\ relation = "leaving" /\ cdue = {}
          /\ relation' = "gone"
          /\ cdue' = {"broken"}
    /\ pdue' = [u \in PUnits |-> pdue[u] \ {"request"}]
    /\ UNCHANGED <<oplan, pleader, preadies, booted, announced, made, value,
                   bag, used, readable, missed>>

ProviderRelations ==
    /\ \/ ~ preadies /\ UNCHANGED ofaults
       \/ preadies /\ OFault("relations")
    /\ preadies' = ~ preadies
    /\ pdue' = [u \in PUnits |-> pdue[u] \cup {"configure"}]
    /\ UNCHANGED <<oplan, relation, pleader, booted, announced, made, value,
                   bag, cdue, used, readable, missed>>

\* A new value, or none.  Endpoints are registered by keystone's own leader,
\* which tells its clients in the same hook.
ValueChanges ==
    /\ OFault("value")
    /\ Chosen.charm.change # "never"
    /\ \/ value < MaxValue /\ value' = value + 1
       \/ Chosen.charm.absent # "never" /\ value > 0 /\ value' = 0
    /\ IF oplan.offer = "endpoints"
         THEN /\ booted[pleader] /\ announced
              /\ bag' = IF relation = "up" THEN value' ELSE bag
              /\ cdue' = IF relation = "up" THEN cdue \cup {"changed"} ELSE cdue
              /\ UNCHANGED pdue
         ELSE /\ pdue' = [u \in PUnits |-> pdue[u] \cup {"change"}]
              /\ UNCHANGED <<bag, cdue>>
    /\ UNCHANGED <<oplan, relation, pleader, preadies, booted, announced, made,
                   used, readable, missed>>

ConfiguredAgain ==
    /\ OFault("again")
    /\ \E u \in PUnits : pdue' = [pdue EXCEPT ![u] = @ \cup {"configure"}]
    /\ UNCHANGED <<oplan, relation, pleader, preadies, booted, announced, made,
                   value, bag, cdue, used, readable, missed>>

\* No handler observes leader-elected.  What the old leader had yet to do is
\* missed where the new one has done its part already, as a follower.
ProviderElects ==
    /\ OFault("elect")
    /\ \E u \in PUnits \ {pleader} :
          /\ pleader' = u
          /\ missed' = \/ missed
                       \/ ~ (pdue[pleader] \subseteq pdue[u])
                       \/ ~ booted[u] /\ "configure" \notin pdue[u]
    /\ UNCHANGED <<oplan, relation, preadies, booted, announced, made, value,
                   bag, pdue, cdue, used, readable>>

OffersNext ==
    \/ \E u \in PUnits : ProviderHook(u)
    \/ \E hook \in ClientHooks : ClientHook(hook)
    \/ Relate \/ Unrelate \/ ProviderRelations
    \/ ValueChanges \/ ConfiguredAgain \/ ProviderElects

OffersSpec == OffersInit /\ [][OffersNext]_offerVars

-----------------------------------------------------------------------------
(* Properties.                                                             *)

OffersAtRest == cdue = {} /\ \A u \in PUnits : pdue[u] = {}

\* The provider has got as far as it can.
ProviderServes ==
    Chosen.charm.plain \/ (preadies /\ booted[pleader] /\ announced)

\* The handlers of horizon, for identity providers, and of cinder-volume, for
\* the storage API, are not called when there is no offer any more.
Deaf == {"federation", "storage"}

\* The client can tell that a relation is gone in the hook that says so: ops
\* hides it, or the client leaves it out itself (check_broken_relations).
NoticesRemoval == oplan.offer \notin Deaf /\ (~ readable \/ Chosen.handler.drops)

\* What is offered arrives: when no hook waits, a provider that serves has
\* written what it offers, in whatever order the relation, its bootstrap, its
\* secret and the changes came about (no request and no update is lost but by
\* an election, an API that does not answer, for barbican the bootstrap itself,
\* or a change that keystone's leader hears of before it serves), and the client is configured with what is written, except for one
\* that does not listen to a databag without an offer; nor does it go on with
\* what a removed relation has offered.
OffersArrive ==
    OffersAtRest =>
        /\ relation = "up" =>
              /\ ~ missed /\ ProviderServes =>
                    \/ bag = value
                    \/ value = 0 /\ Chosen.charm.absent = "kept"
              /\ used = bag \/ (bag = 0 /\ ~ Chosen.reader.empty)
        /\ relation = "gone" /\ NoticesRemoval => used = 0
=============================================================================
