------------------------------ MODULE OperatorProofs ------------------------------
(***************************************************************************)
(* The charms of the services and what they offer each other.             *)
(* ServiceOffers: its types; that what is offered arrives.  ApiCharms: its *)
(* types; that services run only where they may; that a unit that has all *)
(* it needs has converged when no event waits.  Both for every charm and   *)
(* every offer of the catalogues, with any number of units, configurations *)
(* and faults.                                                             *)
(***************************************************************************)
EXTENDS ApiCharms, ServiceOffers, SequenceTheorems, TLAPS

-----------------------------------------------------------------------------
(* The manners of the catalogue.                                           *)

\* How a charm of the catalogue writes an offer: the rules of its hooks go
\* together in nine ways.
Manners(c) ==
  \/ c.configure = "never" /\ c.request = "value" /\ c.change = "value"
  \/ c.configure = "making" /\ c.request = "secret" /\ c.change = "never" /\ ~ c.plain
  \/ c.configure = "first" /\ c.request = "serving" /\ c.change = "serving"
     /\ c.absent = "never"
  \/ c.configure = "earlier" /\ c.request = "bootstrapped" /\ c.change = "never"
     /\ c.absent = "never" /\ ~ c.plain
  \/ c.configure = "healthy" /\ c.request = "bootstrapped" /\ c.change = "never"
  \/ c.configure = "end" /\ c.request \in {"value", "bootstrapped", "serving"}
     /\ c.change \in {"never", "end"}
  \/ c.configure = "secret" /\ c.request = "value" /\ c.change = "secret"
  \/ c.configure = "serving" /\ c.request \in {"configures", "unguarded"}
     /\ c.change \in {"never", "serving"}
  \/ c.configure = "value" /\ c.request \in {"configures", "value"} /\ c.change = "value"

LEMMA CataloguePieces ==
    ASSUME NEW n \in OfferNames
    PROVE  LET o == Catalogue[n]
           IN  /\ "changed" \in o.reader.hears \cap o.handler.calls
               /\ n \notin {"federation", "storage"}
                  => "broken" \in o.reader.hears \cap o.handler.calls
               /\ n = "endpoints" => o.charm.configure = "first"
               /\ Manners(o.charm)
<1>1. n = "ceilometer" \/ n = "gnocchi" \/ n = "placement" \/ n = "dnsaas" \/ n = "nova"
      \/ n = "domain" \/ n = "endpoints" \/ n = "federation" \/ n = "dashboard" \/ n = "cors"
      \/ n = "saml" \/ n = "manila" \/ n = "switches" \/ n = "netconf" \/ n = "ironic"
      \/ n = "masakari" \/ n = "barbican" \/ n = "identity" \/ n = "credentials"
      \/ n = "relay" \/ n = "proxy" \/ n = "cephaccess" \/ n = "storage"
  BY DEF OfferNames, Catalogue
<1>2. CASE n = "ceilometer"
  <2>1. Catalogue[n] = Offer(CeilometerServiceProvides, CeilometerOperatorCharm,
                             CeilometerServiceRequires, CeilometerServiceRequiresHandler)
    BY <1>2 DEF Catalogue
  <2> QED  BY <1>2, <2>1 DEF Offer, Manners, MadeOnce, CeilometerOperatorCharm,
                  CeilometerServiceRequires, CeilometerServiceRequiresHandler
<1>3. CASE n = "gnocchi"
  <2>1. Catalogue[n] = Offer(GnocchiServiceProvides, GnocchiOperatorCharm,
                             GnocchiServiceRequires, GnocchiServiceRequiresHandler)
    BY <1>3 DEF Catalogue
  <2> QED  BY <1>3, <2>1 DEF Offer, Manners, MadeOnce, GnocchiOperatorCharm,
                  GnocchiServiceRequires, GnocchiServiceRequiresHandler
<1>4. CASE n = "placement"
  <2>1. Catalogue[n] = Offer(ServiceReadinessProvider, PlacementOperatorCharm,
                             ServiceReadinessRequirer, ServiceReadinessRequiresHandler)
    BY <1>4 DEF Catalogue
  <2> QED  BY <1>4, <2>1 DEF Offer, Manners, MadeOnce, PlacementOperatorCharm,
                  ServiceReadinessRequirer, ServiceReadinessRequiresHandler
<1>5. CASE n = "dnsaas"
  <2>1. Catalogue[n] = Offer(DesignateServiceProvides, DesignateOperatorCharm,
                             DesignateServiceRequires, DesignateServiceRequiresHandler)
    BY <1>5 DEF Catalogue
  <2> QED  BY <1>5, <2>1 DEF Offer, Manners, DesignateOperatorCharm,
                  DesignateServiceRequires, DesignateServiceRequiresHandler
<1>6. CASE n = "nova"
  <2>1. Catalogue[n] = Offer(NovaServiceProvides, NovaOperatorCharm,
                             NovaServiceRequires, NovaServiceRequiresHandler)
    BY <1>6 DEF Catalogue
  <2> QED  BY <1>6, <2>1 DEF Offer, Manners, NovaOperatorCharm,
                  NovaServiceRequires, NovaServiceRequiresHandler
<1>7. CASE n = "domain"
  <2>1. Catalogue[n] = Offer(DomainConfigProvides, KeystoneLDAPK8SCharm,
                             DomainConfigRequires, DomainConfigHandler)
    BY <1>7 DEF Catalogue
  <2> QED  BY <1>7, <2>1 DEF Offer, Manners, KeystoneLDAPK8SCharm,
                  DomainConfigRequires, DomainConfigHandler
<1>8. CASE n = "endpoints"
  <2>1. Catalogue[n] = Offer(IdentityEndpointsProvides, KeystoneEndpoints,
                             IdentityEndpointsRequires, IdentityEndpointsRequiresHandler)
    BY <1>8 DEF Catalogue
  <2> QED  BY <1>8, <2>1 DEF Offer, Manners, KeystoneEndpoints,
                  IdentityEndpointsRequires, IdentityEndpointsRequiresHandler
<1>9. CASE n = "federation"
  <2>1. Catalogue[n] = Offer(TrustedDashboardAsks, KeystoneFederation,
                             TrustedDashboardReads, TrustedDashboardProvidesHandler)
    BY <1>9 DEF Catalogue
  <2> QED  BY <1>9, <2>1 DEF Offer, Manners, KeystoneFederation,
                  TrustedDashboardReads, TrustedDashboardProvidesHandler
<1>10. CASE n = "dashboard"
  <2>1. Catalogue[n] = Offer(TrustedDashboardAnnounces, HorizonDashboard,
                             TrustedDashboardListens, TrustedDashboardRequiresHandler)
    BY <1>10 DEF Catalogue
  <2> QED  BY <1>10, <2>1 DEF Offer, Manners, HorizonDashboard,
                  TrustedDashboardListens, TrustedDashboardRequiresHandler
<1>11. CASE n = "cors"
  <2>1. Catalogue[n] = Offer(CORSOriginProvider, HorizonOrigin,
                             CORSOriginRequirer, CORSOriginRequiresHandler)
    BY <1>11 DEF Catalogue
  <2> QED  BY <1>11, <2>1 DEF Offer, Manners, HorizonOrigin,
                  CORSOriginRequirer, CORSOriginRequiresHandler
<1>12. CASE n = "saml"
  <2>1. Catalogue[n] = Offer(KeystoneSAMLProvider, KeystoneSamlK8SCharm,
                             KeystoneSAMLRequirer, KeystoneSAML2RequiresHandler)
    BY <1>12 DEF Catalogue
  <2> QED  BY <1>12, <2>1 DEF Offer, Manners, KeystoneSamlK8SCharm,
                  KeystoneSAMLRequirer, KeystoneSAML2RequiresHandler
<1>13. CASE n = "manila"
  <2>1. Catalogue[n] = Offer(ManilaProvides, ManilaShareCephfsCharm,
                             ManilaRequires, ManilaRequiresHandler)
    BY <1>13 DEF Catalogue
  <2> QED  BY <1>13, <2>1 DEF Offer, Manners, ManilaShareCephfsCharm,
                  ManilaRequires, ManilaRequiresHandler
<1>14. CASE n = "switches"
  <2>1. Catalogue[n] = Offer(SwitchConfigProvides, SwitchConfigCharm,
                             SwitchConfigRequires, SwitchConfigRequiresHandler)
    BY <1>14 DEF Catalogue
  <2> QED  BY <1>14, <2>1 DEF Offer, Manners, SwitchConfigCharm,
                  SwitchConfigRequires, SwitchConfigRequiresHandler
<1>15. CASE n = "netconf"
  <2>1. Catalogue[n] = Offer(SwitchConfigProvides, NetconfSwitchConfigCharm,
                             SwitchConfigRequires, SwitchConfigRequiresHandler)
    BY <1>15 DEF Catalogue
  <2> QED  BY <1>15, <2>1 DEF Offer, Manners, NetconfSwitchConfigCharm,
                  SwitchConfigRequires, SwitchConfigRequiresHandler
<1>16. CASE n = "ironic"
  <2>1. Catalogue[n] = Offer(ServiceReadinessProvider, IronicReadiness,
                             ServiceReadinessRequirer, ServiceReadinessRequiresHandler)
    BY <1>16 DEF Catalogue
  <2> QED  BY <1>16, <2>1 DEF Offer, Manners, MadeOnce, IronicReadiness,
                  ServiceReadinessRequirer, ServiceReadinessRequiresHandler
<1>17. CASE n = "masakari"
  <2>1. Catalogue[n] = Offer(ServiceReadinessProvider, MasakariReadiness,
                             ServiceReadinessRequirer, ServiceReadinessRequiresHandler)
    BY <1>17 DEF Catalogue
  <2> QED  BY <1>17, <2>1 DEF Offer, Manners, MadeOnce, MasakariReadiness,
                  ServiceReadinessRequirer, ServiceReadinessRequiresHandler
<1>18. CASE n = "barbican"
  <2>1. Catalogue[n] = Offer(ServiceReadinessProvider, BarbicanReadiness,
                             ServiceReadinessRequirer, ServiceReadinessRequiresHandler)
    BY <1>18 DEF Catalogue
  <2> QED  BY <1>18, <2>1 DEF Offer, Manners, MadeOnce, BarbicanReadiness,
                  ServiceReadinessRequirer, ServiceReadinessRequiresHandler
<1>19. CASE n = "identity"
  <2>1. Catalogue[n] = Offer(IdentityServiceProvides, KeystoneIdentity,
                             IdentityServiceRequires, IdentityServiceRequiresHandler)
    BY <1>19 DEF Catalogue
  <2> QED  BY <1>19, <2>1 DEF Offer, Manners, KeystoneIdentity,
                  IdentityServiceRequires, IdentityServiceRequiresHandler
<1>20. CASE n = "credentials"
  <2>1. Catalogue[n] = Offer(IdentityCredentialsProvides, KeystoneCredentials,
                             IdentityCredentialsRequires, IdentityCredentialsRequiresHandler)
    BY <1>20 DEF Catalogue
  <2> QED  BY <1>20, <2>1 DEF Offer, Manners, KeystoneCredentials,
                  IdentityCredentialsRequires, IdentityCredentialsRequiresHandler
<1>21. CASE n = "relay"
  <2>1. Catalogue[n] = Offer(OVSDBCMSProvides, OvnRelayAddress,
                             OVSDBCMSRequires, OVSDBCMSRequiresHandler)
    BY <1>21 DEF Catalogue
  <2> QED  BY <1>21, <2>1 DEF Offer, Manners, OvnRelayAddress,
                  OVSDBCMSRequires, OVSDBCMSRequiresHandler
<1>22. CASE n = "proxy"
  <2>1. Catalogue[n] = Offer(OVSDBCMSProvides, OvnProxyStrings,
                             OVSDBCMSRequires, OVSDBCMSRequiresHandler)
    BY <1>22 DEF Catalogue
  <2> QED  BY <1>22, <2>1 DEF Offer, Manners, OvnProxyStrings,
                  OVSDBCMSRequires, OVSDBCMSRequiresHandler
<1>23. CASE n = "cephaccess"
  <2>1. Catalogue[n] = Offer(CephAccessProvides, CinderVolumeCephAccess,
                             CephAccessRequires, CephAccessRequiresHandler)
    BY <1>23 DEF Catalogue
  <2> QED  BY <1>23, <2>1 DEF Offer, Manners, MadeOnce, CinderVolumeCephAccess,
                  CephAccessRequires, CephAccessRequiresHandler
<1>24. CASE n = "storage"
  <2>1. Catalogue[n] = Offer(StorageBackendRequires, CinderBackendApi,
                             StorageBackendProvides, StorageBackendProvidesHandler)
    BY <1>24 DEF Catalogue
  <2> QED  BY <1>24, <2>1 DEF Offer, Manners, MadeOnce, CinderBackendApi,
                  StorageBackendProvides, StorageBackendProvidesHandler
<1> QED
  BY <1>1, <1>2, <1>3, <1>4, <1>5, <1>6, <1>7, <1>8, <1>9, <1>10, <1>11,
     <1>12, <1>13, <1>14, <1>15, <1>16, <1>17, <1>18, <1>19, <1>20, <1>21,
     <1>22, <1>23, <1>24

\* The same of the offer of a behaviour.
LEMMA OfferPieces ==
    ASSUME oplan \in OfferPlans
    PROVE  /\ Chosen.charm \in Charm /\ Manners(Chosen.charm)
           /\ Chosen.reader.empty \in BOOLEAN
           /\ "changed" \in Chosen.reader.hears \cap Chosen.handler.calls
           /\ oplan.offer \notin Deaf
                 => "broken" \in Chosen.reader.hears \cap Chosen.handler.calls
           /\ oplan.offer = "endpoints" => Chosen.charm.configure = "first"
<1>1. oplan.offer \in OfferNames
  BY OffersAssumption
<1>2. Chosen \in [library : Library, charm : Charm, reader : Reader, handler : Handler]
  BY <1>1, OffersAssumption DEF Chosen
<1>3. Chosen.charm \in Charm /\ Chosen.reader.empty \in BOOLEAN
  BY <1>2 DEF Reader
<1> QED  BY <1>1, <1>3, CataloguePieces DEF Chosen, Deaf

-----------------------------------------------------------------------------
(* A hook of the provider.                                                 *)

\* A request that is not guarded configures the unit.
BootedByRequest(u, r) ==
    booted' = IF r = "unguarded" THEN [booted EXCEPT ![u] = TRUE] ELSE booted

\* Rule r of hook h, which unit u of the provider runs.
HookOf(u, h, r) ==
    /\ h \in pdue[u]
    /\ pdue' \in [PUnits -> SUBSET ProviderHooks]
    /\ pdue'[u] = pdue[u] \ {h}
    /\ \A v \in PUnits \ {u} :
          pdue[v] \subseteq pdue'[v] /\ pdue'[v] \subseteq pdue[v] \cup {"configure"}
    /\ UNCHANGED <<oplan, relation, pleader, preadies, value, used, readable>>
    /\ \/ /\ \/ h = "configure" /\ r = Chosen.charm.configure
             \/ h = "change" /\ r = Chosen.charm.change
             \/ /\ h = "request" /\ Chosen.charm.request = "configures"
                /\ r = Chosen.charm.configure
          /\ ConfigureProvider(u, r)
       \/ /\ h = "request" /\ r = Chosen.charm.request /\ r # "configures"
          /\ BootedByRequest(u, r)
          /\ UNCHANGED <<announced, made, ofaults>>
          /\ Publish(u, r)

LEMMA HookHasRule ==
    ASSUME OffersTypeOK, NEW u \in PUnits, ProviderHook(u)
    PROVE  \E h \in ProviderHooks, r \in Rules : HookOf(u, h, r)
<1>1. Chosen.charm \in Charm /\ pdue \in [PUnits -> SUBSET ProviderHooks]
  BY OfferPieces DEF OffersTypeOK
<1>2. CASE ProviderConfigures(u)
  <2>1. HookOf(u, "configure", Chosen.charm.configure)
    BY <1>1, <1>2 DEF HookOf, ProviderConfigures, ProviderHooks
  <2> QED  BY <1>1, <2>1 DEF ProviderHooks, Charm
<1>3. CASE ProviderChanges(u)
  <2>1. HookOf(u, "change", Chosen.charm.change)
    BY <1>1, <1>3 DEF HookOf, ProviderChanges, ProviderHooks
  <2> QED  BY <1>1, <2>1 DEF ProviderHooks, Charm
<1>4. CASE ProviderAnswers(u)
  <2>1. CASE Chosen.charm.request = "configures"
        /\ ConfigureProvider(u, Chosen.charm.configure)
    <3>1. HookOf(u, "request", Chosen.charm.configure)
      BY <1>1, <1>4, <2>1 DEF HookOf, ProviderAnswers, ProviderHooks
    <3> QED  BY <1>1, <3>1 DEF ProviderHooks, Charm
  <2>2. CASE /\ Chosen.charm.request # "configures"
             /\ BootedByRequest(u, Chosen.charm.request)
             /\ UNCHANGED <<announced, made, ofaults>>
             /\ Publish(u, Chosen.charm.request)
    <3>1. HookOf(u, "request", Chosen.charm.request)
      BY <1>1, <1>4, <2>2 DEF HookOf, ProviderAnswers, ProviderHooks
    <3> QED  BY <1>1, <3>1 DEF ProviderHooks, Charm
  <2> QED  BY <1>4, <2>1, <2>2 DEF ProviderAnswers, BootedByRequest
<1> QED  BY <1>2, <1>3, <1>4 DEF ProviderHook

\* What is written is nothing, the value or what was there.
LEMMA WrittenType ==
    ASSUME OffersTypeOK, NEW u \in PUnits, NEW r \in Rules
    PROVE  Written(r, u) \in {0, value, bag}
BY DEF Written, Rules

\* Only the leader writes; what it writes is news; it has missed nothing once it
\* has written the value.
LEMMA PublishEffect ==
    ASSUME OffersTypeOK, NEW u \in PUnits, NEW r \in Rules, Publish(u, r)
    PROVE  /\ bag' \in {0, value, bag} /\ cdue' \subseteq ClientHooks
           /\ missed' \in BOOLEAN
           /\ bag' # bag => /\ u = pleader /\ relation = "up"
                           /\ cdue' = cdue \cup {"changed"}
           /\ bag' = bag => cdue' = cdue
           /\ ~ missed' => ~ missed \/ (u = pleader /\ relation = "up" /\ bag' = value)
           /\ u = pleader /\ relation = "up" => bag' = Written(r, u)
<1>1. Written(r, u) \in {0, value, bag}
  BY WrittenType
<1> QED
  BY <1>1 DEF Publish, LeaderWrites, OffersTypeOK, ClientHooks

LEMMA ConfigureEffect ==
    ASSUME OffersTypeOK, NEW u \in PUnits, NEW r \in Rules, ConfigureProvider(u, r)
    PROVE  /\ {made', announced'} \subseteq BOOLEAN
           /\ booted' = [booted EXCEPT ![u] = @ \/ GetsThrough(u)]
           /\ made' = (made \/ (u = pleader /\ HasSecret))
           /\ announced' = (announced \/ (u = pleader /\ GetsThrough(u)))
           /\ \/ Publish(u, r) /\ ofaults' = ofaults
              \/ /\ missed' = TRUE /\ bag' = bag /\ cdue' = cdue
                 /\ ofaults' \in 0 .. MaxOFaults
<1>1. {made, announced} \subseteq BOOLEAN /\ ofaults \in 0 .. MaxOFaults
  BY DEF OffersTypeOK
<1>2. MaxOFaults \in Nat
  BY OffersAssumption
<1>3. (u = pleader /\ HasSecret) \in BOOLEAN /\ (u = pleader /\ GetsThrough(u)) \in BOOLEAN
  OBVIOUS
<1>4. {made', announced'} \subseteq BOOLEAN
  BY <1>1, <1>3 DEF ConfigureProvider
<1> QED  BY <1>1, <1>2, <1>4 DEF ConfigureProvider, OFault

LEMMA HookTypes ==
    ASSUME OffersTypeOK, NEW u \in PUnits, NEW h \in ProviderHooks, NEW r \in Rules,
           HookOf(u, h, r)
    PROVE  OffersTypeOK'
<1>1. MaxValue \in Nat /\ MaxOFaults \in Nat
  BY OffersAssumption
<1>2. CASE ConfigureProvider(u, r)
  <2>1. GetsThrough(u) \in BOOLEAN
    BY DEF GetsThrough
  <2>2. booted' \in [PUnits -> BOOLEAN]
    BY <1>2, <2>1, ConfigureEffect DEF OffersTypeOK
  <2>3. bag' \in {0, value, bag} /\ cdue' \subseteq ClientHooks /\ missed' \in BOOLEAN
        /\ ofaults' \in 0 .. MaxOFaults /\ {made', announced'} \subseteq BOOLEAN
    BY <1>2, ConfigureEffect, PublishEffect DEF OffersTypeOK
  <2> QED  BY <1>1, <2>2, <2>3 DEF OffersTypeOK, HookOf
<1>3. CASE BootedByRequest(u, r) /\ UNCHANGED <<announced, made, ofaults>> /\ Publish(u, r)
  <2>0. booted' \in [PUnits -> BOOLEAN]
    BY <1>3 DEF BootedByRequest, OffersTypeOK
  <2>1. bag' \in {0, value, bag} /\ cdue' \subseteq ClientHooks /\ missed' \in BOOLEAN
    BY <1>3, PublishEffect
  <2> QED  BY <1>1, <1>3, <2>0, <2>1 DEF OffersTypeOK, HookOf
<1> QED  BY <1>2, <1>3 DEF HookOf

\* Secret, announcement and bootstrap, which only grow.
LEMMA HookBoots ==
    ASSUME OffersTypeOK, NEW u \in PUnits, NEW h \in ProviderHooks, NEW r \in Rules,
           HookOf(u, h, r)
    PROVE  /\ made => made'
           /\ announced => announced'
           /\ u # pleader => made' = made /\ announced' = announced
           /\ \A v \in PUnits \ {u} : booted'[v] = booted[v]
           /\ booted[u] => booted'[u]
           /\ booted'[u] /\ ~ Chosen.charm.plain
                 => \/ booted[u] \/ Chosen.charm.request = "unguarded"
                    \/ announced' /\ (HasSecret => made')
           /\ u = pleader /\ preadies /\ h # "request" => booted'[u] /\ announced'
<1>1. booted \in [PUnits -> BOOLEAN] /\ {made, announced} \subseteq BOOLEAN
  BY DEF OffersTypeOK
<1>2. CASE ConfigureProvider(u, r)
  <2>1. /\ booted' = [booted EXCEPT ![u] = @ \/ GetsThrough(u)]
        /\ made' = (made \/ (u = pleader /\ HasSecret))
        /\ announced' = (announced \/ (u = pleader /\ GetsThrough(u)))
    BY <1>2, ConfigureEffect
  <2>2. booted'[u] = (booted[u] \/ GetsThrough(u))
    BY <1>1, <2>1
  <2>3. GetsThrough(u) /\ ~ Chosen.charm.plain
          => announced' /\ (HasSecret => made')
    BY <1>1, <2>1 DEF GetsThrough
  <2>4. u = pleader /\ preadies => GetsThrough(u)
    BY <1>1, <2>1 DEF GetsThrough
  <2> QED  BY <1>1, <2>1, <2>2, <2>3, <2>4
<1>3. CASE /\ BootedByRequest(u, r) /\ UNCHANGED <<announced, made, ofaults>>
           /\ h = "request" /\ r = Chosen.charm.request
  BY <1>1, <1>3 DEF BootedByRequest
<1> QED  BY <1>2, <1>3 DEF HookOf

\* What the leader may miss, and what reaches the client.
LEMMA HookPublishes ==
    ASSUME OffersTypeOK, NEW u \in PUnits, NEW h \in ProviderHooks, NEW r \in Rules,
           HookOf(u, h, r)
    PROVE  /\ bag' # bag => /\ u = pleader /\ relation = "up"
                           /\ cdue' = cdue \cup {"changed"}
           /\ bag' = bag => cdue' = cdue
           /\ ~ missed' => ~ missed \/ (u = pleader /\ relation = "up" /\ bag' = value)
           /\ ~ missed' => Publish(u, r)
           /\ u = pleader /\ relation = "up" /\ ~ missed' => bag' = Written(r, u)
<1>1. \/ Publish(u, r)
      \/ missed' = TRUE /\ bag' = bag /\ cdue' = cdue
  BY ConfigureEffect DEF HookOf
<1> QED  BY <1>1, PublishEffect

\* Nothing is on offer that the databag would have to say.
Told(b) == b = value \/ (value = 0 /\ Chosen.charm.absent = "kept")

\* A value is withdrawn only where the absence of one is written or kept, and the
\* other values and their hooks.
ValueInv ==
    /\ Chosen.charm.absent = "never" => value # 0
    /\ Chosen.charm.change = "never" => \A u \in PUnits : "change" \notin pdue[u]
    /\ ~ Chosen.charm.plain /\ Chosen.charm.request # "unguarded" =>
          \A u \in PUnits : booted[u] => announced /\ (HasSecret => made)

\* ProviderServes, after a hook.
ServesThen == Chosen.charm.plain \/ (preadies /\ booted'[pleader] /\ announced')

\* The leader's hooks, by the manner of the charm.
LEMMA LeaderTells ==
    ASSUME OffersTypeOK, ValueInv,
           NEW h \in ProviderHooks, NEW r \in Rules, HookOf(pleader, h, r),
           relation = "up", ~ missed'
    PROVE  /\ Chosen.charm.configure = "never" =>
                 IF h = "configure" THEN bag' = bag ELSE Told(bag')
           /\ Chosen.charm.configure = "making" =>
                 /\ h = "request" /\ made' => Told(bag')
                 /\ h = "configure" => IF made THEN bag' = bag ELSE Told(bag')
           /\ Chosen.charm.configure = "first" =>
                 /\ h = "configure" => bag' = bag \/ Told(bag')
                 /\ h # "configure" => bag' = 0 \/ Told(bag')
           /\ /\ Chosen.charm.configure \notin {"never", "making"}
              /\ ServesThen
              => \/ Told(bag')
                 \/ Chosen.charm.configure = "first" /\ h = "configure" /\ bag # 0
<1> DEFINE c == Chosen.charm
<1>1. Manners(c) /\ c \in Charm
  BY OfferPieces DEF OffersTypeOK
<1>2. pleader \in PUnits /\ bag' = Written(r, pleader) /\ Publish(pleader, r)
  BY HookPublishes DEF OffersTypeOK
<1>3. h = "change" => c.change # "never"
  BY <1>2 DEF HookOf, ValueInv
<1>4. \/ h = "configure" /\ r = c.configure
      \/ h = "change" /\ r = c.change
      \/ h = "request" /\ r = IF c.request = "configures" THEN c.configure ELSE c.request
  BY DEF HookOf
<1>6. h = "configure" /\ HasSecret => made'
  BY <1>2, ConfigureEffect DEF HookOf, OffersTypeOK
<1>7. CASE c.configure = "never"
  <2>1. h # "configure" => r = "value"
    BY <1>1, <1>4, <1>7 DEF Manners, ProviderHooks
  <2> QED  BY <1>2, <1>4, <1>7, <2>1 DEF Written, Told
<1>8. CASE c.configure = "making"
  <2>1. HasSecret /\ c.request = "secret" /\ c.change = "never"
    BY <1>1, <1>8 DEF Manners, HasSecret
  <2>2. h = "request" => r = "secret"
    BY <1>4, <2>1
  <2> QED  BY <1>2, <1>4, <1>6, <1>8, <2>1, <2>2 DEF Written, Told
<1>9. CASE c.configure = "first"
  <2>1. c.request = "serving" /\ c.change = "serving" /\ c.absent = "never"
    BY <1>1, <1>9 DEF Manners
  <2>2. h # "configure" => r = "serving"
    BY <1>4, <2>1
  <2>3. h = "configure" => r = "first"
    BY <1>4, <1>9
  <2>4. h # "configure" => bag' \in {0, value}
    BY <1>2, <1>9, <2>2 DEF Publish, LeaderWrites
  <2>5. h = "configure" => bag' \in {bag, value}
    BY <1>2, <2>3 DEF Written
  <2>6. ServesThen /\ h # "configure" => Told(bag')
    BY <1>2, <2>2 DEF Written, Told, ServesThen
  <2>7. ServesThen /\ h = "configure" /\ bag = 0 => Told(bag')
    BY <1>2, <1>6, <2>3 DEF Written, Told, ServesThen, GetsThrough
  <2> QED  BY <1>9, <2>4, <2>5, <2>6, <2>7 DEF Told
<1>10. CASE c.configure = "earlier"
  <2>1. r \in {"bootstrapped", "earlier"} /\ c.absent = "never" /\ ~ c.plain
    BY <1>1, <1>3, <1>4, <1>10 DEF Manners
  <2>2. value # 0
    BY <2>1 DEF ValueInv
  <2>3. CASE r = "bootstrapped"
    BY <1>2, <1>10, <2>3 DEF Written, Told, ServesThen
  <2>4. CASE r = "earlier"
    <3>1. announced' # announced => bag' = value
      BY <1>2, <1>10 DEF Publish, LeaderWrites
    <3> QED  BY <1>2, <1>10, <2>1, <2>2, <2>4, <3>1 DEF Written, Told, ServesThen
  <2> QED  BY <2>1, <2>3, <2>4
<1>11. CASE c.configure \in {"healthy", "end"}
  <2>1. r \in {"bootstrapped", "value", "serving"} \/ (r \in {"healthy",
               "end"} /\ h # "request")
    BY <1>1, <1>3, <1>4, <1>11 DEF Manners
  <2>2. ~ HasSecret
    BY <1>1, <1>11 DEF Manners, HasSecret
  <2>3. ServesThen => GetsThrough(pleader)
    BY <2>2 DEF ServesThen, GetsThrough
  <2> QED  BY <1>2, <1>11, <2>1, <2>3 DEF Written, Told, ServesThen
<1>12. CASE c.configure = "secret"
  <2>1. HasSecret /\ (r = "value" \/ (r = "secret" /\ h # "request"))
    BY <1>1, <1>3, <1>4, <1>12 DEF Manners, HasSecret
  <2>2. r = "secret" => made'
    BY <1>2, <2>1, ConfigureEffect DEF HookOf, OffersTypeOK
  <2> QED  BY <1>2, <1>12, <2>1, <2>2 DEF Written, Told, ServesThen
<1>13. CASE c.configure \in {"serving", "value"}
  <2>1. r \in {"serving", "unguarded", "value"}
    BY <1>1, <1>3, <1>4, <1>13 DEF Manners
  <2> QED  BY <1>2, <1>13, <2>1 DEF Written, Told, ServesThen
<1> QED
  BY <1>1, <1>7, <1>8, <1>9, <1>10, <1>11, <1>12, <1>13 DEF Manners

-----------------------------------------------------------------------------
(* The invariant.                                                          *)

\* The hooks of the client are those of the state its relation is in.
LinkInv ==
    /\ relation = "none" => bag = 0 /\ used = 0 /\ cdue = {}
    /\ relation = "up" => cdue \subseteq {"changed"}
    /\ relation = "gone" => cdue \subseteq {"broken"}

\* The client has read the databag or will read it, and notices its end.
ReadInv ==
    /\ relation = "up" /\ "changed" \notin cdue
          => used = bag \/ (bag = 0 /\ ~ Chosen.reader.empty)
    /\ relation = "gone" /\ NoticesRemoval /\ "broken" \notin cdue => used = 0

\* None of these hooks waits for a leader that has missed nothing.
Settled(hooks) == relation = "up" /\ ~ missed /\ pdue[pleader] \cap hooks = {}

\* A leader whom no hook waits for that would configure it is bootstrapped, or
\* had nothing left to tell when it was elected.
LeaderInv ==
    /\ relation \in {"none", "up"} /\ ~ missed /\ preadies
    /\ pdue[pleader] \cap {"configure", "change"} = {}
    => booted[pleader] \/ (Told(bag) /\ Settled({"request"}))

\* By the manner of the charm: the hooks that tell, if no other does.
ToldInv ==
    /\ Chosen.charm.configure = "never" /\ Settled({"request", "change"}) => Told(bag)
    /\ Chosen.charm.configure = "making" /\ Settled({"request"}) /\ made => Told(bag)
    /\ Chosen.charm.configure = "first" /\ Settled({"request", "change"}) /\ bag # 0
          => Told(bag)
    /\ Settled(ProviderHooks) /\ ProviderServes => Told(bag)

OffersInv ==
    /\ OffersTypeOK /\ LinkInv /\ ReadInv /\ ValueInv /\ LeaderInv /\ ToldInv

LEMMA OffersInitInv == OffersInit => OffersInv
<1> SUFFICES ASSUME OffersInit PROVE OffersInv
  OBVIOUS
<1>1. Chosen.charm \in Charm /\ Manners(Chosen.charm)
  BY OfferPieces DEF OffersInit
<1>2. pleader \in PUnits
  BY OffersAssumption DEF OffersInit
<1>3. OffersTypeOK
  <2>1. {0, 1} \subseteq 0 .. MaxValue /\ 0 \in 0 .. MaxOFaults
    BY OffersAssumption
  <2> QED  BY <1>2, <2>1 DEF OffersInit, OffersTypeOK, ProviderHooks, ClientHooks
<1>4. LinkInv /\ ReadInv
  BY DEF OffersInit, LinkInv, ReadInv
<1>5. ValueInv
  BY DEF OffersInit, ValueInv
<1>6. LeaderInv /\ ToldInv
  BY <1>2 DEF OffersInit, LeaderInv, ToldInv, Settled
<1> QED  BY <1>3, <1>4, <1>5, <1>6 DEF OffersInv

-----------------------------------------------------------------------------
(* The steps.                                                              *)

LEMMA HookKeeps ==
    ASSUME OffersInv, NEW u \in PUnits, ProviderHook(u)
    PROVE  OffersInv'
<1>1. OffersTypeOK /\ ValueInv
  BY DEF OffersInv
<1>2. PICK h \in ProviderHooks, r \in Rules : HookOf(u, h, r)
  BY <1>1, HookHasRule
<1>3. OffersTypeOK'
  BY <1>1, <1>2, HookTypes
<1>4. /\ UNCHANGED <<oplan, relation, pleader, preadies, value, used, readable>>
      /\ Chosen' = Chosen /\ HasSecret' = HasSecret /\ NoticesRemoval' = NoticesRemoval
  BY <1>2 DEF HookOf, Chosen, HasSecret, NoticesRemoval
<1>5. LinkInv' /\ ReadInv'
  <2>1. /\ bag' # bag => relation = "up" /\ cdue' = cdue \cup {"changed"}
        /\ bag' = bag => cdue' = cdue
    BY <1>1, <1>2, HookPublishes
  <2> QED  BY <1>4, <2>1 DEF OffersInv, LinkInv, ReadInv
<1>6. /\ pdue' \in [PUnits -> SUBSET ProviderHooks]
      /\ h \in pdue[u] /\ pdue'[u] = pdue[u] \ {h}
      /\ \A v \in PUnits \ {u} : pdue[v] \subseteq pdue'[v]
                                /\ pdue'[v] \subseteq pdue[v] \cup {"configure"}
  BY <1>2 DEF HookOf
<1>7. ValueInv'
  <2>1. Chosen.charm.change = "never" => \A v \in PUnits : "change" \notin pdue'[v]
    BY <1>1, <1>6 DEF ValueInv
  <2>2. ASSUME ~ Chosen.charm.plain, Chosen.charm.request # "unguarded", NEW v \in PUnits, booted'[v]
        PROVE  announced' /\ (HasSecret => made')
    <3>1. CASE booted[v]
      BY <1>1, <1>2, <2>2, <3>1, HookBoots DEF ValueInv
    <3>2. CASE ~ booted[v]
      BY <1>1, <1>2, <2>2, <3>2, HookBoots
    <3> QED  BY <3>1, <3>2
  <2> QED  BY <1>1, <1>4, <2>1, <2>2 DEF ValueInv
<1>8. CASE u # pleader
  <2>1. /\ made' = made /\ announced' = announced /\ bag' = bag
        /\ booted'[pleader] = booted[pleader] /\ (~ missed' => ~ missed)
        /\ pdue[pleader] \subseteq pdue'[pleader]
        /\ pdue'[pleader] \subseteq pdue[pleader] \cup {"configure"}
    BY <1>1, <1>2, <1>6, <1>8, HookBoots, HookPublishes DEF OffersTypeOK
  <2>2. ProviderServes' = ProviderServes
    BY <1>4, <2>1 DEF ProviderServes
  <2>3. Told(bag)' = Told(bag)
    BY <1>4, <2>1 DEF Told
  <2>4. LeaderInv'
    BY <1>4, <2>1, <2>3 DEF OffersInv, LeaderInv, Settled
  <2>5. ToldInv'
    BY <1>4, <2>1, <2>2, <2>3 DEF OffersInv, ToldInv, Settled
  <2> QED  BY <1>3, <1>5, <1>7, <2>4, <2>5 DEF OffersInv
<1>9. CASE u = pleader
  <2>1. HookOf(pleader, h, r) /\ pleader \in PUnits
    BY <1>2, <1>9
  <2>2. ~ missed' => ~ missed \/ Told(bag)'
    BY <1>1, <1>2, <1>4, HookPublishes DEF Told
  <2>3. relation # "up" /\ ~ missed' => ~ missed
    BY <1>1, <1>2, HookPublishes
  <2>4. LeaderInv'
    <3> SUFFICES ASSUME relation \in {"none", "up"}, ~ missed', preadies,
                        pdue'[pleader] \cap {"configure", "change"} = {}
                 PROVE  booted'[pleader] \/ (Told(bag) /\ Settled({"request"}))'
      BY <1>4 DEF LeaderInv
    <3>1. CASE h # "request"
      BY <1>1, <1>2, <1>9, <3>1, HookBoots
    <3>2. CASE h = "request" /\ ~ missed
      <4>1. booted[pleader]
        BY <1>6, <1>9, <3>2 DEF OffersInv, LeaderInv, Settled
      <4> QED  BY <1>1, <1>2, <1>9, <4>1, HookBoots
    <3>3. CASE h = "request" /\ missed
      BY <1>4, <1>6, <1>9, <2>2, <2>3, <3>3 DEF Settled
    <3> QED  BY <3>1, <3>2, <3>3
  <2>5. ASSUME relation = "up", ~ missed' PROVE ToldInv'
    <3>1. /\ Chosen.charm.configure = "never" =>
                IF h = "configure" THEN bag' = bag ELSE Told(bag')
          /\ Chosen.charm.configure = "making" =>
                /\ h = "request" /\ made' => Told(bag')
                /\ h = "configure" => IF made THEN bag' = bag ELSE Told(bag')
          /\ Chosen.charm.configure = "first" =>
                /\ h = "configure" => bag' = bag \/ Told(bag')
                /\ h # "configure" => bag' = 0 \/ Told(bag')
          /\ /\ Chosen.charm.configure \notin {"never", "making"}
             /\ ServesThen
             => \/ Told(bag')
                \/ Chosen.charm.configure = "first" /\ h = "configure" /\ bag # 0
      BY <1>1, <2>1, <2>5, LeaderTells
    <3>2. Told(bag)' = Told(bag') /\ ProviderServes' = ServesThen
      BY <1>4 DEF Told, ProviderServes, ServesThen
    <3>3. \A hooks : h \notin hooks /\ Settled(hooks)' /\ ~ Told(bag') => Settled(hooks)
      BY <1>4, <1>6, <1>9, <2>2, <3>2 DEF Settled
    <3>4. Manners(Chosen.charm)
      BY <1>1, OfferPieces DEF OffersTypeOK
    <3>5. (Chosen.charm.configure = "never" /\ Settled({"request", "change"}) => Told(bag))'
      BY <1>4, <3>1, <3>2, <3>3 DEF OffersInv, ToldInv, Told
    <3>6. (Chosen.charm.configure = "making" /\ Settled({"request"}) /\ made => Told(bag))'
      <4>1. Chosen.charm.configure = "making" => h \in {"request", "configure"}
        BY <1>1, <1>6, <1>9, <3>4 DEF Manners, ValueInv, ProviderHooks
      <4> QED  BY <1>4, <3>1, <3>2, <3>3, <4>1 DEF OffersInv, ToldInv, Told
    <3>7. (Chosen.charm.configure = "first" /\ Settled({"request", "change"}) /\ bag # 0
             => Told(bag))'
      BY <1>4, <3>1, <3>2, <3>3 DEF OffersInv, ToldInv, Told
    <3>8. ASSUME Settled(ProviderHooks)', ServesThen PROVE Told(bag')
      <4>1. Settled({"request", "change"})' /\ Settled({"request"})'
        BY <3>8 DEF Settled, ProviderHooks
      <4>2. Chosen.charm.configure = "making" => made'
        <5>1. Chosen.charm.configure = "making" =>
                HasSecret /\ ~ Chosen.charm.plain /\ Chosen.charm.request # "unguarded"
          BY <3>4 DEF Manners, HasSecret
        <5> QED  BY <1>4, <1>7, <1>9, <3>8, <5>1 DEF ValueInv, ServesThen
      <4>3. CASE Chosen.charm.configure \in {"never", "making"}
        BY <1>4, <3>2, <3>5, <3>6, <4>1, <4>2, <4>3
      <4>4. CASE Chosen.charm.configure \notin {"never", "making"}
        BY <1>4, <3>1, <3>2, <3>7, <3>8, <4>1, <4>4
      <4> QED  BY <4>3, <4>4
    <3> QED  BY <3>2, <3>5, <3>6, <3>7, <3>8 DEF ToldInv
  <2>6. ToldInv'
    BY <1>4, <2>5 DEF ToldInv, Settled
  <2> QED  BY <1>3, <1>5, <1>7, <2>4, <2>6 DEF OffersInv
<1> QED  BY <1>8, <1>9

LEMMA ClientHookKeeps ==
    ASSUME OffersInv, NEW hook \in ClientHooks, ClientHook(hook)
    PROVE  OffersInv'
<1>1. /\ UNCHANGED <<oplan, relation, pleader, preadies, booted, announced, made,
                      value, bag, pdue, readable, missed, ofaults>>
      /\ hook \in cdue /\ cdue' = cdue \ {hook}
      /\ used' = IF Tells(hook) THEN Read(hook) ELSE used
  BY DEF ClientHook
<1>2. oplan \in OfferPlans /\ OffersTypeOK
  BY DEF OffersInv, OffersTypeOK
<1>3. OffersTypeOK'
  <2>1. 0 \in 0 .. MaxValue
    BY OffersAssumption
  <2> QED  BY <1>1, <1>2, <2>1 DEF OffersTypeOK, Read
<1>4. Chosen' = Chosen /\ HasSecret' = HasSecret /\ NoticesRemoval' = NoticesRemoval
      /\ ProviderServes' = ProviderServes /\ Told(bag)' = Told(bag)
  BY <1>1 DEF Chosen, HasSecret, NoticesRemoval, ProviderServes, Told
<1>5. LinkInv'
  BY <1>1 DEF OffersInv, LinkInv
<1>6. ReadInv'
  <2>1. CASE relation = "up" /\ hook = "changed"
    BY <1>1, <1>2, <1>4, <2>1, OfferPieces DEF ReadInv, Tells, Read
  <2>2. CASE relation = "up" /\ hook # "changed"
    BY <1>1, <2>2 DEF OffersInv, LinkInv
  <2>3. CASE relation = "gone" /\ hook = "broken"
    BY <1>1, <1>2, <1>4, <2>3, OfferPieces DEF ReadInv, Tells, Read, NoticesRemoval
  <2>4. CASE relation = "gone" /\ hook # "broken"
    BY <1>1, <2>4 DEF OffersInv, LinkInv
  <2>5. CASE relation \notin {"up", "gone"}
    BY <1>1, <2>5 DEF ReadInv
  <2> QED  BY <2>1, <2>2, <2>3, <2>4, <2>5
<1>7. ValueInv' /\ LeaderInv' /\ ToldInv'
  BY <1>1, <1>4 DEF OffersInv, ValueInv, LeaderInv, ToldInv, Settled
<1> QED  BY <1>3, <1>5, <1>6, <1>7 DEF OffersInv

\* Steps that leave the provider alone but for more hooks that wait.
LEMMA MoreHooks ==
    ASSUME OffersInv,
           UNCHANGED <<oplan, pleader, booted, announced, made, value, bag, missed>>,
           \A u \in PUnits : pdue[u] \subseteq pdue'[u],
           Chosen.charm.change = "never" => \A u \in PUnits : "change" \notin pdue'[u],
           \/ relation' = relation
              /\ pdue'[pleader] \subseteq pdue[pleader] \cup {"configure", "change"}
           \/ relation = "none" /\ relation' = "up" /\ "request" \in pdue'[pleader],
           preadies' = preadies \/ "configure" \in pdue'[pleader]
    PROVE  ValueInv' /\ LeaderInv' /\ ToldInv'
<1>1. Chosen' = Chosen /\ HasSecret' = HasSecret /\ Told(bag)' = Told(bag)
  BY DEF Chosen, HasSecret, Told
<1>2. pleader \in PUnits
  BY DEF OffersInv, OffersTypeOK
<1>3. ValueInv'
  BY <1>1 DEF OffersInv, ValueInv
<1>4. LeaderInv'
  BY <1>1, <1>2 DEF OffersInv, LeaderInv, Settled
<1>5. CASE relation' = "up" /\ "request" \in pdue'[pleader]
  <2>1. \A hooks : "request" \in hooks => ~ Settled(hooks)'
    BY <1>2, <1>5 DEF Settled
  <2>2. ToldInv'
    BY <2>1 DEF ToldInv, ProviderHooks
  <2> QED  BY <1>3, <1>4, <2>2
<1>6. CASE relation' = relation
  <2>1. \A hooks : Settled(hooks)' => Settled(hooks)
    BY <1>2, <1>6 DEF Settled
  <2>2. Settled(ProviderHooks)' /\ ProviderServes' => ProviderServes
    BY <1>1, <1>2 DEF Settled, ProviderServes, ProviderHooks
  <2> QED  BY <1>1, <1>3, <1>4, <2>1, <2>2 DEF OffersInv, ToldInv
<1> QED  BY <1>3, <1>4, <1>5, <1>6

LEMMA EnvironmentKeeps ==
    ASSUME OffersInv, Relate \/ ProviderRelations \/ ConfiguredAgain
    PROVE  OffersInv'
<1>1. OffersTypeOK /\ MaxOFaults \in Nat
  BY OffersAssumption DEF OffersInv
<1>2. CASE Relate
  <2>1. OffersTypeOK'
    BY <1>1, <1>2 DEF Relate, OffersTypeOK, ProviderHooks, ClientHooks
  <2>2. LinkInv' /\ ReadInv'
    BY <1>2 DEF Relate, OffersInv, LinkInv, ReadInv
  <2>3. ValueInv' /\ LeaderInv' /\ ToldInv'
    BY <1>1, <1>2, MoreHooks DEF Relate, OffersInv, OffersTypeOK, ValueInv
  <2> QED  BY <2>1, <2>2, <2>3 DEF OffersInv
<1>3. CASE ProviderRelations
  <2>1. OffersTypeOK'
    BY <1>1, <1>3 DEF ProviderRelations, OFault, OffersTypeOK, ProviderHooks
  <2>2. LinkInv' /\ ReadInv'
    BY <1>3 DEF ProviderRelations, OffersInv, LinkInv, ReadInv, Chosen, NoticesRemoval
  <2>3. ValueInv' /\ LeaderInv' /\ ToldInv'
    BY <1>1, <1>3, MoreHooks DEF ProviderRelations, OffersInv, OffersTypeOK, ValueInv
  <2> QED  BY <2>1, <2>2, <2>3 DEF OffersInv
<1>4. CASE ConfiguredAgain
  <2>1. PICK u \in PUnits : pdue' = [pdue EXCEPT ![u] = @ \cup {"configure"}]
    BY <1>4 DEF ConfiguredAgain
  <2>2. OffersTypeOK'
    BY <1>1, <1>4, <2>1 DEF ConfiguredAgain, OFault, OffersTypeOK, ProviderHooks
  <2>3. LinkInv' /\ ReadInv'
    BY <1>4 DEF ConfiguredAgain, OffersInv, LinkInv, ReadInv, Chosen, NoticesRemoval
  <2>4. ValueInv' /\ LeaderInv' /\ ToldInv'
    BY <1>1, <1>4, <2>1, MoreHooks
       DEF ConfiguredAgain, OffersInv, OffersTypeOK, ValueInv
  <2> QED  BY <2>2, <2>3, <2>4 DEF OffersInv
<1> QED  BY <1>2, <1>3, <1>4

LEMMA UnrelateKeeps ==
    ASSUME OffersInv, Unrelate
    PROVE  OffersInv'
<1>1. OffersTypeOK /\ MaxOFaults \in Nat
  BY OffersAssumption DEF OffersInv
<1>2. /\ UNCHANGED <<oplan, pleader, preadies, booted, announced, made, value, bag,
                      used, readable, missed>>
      /\ \/ relation' = "leaving" /\ cdue' = {"departed"}
         \/ relation' = "gone" /\ cdue' = {"broken"}
      /\ pdue' = [u \in PUnits |-> pdue[u] \ {"request"}]
      /\ ofaults < MaxOFaults /\ ofaults' = ofaults + 1
  BY DEF Unrelate, OFault
<1>3. OffersTypeOK'
  BY <1>1, <1>2 DEF OffersTypeOK, ClientHooks
<1>4. LinkInv' /\ ReadInv' /\ LeaderInv' /\ ToldInv'
  BY <1>2 DEF LinkInv, ReadInv, LeaderInv, ToldInv, Settled
<1>5. ValueInv'
  BY <1>2 DEF OffersInv, ValueInv, Chosen, HasSecret
<1> QED  BY <1>3, <1>4, <1>5 DEF OffersInv

LEMMA ValueChangesKeeps ==
    ASSUME OffersInv, ValueChanges
    PROVE  OffersInv'
<1>1. OffersTypeOK /\ MaxOFaults \in Nat /\ MaxValue \in Nat
  BY OffersAssumption DEF OffersInv
<1>2. /\ UNCHANGED <<oplan, relation, pleader, preadies, booted, announced, made,
                      used, readable, missed>>
      /\ Chosen.charm.change # "never"
      /\ \/ value < MaxValue /\ value' = value + 1
         \/ Chosen.charm.absent # "never" /\ value > 0 /\ value' = 0
      /\ ofaults < MaxOFaults /\ ofaults' = ofaults + 1
  BY DEF ValueChanges, OFault
<1>3. Chosen' = Chosen /\ HasSecret' = HasSecret /\ NoticesRemoval' = NoticesRemoval
  BY <1>2 DEF Chosen, HasSecret, NoticesRemoval
<1>4. value' \in 0 .. MaxValue /\ (Chosen.charm.absent = "never" => value' # 0)
  BY <1>1, <1>2 DEF OffersTypeOK
<1>5. pleader \in PUnits
  BY <1>1 DEF OffersTypeOK
<1>6. CASE oplan.offer = "endpoints"
  <2>1. /\ booted[pleader] /\ UNCHANGED pdue
        /\ bag' = IF relation = "up" THEN value' ELSE bag
        /\ cdue' = IF relation = "up" THEN cdue \cup {"changed"} ELSE cdue
    BY <1>6 DEF ValueChanges
  <2>2. OffersTypeOK'
    BY <1>1, <1>2, <1>4, <2>1 DEF OffersTypeOK, ClientHooks
  <2>3. LinkInv' /\ ReadInv'
    BY <1>2, <1>3, <2>1 DEF OffersInv, LinkInv, ReadInv
  <2>4. ValueInv' /\ LeaderInv'
    BY <1>2, <1>3, <1>4, <2>1 DEF OffersInv, ValueInv, LeaderInv
  <2>5. ToldInv'
    BY <1>2, <1>3, <2>1 DEF ToldInv, Settled, Told
  <2> QED  BY <2>2, <2>3, <2>4, <2>5 DEF OffersInv
<1>7. CASE oplan.offer # "endpoints"
  <2>1. UNCHANGED <<bag, cdue>> /\ pdue' = [u \in PUnits |-> pdue[u] \cup {"change"}]
    BY <1>7 DEF ValueChanges
  <2>2. OffersTypeOK'
    BY <1>1, <1>2, <1>4, <2>1 DEF OffersTypeOK, ProviderHooks
  <2>3. LinkInv' /\ ReadInv'
    BY <1>2, <1>3, <2>1 DEF OffersInv, LinkInv, ReadInv
  <2>4. ValueInv' /\ LeaderInv'
    BY <1>2, <1>3, <1>4, <1>5, <2>1 DEF OffersInv, ValueInv, LeaderInv
  <2>5. ToldInv'
    <3>1. Chosen.charm.configure # "making"
      BY <1>1, <1>2, OfferPieces DEF OffersTypeOK, Manners
    <3> QED  BY <1>2, <1>3, <1>5, <2>1, <3>1 DEF ToldInv, Settled, ProviderHooks
  <2> QED  BY <2>2, <2>3, <2>4, <2>5 DEF OffersInv
<1> QED  BY <1>6, <1>7

LEMMA ProviderElectsKeeps ==
    ASSUME OffersInv, ProviderElects
    PROVE  OffersInv'
<1>1. OffersTypeOK /\ MaxOFaults \in Nat
  BY OffersAssumption DEF OffersInv
<1>2. /\ UNCHANGED <<oplan, relation, preadies, booted, announced, made, value, bag,
                      pdue, cdue, used, readable>>
      /\ ofaults < MaxOFaults /\ ofaults' = ofaults + 1
  BY DEF ProviderElects, OFault
<1>3. PICK u \in PUnits \ {pleader} :
         /\ pleader' = u
         /\ missed' = \/ missed
                      \/ ~ (pdue[pleader] \subseteq pdue[u])
                      \/ ~ booted[u] /\ "configure" \notin pdue[u]
  BY DEF ProviderElects
<1>4. Chosen' = Chosen /\ HasSecret' = HasSecret /\ NoticesRemoval' = NoticesRemoval
      /\ Told(bag)' = Told(bag)
  BY <1>2 DEF Chosen, HasSecret, NoticesRemoval, Told
<1>5. OffersTypeOK'
  <2>1. missed' \in BOOLEAN
    BY <1>1, <1>3 DEF OffersTypeOK
  <2> QED  BY <1>1, <1>2, <1>3, <2>1 DEF OffersTypeOK
<1>6. LinkInv' /\ ReadInv' /\ ValueInv'
  BY <1>2, <1>4 DEF OffersInv, LinkInv, ReadInv, ValueInv
<1>7. ~ missed' => /\ ~ missed /\ pdue[pleader] \subseteq pdue[u]
                   /\ booted[u] \/ "configure" \in pdue[u]
  BY <1>3
<1>8. LeaderInv'
  BY <1>2, <1>3, <1>7 DEF LeaderInv
<1>9. \A hooks : Settled(hooks)' => Settled(hooks)
  BY <1>2, <1>3, <1>7 DEF Settled
<1>10. ASSUME Settled(ProviderHooks)', ProviderServes'
       PROVE  Told(bag)
  <2>1. Settled(ProviderHooks)
    BY <1>9, <1>10
  <2>2. CASE ProviderServes
    BY <2>1, <2>2 DEF OffersInv, ToldInv
  <2>3. CASE ~ ProviderServes
    <3>1. preadies /\ announced /\ ~ Chosen.charm.plain
      BY <1>2, <1>4, <1>10, <2>3 DEF ProviderServes
    <3>2. ~ booted[pleader]
      BY <2>3, <3>1 DEF ProviderServes
    <3> QED  BY <2>1, <3>1, <3>2 DEF OffersInv, LeaderInv, Settled, ProviderHooks
  <2> QED  BY <2>2, <2>3
<1>11. ToldInv'
  BY <1>2, <1>4, <1>9, <1>10 DEF OffersInv, ToldInv
<1> QED  BY <1>5, <1>6, <1>8, <1>11 DEF OffersInv

LEMMA OffersNextInv == OffersInv /\ [OffersNext]_offerVars => OffersInv'
<1> SUFFICES ASSUME OffersInv, [OffersNext]_offerVars PROVE OffersInv'
  OBVIOUS
<1>1. CASE \E u \in PUnits : ProviderHook(u)
  BY <1>1, HookKeeps
<1>2. CASE \E hook \in ClientHooks : ClientHook(hook)
  BY <1>2, ClientHookKeeps
<1>3. CASE Relate \/ ProviderRelations \/ ConfiguredAgain
  BY <1>3, EnvironmentKeeps
<1>4. CASE Unrelate
  BY <1>4, UnrelateKeeps
<1>5. CASE ValueChanges
  BY <1>5, ValueChangesKeeps
<1>6. CASE ProviderElects
  BY <1>6, ProviderElectsKeeps
<1>7. CASE UNCHANGED offerVars
  BY <1>7 DEF offerVars, OffersInv, OffersTypeOK, LinkInv, ReadInv, ValueInv, LeaderInv,
              ToldInv, Settled, Told, ProviderServes, Chosen, HasSecret, NoticesRemoval
<1> QED  BY <1>1, <1>2, <1>3, <1>4, <1>5, <1>6, <1>7 DEF OffersNext

LEMMA OffersInvImplies == OffersInv => OffersArrive
<1> SUFFICES ASSUME OffersInv, OffersAtRest PROVE OffersArrive
  BY DEF OffersArrive
<1>1. pleader \in PUnits
  BY DEF OffersInv, OffersTypeOK
<1>2. relation = "up" /\ ~ missed /\ ProviderServes => Told(bag)
  BY <1>1 DEF OffersInv, ToldInv, Settled, OffersAtRest
<1>3. relation = "up" => used = bag \/ (bag = 0 /\ ~ Chosen.reader.empty)
  BY DEF OffersInv, ReadInv, OffersAtRest
<1>4. relation = "gone" /\ NoticesRemoval => used = 0
  BY DEF OffersInv, ReadInv, OffersAtRest
<1> QED  BY <1>2, <1>3, <1>4 DEF OffersArrive, Told

\* What is offered arrives: when no hook waits, a provider that serves has
\* written what it offers and the client uses what is written, for every offer of
\* the catalogue and any number of units, values and faults.
THEOREM OffersArriveHolds == OffersSpec => [](OffersTypeOK /\ OffersArrive)
<1>1. OffersInv => OffersTypeOK /\ OffersArrive
  BY OffersInvImplies DEF OffersInv
<1> QED  BY <1>1, OffersInitInv, OffersNextInv, PTL DEF OffersSpec

-----------------------------------------------------------------------------
(* The programs of the charms.                                             *)

\* The order the code of a charm gives its steps.  glance and neutron check
\* their options first thing in configure_unit, the others after the relations.
Rank(n, s) ==
    CASE s \in {"secret", "sanity", "storage"} -> 1
      [] s = "early"        -> 2
      [] s = "option"       -> IF n \in {"glance", "neutron"} THEN 3 ELSE 6
      [] s = "leader"       -> 4
      [] s = "relations"    -> 5
      [] s = "containers"   -> 7
      [] s = "sync"         -> 8
      [] s = "services"     -> 9
      [] s = "pebbles"      -> 10
      [] s \in {"pools", "plugins"} -> 11
      [] s = "bootstrapped" -> 12
      [] s = "app"          -> 13
      [] s = "active"       -> 14
      [] s \in {"restart", "start"} -> 15
      [] s = "claim"        -> 16

\* The steps of a part of a program, and that they are in order.
StepsOf(q) == {q[i] : i \in DOMAIN q}
Sorted(n, q) == \A i, j \in DOMAIN q : i < j => Rank(n, q[i]) < Rank(n, q[j])

\* The rows of the catalogue: what charm n does before the guard, in
\* configure_unit and behind the guard, and what it asks for.
BeforeOf(n) ==
    CASE n \in {"ceilometer", "nova"}   -> <<"secret">>
      [] n \in {"octavia", "conductor"} -> <<"sanity">>
      [] n = "glance"                   -> <<"storage", "early">>
      [] OTHER                          -> << >>

UnitOf(n) ==
    CASE n \in {"glance", "neutron"} -> <<"option">> \o ConfigureUnit
      [] n = "designate"             -> <<"leader", "relations", "containers", "sync",
                                          "services", "pebbles", "pools", "bootstrapped">>
      [] n \in {"gnocchi", "magnum"} -> <<"leader", "relations", "option", "containers",
                                          "sync", "services", "pebbles", "bootstrapped">>
      [] n = "horizon"               -> <<"leader", "relations", "option", "containers",
                                          "sync", "services", "pebbles", "plugins",
                                          "bootstrapped">>
      [] OTHER                       -> ConfigureUnit

AfterOf(n) ==
    CASE n = "glance"  -> <<"restart", "claim">>
      [] n = "horizon" -> <<"claim">>
      [] n = "watcher" -> <<"start">>
      [] OTHER         -> << >>

AsksOf(n) ==
    CASE n = "glance"                                   -> {"storage", "option"}
      [] n \in {"gnocchi", "magnum", "horizon", "neutron"} -> {"option"}
      [] n = "octavia"                                  -> {"sanity"}
      [] n = "conductor"                                -> {"sanity", "address"}
      [] OTHER                                          -> {}

CharmRow(n, c) ==
    /\ c.before = BeforeOf(n) /\ c.unit = UnitOf(n) /\ c.after = AfterOf(n)
    /\ c.asks = AsksOf(n)
    /\ c.waits = (n # "neutron") /\ c.kicks = (n = "neutron")

\* The charms that configure themselves as the base charm does.
Plain == {"aodh", "barbican", "bind", "cinder", "cloudkitty", "heat", "images", "ironic",
          "manila", "share", "masakari", "compute", "exporter", "placement"}

LEMMA PlainRow ==
    ASSUME NEW pod, NEW sync, NEW n \in Plain
    PROVE  CharmRow(n, ApiCharm(pod, sync))
<1>1. /\ n \notin {"ceilometer", "nova", "octavia", "conductor", "glance", "neutron", "designate",
                  "gnocchi", "magnum", "horizon", "watcher"}
  BY DEF Plain
<1>2. BeforeOf(n) = << >> /\ UnitOf(n) = ConfigureUnit /\ AfterOf(n) = << >> /\ AsksOf(n) = {}
  BY <1>1 DEF BeforeOf, UnitOf, AfterOf, AsksOf
<1> QED  BY <1>1, <1>2 DEF CharmRow, ApiCharm

LEMMA CatalogueTable == \A n \in CharmNames : CharmRow(n, CharmCatalogue[n])
<1>1. CharmRow("aodh", CharmCatalogue["aodh"])
  <2>1. CharmCatalogue["aodh"] = AodhOperatorCharm  BY DEF CharmCatalogue
  <2> QED  BY <2>1, PlainRow DEF Plain, AodhOperatorCharm
<1>2. CharmRow("barbican", CharmCatalogue["barbican"])
  <2>1. CharmCatalogue["barbican"] = BarbicanOperatorCharm  BY DEF CharmCatalogue
  <2> QED  BY <2>1, PlainRow DEF Plain, BarbicanOperatorCharm
<1>3. CharmRow("bind", CharmCatalogue["bind"])
  <2>1. CharmCatalogue["bind"] = BindOperatorCharm  BY DEF CharmCatalogue
  <2> QED  BY <2>1, PlainRow DEF Plain, BindOperatorCharm
<1>4. CharmRow("ceilometer", CharmCatalogue["ceilometer"])
  <2>1. CharmCatalogue["ceilometer"] = CeilometerCharm  BY DEF CharmCatalogue
  <2> QED  BY <2>1 DEF CharmRow, BeforeOf, UnitOf, AfterOf, AsksOf, CeilometerCharm, ApiCharm
<1>5. CharmRow("cinder", CharmCatalogue["cinder"])
  <2>1. CharmCatalogue["cinder"] = CinderOperatorCharm  BY DEF CharmCatalogue
  <2> QED  BY <2>1, PlainRow DEF Plain, CinderOperatorCharm
<1>6. CharmRow("cloudkitty", CharmCatalogue["cloudkitty"])
  <2>1. CharmCatalogue["cloudkitty"] = CloudkittyOperatorCharm  BY DEF CharmCatalogue
  <2> QED  BY <2>1, PlainRow DEF Plain, CloudkittyOperatorCharm
<1>7. CharmRow("designate", CharmCatalogue["designate"])
  <2>1. CharmCatalogue["designate"] = DesignateCharm  BY DEF CharmCatalogue
  <2> QED  BY <2>1 DEF CharmRow, BeforeOf, UnitOf, AfterOf, AsksOf, DesignateCharm, ApiCharm
<1>8. CharmRow("glance", CharmCatalogue["glance"])
  <2>1. CharmCatalogue["glance"] = GlanceOperatorCharm  BY DEF CharmCatalogue
  <2> QED
    BY <2>1 DEF CharmRow, BeforeOf, UnitOf, AfterOf, AsksOf, GlanceOperatorCharm, ApiCharm
<1>9. CharmRow("gnocchi", CharmCatalogue["gnocchi"])
  <2>1. CharmCatalogue["gnocchi"] = GnocchiCephOperatorCharm  BY DEF CharmCatalogue
  <2> QED
    BY <2>1 DEF CharmRow, BeforeOf, UnitOf, AfterOf, AsksOf, GnocchiCephOperatorCharm, ApiCharm
<1>10. CharmRow("heat", CharmCatalogue["heat"])
  <2>1. CharmCatalogue["heat"] = HeatOperatorCharm  BY DEF CharmCatalogue
  <2> QED  BY <2>1, PlainRow DEF Plain, HeatOperatorCharm
<1>11. CharmRow("horizon", CharmCatalogue["horizon"])
  <2>1. CharmCatalogue["horizon"] = HorizonOperatorCharm  BY DEF CharmCatalogue
  <2> QED
    BY <2>1 DEF CharmRow, BeforeOf, UnitOf, AfterOf, AsksOf, HorizonOperatorCharm, ApiCharm
<1>12. CharmRow("images", CharmCatalogue["images"])
  <2>1. CharmCatalogue["images"] = OpenstackImagesSyncK8SCharm  BY DEF CharmCatalogue
  <2> QED  BY <2>1, PlainRow DEF Plain, OpenstackImagesSyncK8SCharm
<1>13. CharmRow("ironic", CharmCatalogue["ironic"])
  <2>1. CharmCatalogue["ironic"] = IronicOperatorCharm  BY DEF CharmCatalogue
  <2> QED  BY <2>1, PlainRow DEF Plain, IronicOperatorCharm
<1>14. CharmRow("conductor", CharmCatalogue["conductor"])
  <2>1. CharmCatalogue["conductor"] = IronicConductorOperatorCharm  BY DEF CharmCatalogue
  <2> QED
    BY <2>1
       DEF CharmRow, BeforeOf, UnitOf, AfterOf, AsksOf, IronicConductorOperatorCharm, ApiCharm
<1>15. CharmRow("magnum", CharmCatalogue["magnum"])
  <2>1. CharmCatalogue["magnum"] = MagnumOperatorCharm  BY DEF CharmCatalogue
  <2> QED
    BY <2>1 DEF CharmRow, BeforeOf, UnitOf, AfterOf, AsksOf, MagnumOperatorCharm, ApiCharm
<1>16. CharmRow("manila", CharmCatalogue["manila"])
  <2>1. CharmCatalogue["manila"] = ManilaOperatorCharm  BY DEF CharmCatalogue
  <2> QED  BY <2>1, PlainRow DEF Plain, ManilaOperatorCharm
<1>17. CharmRow("share", CharmCatalogue["share"])
  <2>1. CharmCatalogue["share"] = ManilaShareOperatorCharm  BY DEF CharmCatalogue
  <2> QED  BY <2>1, PlainRow DEF Plain, ManilaShareOperatorCharm
<1>18. CharmRow("masakari", CharmCatalogue["masakari"])
  <2>1. CharmCatalogue["masakari"] = MasakariOperatorCharm  BY DEF CharmCatalogue
  <2> QED  BY <2>1, PlainRow DEF Plain, MasakariOperatorCharm
<1>19. CharmRow("neutron", CharmCatalogue["neutron"])
  <2>1. CharmCatalogue["neutron"] = NeutronOVNOperatorCharm  BY DEF CharmCatalogue
  <2> QED
    BY <2>1 DEF CharmRow, BeforeOf, UnitOf, AfterOf, AsksOf, NeutronOVNOperatorCharm, ApiCharm
<1>20. CharmRow("nova", CharmCatalogue["nova"])
  <2>1. CharmCatalogue["nova"] = NovaCharm  BY DEF CharmCatalogue
  <2> QED  BY <2>1 DEF CharmRow, BeforeOf, UnitOf, AfterOf, AsksOf, NovaCharm, ApiCharm
<1>21. CharmRow("compute", CharmCatalogue["compute"])
  <2>1. CharmCatalogue["compute"] = NovaIronicOperatorCharm  BY DEF CharmCatalogue
  <2> QED  BY <2>1, PlainRow DEF Plain, NovaIronicOperatorCharm
<1>22. CharmRow("octavia", CharmCatalogue["octavia"])
  <2>1. CharmCatalogue["octavia"] = OctaviaOperatorCharm  BY DEF CharmCatalogue
  <2> QED
    BY <2>1 DEF CharmRow, BeforeOf, UnitOf, AfterOf, AsksOf, OctaviaOperatorCharm, ApiCharm
<1>23. CharmRow("exporter", CharmCatalogue["exporter"])
  <2>1. CharmCatalogue["exporter"] = OSExporterOperatorCharm  BY DEF CharmCatalogue
  <2> QED  BY <2>1, PlainRow DEF Plain, OSExporterOperatorCharm
<1>24. CharmRow("placement", CharmCatalogue["placement"])
  <2>1. CharmCatalogue["placement"] = PlacementCharm  BY DEF CharmCatalogue
  <2> QED  BY <2>1, PlainRow DEF Plain, PlacementCharm
<1>25. CharmRow("watcher", CharmCatalogue["watcher"])
  <2>1. CharmCatalogue["watcher"] = WatcherOperatorCharm  BY DEF CharmCatalogue
  <2> QED
    BY <2>1 DEF CharmRow, BeforeOf, UnitOf, AfterOf, AsksOf, WatcherOperatorCharm, ApiCharm
<1> QED
  BY <1>1, <1>2, <1>3, <1>4, <1>5, <1>6, <1>7, <1>8, <1>9, <1>10, <1>11, <1>12, <1>13, <1>14,
     <1>15, <1>16, <1>17, <1>18, <1>19, <1>20, <1>21, <1>22, <1>23, <1>24, <1>25
     DEF CharmNames, CharmCatalogue

\* The steps of two parts that follow each other, and their order.
LEMMA StepsOfConcat ==
    ASSUME NEW a \in Seq(Steps), NEW b \in Seq(Steps)
    PROVE  StepsOf(a \o b) = StepsOf(a) \cup StepsOf(b)
<1>1. Len(a) \in Nat /\ Len(b) \in Nat /\ DOMAIN a = 1 .. Len(a) /\ DOMAIN b = 1 .. Len(b)
  BY LenProperties
<1>2. /\ DOMAIN (a \o b) = 1 .. Len(a) + Len(b)
      /\ \A i \in 1 .. Len(a) + Len(b) :
            (a \o b)[i] = IF i <= Len(a) THEN a[i] ELSE b[i - Len(a)]
  BY LenProperties
<1>3. ASSUME NEW s \in StepsOf(a) PROVE s \in StepsOf(a \o b)
  BY <1>2 DEF StepsOf
<1>4. ASSUME NEW s \in StepsOf(b) PROVE s \in StepsOf(a \o b)
  <2>1. PICK i \in 1 .. Len(b) : b[i] = s
    BY DEF StepsOf
  <2>2. i + Len(a) \in 1 .. Len(a) + Len(b) /\ (a \o b)[i + Len(a)] = s
    BY <1>2, <2>1
  <2> QED  BY <2>2 DEF StepsOf
<1>5. ASSUME NEW s \in StepsOf(a \o b) PROVE s \in StepsOf(a) \cup StepsOf(b)
  <2>1. PICK i \in 1 .. Len(a) + Len(b) : (a \o b)[i] = s
    BY DEF StepsOf
  <2>2. CASE i <= Len(a)
    BY <2>1, <2>2 DEF StepsOf
  <2>3. CASE ~ (i <= Len(a))
    <3>1. i - Len(a) \in 1 .. Len(b) /\ b[i - Len(a)] = s
      BY <1>2, <2>1, <2>3
    <3> QED  BY <3>1 DEF StepsOf
  <2> QED  BY <2>2, <2>3
<1> QED  BY <1>3, <1>4, <1>5

LEMMA SortedConcat ==
    ASSUME NEW n, NEW S, NEW a \in Seq(S), NEW b \in Seq(S), Sorted(n, a), Sorted(n, b),
           \A s \in StepsOf(a), t \in StepsOf(b) : Rank(n, s) < Rank(n, t)
    PROVE  Sorted(n, a \o b)
<1>1. Len(a) \in Nat /\ Len(b) \in Nat /\ DOMAIN a = 1 .. Len(a) /\ DOMAIN b = 1 .. Len(b)
  BY LenProperties
<1>2. /\ DOMAIN (a \o b) = 1 .. Len(a) + Len(b)
      /\ \A i \in 1 .. Len(a) + Len(b) :
            (a \o b)[i] = IF i <= Len(a) THEN a[i] ELSE b[i - Len(a)]
  BY LenProperties
<1> SUFFICES ASSUME NEW i \in 1 .. Len(a) + Len(b), NEW j \in 1 .. Len(a) + Len(b), i < j
             PROVE  Rank(n, (a \o b)[i]) < Rank(n, (a \o b)[j])
  BY DEF Sorted
<1>3. CASE j <= Len(a)
  BY <1>2, <1>3 DEF Sorted
<1>4. CASE i <= Len(a) /\ ~ (j <= Len(a))
  <2>1. i \in DOMAIN a /\ j - Len(a) \in DOMAIN b
    BY <1>4
  <2>2. a[i] \in StepsOf(a) /\ b[j - Len(a)] \in StepsOf(b)
    BY <2>1 DEF StepsOf
  <2> QED  BY <1>4, <2>2
<1>5. CASE ~ (i <= Len(a))
  <2>1. i - Len(a) \in DOMAIN b /\ j - Len(a) \in DOMAIN b /\ i - Len(a) < j - Len(a)
        /\ ~ (j <= Len(a))
    BY <1>5
  <2>2. Rank(n, b[i - Len(a)]) < Rank(n, b[j - Len(a)])
    BY <2>1 DEF Sorted
  <2> QED  BY <1>5, <2>1, <2>2
<1> QED  BY <1>3, <1>4, <1>5

\* Taking the first step of a program leaves the others, which come later.
LEMMA StepTaken ==
    ASSUME NEW n, NEW S, NEW q \in Seq(S), q # << >>, Sorted(n, q)
    PROVE  /\ Head(q) \in StepsOf(q)
           /\ Tail(q) \in Seq(S) /\ Sorted(n, Tail(q))
           /\ StepsOf(Tail(q)) \subseteq StepsOf(q)
           /\ \A s \in StepsOf(q) : s = Head(q) \/ s \in StepsOf(Tail(q))
           /\ \A s \in StepsOf(Tail(q)) : Rank(n, Head(q)) < Rank(n, s)
<1>1. Len(q) \in Nat \ {0} /\ DOMAIN q = 1 .. Len(q) /\ Head(q) = q[1]
  BY EmptySeq, HeadTailProperties
<1>2. /\ Tail(q) \in Seq(S) /\ Len(Tail(q)) = Len(q) - 1
      /\ DOMAIN Tail(q) = 1 .. Len(q) - 1
      /\ \A i \in 1 .. Len(q) - 1 : Tail(q)[i] = q[i + 1]
  BY HeadTailProperties, LenProperties
<1>3. Head(q) \in StepsOf(q)
  BY DEF StepsOf
<1>4. \A i \in 1 .. Len(q) - 1 : i + 1 \in DOMAIN q /\ 1 \in DOMAIN q /\ 1 < i + 1
  BY <1>1
<1>5. Sorted(n, Tail(q))
  BY <1>2, <1>4 DEF Sorted
<1>6. StepsOf(Tail(q)) \subseteq StepsOf(q)
  BY <1>4 DEF StepsOf
<1>7. \A s \in StepsOf(Tail(q)) : Rank(n, Head(q)) < Rank(n, s)
  BY <1>4 DEF StepsOf, Sorted
<1>8. ASSUME NEW s \in StepsOf(q), s # Head(q) PROVE s \in StepsOf(Tail(q))
  <2>1. PICK i \in 1 .. Len(q) : q[i] = s
    BY DEF StepsOf
  <2>2. i - 1 \in 1 .. Len(q) - 1 /\ Tail(q)[i - 1] = s
    BY <1>2, <1>8, <2>1
  <2> QED  BY <1>2, <2>2 DEF StepsOf
<1> QED  BY <1>3, <1>5, <1>6, <1>7, <1>8

\* The same rows as sets.
BeforeSteps(n) ==
    CASE n \in {"ceilometer", "nova"}   -> {"secret"}
      [] n \in {"octavia", "conductor"} -> {"sanity"}
      [] n = "glance"                   -> {"storage", "early"}
      [] OTHER                          -> {}

CommonSteps == {"leader", "relations", "containers", "sync", "services", "pebbles",
                "bootstrapped"}

UnitSteps(n) ==
    CommonSteps \cup
    CASE n \in {"glance", "neutron", "gnocchi", "magnum"} -> {"option"}
      [] n = "designate" -> {"pools"}
      [] n = "horizon"   -> {"option", "plugins"}
      [] OTHER           -> {}

AfterSteps(n) ==
    CASE n = "glance"  -> {"restart", "claim"}
      [] n = "horizon" -> {"claim"}
      [] n = "watcher" -> {"start"}
      [] OTHER         -> {}

ProgramSteps(n) ==
    BeforeSteps(n) \cup UnitSteps(n) \cup {"app", "active"} \cup AfterSteps(n)

LEMMA EmptySteps == StepsOf(<< >>) = {} /\ (\A n : Sorted(n, << >>)) /\ << >> \in Seq(Steps)
BY DEF StepsOf, Sorted

LEMMA BeforeFacts ==
    ASSUME NEW n
    PROVE  /\ BeforeOf(n) \in Seq(Steps) /\ Sorted(n, BeforeOf(n))
           /\ StepsOf(BeforeOf(n)) = BeforeSteps(n)
<1>1. CASE n \in {"ceilometer", "nova"}
  BY <1>1 DEF BeforeOf, BeforeSteps, StepsOf, Sorted, Rank, Steps
<1>2. CASE n \in {"octavia", "conductor"}
  BY <1>2 DEF BeforeOf, BeforeSteps, StepsOf, Sorted, Steps
<1>3. CASE n = "glance"
  BY <1>3 DEF BeforeOf, BeforeSteps, StepsOf, Sorted, Rank, Steps
<1>4. CASE n \notin {"ceilometer", "nova", "octavia", "conductor", "glance"}
  BY <1>4, EmptySteps DEF BeforeOf, BeforeSteps
<1> QED  BY <1>1, <1>2, <1>3, <1>4

LEMMA AfterFacts ==
    ASSUME NEW n
    PROVE  /\ AfterOf(n) \in Seq(Steps) /\ Sorted(n, AfterOf(n))
           /\ StepsOf(AfterOf(n)) = AfterSteps(n)
<1>1. CASE n = "glance"
  BY <1>1 DEF AfterOf, AfterSteps, StepsOf, Sorted, Rank, Steps
<1>2. CASE n = "horizon"
  BY <1>2 DEF AfterOf, AfterSteps, StepsOf, Sorted, Steps
<1>3. CASE n = "watcher"
  BY <1>3 DEF AfterOf, AfterSteps, StepsOf, Sorted, Steps
<1>4. CASE n \notin {"glance", "horizon", "watcher"}
  BY <1>4, EmptySteps DEF AfterOf, AfterSteps
<1> QED  BY <1>1, <1>2, <1>3, <1>4

LEMMA UnitFacts ==
    ASSUME NEW n
    PROVE  /\ UnitOf(n) \in Seq(Steps) /\ Sorted(n, UnitOf(n))
           /\ StepsOf(UnitOf(n)) = UnitSteps(n)
<1>1. ConfigureUnit \in Seq(Steps)
  BY DEF ConfigureUnit, Steps
<1>2. Sorted(n, ConfigureUnit)
  BY DEF ConfigureUnit, Sorted, Rank
<1>3. StepsOf(ConfigureUnit) = CommonSteps
  BY DEF ConfigureUnit, StepsOf, CommonSteps
<1>4. CASE n \in {"glance", "neutron"}
  <2>1. <<"option">> \in Seq(Steps) /\ Sorted(n, <<"option">>)
        /\ StepsOf(<<"option">>) = {"option"}
    BY DEF Steps, Sorted, StepsOf
  <2>2. \A t \in CommonSteps : Rank(n, "option") < Rank(n, t)
    BY <1>4 DEF CommonSteps, Rank
  <2>3. UnitOf(n) = <<"option">> \o ConfigureUnit /\ UnitSteps(n) = {"option"} \cup CommonSteps
    BY <1>4 DEF UnitOf, UnitSteps
  <2>4. UnitOf(n) \in Seq(Steps)
    BY <1>1, <2>1, <2>3
  <2>5. Sorted(n, UnitOf(n))
    BY <1>1, <1>2, <1>3, <2>1, <2>2, <2>3, SortedConcat
  <2>6. StepsOf(<<"option">> \o ConfigureUnit) = StepsOf(<<"option">>) \cup StepsOf(ConfigureUnit)
    BY <1>1, <2>1, StepsOfConcat
  <2> QED  BY <1>3, <2>1, <2>3, <2>4, <2>5, <2>6
<1>5. CASE n = "designate"
  <2> DEFINE q == <<"leader", "relations", "containers", "sync", "services", "pebbles",
                    "pools", "bootstrapped">>
  <2>1. UnitOf(n) = q /\ UnitSteps(n) = CommonSteps \cup {"pools"}
    BY <1>5 DEF UnitOf, UnitSteps
  <2>2. q \in Seq(Steps)
    BY DEF Steps
  <2>3. Sorted(n, q)
    BY DEF Sorted, Rank
  <2>4. StepsOf(q) = CommonSteps \cup {"pools"}
    BY DEF StepsOf, CommonSteps
  <2> QED  BY <2>1, <2>2, <2>3, <2>4
<1>6. CASE n \in {"gnocchi", "magnum"}
  <2> DEFINE q == <<"leader", "relations", "option", "containers", "sync", "services",
                    "pebbles", "bootstrapped">>
  <2>1. UnitOf(n) = q /\ UnitSteps(n) = CommonSteps \cup {"option"}
    BY <1>6 DEF UnitOf, UnitSteps
  <2>2. q \in Seq(Steps)
    BY DEF Steps
  <2>3. Sorted(n, q)
    BY <1>6 DEF Sorted, Rank
  <2>4. StepsOf(q) = CommonSteps \cup {"option"}
    BY DEF StepsOf, CommonSteps
  <2> QED  BY <2>1, <2>2, <2>3, <2>4
<1>7. CASE n = "horizon"
  <2> DEFINE q == <<"leader", "relations", "option", "containers", "sync", "services",
                    "pebbles", "plugins", "bootstrapped">>
  <2>1. UnitOf(n) = q /\ UnitSteps(n) = CommonSteps \cup {"option", "plugins"}
    BY <1>7 DEF UnitOf, UnitSteps
  <2>2. q \in Seq(Steps)
    BY DEF Steps
  <2>3. Sorted(n, q)
    BY <1>7 DEF Sorted, Rank
  <2>4. StepsOf(q) = CommonSteps \cup {"option", "plugins"}
    BY DEF StepsOf, CommonSteps
  <2> QED  BY <2>1, <2>2, <2>3, <2>4
<1>8. CASE n \notin {"glance", "neutron", "designate", "gnocchi", "magnum", "horizon"}
  <2>1. UnitOf(n) = ConfigureUnit /\ UnitSteps(n) = CommonSteps
    BY <1>8 DEF UnitOf, UnitSteps
  <2> QED  BY <1>1, <1>2, <1>3, <2>1
<1> QED  BY <1>4, <1>5, <1>6, <1>7, <1>8

\* The hook of CharmHookStarts, for the row c.
ProgramOf(c) == c.before \o c.unit \o <<"app", "active">> \o c.after

\* The program of every charm is in order, and so is what stands behind its guard.
LEMMA ProgramFacts ==
    ASSUME NEW n \in CharmNames
    PROVE  LET c == CharmCatalogue[n]
           IN  /\ ProgramOf(c) \in Seq(Steps) /\ Sorted(n, ProgramOf(c))
               /\ StepsOf(ProgramOf(c)) = ProgramSteps(n)
               /\ c.after \in Seq(Steps) /\ Sorted(n, c.after)
               /\ StepsOf(c.after) = AfterSteps(n)
<1> DEFINE b == BeforeOf(n)
           u == UnitOf(n)
           a == AfterOf(n)
           m == <<"app", "active">>
<1>1. LET c == CharmCatalogue[n] IN c.before = b /\ c.unit = u /\ c.after = a
  BY CatalogueTable DEF CharmRow
<1>2. b \in Seq(Steps) /\ Sorted(n, b) /\ StepsOf(b) = BeforeSteps(n)
  BY BeforeFacts
<1>3. u \in Seq(Steps) /\ Sorted(n, u) /\ StepsOf(u) = UnitSteps(n)
  BY UnitFacts
<1>4. a \in Seq(Steps) /\ Sorted(n, a) /\ StepsOf(a) = AfterSteps(n)
  BY AfterFacts
<1>5. m \in Seq(Steps) /\ Sorted(n, m) /\ StepsOf(m) = {"app", "active"}
  BY DEF Steps, Sorted, Rank, StepsOf
<1> HIDE DEF b, u, a, m
<1>6. \A s \in BeforeSteps(n), t \in UnitSteps(n) : Rank(n, s) < Rank(n, t)
  BY DEF BeforeSteps, UnitSteps, CommonSteps, Rank
<1>7. /\ b \o u \in Seq(Steps) /\ Sorted(n, b \o u)
      /\ StepsOf(b \o u) = BeforeSteps(n) \cup UnitSteps(n)
  BY <1>2, <1>3, <1>6, SortedConcat, StepsOfConcat
<1>8. \A s \in BeforeSteps(n) \cup UnitSteps(n), t \in {"app", "active"} : Rank(n, s) < Rank(n,
                                                        t)
  BY DEF BeforeSteps, UnitSteps, CommonSteps, Rank
<1>9. /\ b \o u \o m \in Seq(Steps) /\ Sorted(n, b \o u \o m)
      /\ StepsOf(b \o u \o m) = BeforeSteps(n) \cup UnitSteps(n) \cup {"app", "active"}
  <2>1. b \o u \o m \in Seq(Steps)
    BY <1>5, <1>7, ConcatProperties
  <2>2. StepsOf(b \o u \o m) = BeforeSteps(n) \cup UnitSteps(n) \cup {"app", "active"}
    BY <1>5, <1>7, StepsOfConcat
  <2>3. Sorted(n, b \o u \o m)
    BY <1>5, <1>7, <1>8, SortedConcat
  <2> QED  BY <2>1, <2>2, <2>3
<1>10. \A s \in BeforeSteps(n) \cup UnitSteps(n) \cup {"app", "active"}, t \in AfterSteps(n) :
          Rank(n, s) < Rank(n, t)
  BY DEF BeforeSteps, UnitSteps, AfterSteps, CommonSteps, Rank
<1>11. /\ b \o u \o m \o a \in Seq(Steps) /\ Sorted(n, b \o u \o m \o a)
       /\ StepsOf(b \o u \o m \o a) = ProgramSteps(n)
  <2>1. b \o u \o m \o a \in Seq(Steps)
    BY <1>4, <1>9, ConcatProperties
  <2>2. StepsOf(b \o u \o m \o a) = ProgramSteps(n)
    BY <1>4, <1>9, StepsOfConcat DEF ProgramSteps
  <2>3. Sorted(n, b \o u \o m \o a)
    BY <1>4, <1>9, <1>10, SortedConcat
  <2> QED  BY <2>1, <2>2, <2>3
<1> QED  BY <1>1, <1>4, <1>11 DEF ProgramOf, m

-----------------------------------------------------------------------------
(* How far the hook has got.  Each invariant says what holds as long as    *)
(* some steps are left of it, or once they no longer are.                  *)

\* The steps that are left of the hook.
Left == StepsOf(todo)
AllStopped == \A h \in Handlers : run[h] = Stopped
Follows == cplan.leads \/ told

\* What is left of a hook is in order, and of the program of the charm.
TodoInv == Sorted(cplan.charm, todo) /\ Left \subseteq ProgramSteps(cplan.charm)

\* The leader syncs the database before the label; it is announced after that.
SchemaInv ==
    /\ label /\ cplan.leads => schema
    /\ told /\ ~ cplan.leads => schema

\* The steps that only the leader, or who has heard of it, comes to.
AfterLeader ==
    {"relations", "containers", "sync", "services", "pebbles", "pools", "plugins",
     "bootstrapped", "app", "active"}

\* Who neither leads nor has heard of the leader does not pass its step, has
\* not reported active and runs nothing, except where glance starts early.
FollowInv ==
    /\ "leader" \notin Left /\ Left \cap AfterLeader # {} => Follows
    /\ cplan.charm # "glance" /\ ~ Follows =>
          shown # "active" /\ (cplan.charm # "watcher" => AllStopped)

\* A follower of ceilometer or nova without the secret has done nothing yet.
SecretInv ==
    cplan.charm \in {"ceilometer", "nova"} /\ ~ cplan.leads /\ ~ minted =>
        AllStopped /\ shown # "active" /\ (Left = {} \/ "secret" \in Left)

\* What is down does not run.  Services start after the sync, but for those of
\* the charms that start them outside the guard.
RunInv ==
    /\ \A h \in Handlers : ~ up[h] => run[h] = Stopped
    /\ cplan.charm \notin Early =>
          /\ ~ schema => AllStopped
          /\ "sync" \notin Left /\ Left \cap {"services", "plugins"} # {} => schema

\* The steps behind the check of the relations.
AfterRelations == {"containers", "sync", "services", "pools", "plugins", "active"}

\* They are reached with the relations alone; without, and once the check has
\* been made, nothing runs.
RelatedInv ==
    /\ "relations" \notin Left /\ Left \cap AfterRelations # {} => related
    /\ cplan.charm \notin Early /\ ~ related /\ lacking \subseteq {"address"} /\ ~ awake
          /\ "relations" \notin Left => AllStopped

\* The ironic conductor without an address: its sanity check is to come or has
\* failed, and it has started nothing.
AddressInv ==
    "address" \in lacking =>
        /\ awake \/ gaveup \/ "sanity" \in Left
        /\ Left = {} \/ "sanity" \in Left
        /\ AllStopped

\* Before a unit reports active it has checked what it lacks; who is active,
\* and has nothing to wait for, lacks nothing.
ActiveInv ==
    cplan.charm \notin Overclaims =>
        /\ "active" \in Left /\ Left \cap {"sanity", "option"} = {} => lacking = {}
        /\ shown = "active" /\ ~ awake /\ "active" \notin Left => related /\ lacking = {}

\* Running services have read the files as they are, except for those that
\* this hook or an earlier one has yet to restart.
FileInv == \A h \in Handlers : run[h] = Stopped \/ run[h] = file[h] \/ h \in torn \cup changed

\* The condition of ProgramsConverge, with a hook that may still run.
Ready ==
    /\ ~ awake /\ started = {} /\ related /\ lacking = {}
    /\ cplan.leads \/ (minted /\ told)
    /\ \A h \in Handlers : up[h]
    /\ ~ gaveup

\* What is done of a hook of such a unit, by the steps that are not left.
ProgressInv ==
    Ready =>
        /\ "containers" \notin Left => \A h \in Handlers : file[h] = wanted
        /\ "sync" \notin Left => schema
        /\ "services" \notin Left => \A h \in Handlers : run[h] # Stopped
        /\ "bootstrapped" \notin Left => ubooted
        /\ "app" \notin Left => told
        /\ "active" \notin Left => shown = "active"

CharmsInv ==
    /\ ApiCharmsTypeOK /\ TodoInv /\ SchemaInv /\ FollowInv /\ SecretInv /\ RunInv
    /\ RelatedInv /\ AddressInv /\ ActiveInv /\ FileInv /\ ProgressInv

-----------------------------------------------------------------------------
(* Facts for all steps.                                                    *)

\* The charm of the behaviour, by its row.
LEMMA PlanFacts ==
    ASSUME cplan \in CharmPlans
    PROVE  /\ cplan.charm \in CharmNames /\ cplan.leads \in BOOLEAN
           /\ cplan.most \in 0 .. MaxCharmFaults
           /\ MyCharm.pod \in Seq(PodHandler) /\ MyCharm.sync \in Handlers
           /\ Handlers = 1 .. Len(MyCharm.pod) /\ Len(MyCharm.pod) \in Nat
           /\ MyCharm.asks = AsksOf(cplan.charm)
           /\ MyCharm.waits = (cplan.charm # "neutron")
           /\ MyCharm.kicks = (cplan.charm = "neutron")
           /\ MaxConfig \in Nat \ {0} /\ MaxCharmFaults \in Nat
<1>1. cplan \in [charm : CharmNames, leads : BOOLEAN, faults : SUBSET CharmFaults,
                 most : 0 .. MaxCharmFaults] /\ MaxConfig \in Nat \ {0} /\ MaxCharmFaults \in Nat
  BY CharmsAssumption
<1>2. cplan.charm \in CharmNames
  BY <1>1
<1>3. MyCharm.pod \in Seq(PodHandler) /\ MyCharm.sync \in DOMAIN MyCharm.pod
  BY CharmsAssumption DEF MyCharm
<1>4. Handlers = 1 .. Len(MyCharm.pod) /\ Len(MyCharm.pod) \in Nat
  BY LenProperties DEF Handlers
<1> QED  BY <1>1, <1>3, CatalogueTable DEF CharmRow, MyCharm, Handlers

\* A behaviour is about one charm.
LEMMA Frame == cplan' = cplan => MyCharm' = MyCharm /\ Handlers' = Handlers
BY DEF MyCharm, Handlers

LEMMA RankIsNatural == \A n : \A s \in Steps : Rank(n, s) \in Nat
BY DEF Steps, Rank

\* The step s is to be taken: all that is left comes later.  It proceeds, goes on
\* behind the guard, or leaves.
LEMMA StepFacts ==
    ASSUME ApiCharmsTypeOK, TodoInv, NEW s, At(s), cplan' = cplan
    PROVE  /\ s \in Left /\ Left # {}
           /\ \A t \in Left : t = s \/ Rank(cplan.charm, s) < Rank(cplan.charm, t)
           /\ todo' = Tail(todo) =>
                 todo' \in Seq(Steps) /\ TodoInv' /\ Left' = Left \ {s}
           /\ todo' = MyCharm.after =>
                 todo' \in Seq(Steps) /\ TodoInv' /\ Left' = AfterSteps(cplan.charm)
           /\ todo' = << >> =>
                 todo' \in Seq(Steps) /\ TodoInv' /\ Left' = {}
<1> DEFINE n == cplan.charm
<1>1. todo \in Seq(Steps) /\ todo # << >> /\ Sorted(n, todo) /\ s = Head(todo)
  BY DEF ApiCharmsTypeOK, TodoInv, At, Idle
<1>2. /\ Head(todo) \in StepsOf(todo)
      /\ Tail(todo) \in Seq(Steps) /\ Sorted(n, Tail(todo))
      /\ StepsOf(Tail(todo)) \subseteq StepsOf(todo)
      /\ \A t \in StepsOf(todo) : t = Head(todo) \/ t \in StepsOf(Tail(todo))
      /\ \A t \in StepsOf(Tail(todo)) : Rank(n, Head(todo)) < Rank(n, t)
  BY <1>1, StepTaken
<1>3. s \in Steps
  BY <1>1, HeadTailProperties
<1>4. StepsOf(Tail(todo)) = StepsOf(todo) \ {s}
  BY <1>1, <1>2, RankIsNatural
<1>5. n \in CharmNames
  BY PlanFacts DEF ApiCharmsTypeOK
<1>6. /\ MyCharm.after \in Seq(Steps) /\ Sorted(n, MyCharm.after)
      /\ StepsOf(MyCharm.after) = AfterSteps(n)
  BY <1>5, ProgramFacts DEF MyCharm
<1>7. AfterSteps(n) \subseteq ProgramSteps(n)
  BY DEF ProgramSteps
<1>8. ASSUME todo' = Tail(todo) PROVE todo' \in Seq(Steps) /\ TodoInv' /\ Left' = Left \ {s}
  BY <1>2, <1>4, <1>8 DEF TodoInv, Left
<1>9. ASSUME todo' = MyCharm.after PROVE todo' \in Seq(Steps) /\ TodoInv'
      /\ Left' = AfterSteps(n)
  BY <1>6, <1>7, <1>9 DEF TodoInv, Left
<1>10. ASSUME todo' = << >> PROVE todo' \in Seq(Steps) /\ TodoInv' /\ Left' = {}
  BY <1>10, EmptySteps DEF TodoInv, Left
<1> QED  BY <1>1, <1>2, <1>8, <1>9, <1>10 DEF Left

LEMMA IdleFacts == Idle => Left = {}
BY EmptySteps DEF Idle, Left

LEMMA ReachedFacts ==
    ASSUME ApiCharmsTypeOK
    PROVE  /\ Reached \subseteq Handlers
           /\ \A h \in Reached : up[h]
           /\ AllReached <=> \A h \in Handlers : up[h]
<1>1. Handlers = 1 .. Len(MyCharm.pod) /\ Len(MyCharm.pod) \in Nat
  BY PlanFacts DEF ApiCharmsTypeOK
<1>2. \A h \in Handlers : h \in 1 .. h /\ 1 .. h \subseteq Handlers
  BY <1>1
<1> QED  BY <1>2 DEF Reached, AllReached

\* Whose steps they are, and what those charms may lack.
LEMMA StepOwners ==
    ASSUME ApiCharmsTypeOK, TodoInv
    PROVE  /\ "secret" \in Left => cplan.charm \in {"ceilometer", "nova"} /\ lacking = {}
           /\ "sanity" \in Left =>
                 cplan.charm \in {"octavia", "conductor"}
                 /\ lacking \subseteq {"sanity", "address"}
           /\ Left \cap {"storage", "early", "restart"} # {} => cplan.charm = "glance"
           /\ "option" \in Left =>
                 /\ cplan.charm \in {"glance", "neutron", "gnocchi", "magnum", "horizon"}
                 /\ cplan.charm # "glance" => lacking \subseteq {"option"}
           /\ "address" \in lacking => cplan.charm = "conductor"
           /\ "pools" \in Left => cplan.charm = "designate"
           /\ "plugins" \in Left => cplan.charm = "horizon"
           /\ "start" \in Left => cplan.charm = "watcher"
           /\ "claim" \in Left => cplan.charm \in {"glance", "horizon"}
<1>1. Left \subseteq ProgramSteps(cplan.charm)
  BY DEF TodoInv
<1>2. \A s \in Left : /\ s = "secret" => cplan.charm \in {"ceilometer", "nova"}
                      /\ s = "sanity" => cplan.charm \in {"octavia", "conductor"}
                      /\ s \in {"storage", "early"} => cplan.charm = "glance"
  BY <1>1 DEF ProgramSteps, BeforeSteps, UnitSteps, CommonSteps, AfterSteps
<1>3. \A s \in Left :
          /\ s = "option"
             => cplan.charm \in {"glance", "neutron", "gnocchi", "magnum", "horizon"}
          /\ s = "pools" => cplan.charm = "designate"
          /\ s = "plugins" => cplan.charm = "horizon"
  BY <1>1 DEF ProgramSteps, BeforeSteps, UnitSteps, CommonSteps, AfterSteps
<1>4. \A s \in Left : /\ s = "restart" => cplan.charm = "glance"
                      /\ s = "start" => cplan.charm = "watcher"
                      /\ s = "claim" => cplan.charm \in {"glance", "horizon"}
  BY <1>1 DEF ProgramSteps, BeforeSteps, UnitSteps, CommonSteps, AfterSteps
<1>5. lacking \subseteq AsksOf(cplan.charm)
  BY PlanFacts DEF ApiCharmsTypeOK
<1>6. /\ cplan.charm \in {"ceilometer", "nova"} => lacking = {}
      /\ cplan.charm \in {"octavia", "conductor"} => lacking \subseteq {"sanity", "address"}
      /\ cplan.charm \in {"neutron", "gnocchi", "magnum", "horizon"}
         => lacking \subseteq {"option"}
      /\ "address" \in lacking => cplan.charm = "conductor"
  BY <1>5 DEF AsksOf
<1> QED  BY <1>2, <1>3, <1>4, <1>6

-----------------------------------------------------------------------------
(* The steps of the base charm.                                            *)

\* One lemma for each action: first what the step does, then each conjunct.
LEMMA ChecksLeaderKeeps ==
    ASSUME CharmsInv, CharmChecksLeader
    PROVE  CharmsInv'
<1>1. /\ UNCHANGED <<cplan, awake, started, related, lacking, wanted, torn, changed, told,
                     minted, schema, label, ubooted, up, layer, file, run, cfaults, gaveup>>
      /\ At("leader")
      /\ \/ Follows /\ todo' = Tail(todo) /\ shown' = shown
         \/ ~ Follows /\ todo' = MyCharm.after /\ shown' = "waiting"
  BY DEF CharmChecksLeader, Proceed, Guarded, Follows, cenvVars, cappVars, cpodVars
<1>2. MyCharm' = MyCharm /\ Handlers' = Handlers
  BY <1>1, Frame
<1>3. /\ "leader" \in Left /\ Left # {}
      /\ Left \cap {"secret", "sanity", "storage", "early"} = {}
      /\ cplan.charm \in {"glance", "neutron"} => "option" \notin Left
  BY <1>1, StepFacts DEF CharmsInv, Rank
<1>4. /\ todo' \in Seq(Steps) /\ TodoInv'
      /\ \/ Follows /\ Left' = Left \ {"leader"} /\ shown' = shown
         \/ ~ Follows /\ Left' = AfterSteps(cplan.charm) /\ shown' = "waiting"
  BY <1>1, StepFacts DEF CharmsInv
<1>5. ApiCharmsTypeOK'
  BY <1>1, <1>2, <1>4 DEF CharmsInv, ApiCharmsTypeOK
<1>6. SchemaInv'
  BY <1>1 DEF CharmsInv, SchemaInv
<1>7. FollowInv'
  BY <1>1, <1>2, <1>4 DEF CharmsInv, FollowInv, AfterLeader, AllStopped, Follows, AfterSteps
<1>8. SecretInv'
  BY <1>1, <1>3 DEF CharmsInv, SecretInv
<1>9. RunInv'
  BY <1>1, <1>2, <1>4 DEF CharmsInv, RunInv, AllStopped, AfterSteps
<1>10. RelatedInv'
  BY <1>1, <1>2, <1>4
     DEF CharmsInv, RelatedInv, AfterRelations, FollowInv, AllStopped, AfterSteps, Early
<1>11. AddressInv'
  BY <1>1, <1>3 DEF CharmsInv, AddressInv
<1>12. ActiveInv'
  BY <1>1, <1>4 DEF CharmsInv, ActiveInv, AfterSteps
<1>13. FileInv'
  BY <1>1, <1>2 DEF CharmsInv, FileInv
<1>14. ProgressInv'
  BY <1>1, <1>2, <1>4 DEF CharmsInv, ProgressInv, Ready, Follows
<1> QED  BY <1>4, <1>5, <1>6, <1>7, <1>8, <1>9, <1>10, <1>11, <1>12, <1>13, <1>14 DEF CharmsInv

LEMMA ChecksRelationsKeeps ==
    ASSUME CharmsInv, CharmChecksRelations
    PROVE  CharmsInv'
<1>1. /\ UNCHANGED <<cplan, awake, started, related, lacking, wanted, torn, changed, told,
                     minted, schema, label, ubooted, up, layer, file, cfaults, gaveup>>
      /\ At("relations")
      /\ \/ related /\ todo' = Tail(todo) /\ run' = run /\ shown' = shown
         \/ ~ related /\ todo' = MyCharm.after /\ shown' = "waiting"
            /\ run' = [h \in Handlers |-> IF up[h] THEN Stopped ELSE run[h]]
  BY DEF CharmChecksRelations, Proceed, Guarded, cenvVars, cappVars
<1>2. MyCharm' = MyCharm /\ Handlers' = Handlers
  BY <1>1, Frame
<1>3. /\ "relations" \in Left /\ Left # {}
      /\ Left \cap {"secret", "sanity", "storage", "early", "leader"} = {}
      /\ cplan.charm \in {"glance", "neutron"} => "option" \notin Left
  BY <1>1, StepFacts DEF CharmsInv, Rank
<1>4. /\ todo' \in Seq(Steps) /\ TodoInv'
      /\ \/ related /\ Left' = Left \ {"relations"} /\ run' = run /\ shown' = shown
         \/ ~ related /\ Left' = AfterSteps(cplan.charm) /\ shown' = "waiting"
            /\ run' = [h \in Handlers |-> IF up[h] THEN Stopped ELSE run[h]]
  BY <1>1, StepFacts DEF CharmsInv
<1>5. \A h \in Handlers : run[h] \in Stopped .. MaxConfig /\ Stopped \in Stopped .. MaxConfig
  BY PlanFacts DEF CharmsInv, ApiCharmsTypeOK, Stopped
<1>6. ~ related => AllStopped'
  BY <1>1, <1>2 DEF CharmsInv, RunInv, AllStopped
<1>7. ApiCharmsTypeOK'
  BY <1>1, <1>2, <1>4, <1>5 DEF CharmsInv, ApiCharmsTypeOK
<1>8. SchemaInv'
  BY <1>1 DEF CharmsInv, SchemaInv
<1>9. FollowInv'
  BY <1>1, <1>3 DEF CharmsInv, FollowInv, AfterLeader, Follows
<1>10. SecretInv'
  BY <1>1, <1>3 DEF CharmsInv, SecretInv
<1>11. RunInv'
  BY <1>1, <1>2, <1>4 DEF CharmsInv, RunInv, AllStopped, AfterSteps
<1>12. RelatedInv'
  BY <1>1, <1>4, <1>6 DEF RelatedInv, AfterRelations, AfterSteps
<1>13. AddressInv'
  BY <1>1, <1>3 DEF CharmsInv, AddressInv
<1>14. ActiveInv'
  BY <1>1, <1>4 DEF CharmsInv, ActiveInv, AfterSteps
<1>15. FileInv'
  BY <1>1, <1>2 DEF CharmsInv, FileInv
<1>16. ProgressInv'
  BY <1>1, <1>2, <1>4 DEF CharmsInv, ProgressInv, Ready
<1> QED
  BY <1>4, <1>7, <1>8, <1>9, <1>10, <1>11, <1>12, <1>13, <1>14, <1>15, <1>16 DEF CharmsInv

LEMMA ConfigureContainersKeeps ==
    ASSUME CharmsInv, ConfigureContainers
    PROVE  CharmsInv'
<1>1. /\ UNCHANGED <<cplan, awake, started, related, lacking, wanted, torn, told, minted,
                     schema, label, ubooted, up, layer, run, cfaults, gaveup>>
      /\ At("containers")
      /\ file' = [h \in Handlers |-> IF h \in Reached THEN wanted ELSE file[h]]
      /\ changed' = changed \cup {h \in Reached : file[h] # wanted}
      /\ \/ AllReached /\ todo' = Tail(todo) /\ shown' = shown
         \/ ~ AllReached /\ todo' = MyCharm.after /\ shown' = "waiting"
  BY DEF ConfigureContainers, Proceed, Guarded, cenvVars, cappVars
<1>2. MyCharm' = MyCharm /\ Handlers' = Handlers
  BY <1>1, Frame
<1>3. /\ "containers" \in Left /\ Left # {}
      /\ Left \cap {"secret", "sanity", "storage", "early", "leader", "relations"} = {}
      /\ "option" \notin Left
  BY <1>1, StepFacts DEF CharmsInv, Rank
<1>4. /\ todo' \in Seq(Steps) /\ TodoInv'
      /\ \/ AllReached /\ Left' = Left \ {"containers"} /\ shown' = shown
         \/ ~ AllReached /\ Left' = AfterSteps(cplan.charm) /\ shown' = "waiting"
  BY <1>1, StepFacts DEF CharmsInv
<1>5. Reached \subseteq Handlers /\ (AllReached <=> \A h \in Handlers : up[h])
      /\ (AllReached => Reached = Handlers)
  BY ReachedFacts DEF CharmsInv, AllReached
<1>6. file' \in [Handlers -> Image .. MaxConfig]
  BY <1>1 DEF CharmsInv, ApiCharmsTypeOK, Image
<1>7. ApiCharmsTypeOK'
  BY <1>1, <1>2, <1>4, <1>5, <1>6 DEF CharmsInv, ApiCharmsTypeOK
<1>8. SchemaInv'
  BY <1>1 DEF CharmsInv, SchemaInv
<1>9. FollowInv'
  BY <1>1, <1>3 DEF CharmsInv, FollowInv, AfterLeader, Follows
<1>10. SecretInv'
  BY <1>1, <1>3 DEF CharmsInv, SecretInv
<1>11. RunInv'
  BY <1>1, <1>2, <1>4 DEF CharmsInv, RunInv, AllStopped, AfterSteps
<1>12. RelatedInv'
  BY <1>1, <1>3 DEF CharmsInv, RelatedInv, AfterRelations
<1>13. AddressInv'
  BY <1>1, <1>3 DEF CharmsInv, AddressInv
<1>14. ActiveInv'
  BY <1>1, <1>4 DEF CharmsInv, ActiveInv, AfterSteps
<1>15. FileInv'
  BY <1>1, <1>2 DEF CharmsInv, FileInv
<1>16. ProgressInv'
  BY <1>1, <1>2, <1>4, <1>5 DEF CharmsInv, ProgressInv, Ready
<1> QED
  BY <1>4, <1>7, <1>8, <1>9, <1>10, <1>11, <1>12, <1>13, <1>14, <1>15, <1>16 DEF CharmsInv

LEMMA RunDbSyncKeeps ==
    ASSUME CharmsInv, RunDbSync
    PROVE  CharmsInv'
<1>1. /\ UNCHANGED <<cplan, awake, started, related, lacking, wanted, torn, told, minted,
                     ubooted, up, layer, file>>
      /\ At("sync")
      /\ \/ run' = run /\ changed' = changed
         \/ /\ MyCharm.kicks /\ label' = TRUE
            /\ run' = [h \in Handlers |-> IF up[h] /\ layer[h] THEN file[h] ELSE run[h]]
            /\ changed' = {h \in changed : ~ up[h] \/ ~ layer[h]}
      /\ \/ (label \/ ~ cplan.leads \/ up[MyCharm.sync]) /\ todo' = Tail(todo)
            /\ shown' = shown /\ gaveup' = gaveup /\ cfaults' = cfaults
            /\ label' = TRUE /\ schema' = (schema \/ (cplan.leads /\ ~ label))
         \/ ~ label /\ cplan.leads /\ ~ up[MyCharm.sync] /\ todo' = MyCharm.after
            /\ shown' = "blocked" /\ gaveup' = gaveup /\ cfaults' = cfaults
            /\ UNCHANGED <<label, schema, run, changed>>
         \/ ~ label /\ cplan.leads /\ todo' = MyCharm.after /\ shown' = "blocked"
            /\ gaveup' = TRUE /\ cfaults' = cfaults + 1 /\ cfaults < cplan.most
            /\ UNCHANGED <<label, schema, run, changed>>
  BY DEF RunDbSync, Proceed, Guarded, Fails, CFault, cenvVars
<1>2. MyCharm' = MyCharm /\ Handlers' = Handlers
  BY <1>1, Frame
<1>3. /\ "sync" \in Left /\ Left # {}
      /\ Left \cap {"secret", "sanity", "storage", "early", "leader", "relations",
                    "containers"} = {}
      /\ "option" \notin Left
  BY <1>1, StepFacts DEF CharmsInv, Rank
<1>4. /\ todo' \in Seq(Steps) /\ TodoInv'
      /\ \/ (label \/ ~ cplan.leads \/ up[MyCharm.sync]) /\ Left' = Left \ {"sync"}
            /\ shown' = shown /\ gaveup' = gaveup /\ cfaults' = cfaults
            /\ label' = TRUE /\ schema' = (schema \/ (cplan.leads /\ ~ label))
         \/ ~ label /\ cplan.leads /\ ~ up[MyCharm.sync] /\ Left' = AfterSteps(cplan.charm)
            /\ shown' = "blocked" /\ gaveup' = gaveup /\ cfaults' = cfaults
            /\ UNCHANGED <<label, schema, run, changed>>
         \/ ~ label /\ cplan.leads /\ Left' = AfterSteps(cplan.charm) /\ shown' = "blocked"
            /\ gaveup' = TRUE /\ cfaults' = cfaults + 1 /\ cfaults < cplan.most
            /\ UNCHANGED <<label, schema, run, changed>>
  BY <1>1, StepFacts DEF CharmsInv
<1>5. MyCharm.kicks = (cplan.charm = "neutron") /\ MyCharm.sync \in Handlers
  BY PlanFacts DEF CharmsInv, ApiCharmsTypeOK
<1>6. schema \in BOOLEAN /\ label \in BOOLEAN /\ cplan.leads \in BOOLEAN
  BY PlanFacts DEF CharmsInv, ApiCharmsTypeOK
<1>7. \/ label' = TRUE /\ schema' = (schema \/ (cplan.leads /\ ~ label))
      \/ label' = label /\ schema' = schema
  BY DEF RunDbSync
<1>8. /\ schema' \in BOOLEAN /\ label' \in BOOLEAN /\ (schema => schema')
      /\ cplan.leads /\ label' => schema'
  <2>1. CASE label' = label /\ schema' = schema
    BY <1>6, <2>1 DEF CharmsInv, SchemaInv
  <2>2. CASE label' = TRUE /\ schema' = (schema \/ (cplan.leads /\ ~ label))
    <3>1. schema' \in BOOLEAN
      BY <2>2, Zenon
    <3>2. schema => schema'
      BY <2>2, Zenon
    <3>3. cplan.leads /\ ~ label => schema'
      BY <2>2, Zenon
    <3> QED  BY <2>2 DEF CharmsInv, SchemaInv
  <2> QED  BY <1>7, <2>1, <2>2
<1>9. run' \in [Handlers -> Stopped .. MaxConfig] /\ changed' \subseteq Handlers
  BY <1>1 DEF CharmsInv, ApiCharmsTypeOK, Image, Stopped
<1>10. (schema' /\ Left' = Left \ {"sync"})
       \/ (run' = run /\ schema' = schema /\ Left' = AfterSteps(cplan.charm))
  <2>1. Follows
    <3>1. "leader" \notin Left /\ Left \cap AfterLeader # {}
      BY <1>3 DEF AfterLeader
    <3> QED  BY <3>1 DEF CharmsInv, FollowInv
  <2>2. label' = TRUE => schema'
    BY <1>8, <2>1 DEF CharmsInv, SchemaInv, Follows
  <2> QED  BY <1>4, <2>2
<1>11. label' = TRUE \/ (UNCHANGED <<label, schema, run,
                                     changed>> /\ ~ (label \/ ~ cplan.leads))
  BY <1>4
<1>12. \A h \in Handlers : file[h] # Stopped
  BY DEF CharmsInv, ApiCharmsTypeOK, Image, Stopped
<1>13. cfaults' \in 0 .. MaxCharmFaults
  BY <1>4, PlanFacts DEF CharmsInv, ApiCharmsTypeOK
<1>14. ApiCharmsTypeOK'
  BY <1>1, <1>2, <1>4, <1>9, <1>13 DEF CharmsInv, ApiCharmsTypeOK
<1>15. SchemaInv'
  BY <1>1 DEF CharmsInv, SchemaInv
<1>16. FollowInv'
  BY <1>1, <1>3 DEF CharmsInv, FollowInv, AfterLeader, Follows
<1>17. SecretInv'
  BY <1>1, <1>3 DEF CharmsInv, SecretInv
<1>18. RunInv'
  <2>1. \A h \in Handlers' : ~ up'[h] => run'[h] = Stopped
    BY <1>1, <1>2 DEF CharmsInv, RunInv
  <2>2. schema \/ AllStopped \/ cplan.charm \in Early
    BY DEF CharmsInv, RunInv
  <2>3. CASE schema' /\ Left' = Left \ {"sync"}
    BY <2>1, <2>3 DEF RunInv
  <2>4. CASE run' = run /\ schema' = schema /\ Left' = AfterSteps(cplan.charm)
    <3>1. Left' \cap {"services", "plugins"} = {}
      BY <2>4 DEF AfterSteps
    <3>2. schema' \/ AllStopped' \/ cplan'.charm \in Early
      BY <1>1, <1>2, <2>2, <2>4 DEF AllStopped
    <3> QED  BY <2>1, <3>1, <3>2 DEF RunInv
  <2> QED  BY <1>10, <2>3, <2>4
<1>19. RelatedInv'
  BY <1>1, <1>3 DEF CharmsInv, RelatedInv, AfterRelations
<1>20. AddressInv'
  BY <1>1, <1>3 DEF CharmsInv, AddressInv
<1>21. ActiveInv'
  BY <1>1, <1>4 DEF CharmsInv, ActiveInv, AfterSteps
<1>22. FileInv'
  BY <1>1, <1>2 DEF CharmsInv, FileInv
<1>23. ProgressInv'
  BY <1>1, <1>2, <1>4, <1>5, <1>8, <1>12 DEF CharmsInv, ProgressInv, SchemaInv, Ready
<1> QED
  BY <1>4, <1>14, <1>15, <1>16, <1>17, <1>18, <1>19, <1>20, <1>21, <1>22, <1>23 DEF CharmsInv

LEMMA CheckPebbleKeeps ==
    ASSUME CharmsInv, CheckPebbleHandlersReady
    PROVE  CharmsInv'
<1>1. /\ UNCHANGED <<cplan, awake, started, related, lacking, wanted, torn, changed, told,
                     minted, schema, label, ubooted, up, layer, file, run, cfaults, gaveup>>
      /\ At("pebbles")
      /\ \/ todo' = Tail(todo) /\ shown' = shown
         \/ todo' = MyCharm.after /\ shown' = "waiting"
            /\ \E h \in Handlers : ~ up[h] \/ run[h] = Stopped
  BY DEF CheckPebbleHandlersReady, Proceed, Guarded, cenvVars, cappVars, cpodVars
<1>2. MyCharm' = MyCharm /\ Handlers' = Handlers
  BY <1>1, Frame
<1>3. /\ "pebbles" \in Left /\ Left # {}
      /\ Left \cap {"secret", "sanity", "storage", "early", "leader", "relations",
                    "containers", "sync", "services"} = {}
      /\ "option" \notin Left
  BY <1>1, StepFacts DEF CharmsInv, Rank
<1>4. /\ todo' \in Seq(Steps) /\ TodoInv'
      /\ \/ Left' = Left \ {"pebbles"} /\ shown' = shown
         \/ Left' = AfterSteps(cplan.charm) /\ shown' = "waiting"
            /\ \E h \in Handlers : ~ up[h] \/ run[h] = Stopped
  BY <1>1, StepFacts DEF CharmsInv
<1>5. ApiCharmsTypeOK'
  BY <1>1, <1>2, <1>4 DEF CharmsInv, ApiCharmsTypeOK
<1>6. SchemaInv'
  BY <1>1 DEF CharmsInv, SchemaInv
<1>7. FollowInv'
  BY <1>1, <1>3 DEF CharmsInv, FollowInv, AfterLeader, Follows
<1>8. SecretInv'
  BY <1>1, <1>3 DEF CharmsInv, SecretInv
<1>9. RunInv'
  BY <1>1, <1>2, <1>4 DEF CharmsInv, RunInv, AllStopped, AfterSteps
<1>10. RelatedInv'
  BY <1>1, <1>2, <1>3, <1>4 DEF CharmsInv, RelatedInv, AfterRelations, AllStopped, AfterSteps
<1>11. AddressInv'
  BY <1>1, <1>3 DEF CharmsInv, AddressInv
<1>12. ActiveInv'
  BY <1>1, <1>4 DEF CharmsInv, ActiveInv, AfterSteps
<1>13. FileInv'
  BY <1>1, <1>2 DEF CharmsInv, FileInv
<1>14. ProgressInv'
  BY <1>1, <1>2, <1>3, <1>4 DEF CharmsInv, ProgressInv, Ready
<1> QED  BY <1>4, <1>5, <1>6, <1>7, <1>8, <1>9, <1>10, <1>11, <1>12, <1>13, <1>14 DEF CharmsInv

LEMMA UnitBootstrappedKeeps ==
    ASSUME CharmsInv, UnitBootstrapped
    PROVE  CharmsInv'
<1>1. /\ UNCHANGED <<cplan, awake, started, related, lacking, wanted, torn, changed, told,
                     minted, schema, label, up, layer, file, run, cfaults, gaveup>>
      /\ At("bootstrapped")
      /\ ubooted' = TRUE
      /\ todo' = Tail(todo) /\ shown' = shown
  BY DEF UnitBootstrapped, Proceed, cenvVars, cappVars, cpodVars
<1>2. MyCharm' = MyCharm /\ Handlers' = Handlers
  BY <1>1, Frame
<1>3. /\ "bootstrapped" \in Left /\ Left # {}
      /\ Left \cap {"secret", "sanity", "storage", "early", "leader", "relations",
                    "containers", "sync", "services", "pebbles", "pools", "plugins"} = {}
      /\ "option" \notin Left
  BY <1>1, StepFacts DEF CharmsInv, Rank
<1>4. /\ todo' \in Seq(Steps) /\ TodoInv'
      /\ Left' = Left \ {"bootstrapped"} /\ shown' = shown
  BY <1>1, StepFacts DEF CharmsInv
<1>5. ApiCharmsTypeOK'
  BY <1>1, <1>2, <1>4 DEF CharmsInv, ApiCharmsTypeOK
<1>6. SchemaInv'
  BY <1>1 DEF CharmsInv, SchemaInv
<1>7. FollowInv'
  BY <1>1, <1>3 DEF CharmsInv, FollowInv, AfterLeader, Follows
<1>8. SecretInv'
  BY <1>1, <1>3 DEF CharmsInv, SecretInv
<1>9. RunInv'
  BY <1>1, <1>2, <1>4 DEF CharmsInv, RunInv, AllStopped
<1>10. RelatedInv'
  BY <1>1, <1>2, <1>4 DEF CharmsInv, RelatedInv, AllStopped
<1>11. AddressInv'
  BY <1>1, <1>3 DEF CharmsInv, AddressInv
<1>12. ActiveInv'
  BY <1>1, <1>4 DEF CharmsInv, ActiveInv
<1>13. FileInv'
  BY <1>1, <1>2 DEF CharmsInv, FileInv
<1>14. ProgressInv'
  BY <1>1, <1>2, <1>4 DEF CharmsInv, ProgressInv, Ready
<1> QED  BY <1>4, <1>5, <1>6, <1>7, <1>8, <1>9, <1>10, <1>11, <1>12, <1>13, <1>14 DEF CharmsInv

LEMMA ConfiguresAppKeeps ==
    ASSUME CharmsInv, CharmConfiguresApp
    PROVE  CharmsInv'
<1>1. /\ UNCHANGED <<cplan, awake, started, related, lacking, wanted, torn, changed, minted,
                     schema, label, ubooted, up, layer, file, run, cfaults, gaveup>>
      /\ At("app")
      /\ told' = (told \/ cplan.leads)
      /\ \/ (cplan.leads \/ ~ MyCharm.waits \/ (ubooted /\ told)) /\ todo' = Tail(todo)
            /\ shown' = shown
         \/ ~ cplan.leads /\ ~ (ubooted /\ told) /\ todo' = MyCharm.after /\ shown' = "waiting"
  BY DEF CharmConfiguresApp, Proceed, Guarded, cenvVars, cpodVars
<1>2. MyCharm' = MyCharm /\ Handlers' = Handlers
  BY <1>1, Frame
<1>3. /\ "app" \in Left /\ Left # {}
      /\ Left \cap {"secret", "sanity", "storage", "early", "leader", "relations",
                    "containers", "sync", "services", "pebbles", "pools", "plugins",
                    "bootstrapped"} = {}
      /\ "option" \notin Left
  BY <1>1, StepFacts DEF CharmsInv, Rank
<1>4. /\ todo' \in Seq(Steps) /\ TodoInv'
      /\ \/ (cplan.leads \/ ~ MyCharm.waits \/ (ubooted /\ told)) /\ Left' = Left \ {"app"}
            /\ shown' = shown
         \/ ~ cplan.leads /\ ~ (ubooted /\ told) /\ Left' = AfterSteps(cplan.charm)
            /\ shown' = "waiting"
  BY <1>1, StepFacts DEF CharmsInv
<1>5. MyCharm.waits = (cplan.charm # "neutron")
  BY PlanFacts DEF CharmsInv, ApiCharmsTypeOK
<1>6. ApiCharmsTypeOK'
  BY <1>1, <1>2, <1>4 DEF CharmsInv, ApiCharmsTypeOK
<1>7. SchemaInv'
  BY <1>1 DEF CharmsInv, SchemaInv
<1>8. FollowInv'
  BY <1>1, <1>3 DEF CharmsInv, FollowInv, AfterLeader, Follows
<1>9. SecretInv'
  BY <1>1, <1>3 DEF CharmsInv, SecretInv
<1>10. RunInv'
  BY <1>1, <1>2, <1>4 DEF CharmsInv, RunInv, AllStopped, AfterSteps
<1>11. RelatedInv'
  BY <1>1, <1>2, <1>3, <1>4 DEF CharmsInv, RelatedInv, AfterRelations, AllStopped, AfterSteps
<1>12. AddressInv'
  BY <1>1, <1>3 DEF CharmsInv, AddressInv
<1>13. ActiveInv'
  BY <1>1, <1>4 DEF CharmsInv, ActiveInv, AfterSteps
<1>14. FileInv'
  BY <1>1, <1>2 DEF CharmsInv, FileInv
<1>15. ProgressInv'
  BY <1>1, <1>2, <1>3, <1>4 DEF CharmsInv, ProgressInv, Ready
<1> QED
  BY <1>4, <1>6, <1>7, <1>8, <1>9, <1>10, <1>11, <1>12, <1>13, <1>14, <1>15 DEF CharmsInv

LEMMA SetsActiveKeeps ==
    ASSUME CharmsInv, SetsActive
    PROVE  CharmsInv'
<1>1. /\ UNCHANGED <<cplan, awake, started, related, lacking, wanted, torn, changed, told,
                     minted, schema, label, ubooted, up, layer, file, run, cfaults, gaveup>>
      /\ At("active")
      /\ todo' = Tail(todo) /\ shown' = "active"
  BY DEF SetsActive, cenvVars, cappVars, cpodVars
<1>2. MyCharm' = MyCharm /\ Handlers' = Handlers
  BY <1>1, Frame
<1>3. /\ "active" \in Left /\ Left # {}
      /\ Left \cap {"secret", "sanity", "storage", "early", "leader", "relations",
                    "containers", "sync", "services", "pebbles", "pools", "plugins",
                    "bootstrapped", "app"} = {}
      /\ "option" \notin Left
  BY <1>1, StepFacts DEF CharmsInv, Rank
<1>4. /\ todo' \in Seq(Steps) /\ TodoInv'
      /\ Left' = Left \ {"active"} /\ shown' = "active"
  BY <1>1, StepFacts DEF CharmsInv
<1>5. ApiCharmsTypeOK'
  BY <1>1, <1>2, <1>4 DEF CharmsInv, ApiCharmsTypeOK
<1>6. SchemaInv'
  BY <1>1 DEF CharmsInv, SchemaInv
<1>7. FollowInv'
  BY <1>1, <1>3 DEF CharmsInv, FollowInv, AfterLeader, Follows
<1>8. SecretInv'
  BY <1>1, <1>3 DEF CharmsInv, SecretInv
<1>9. RunInv'
  BY <1>1, <1>2, <1>4 DEF CharmsInv, RunInv, AllStopped
<1>10. RelatedInv'
  BY <1>1, <1>3 DEF CharmsInv, RelatedInv, AfterRelations
<1>11. AddressInv'
  BY <1>1, <1>3 DEF CharmsInv, AddressInv
<1>12. ActiveInv'
  BY <1>1, <1>3 DEF CharmsInv, ActiveInv, RelatedInv, AfterRelations
<1>13. FileInv'
  BY <1>1, <1>2 DEF CharmsInv, FileInv
<1>14. ProgressInv'
  BY <1>1, <1>2, <1>4 DEF CharmsInv, ProgressInv, Ready
<1> QED  BY <1>4, <1>5, <1>6, <1>7, <1>8, <1>9, <1>10, <1>11, <1>12, <1>13, <1>14 DEF CharmsInv

-----------------------------------------------------------------------------
(* The steps of single charms.                                             *)

LEMMA SharesSecretKeeps ==
    ASSUME CharmsInv, SharesSecret
    PROVE  CharmsInv'
<1>1. /\ UNCHANGED <<cplan, awake, started, related, lacking, wanted, torn, changed, told,
                     schema, label, ubooted, up, layer, file, run, cfaults, gaveup>>
      /\ At("secret")
      /\ minted' = (minted \/ cplan.leads)
      /\ \/ minted' /\ todo' = Tail(todo) /\ shown' = shown
         \/ ~ minted' /\ todo' = << >> /\ shown' = shown
  BY DEF SharesSecret, Proceed, Leaves, cenvVars, cpodVars
<1>2. MyCharm' = MyCharm /\ Handlers' = Handlers
  BY <1>1, Frame
<1>3. /\ "secret" \in Left /\ Left # {}
  BY <1>1, StepFacts DEF CharmsInv
<1>4. /\ todo' \in Seq(Steps) /\ TodoInv'
      /\ \/ minted' /\ Left' = Left \ {"secret"} /\ shown' = shown
         \/ ~ minted' /\ Left' = {} /\ shown' = shown
  BY <1>1, StepFacts DEF CharmsInv
<1>5. cplan.charm \in {"ceilometer", "nova"} /\ lacking = {}
  BY <1>3, StepOwners DEF CharmsInv
<1>6. ApiCharmsTypeOK'
  BY <1>1, <1>2, <1>4 DEF CharmsInv, ApiCharmsTypeOK
<1>7. SchemaInv'
  BY <1>1 DEF CharmsInv, SchemaInv
<1>8. FollowInv'
  BY <1>1, <1>2, <1>4 DEF CharmsInv, FollowInv, AllStopped, Follows
<1>9. SecretInv'
  BY <1>1, <1>2, <1>4 DEF CharmsInv, SecretInv, AllStopped
<1>10. RunInv'
  BY <1>1, <1>2, <1>4 DEF CharmsInv, RunInv, AllStopped
<1>11. RelatedInv'
  BY <1>1, <1>2, <1>4, <1>5 DEF CharmsInv, RelatedInv, SecretInv, AllStopped
<1>12. AddressInv'
  BY <1>1, <1>5 DEF AddressInv
<1>13. ActiveInv'
  BY <1>1, <1>4, <1>5 DEF CharmsInv, ActiveInv, SecretInv
<1>14. FileInv'
  BY <1>1, <1>2 DEF CharmsInv, FileInv
<1>15. ProgressInv'
  BY <1>1, <1>2, <1>4 DEF CharmsInv, ProgressInv, Ready
<1> QED
  BY <1>4, <1>6, <1>7, <1>8, <1>9, <1>10, <1>11, <1>12, <1>13, <1>14, <1>15 DEF CharmsInv

LEMMA ChecksSanityKeeps ==
    ASSUME CharmsInv, ChecksSanity
    PROVE  CharmsInv'
<1>1. /\ UNCHANGED <<cplan, awake, started, related, lacking, wanted, torn, changed, told,
                     minted, schema, label, ubooted, up, layer, file, run, cfaults>>
      /\ At("sanity")
      /\ \/ lacking = {} /\ todo' = Tail(todo) /\ shown' = shown /\ gaveup' = gaveup
         \/ lacking # {} /\ todo' = << >> /\ shown' = "blocked"
            /\ gaveup' = ("address" \in lacking)
  BY DEF ChecksSanity, Proceed, Leaves, cenvVars, cappVars, cpodVars
<1>2. MyCharm' = MyCharm /\ Handlers' = Handlers
  BY <1>1, Frame
<1>3. /\ "sanity" \in Left /\ Left # {}
  BY <1>1, StepFacts DEF CharmsInv
<1>4. /\ todo' \in Seq(Steps) /\ TodoInv'
      /\ \/ lacking = {} /\ Left' = Left \ {"sanity"} /\ shown' = shown /\ gaveup' = gaveup
         \/ lacking # {} /\ Left' = {} /\ shown' = "blocked"
            /\ gaveup' = ("address" \in lacking)
  BY <1>1, StepFacts DEF CharmsInv
<1>5. cplan.charm \in {"octavia", "conductor"} /\ lacking \subseteq {"sanity", "address"}
  BY <1>3, StepOwners DEF CharmsInv
<1>6. gaveup \in BOOLEAN /\ (gaveup' = gaveup \/ gaveup' = ("address" \in lacking))
  BY DEF CharmsInv, ApiCharmsTypeOK, ChecksSanity, Proceed
<1>7. ("address" \in lacking) \in BOOLEAN
  OBVIOUS
<1>8. gaveup' \in BOOLEAN
  BY <1>6, <1>7, Zenon
<1>9. ApiCharmsTypeOK'
  BY <1>1, <1>2, <1>4, <1>8 DEF CharmsInv, ApiCharmsTypeOK
<1>10. SchemaInv'
  BY <1>1 DEF CharmsInv, SchemaInv
<1>11. FollowInv'
  BY <1>1, <1>2, <1>4 DEF CharmsInv, FollowInv, AllStopped, Follows
<1>12. SecretInv'
  BY <1>1, <1>5 DEF SecretInv
<1>13. RunInv'
  BY <1>1, <1>2, <1>4 DEF CharmsInv, RunInv, AllStopped
<1>14. RelatedInv'
  BY <1>1, <1>2, <1>4 DEF CharmsInv, RelatedInv, AddressInv, AllStopped
<1>15. AddressInv'
  BY <1>1, <1>2, <1>4 DEF CharmsInv, AddressInv, AllStopped
<1>16. ActiveInv'
  BY <1>1, <1>4 DEF CharmsInv, ActiveInv
<1>17. FileInv'
  BY <1>1, <1>2 DEF CharmsInv, FileInv
<1>18. ProgressInv'
  BY <1>1, <1>2, <1>4 DEF CharmsInv, ProgressInv, Ready
<1> QED
  BY <1>4, <1>9, <1>10, <1>11, <1>12, <1>13, <1>14, <1>15, <1>16, <1>17, <1>18 DEF CharmsInv

LEMMA ChecksStorageKeeps ==
    ASSUME CharmsInv, ChecksStorage
    PROVE  CharmsInv'
<1>1. /\ UNCHANGED <<cplan, awake, started, related, lacking, wanted, torn, changed, told,
                     minted, schema, label, ubooted, up, layer, file, run, cfaults, gaveup>>
      /\ At("storage")
      /\ \/ related /\ "storage" \notin lacking /\ todo' = Tail(todo) /\ shown' = shown
         \/ ~ (related /\ lacking = {}) /\ todo' = << >> /\ shown' \in {shown, "waiting"}
  BY DEF ChecksStorage, Proceed, Leaves, cenvVars, cappVars, cpodVars
<1>2. MyCharm' = MyCharm /\ Handlers' = Handlers
  BY <1>1, Frame
<1>3. /\ "storage" \in Left /\ Left # {}
  BY <1>1, StepFacts DEF CharmsInv
<1>4. /\ todo' \in Seq(Steps) /\ TodoInv'
      /\ \/ related /\ "storage" \notin lacking /\ Left' = Left \ {"storage"} /\ shown' = shown
         \/ ~ (related /\ lacking = {}) /\ Left' = {} /\ shown' \in {shown, "waiting"}
  BY <1>1, StepFacts DEF CharmsInv
<1>5. cplan.charm = "glance" /\ "address" \notin lacking
  BY <1>3, StepOwners DEF CharmsInv
<1>6. ApiCharmsTypeOK'
  BY <1>1, <1>2, <1>4 DEF CharmsInv, ApiCharmsTypeOK
<1>7. SchemaInv'
  BY <1>1 DEF CharmsInv, SchemaInv
<1>8. FollowInv'
  BY <1>1, <1>4, <1>5 DEF CharmsInv, FollowInv, Follows
<1>9. SecretInv'
  BY <1>1, <1>5 DEF SecretInv
<1>10. RunInv'
  BY <1>1, <1>2, <1>4 DEF CharmsInv, RunInv, AllStopped
<1>11. RelatedInv'
  BY <1>1, <1>4, <1>5 DEF RelatedInv, Early
<1>12. AddressInv'
  BY <1>1, <1>5 DEF AddressInv
<1>13. ActiveInv'
  BY <1>1, <1>5 DEF ActiveInv, Overclaims
<1>14. FileInv'
  BY <1>1, <1>2 DEF CharmsInv, FileInv
<1>15. ProgressInv'
  BY <1>1, <1>2, <1>4 DEF CharmsInv, ProgressInv, Ready
<1> QED
  BY <1>4, <1>6, <1>7, <1>8, <1>9, <1>10, <1>11, <1>12, <1>13, <1>14, <1>15 DEF CharmsInv

LEMMA ChecksOptionKeeps ==
    ASSUME CharmsInv, ChecksOption
    PROVE  CharmsInv'
<1>1. /\ UNCHANGED <<cplan, awake, started, related, lacking, wanted, torn, changed, told,
                     minted, schema, label, ubooted, up, layer, file, run, cfaults, gaveup>>
      /\ At("option")
      /\ \/ "option" \notin lacking /\ todo' = Tail(todo) /\ shown' = shown
         \/ "option" \in lacking /\ todo' = MyCharm.after /\ shown' = "blocked"
  BY DEF ChecksOption, Proceed, Guarded, cenvVars, cappVars, cpodVars
<1>2. MyCharm' = MyCharm /\ Handlers' = Handlers
  BY <1>1, Frame
<1>3. /\ "option" \in Left /\ Left # {}
      /\ Left \cap {"secret", "sanity", "storage", "early"} = {}
      /\ cplan.charm \notin {"glance", "neutron"} => Left \cap {"leader", "relations"} = {}
  BY <1>1, StepFacts DEF CharmsInv, Rank
<1>4. /\ todo' \in Seq(Steps) /\ TodoInv'
      /\ \/ "option" \notin lacking /\ Left' = Left \ {"option"} /\ shown' = shown
         \/ "option" \in lacking /\ Left' = AfterSteps(cplan.charm) /\ shown' = "blocked"
  BY <1>1, StepFacts DEF CharmsInv
<1>5. cplan.charm = "glance" \/ lacking \subseteq {"option"}
  BY <1>3, StepOwners DEF CharmsInv
<1>6. ApiCharmsTypeOK'
  BY <1>1, <1>2, <1>4 DEF CharmsInv, ApiCharmsTypeOK
<1>7. SchemaInv'
  BY <1>1 DEF CharmsInv, SchemaInv
<1>8. FollowInv'
  BY <1>1, <1>2, <1>4 DEF CharmsInv, FollowInv, AfterLeader, AllStopped, Follows, AfterSteps
<1>9. SecretInv'
  BY <1>1, <1>3 DEF CharmsInv, SecretInv
<1>10. RunInv'
  BY <1>1, <1>2, <1>4 DEF CharmsInv, RunInv, AllStopped, AfterSteps
<1>11. RelatedInv'
  BY <1>1, <1>2, <1>4 DEF CharmsInv, RelatedInv, AfterRelations, AllStopped, AfterSteps
<1>12. AddressInv'
  BY <1>1, <1>3 DEF CharmsInv, AddressInv
<1>13. ActiveInv'
  BY <1>1, <1>4, <1>5 DEF CharmsInv, ActiveInv, Overclaims, AfterSteps
<1>14. FileInv'
  BY <1>1, <1>2 DEF CharmsInv, FileInv
<1>15. ProgressInv'
  BY <1>1, <1>2, <1>4 DEF CharmsInv, ProgressInv, Ready
<1> QED
  BY <1>4, <1>6, <1>7, <1>8, <1>9, <1>10, <1>11, <1>12, <1>13, <1>14, <1>15 DEF CharmsInv

LEMMA ClaimsActiveKeeps ==
    ASSUME CharmsInv, ClaimsActive
    PROVE  CharmsInv'
<1>1. /\ UNCHANGED <<cplan, awake, started, related, lacking, wanted, torn, changed, told,
                     minted, schema, label, ubooted, up, layer, file, run, cfaults, gaveup>>
      /\ At("claim")
      /\ todo' = Tail(todo) /\ shown' = IF Bootstrapped THEN "active" ELSE shown
  BY DEF ClaimsActive, cenvVars, cappVars, cpodVars
<1>2. MyCharm' = MyCharm /\ Handlers' = Handlers
  BY <1>1, Frame
<1>3. /\ "claim" \in Left /\ Left # {}
      /\ Left \cap {"secret", "sanity", "storage", "early", "leader", "relations",
                    "containers", "sync", "services", "pebbles", "pools", "plugins",
                    "bootstrapped", "app", "active"} = {}
      /\ "option" \notin Left
  BY <1>1, StepFacts DEF CharmsInv, Rank
<1>4. /\ todo' \in Seq(Steps) /\ TodoInv'
      /\ Left' = Left \ {"claim"} /\ shown' = IF Bootstrapped THEN "active" ELSE shown
  BY <1>1, StepFacts DEF CharmsInv
<1>5. cplan.charm \in {"glance", "horizon"}
  BY <1>3, StepOwners DEF CharmsInv
<1>6. ApiCharmsTypeOK'
  BY <1>1, <1>2, <1>4 DEF CharmsInv, ApiCharmsTypeOK
<1>7. SchemaInv'
  BY <1>1 DEF CharmsInv, SchemaInv
<1>8. FollowInv'
  BY <1>1, <1>2, <1>4 DEF CharmsInv, FollowInv, AllStopped, Follows, Bootstrapped
<1>9. SecretInv'
  BY <1>1, <1>5 DEF SecretInv
<1>10. RunInv'
  BY <1>1, <1>2, <1>4 DEF CharmsInv, RunInv, AllStopped
<1>11. RelatedInv'
  BY <1>1, <1>2, <1>4 DEF CharmsInv, RelatedInv, AllStopped
<1>12. AddressInv'
  BY <1>1, <1>3 DEF CharmsInv, AddressInv
<1>13. ActiveInv'
  BY <1>1, <1>5 DEF ActiveInv, Overclaims
<1>14. FileInv'
  BY <1>1, <1>2 DEF CharmsInv, FileInv
<1>15. ProgressInv'
  BY <1>1, <1>2, <1>4 DEF CharmsInv, ProgressInv, Ready
<1> QED
  BY <1>4, <1>6, <1>7, <1>8, <1>9, <1>10, <1>11, <1>12, <1>13, <1>14, <1>15 DEF CharmsInv

-----------------------------------------------------------------------------
(* Steps that write files or start services.                               *)

\* What init_service does: what it reaches runs afterwards, on its files or the
\* templates, and what it leaves running is up to date or noted.
LEMMA InitServicesFacts ==
    ASSUME ApiCharmsTypeOK, InitServices(Reached)
    PROVE  /\ up' = up /\ file' \in [Handlers -> Image .. MaxConfig]
           /\ layer' \in [Handlers -> BOOLEAN] /\ run' \in [Handlers -> Stopped .. MaxConfig]
           /\ changed' \subseteq Handlers /\ torn' \subseteq Handlers
           /\ \A h \in Handlers : file'[h] \in {file[h], wanted}
           /\ \A h \in Handlers : run[h] # Stopped \/ h \in Reached <=> run'[h] # Stopped
<1> DEFINE pod   == MyCharm.pod
           dirty == changed \cup {h \in Reached : pod[h].writes /\ file[h] # wanted}
           again == {h \in Reached : pod[h].always \/ h \in dirty}
<1>1. /\ file' = [h \in Handlers |-> IF h \in Reached /\ pod[h].writes THEN wanted ELSE file[h]]
      /\ layer' = [h \in Handlers |-> layer[h] \/ h \in Reached]
      /\ run' = [h \in Handlers |-> IF h \in Reached /\ (run[h] = Stopped \/ h \in again)
                                       THEN file'[h] ELSE run[h]]
      /\ changed' = dirty \ Reached
      /\ torn' = torn \ (again \cup {h \in Reached : run[h] = Stopped})
      /\ up' = up
  BY DEF InitServices, StartAll
<1>2. /\ file \in [Handlers -> Image .. MaxConfig] /\ wanted \in Image .. MaxConfig
      /\ run \in [Handlers -> Stopped .. MaxConfig] /\ changed \subseteq Handlers
      /\ torn \subseteq Handlers
      /\ layer \in [Handlers -> BOOLEAN] /\ MaxConfig \in Nat
  BY PlanFacts DEF ApiCharmsTypeOK, Image
<1>3. Reached \subseteq Handlers
  BY ReachedFacts
<1> HIDE DEF pod
<1>4. /\ file' \in [Handlers -> Image .. MaxConfig]
      /\ \A h \in Handlers : file'[h] \in {file[h], wanted}
  BY <1>1, <1>2
<1>5. layer' \in [Handlers -> BOOLEAN]
  BY <1>1, <1>2
<1>6. \A h \in Handlers : file'[h] \in Stopped .. MaxConfig /\ file'[h] # Stopped
  BY <1>4 DEF Image, Stopped
<1>7. \A h \in Handlers : run[h] # Stopped \/ h \in Reached <=> run'[h] # Stopped
  BY <1>1, <1>6
<1>8. run' \in [Handlers -> Stopped .. MaxConfig]
  BY <1>1, <1>2, <1>6
<1>9. changed' \subseteq Handlers /\ torn' \subseteq Handlers
  BY <1>1, <1>2, <1>3
<1> QED  BY <1>1, <1>4, <1>7, <1>8, <1>9

LEMMA InitServicesKeepFiles ==
    ASSUME ApiCharmsTypeOK, FileInv, InitServices(Reached), cplan' = cplan
    PROVE  FileInv'
<1> DEFINE pod   == MyCharm.pod
           dirty == changed \cup {h \in Reached : pod[h].writes /\ file[h] # wanted}
           again == {h \in Reached : pod[h].always \/ h \in dirty}
<1>1. /\ file' = [h \in Handlers |-> IF h \in Reached /\ pod[h].writes THEN wanted ELSE file[h]]
      /\ run' = [h \in Handlers |-> IF h \in Reached /\ (run[h] = Stopped \/ h \in again)
                                       THEN file'[h] ELSE run[h]]
      /\ changed' = dirty \ Reached
      /\ torn' = torn \ (again \cup {h \in Reached : run[h] = Stopped})
  BY DEF InitServices, StartAll
<1>2. Handlers' = Handlers
  BY Frame
<1> HIDE DEF pod
<1> SUFFICES ASSUME NEW h \in Handlers
             PROVE  run'[h] = Stopped \/ run'[h] = file'[h] \/ h \in torn' \cup changed'
  BY <1>2 DEF FileInv
<1>3. run[h] = Stopped \/ run[h] = file[h] \/ h \in torn \cup changed
  BY DEF FileInv
<1>4. CASE h \notin Reached
  BY <1>1, <1>3, <1>4
<1>5. CASE h \in Reached /\ (run[h] = Stopped \/ h \in again)
  BY <1>1, <1>5
<1>6. CASE h \in Reached /\ ~ (run[h] = Stopped \/ h \in again)
  <2>1. h \notin dirty /\ h \notin changed
    BY <1>6
  <2>2. file'[h] = file[h] /\ run'[h] = run[h]
    BY <1>1, <1>6, <2>1
  <2> QED  BY <1>1, <1>3, <2>2
<1> QED  BY <1>4, <1>5, <1>6

LEMMA InitContainerServicesKeeps ==
    ASSUME CharmsInv, InitContainerServices
    PROVE  CharmsInv'
<1>1. /\ UNCHANGED <<cplan, awake, started, related, lacking, wanted, told, minted, schema,
                     label, ubooted, cfaults, gaveup>>
      /\ At("services")
      /\ InitServices(Reached)
      /\ \/ AllReached /\ todo' = Tail(todo) /\ shown' = shown
         \/ ~ AllReached /\ todo' = MyCharm.after /\ shown' = "waiting"
  BY DEF InitContainerServices, Proceed, Guarded, cappVars
<1>2. MyCharm' = MyCharm /\ Handlers' = Handlers
  BY <1>1, Frame
<1>3. /\ "services" \in Left /\ Left # {}
      /\ Left \cap {"secret", "sanity", "storage", "early", "leader", "relations",
                    "containers", "sync"} = {}
      /\ "option" \notin Left
  BY <1>1, StepFacts DEF CharmsInv, Rank
<1>4. /\ todo' \in Seq(Steps) /\ TodoInv'
      /\ \/ AllReached /\ Left' = Left \ {"services"} /\ shown' = shown
         \/ ~ AllReached /\ Left' = AfterSteps(cplan.charm) /\ shown' = "waiting"
  BY <1>1, StepFacts DEF CharmsInv
<1>5. /\ up' = up /\ file' \in [Handlers -> Image .. MaxConfig]
      /\ layer' \in [Handlers -> BOOLEAN] /\ run' \in [Handlers -> Stopped .. MaxConfig]
      /\ changed' \subseteq Handlers /\ torn' \subseteq Handlers
      /\ \A h \in Handlers : file'[h] \in {file[h], wanted}
      /\ \A h \in Handlers : run[h] # Stopped \/ h \in Reached <=> run'[h] # Stopped
  BY <1>1, InitServicesFacts DEF CharmsInv
<1>6. FileInv'
  BY <1>1, InitServicesKeepFiles DEF CharmsInv
<1>7. (\A h \in Reached : up[h]) /\ (AllReached <=> \A h \in Handlers : up[h])
      /\ (AllReached => Reached = Handlers)
  BY ReachedFacts DEF CharmsInv, AllReached
<1>8. ApiCharmsTypeOK'
  BY <1>1, <1>2, <1>4, <1>5 DEF CharmsInv, ApiCharmsTypeOK
<1>9. SchemaInv'
  BY <1>1 DEF CharmsInv, SchemaInv
<1>10. FollowInv'
  BY <1>1, <1>3 DEF CharmsInv, FollowInv, AfterLeader, Follows
<1>11. SecretInv'
  BY <1>1, <1>3 DEF CharmsInv, SecretInv
<1>12. RunInv'
  BY <1>1, <1>2, <1>3, <1>5, <1>7 DEF CharmsInv, RunInv
<1>13. RelatedInv'
  BY <1>1, <1>3 DEF CharmsInv, RelatedInv, AfterRelations
<1>14. AddressInv'
  BY <1>1, <1>3 DEF CharmsInv, AddressInv
<1>15. ActiveInv'
  BY <1>1, <1>4 DEF CharmsInv, ActiveInv, AfterSteps
<1>16. FileInv'
  BY <1>6
<1>17. ProgressInv'
  BY <1>1, <1>2, <1>4, <1>5, <1>7 DEF CharmsInv, ProgressInv, Ready
<1> QED
  BY <1>4, <1>8, <1>9, <1>10, <1>11, <1>12, <1>13, <1>14, <1>15, <1>16, <1>17 DEF CharmsInv

LEMMA StartsEarlyKeeps ==
    ASSUME CharmsInv, StartsEarly
    PROVE  CharmsInv'
<1>1. /\ UNCHANGED <<cplan, awake, started, related, lacking, wanted, told, minted, schema,
                     label, ubooted, cfaults, gaveup>>
      /\ At("early")
      /\ InitServices(Reached)
      /\ todo' = Tail(todo) /\ shown' = shown
  BY DEF StartsEarly, Proceed, cappVars
<1>2. MyCharm' = MyCharm /\ Handlers' = Handlers
  BY <1>1, Frame
<1>3. /\ "early" \in Left /\ Left # {}
      /\ Left \cap {"secret", "sanity", "storage"} = {}
  BY <1>1, StepFacts DEF CharmsInv, Rank
<1>4. /\ todo' \in Seq(Steps) /\ TodoInv'
      /\ Left' = Left \ {"early"} /\ shown' = shown
  BY <1>1, StepFacts DEF CharmsInv
<1>5. cplan.charm = "glance"
  BY <1>3, StepOwners DEF CharmsInv
<1>6. /\ up' = up /\ file' \in [Handlers -> Image .. MaxConfig]
      /\ layer' \in [Handlers -> BOOLEAN] /\ run' \in [Handlers -> Stopped .. MaxConfig]
      /\ changed' \subseteq Handlers /\ torn' \subseteq Handlers
      /\ \A h \in Handlers : file'[h] \in {file[h], wanted}
      /\ \A h \in Handlers : run[h] # Stopped \/ h \in Reached <=> run'[h] # Stopped
  BY <1>1, InitServicesFacts DEF CharmsInv
<1>7. FileInv'
  BY <1>1, InitServicesKeepFiles DEF CharmsInv
<1>8. (\A h \in Reached : up[h]) /\ (AllReached <=> \A h \in Handlers : up[h])
      /\ (AllReached => Reached = Handlers)
  BY ReachedFacts DEF CharmsInv, AllReached
<1>9. ApiCharmsTypeOK'
  BY <1>1, <1>2, <1>4, <1>6 DEF CharmsInv, ApiCharmsTypeOK
<1>10. SchemaInv'
  BY <1>1 DEF CharmsInv, SchemaInv
<1>11. FollowInv'
  BY <1>1, <1>4, <1>5 DEF CharmsInv, FollowInv, Follows
<1>12. SecretInv'
  BY <1>1, <1>5 DEF SecretInv
<1>13. RunInv'
  BY <1>1, <1>2, <1>5, <1>6, <1>8 DEF CharmsInv, RunInv, Early
<1>14. RelatedInv'
  BY <1>1, <1>4, <1>5 DEF CharmsInv, RelatedInv, Early
<1>15. AddressInv'
  BY <1>1, <1>3 DEF CharmsInv, AddressInv
<1>16. ActiveInv'
  BY <1>1, <1>5 DEF ActiveInv, Overclaims
<1>17. FileInv'
  BY <1>7
<1>18. ProgressInv'
  BY <1>1, <1>2, <1>4, <1>6 DEF CharmsInv, ProgressInv, Ready
<1> QED
  BY <1>4, <1>9, <1>10, <1>11, <1>12, <1>13, <1>14, <1>15, <1>16, <1>17, <1>18 DEF CharmsInv

LEMMA StartsRegardlessKeeps ==
    ASSUME CharmsInv, StartsRegardless
    PROVE  CharmsInv'
<1>1. /\ UNCHANGED <<cplan, awake, started, related, lacking, wanted, told, minted, schema,
                     label, ubooted, up, layer, file, cfaults, gaveup>>
      /\ At("start")
      /\ \E hs \in SUBSET {h \in Handlers : up[h]} :
            /\ run' = [h \in Handlers |-> IF h \in hs THEN file[h] ELSE run[h]]
            /\ changed' = changed \ hs /\ torn' = torn \ hs
      /\ todo' = Tail(todo) /\ shown' = shown
  BY DEF StartsRegardless, Proceed, cappVars
<1>2. MyCharm' = MyCharm /\ Handlers' = Handlers
  BY <1>1, Frame
<1>3. /\ "start" \in Left /\ Left # {}
      /\ Left \cap {"secret", "sanity", "storage", "early", "leader", "relations",
                    "containers", "sync", "services", "pebbles", "pools", "plugins",
                    "bootstrapped", "app", "active"} = {}
      /\ "option" \notin Left
  BY <1>1, StepFacts DEF CharmsInv, Rank
<1>4. /\ todo' \in Seq(Steps) /\ TodoInv'
      /\ Left' = Left \ {"start"} /\ shown' = shown
  BY <1>1, StepFacts DEF CharmsInv
<1>5. cplan.charm = "watcher"
  BY <1>3, StepOwners DEF CharmsInv
<1>6. \A h \in Handlers : file[h] \in Stopped .. MaxConfig /\ file[h] # Stopped
  BY DEF CharmsInv, ApiCharmsTypeOK, Image, Stopped
<1>7. run' \in [Handlers -> Stopped .. MaxConfig]
  BY <1>1, <1>6 DEF CharmsInv, ApiCharmsTypeOK
<1>8. ApiCharmsTypeOK'
  BY <1>1, <1>2, <1>4, <1>7 DEF CharmsInv, ApiCharmsTypeOK
<1>9. SchemaInv'
  BY <1>1 DEF CharmsInv, SchemaInv
<1>10. FollowInv'
  BY <1>1, <1>4, <1>5 DEF CharmsInv, FollowInv, Follows
<1>11. SecretInv'
  BY <1>1, <1>5 DEF SecretInv
<1>12. RunInv'
  BY <1>1, <1>2, <1>5 DEF CharmsInv, RunInv, Early
<1>13. RelatedInv'
  BY <1>1, <1>4, <1>5 DEF CharmsInv, RelatedInv, Early
<1>14. AddressInv'
  BY <1>1, <1>3 DEF CharmsInv, AddressInv
<1>15. ActiveInv'
  BY <1>1, <1>4 DEF CharmsInv, ActiveInv
<1>16. FileInv'
  BY <1>1, <1>2 DEF CharmsInv, FileInv
<1>17. ProgressInv'
  BY <1>1, <1>2, <1>4, <1>6 DEF CharmsInv, ProgressInv, Ready
<1> QED
  BY <1>4, <1>8, <1>9, <1>10, <1>11, <1>12, <1>13, <1>14, <1>15, <1>16, <1>17 DEF CharmsInv

LEMMA RestartsServiceKeeps ==
    ASSUME CharmsInv, RestartsService
    PROVE  CharmsInv'
<1>1. /\ UNCHANGED <<cplan, started, related, lacking, wanted, told, minted, schema, label,
                     ubooted, up, file, cfaults, gaveup>>
      /\ At("restart")
      /\ \/ ~ Bootstrapped /\ todo' = Tail(todo) /\ shown' = shown
            /\ UNCHANGED <<layer, run, changed, torn, awake>>
         \/ AllReached /\ todo' = Tail(todo) /\ shown' = shown /\ awake' = awake
            /\ layer' = [h \in Handlers |-> TRUE]
            /\ run' = file /\ changed' = {} /\ torn' = {}
         \/ todo' = << >> /\ shown' = shown /\ awake' = TRUE
            /\ UNCHANGED <<layer, run, changed, torn>>
  BY DEF RestartsService, Proceed, Leaves, cappVars
<1>2. MyCharm' = MyCharm /\ Handlers' = Handlers
  BY <1>1, Frame
<1>3. /\ "restart" \in Left /\ Left # {}
      /\ Left \cap {"secret", "sanity", "storage", "early", "leader", "relations",
                    "containers", "sync", "services", "pebbles", "pools", "plugins",
                    "bootstrapped", "app", "active"} = {}
      /\ "option" \notin Left
  BY <1>1, StepFacts DEF CharmsInv, Rank
<1>4. /\ todo' \in Seq(Steps) /\ TodoInv'
      /\ \/ ~ Bootstrapped /\ Left' = Left \ {"restart"} /\ shown' = shown
            /\ UNCHANGED <<layer, run, changed, torn, awake>>
         \/ AllReached /\ Left' = Left \ {"restart"} /\ shown' = shown /\ awake' = awake
            /\ layer' = [h \in Handlers |-> TRUE]
            /\ run' = file /\ changed' = {} /\ torn' = {}
         \/ Left' = {} /\ shown' = shown /\ awake' = TRUE
            /\ UNCHANGED <<layer, run, changed, torn>>
  BY <1>1, StepFacts DEF CharmsInv
<1>5. cplan.charm = "glance"
  BY <1>3, StepOwners DEF CharmsInv
<1>6. \A h \in Handlers : file[h] \in Stopped .. MaxConfig /\ file[h] # Stopped
  BY DEF CharmsInv, ApiCharmsTypeOK, Image, Stopped
<1>7. run' \in [Handlers -> Stopped .. MaxConfig]
  BY <1>1, <1>6 DEF CharmsInv, ApiCharmsTypeOK
<1>8. (AllReached <=> \A h \in Handlers : up[h])
  BY ReachedFacts DEF CharmsInv
<1>9. ApiCharmsTypeOK'
  BY <1>1, <1>2, <1>4, <1>7 DEF CharmsInv, ApiCharmsTypeOK
<1>10. SchemaInv'
  BY <1>1 DEF CharmsInv, SchemaInv
<1>11. FollowInv'
  BY <1>1, <1>4, <1>5 DEF CharmsInv, FollowInv, Follows
<1>12. SecretInv'
  BY <1>1, <1>5 DEF SecretInv
<1>13. RunInv'
  BY <1>1, <1>2, <1>5, <1>8 DEF CharmsInv, RunInv, Early
<1>14. RelatedInv'
  BY <1>1, <1>4, <1>5 DEF CharmsInv, RelatedInv, Early
<1>15. AddressInv'
  BY <1>1, <1>3 DEF CharmsInv, AddressInv
<1>16. ActiveInv'
  BY <1>1, <1>5 DEF ActiveInv, Overclaims
<1>17. FileInv'
  BY <1>1, <1>2 DEF CharmsInv, FileInv
<1>18. ProgressInv'
  BY <1>1, <1>2, <1>4, <1>6 DEF CharmsInv, ProgressInv, Ready
<1> QED
  BY <1>4, <1>9, <1>10, <1>11, <1>12, <1>13, <1>14, <1>15, <1>16, <1>17, <1>18 DEF CharmsInv

LEMMA UpdatesPoolsKeeps ==
    ASSUME CharmsInv, RunsCommands, At("pools")
    PROVE  CharmsInv'
<1>1. /\ UNCHANGED <<cplan, awake, started, related, lacking, wanted, torn, changed, told,
                     minted, schema, label, ubooted, up, layer, file, run>>
      /\ At("pools")
      /\ \/ todo' = Tail(todo) /\ UNCHANGED <<shown, cfaults, gaveup>>
         \/ ~ AllReached /\ todo' = MyCharm.after /\ shown' = "blocked"
            /\ UNCHANGED <<cfaults, gaveup>>
         \/ todo' = MyCharm.after /\ shown' = "blocked" /\ gaveup' = TRUE
            /\ cfaults' = cfaults + 1 /\ cfaults < cplan.most
  BY DEF RunsCommands, Proceed, Guarded, Fails, CFault, At, cappVars
<1>2. MyCharm' = MyCharm /\ Handlers' = Handlers
  BY <1>1, Frame
<1>3. /\ "pools" \in Left /\ Left # {}
      /\ Left \cap {"secret", "sanity", "storage", "early", "leader", "relations",
                    "containers", "sync", "services", "pebbles", "plugins"} = {}
      /\ "option" \notin Left
  BY <1>1, StepFacts DEF CharmsInv, Rank
<1>4. /\ todo' \in Seq(Steps) /\ TodoInv'
      /\ \/ Left' = Left \ {"pools"} /\ UNCHANGED <<shown, cfaults, gaveup>>
         \/ ~ AllReached /\ Left' = AfterSteps(cplan.charm) /\ shown' = "blocked"
            /\ UNCHANGED <<cfaults, gaveup>>
         \/ Left' = AfterSteps(cplan.charm) /\ shown' = "blocked" /\ gaveup' = TRUE
            /\ cfaults' = cfaults + 1 /\ cfaults < cplan.most
  BY <1>1, StepFacts DEF CharmsInv
<1>5. cplan.charm = "designate"
  BY <1>3, StepOwners DEF CharmsInv
<1>6. cfaults' \in 0 .. MaxCharmFaults
  BY <1>4, PlanFacts DEF CharmsInv, ApiCharmsTypeOK
<1>7. (AllReached <=> \A h \in Handlers : up[h])
  BY ReachedFacts DEF CharmsInv
<1>8. ApiCharmsTypeOK'
  BY <1>1, <1>2, <1>4, <1>6 DEF CharmsInv, ApiCharmsTypeOK
<1>9. SchemaInv'
  BY <1>1 DEF CharmsInv, SchemaInv
<1>10. FollowInv'
  BY <1>1, <1>3 DEF CharmsInv, FollowInv, AfterLeader, Follows
<1>11. SecretInv'
  BY <1>1, <1>5 DEF SecretInv
<1>12. RunInv'
  BY <1>1, <1>2, <1>4 DEF CharmsInv, RunInv, AllStopped, AfterSteps
<1>13. RelatedInv'
  BY <1>1, <1>3 DEF CharmsInv, RelatedInv, AfterRelations
<1>14. AddressInv'
  BY <1>1, <1>3 DEF CharmsInv, AddressInv
<1>15. ActiveInv'
  BY <1>1, <1>4 DEF CharmsInv, ActiveInv, AfterSteps
<1>16. FileInv'
  BY <1>1, <1>2 DEF CharmsInv, FileInv
<1>17. ProgressInv'
  BY <1>1, <1>2, <1>4, <1>7 DEF CharmsInv, ProgressInv, Ready
<1> QED
  BY <1>4, <1>8, <1>9, <1>10, <1>11, <1>12, <1>13, <1>14, <1>15, <1>16, <1>17 DEF CharmsInv

LEMMA ManagesPluginsKeeps ==
    ASSUME CharmsInv, RunsCommands, At("plugins")
    PROVE  CharmsInv'
<1>1. /\ UNCHANGED <<cplan, awake, started, related, lacking, wanted, changed, told, minted,
                     schema, label, ubooted, up, layer, file>>
      /\ At("plugins")
      /\ \/ todo' = Tail(todo) /\ UNCHANGED <<shown, cfaults, gaveup, run, torn>>
         \/ AllReached /\ todo' = Tail(todo) /\ UNCHANGED <<shown, cfaults, gaveup>>
            /\ run' = file /\ torn' = {}
         \/ todo' = MyCharm.after /\ shown' = "blocked" /\ gaveup' = TRUE
            /\ cfaults' = cfaults + 1 /\ cfaults < cplan.most
            /\ UNCHANGED <<run, torn>>
  BY DEF RunsCommands, Proceed, Fails, CFault, cappVars
<1>2. MyCharm' = MyCharm /\ Handlers' = Handlers
  BY <1>1, Frame
<1>3. /\ "plugins" \in Left /\ Left # {}
      /\ Left \cap {"secret", "sanity", "storage", "early", "leader", "relations",
                    "containers", "sync", "services", "pebbles", "pools"} = {}
      /\ "option" \notin Left
  BY <1>1, StepFacts DEF CharmsInv, Rank
<1>4. /\ todo' \in Seq(Steps) /\ TodoInv'
      /\ \/ Left' = Left \ {"plugins"} /\ UNCHANGED <<shown, cfaults, gaveup, run, torn>>
         \/ AllReached /\ Left' = Left \ {"plugins"} /\ UNCHANGED <<shown, cfaults, gaveup>>
            /\ run' = file /\ torn' = {}
         \/ Left' = AfterSteps(cplan.charm) /\ shown' = "blocked" /\ gaveup' = TRUE
            /\ cfaults' = cfaults + 1 /\ cfaults < cplan.most
            /\ UNCHANGED <<run, torn>>
  BY <1>1, StepFacts DEF CharmsInv
<1>5. cplan.charm = "horizon"
  BY <1>3, StepOwners DEF CharmsInv
<1>6. \A h \in Handlers : file[h] \in Stopped .. MaxConfig /\ file[h] # Stopped
  BY DEF CharmsInv, ApiCharmsTypeOK, Image, Stopped
<1>7. run' \in [Handlers -> Stopped .. MaxConfig]
  BY <1>4, <1>6 DEF CharmsInv, ApiCharmsTypeOK
<1>8. cfaults' \in 0 .. MaxCharmFaults
  BY <1>4, PlanFacts DEF CharmsInv, ApiCharmsTypeOK
<1>9. (AllReached <=> \A h \in Handlers : up[h])
  BY ReachedFacts DEF CharmsInv
<1>10. schema
  BY <1>3, <1>5 DEF CharmsInv, RunInv, Early
<1>11. ApiCharmsTypeOK'
  BY <1>1, <1>2, <1>4, <1>7, <1>8 DEF CharmsInv, ApiCharmsTypeOK
<1>12. SchemaInv'
  BY <1>1 DEF CharmsInv, SchemaInv
<1>13. FollowInv'
  BY <1>1, <1>3 DEF CharmsInv, FollowInv, AfterLeader, Follows
<1>14. SecretInv'
  BY <1>1, <1>5 DEF SecretInv
<1>15. RunInv'
  BY <1>1, <1>2, <1>9, <1>10 DEF CharmsInv, RunInv
<1>16. RelatedInv'
  BY <1>1, <1>3 DEF CharmsInv, RelatedInv, AfterRelations
<1>17. AddressInv'
  BY <1>1, <1>3 DEF CharmsInv, AddressInv
<1>18. ActiveInv'
  BY <1>1, <1>5 DEF ActiveInv, Overclaims
<1>19. FileInv'
  BY <1>1, <1>2 DEF CharmsInv, FileInv
<1>20. ProgressInv'
  BY <1>1, <1>2, <1>4, <1>6 DEF CharmsInv, ProgressInv, Ready
<1> QED
  BY <1>4, <1>11, <1>12, <1>13, <1>14, <1>15, <1>16, <1>17, <1>18, <1>19, <1>20 DEF CharmsInv

-----------------------------------------------------------------------------
(* The hooks and the environment.                                          *)

LEMMA HookStartsKeeps ==
    ASSUME CharmsInv, CharmHookStarts
    PROVE  CharmsInv'
<1>1. /\ UNCHANGED <<cplan, related, lacking, wanted, told, minted, schema, label, ubooted, up,
                     file, run, cfaults, shown>>
      /\ Idle /\ todo' = Program /\ changed' = {} /\ torn' = torn \cup changed
      /\ gaveup' = FALSE
      /\ \/ awake' = FALSE /\ UNCHANGED <<started, layer>>
         \/ \E h \in started : /\ started' = started \ {h} /\ UNCHANGED awake
                               /\ layer' = [layer EXCEPT ![h] = TRUE]
  BY DEF CharmHookStarts, cappVars, cpodVars
<1>2. MyCharm' = MyCharm /\ Handlers' = Handlers
  BY <1>1, Frame
<1>3. Left = {}
  BY <1>1, IdleFacts
<1>4. /\ todo' \in Seq(Steps) /\ TodoInv'
      /\ Left' = ProgramSteps(cplan.charm)
  <2>1. cplan.charm \in CharmNames
    BY PlanFacts DEF CharmsInv, ApiCharmsTypeOK
  <2>2. Program = ProgramOf(CharmCatalogue[cplan.charm])
    BY DEF Program, ProgramOf, MyCharm
  <2> QED  BY <1>1, <2>1, <2>2, ProgramFacts DEF TodoInv, Left
<1>5. /\ {"leader", "relations", "containers", "sync", "services", "bootstrapped", "app",
          "active"} \subseteq Left'
      /\ cplan.charm \in {"ceilometer", "nova"} => "secret" \in Left'
      /\ cplan.charm \in {"octavia", "conductor"} => "sanity" \in Left'
      /\ cplan.charm \in {"neutron", "gnocchi", "magnum", "horizon"} => "option" \in Left'
  BY <1>4 DEF ProgramSteps, BeforeSteps, UnitSteps, CommonSteps
<1>6. /\ cplan.charm \in {"glance", "neutron", "gnocchi", "magnum", "horizon", "octavia",
                          "conductor"} \/ lacking = {}
      /\ "address" \in lacking => cplan.charm = "conductor"
  BY PlanFacts DEF CharmsInv, ApiCharmsTypeOK, AsksOf
<1>7. ApiCharmsTypeOK'
  BY <1>1, <1>2, <1>4 DEF CharmsInv, ApiCharmsTypeOK
<1>8. TodoInv'
  BY <1>4
<1>9. SchemaInv'
  BY <1>1 DEF CharmsInv, SchemaInv
<1>10. FollowInv'
  BY <1>1, <1>2, <1>5 DEF CharmsInv, FollowInv, AllStopped, Follows
<1>11. SecretInv'
  BY <1>1, <1>2, <1>5 DEF CharmsInv, SecretInv, AllStopped
<1>12. RunInv'
  BY <1>1, <1>2, <1>5 DEF CharmsInv, RunInv, AllStopped
<1>13. RelatedInv'
  BY <1>5 DEF RelatedInv, AllStopped
<1>14. AddressInv'
  BY <1>1, <1>2, <1>5, <1>6 DEF CharmsInv, AddressInv, AllStopped
<1>15. ActiveInv'
  BY <1>1, <1>5, <1>6 DEF ActiveInv, Overclaims
<1>16. FileInv'
  BY <1>1, <1>2 DEF CharmsInv, FileInv
<1>17. ProgressInv'
  BY <1>5 DEF ProgressInv, Ready
<1> QED
  BY <1>7, <1>8, <1>9, <1>10, <1>11, <1>12, <1>13, <1>14, <1>15, <1>16, <1>17 DEF CharmsInv

LEMMA ContainerStartsKeeps ==
    ASSUME CharmsInv, CharmContainerStarts
    PROVE  CharmsInv'
<1>1. /\ UNCHANGED <<cplan, todo, awake, related, lacking, wanted, torn, changed, told, minted,
                     schema, label, ubooted, layer, file, run, cfaults, shown, gaveup>>
      /\ \E h \in Handlers : ~ up[h] /\ up' = [up EXCEPT ![h] = TRUE]
         /\ started' = started \cup {h}
  BY DEF CharmContainerStarts, cappVars, cunitVars
<1>2. MyCharm' = MyCharm /\ Handlers' = Handlers
  BY <1>1, Frame
<1>3. Left' = Left
  BY <1>1 DEF Left
<1>4. ApiCharmsTypeOK'
  BY <1>1, <1>2 DEF CharmsInv, ApiCharmsTypeOK
<1>5. TodoInv'
  BY <1>1, <1>3 DEF CharmsInv, TodoInv
<1>6. SchemaInv'
  BY <1>1 DEF CharmsInv, SchemaInv
<1>7. FollowInv'
  BY <1>1, <1>2, <1>3 DEF CharmsInv, FollowInv, AllStopped, Follows
<1>8. SecretInv'
  BY <1>1, <1>2, <1>3 DEF CharmsInv, SecretInv, AllStopped
<1>9. RunInv'
  BY <1>1, <1>2, <1>3 DEF CharmsInv, RunInv, AllStopped
<1>10. RelatedInv'
  BY <1>1, <1>2, <1>3 DEF CharmsInv, RelatedInv, AllStopped
<1>11. AddressInv'
  BY <1>1, <1>2, <1>3 DEF CharmsInv, AddressInv, AllStopped
<1>12. ActiveInv'
  BY <1>1, <1>3 DEF CharmsInv, ActiveInv
<1>13. FileInv'
  BY <1>1, <1>2 DEF CharmsInv, FileInv
<1>14. ProgressInv'
  BY <1>1 DEF ProgressInv, Ready
<1> QED  BY <1>4, <1>5, <1>6, <1>7, <1>8, <1>9, <1>10, <1>11, <1>12, <1>13, <1>14 DEF CharmsInv

LEMMA ContainerRestartsKeeps ==
    ASSUME CharmsInv, CharmContainerRestarts
    PROVE  CharmsInv'
<1>1. /\ UNCHANGED <<cplan, todo, awake, related, lacking, wanted, changed, told, minted,
                     schema, label, ubooted, shown, gaveup>>
      /\ \E h \in Handlers : /\ up' = [up EXCEPT ![h] = FALSE]
                             /\ layer' = [layer EXCEPT ![h] = FALSE]
                             /\ file' = [file EXCEPT ![h] = Image]
                             /\ run' = [run EXCEPT ![h] = Stopped]
                             /\ torn' = torn \ {h} /\ started' = started \ {h}
      /\ cfaults' = cfaults + 1 /\ cfaults < cplan.most
  BY DEF CharmContainerRestarts, cappVars, cunitVars, CFault
<1>2. MyCharm' = MyCharm /\ Handlers' = Handlers
  BY <1>1, Frame
<1>3. Left' = Left
  BY <1>1 DEF Left
<1>4. /\ MaxConfig \in Nat /\ MaxCharmFaults \in Nat /\ cplan.most \in 0 .. MaxCharmFaults
      /\ cfaults \in 0 .. MaxCharmFaults
  BY PlanFacts DEF CharmsInv, ApiCharmsTypeOK
<1>5. Image \in Image .. MaxConfig /\ Stopped \in Stopped .. MaxConfig
      /\ cfaults' \in 0 .. MaxCharmFaults
  BY <1>1, <1>4 DEF Image, Stopped
<1>6. up \in [Handlers -> BOOLEAN] /\ file \in [Handlers -> Image .. MaxConfig]
      /\ run \in [Handlers -> Stopped .. MaxConfig]
  BY DEF CharmsInv, ApiCharmsTypeOK
<1>7. \A h \in Handlers : run'[h] \in {run[h], Stopped}
      /\ (up'[h] => up[h] /\ run'[h] = run[h] /\ file'[h] = file[h])
  BY <1>1, <1>6
<1>8. ~ Ready'
  BY <1>1, <1>2, <1>6 DEF Ready
<1>9. ApiCharmsTypeOK'
  BY <1>1, <1>2, <1>5 DEF CharmsInv, ApiCharmsTypeOK
<1>10. TodoInv'
  BY <1>1, <1>3 DEF CharmsInv, TodoInv
<1>11. SchemaInv'
  BY <1>1 DEF CharmsInv, SchemaInv
<1>12. FollowInv'
  BY <1>1, <1>2, <1>3 DEF CharmsInv, FollowInv, AllStopped, Follows
<1>13. SecretInv'
  BY <1>1, <1>2, <1>3 DEF CharmsInv, SecretInv, AllStopped
<1>14. RunInv'
  BY <1>1, <1>2, <1>3, <1>6 DEF CharmsInv, RunInv, AllStopped
<1>15. RelatedInv'
  BY <1>1, <1>2, <1>3 DEF CharmsInv, RelatedInv, AllStopped
<1>16. AddressInv'
  BY <1>1, <1>2, <1>3 DEF CharmsInv, AddressInv, AllStopped
<1>17. ActiveInv'
  BY <1>1, <1>3 DEF CharmsInv, ActiveInv
<1>18. FileInv'
  BY <1>1, <1>2, <1>6 DEF CharmsInv, FileInv
<1>19. ProgressInv'
  BY <1>8 DEF ProgressInv, Ready
<1> QED
  BY <1>9, <1>10, <1>11, <1>12, <1>13, <1>14, <1>15, <1>16, <1>17, <1>18, <1>19 DEF CharmsInv

LEMMA RelationsKeep ==
    ASSUME CharmsInv, RelationsComeAndGo
    PROVE  CharmsInv'
<1>1. /\ UNCHANGED <<cplan, todo, started, lacking, wanted, torn, changed, told, minted,
                     schema, label, ubooted, up, layer, file, run, shown, gaveup>>
      /\ Idle /\ related' \in BOOLEAN /\ awake' = TRUE
      /\ cfaults' = cfaults \/ (cfaults' = cfaults + 1 /\ cfaults < cplan.most)
  BY DEF RelationsComeAndGo, cappVars, cunitVars, cpodVars, CFault
<1>2. MyCharm' = MyCharm /\ Handlers' = Handlers
  BY <1>1, Frame
<1>3. Left' = Left
  BY <1>1 DEF Left
<1>4. Left = {}
  BY <1>1, IdleFacts
<1>5. cfaults' \in 0 .. MaxCharmFaults
  BY <1>1, PlanFacts DEF CharmsInv, ApiCharmsTypeOK
<1>6. ApiCharmsTypeOK'
  BY <1>1, <1>2, <1>5 DEF CharmsInv, ApiCharmsTypeOK
<1>7. TodoInv'
  BY <1>1, <1>3 DEF CharmsInv, TodoInv
<1>8. SchemaInv'
  BY <1>1 DEF CharmsInv, SchemaInv
<1>9. FollowInv'
  BY <1>1, <1>2, <1>3 DEF CharmsInv, FollowInv, AllStopped, Follows
<1>10. SecretInv'
  BY <1>1, <1>2, <1>3 DEF CharmsInv, SecretInv, AllStopped
<1>11. RunInv'
  BY <1>1, <1>2, <1>3 DEF CharmsInv, RunInv, AllStopped
<1>12. RelatedInv'
  BY <1>1, <1>3, <1>4 DEF RelatedInv
<1>13. AddressInv'
  BY <1>1, <1>2, <1>3 DEF CharmsInv, AddressInv, AllStopped
<1>14. ActiveInv'
  BY <1>1, <1>3 DEF CharmsInv, ActiveInv
<1>15. FileInv'
  BY <1>1, <1>2 DEF CharmsInv, FileInv
<1>16. ProgressInv'
  BY <1>1 DEF ProgressInv, Ready
<1> QED
  BY <1>6, <1>7, <1>8, <1>9, <1>10, <1>11, <1>12, <1>13, <1>14, <1>15, <1>16 DEF CharmsInv

LEMMA DemandsKeep ==
    ASSUME CharmsInv, DemandsComeAndGo
    PROVE  CharmsInv'
<1>1. /\ UNCHANGED <<cplan, todo, started, related, wanted, torn, changed, told, minted,
                     schema, label, ubooted, up, layer, file, run, shown, gaveup>>
      /\ Idle
      /\ \E k \in MyCharm.asks :
            /\ lacking' = lacking \ {k} \/ (lacking' = lacking \cup {k} /\ k # "address")
            /\ awake' = (awake \/ k # "address")
      /\ cfaults' = cfaults \/ (cfaults' = cfaults + 1 /\ cfaults < cplan.most)
  BY DEF DemandsComeAndGo, cappVars, cunitVars, cpodVars, CFault
<1>2. MyCharm' = MyCharm /\ Handlers' = Handlers
  BY <1>1, Frame
<1>3. Left' = Left
  BY <1>1 DEF Left
<1>4. Left = {}
  BY <1>1, IdleFacts
<1>5. cfaults' \in 0 .. MaxCharmFaults
  BY <1>1, PlanFacts DEF CharmsInv, ApiCharmsTypeOK
<1>6. awake \in BOOLEAN /\ lacking \subseteq MyCharm.asks
  BY DEF CharmsInv, ApiCharmsTypeOK
<1>7. /\ lacking' \subseteq MyCharm.asks /\ awake' \in BOOLEAN
      /\ awake' = TRUE \/ (awake' = awake /\ lacking' = lacking \ {"address"})
      /\ "address" \in lacking' => "address" \in lacking
  <2>1. PICK k \in MyCharm.asks :
           /\ lacking' = lacking \ {k} \/ (lacking' = lacking \cup {k} /\ k # "address")
           /\ awake' = (awake \/ k # "address")
    BY <1>1
  <2>2. CASE k = "address"
    <3>1. awake' = awake
      BY <1>6, <2>1, <2>2
    <3> QED  BY <1>6, <2>1, <3>1
  <2>3. CASE k # "address"
    <3>1. awake' = TRUE
      BY <2>1, <2>3
    <3> QED  BY <1>6, <2>1, <3>1
  <2> QED  BY <2>2, <2>3
<1>8. ApiCharmsTypeOK'
  BY <1>1, <1>2, <1>5 DEF CharmsInv, ApiCharmsTypeOK
<1>9. TodoInv'
  BY <1>1, <1>3 DEF CharmsInv, TodoInv
<1>10. SchemaInv'
  BY <1>1 DEF CharmsInv, SchemaInv
<1>11. FollowInv'
  BY <1>1, <1>2, <1>3 DEF CharmsInv, FollowInv, AllStopped, Follows
<1>12. SecretInv'
  BY <1>1, <1>2, <1>3 DEF CharmsInv, SecretInv, AllStopped
<1>13. RunInv'
  BY <1>1, <1>2, <1>3 DEF CharmsInv, RunInv, AllStopped
<1>14. RelatedInv'
  BY <1>1, <1>2, <1>3 DEF CharmsInv, RelatedInv, AllStopped
<1>15. AddressInv'
  BY <1>1, <1>2, <1>3 DEF CharmsInv, AddressInv, AllStopped
<1>16. ActiveInv'
  BY <1>1, <1>3, <1>4 DEF CharmsInv, ActiveInv
<1>17. FileInv'
  BY <1>1, <1>2 DEF CharmsInv, FileInv
<1>18. ProgressInv'
  BY <1>1, <1>2, <1>4 DEF CharmsInv, ProgressInv, AddressInv, Ready
<1> QED
  BY <1>8, <1>9, <1>10, <1>11, <1>12, <1>13, <1>14, <1>15, <1>16, <1>17, <1>18 DEF CharmsInv

LEMMA TemplatesKeep ==
    ASSUME CharmsInv, TemplatesChange
    PROVE  CharmsInv'
<1>1. /\ UNCHANGED <<cplan, todo, started, related, lacking, torn, changed, told, minted,
                     schema, label, ubooted, up, layer, file, run, shown, gaveup>>
      /\ Idle /\ wanted < MaxConfig /\ wanted' = wanted + 1 /\ awake' = TRUE
      /\ cfaults' = cfaults + 1 /\ cfaults < cplan.most
  BY DEF TemplatesChange, cappVars, cunitVars, cpodVars, CFault
<1>2. MyCharm' = MyCharm /\ Handlers' = Handlers
  BY <1>1, Frame
<1>3. Left' = Left
  BY <1>1 DEF Left
<1>4. Left = {}
  BY <1>1, IdleFacts
<1>5. cfaults' \in 0 .. MaxCharmFaults /\ wanted' \in 1 .. MaxConfig
  BY <1>1, PlanFacts DEF CharmsInv, ApiCharmsTypeOK
<1>6. ApiCharmsTypeOK'
  BY <1>1, <1>2, <1>5 DEF CharmsInv, ApiCharmsTypeOK
<1>7. TodoInv'
  BY <1>1, <1>3 DEF CharmsInv, TodoInv
<1>8. SchemaInv'
  BY <1>1 DEF CharmsInv, SchemaInv
<1>9. FollowInv'
  BY <1>1, <1>2, <1>3 DEF CharmsInv, FollowInv, AllStopped, Follows
<1>10. SecretInv'
  BY <1>1, <1>2, <1>3 DEF CharmsInv, SecretInv, AllStopped
<1>11. RunInv'
  BY <1>1, <1>2, <1>3 DEF CharmsInv, RunInv, AllStopped
<1>12. RelatedInv'
  BY <1>1, <1>3 DEF CharmsInv, RelatedInv
<1>13. AddressInv'
  BY <1>1, <1>2, <1>3 DEF CharmsInv, AddressInv, AllStopped
<1>14. ActiveInv'
  BY <1>1, <1>3 DEF CharmsInv, ActiveInv
<1>15. FileInv'
  BY <1>1, <1>2 DEF CharmsInv, FileInv
<1>16. ProgressInv'
  BY <1>1 DEF ProgressInv, Ready
<1> QED
  BY <1>6, <1>7, <1>8, <1>9, <1>10, <1>11, <1>12, <1>13, <1>14, <1>15, <1>16 DEF CharmsInv

LEMMA OtherUnitKeeps ==
    ASSUME CharmsInv, OtherUnitLeads
    PROVE  CharmsInv'
<1>1. /\ UNCHANGED <<cplan, todo, started, related, lacking, wanted, torn, changed, label,
                     ubooted, up, layer, file, run, cfaults, shown, gaveup>>
      /\ Idle /\ ~ cplan.leads /\ awake' = TRUE
      /\ \/ minted' = TRUE /\ UNCHANGED <<told, schema>>
         \/ told' = TRUE /\ schema' = TRUE /\ UNCHANGED minted
  BY DEF OtherUnitLeads, cunitVars, cpodVars
<1>2. MyCharm' = MyCharm /\ Handlers' = Handlers
  BY <1>1, Frame
<1>3. Left' = Left
  BY <1>1 DEF Left
<1>4. Left = {}
  BY <1>1, IdleFacts
<1>5. ApiCharmsTypeOK'
  BY <1>1, <1>2 DEF CharmsInv, ApiCharmsTypeOK
<1>6. TodoInv'
  BY <1>1, <1>3 DEF CharmsInv, TodoInv
<1>7. SchemaInv'
  BY <1>1 DEF CharmsInv, SchemaInv
<1>8. FollowInv'
  BY <1>1, <1>2, <1>3 DEF CharmsInv, FollowInv, AllStopped, Follows
<1>9. SecretInv'
  BY <1>1, <1>2, <1>3 DEF CharmsInv, SecretInv, AllStopped
<1>10. RunInv'
  BY <1>1, <1>2, <1>3 DEF CharmsInv, RunInv, AllStopped
<1>11. RelatedInv'
  BY <1>1, <1>3 DEF CharmsInv, RelatedInv
<1>12. AddressInv'
  BY <1>1, <1>2, <1>3 DEF CharmsInv, AddressInv, AllStopped
<1>13. ActiveInv'
  BY <1>1, <1>3 DEF CharmsInv, ActiveInv
<1>14. FileInv'
  BY <1>1, <1>2 DEF CharmsInv, FileInv
<1>15. ProgressInv'
  BY <1>1 DEF ProgressInv, Ready
<1> QED
  BY <1>5, <1>6, <1>7, <1>8, <1>9, <1>10, <1>11, <1>12, <1>13, <1>14, <1>15 DEF CharmsInv

-----------------------------------------------------------------------------
(* The theorems.                                                           *)

LEMMA CharmsInitInv == CharmsInit => CharmsInv
<1> SUFFICES ASSUME CharmsInit PROVE CharmsInv
  OBVIOUS
<1>1. /\ MaxConfig \in Nat \ {0} /\ MaxCharmFaults \in Nat /\ cplan \in CharmPlans
      /\ Handlers = 1 .. Len(MyCharm.pod)
  BY PlanFacts DEF CharmsInit
<1>2. todo \in Seq(Steps) /\ Left = {} /\ Sorted(cplan.charm, todo)
  BY EmptySteps DEF CharmsInit, Left
<1>3. ApiCharmsTypeOK
  <2>1. /\ 1 \in 1 .. MaxConfig /\ 0 \in 0 .. MaxCharmFaults
        /\ Image \in Image .. MaxConfig /\ Stopped \in Stopped .. MaxConfig
    BY <1>1 DEF Image, Stopped
  <2> QED  BY <1>2, <2>1 DEF CharmsInit, ApiCharmsTypeOK
<1>4. TodoInv /\ SchemaInv
  BY <1>2 DEF CharmsInit, TodoInv, SchemaInv
<1>5. AllStopped
  BY DEF CharmsInit, AllStopped
<1>6. FollowInv /\ SecretInv /\ RunInv /\ RelatedInv /\ AddressInv
  BY <1>2 DEF CharmsInit, FollowInv, SecretInv, RunInv, RelatedInv, AddressInv, AllStopped
<1>7. ActiveInv /\ FileInv /\ ProgressInv
  BY <1>2 DEF CharmsInit, ActiveInv, FileInv, ProgressInv, Ready
<1> QED  BY <1>3, <1>4, <1>6, <1>7 DEF CharmsInv

LEMMA CharmsNextInv == CharmsInv /\ [CharmsNext]_charmVars => CharmsInv'
<1> SUFFICES ASSUME CharmsInv, [CharmsNext]_charmVars PROVE CharmsInv'
  OBVIOUS
<1>1. CASE CharmHookStarts
  BY <1>1, HookStartsKeeps
<1>2. CASE CharmStep
  <2>1. CASE RunsCommands
    <3>1. At("pools") \/ At("plugins")
      BY <2>1 DEF RunsCommands
    <3> QED  BY <2>1, <3>1, UpdatesPoolsKeeps, ManagesPluginsKeeps
  <2>2. CASE ~ RunsCommands
    BY <1>2, <2>2, ChecksLeaderKeeps, ChecksRelationsKeeps, ConfigureContainersKeeps,
       RunDbSyncKeeps, InitContainerServicesKeeps, CheckPebbleKeeps, UnitBootstrappedKeeps,
       ConfiguresAppKeeps, SetsActiveKeeps, SharesSecretKeeps, ChecksSanityKeeps,
       ChecksStorageKeeps, StartsEarlyKeeps, ChecksOptionKeeps, StartsRegardlessKeeps,
       RestartsServiceKeeps, ClaimsActiveKeeps DEF CharmStep
  <2> QED  BY <2>1, <2>2
<1>3. CASE \/ CharmContainerStarts \/ CharmContainerRestarts \/ RelationsComeAndGo
           \/ DemandsComeAndGo \/ TemplatesChange \/ OtherUnitLeads
  BY <1>3, ContainerStartsKeeps, ContainerRestartsKeeps, RelationsKeep, DemandsKeep,
     TemplatesKeep, OtherUnitKeeps
<1>4. CASE UNCHANGED charmVars
  <2>1. UNCHANGED <<cplan, todo, awake, started, related, lacking, wanted, torn, changed, told,
                    minted, schema,
        label, ubooted, up, layer, file, run, cfaults, shown, gaveup>>
    BY <1>4 DEF charmVars, cenvVars, cappVars, cunitVars, cpodVars
  <2>2. MyCharm' = MyCharm /\ Handlers' = Handlers /\ Left' = Left
    BY <2>1, Frame DEF Left
  <2>3. ApiCharmsTypeOK' /\ TodoInv' /\ SchemaInv'
    BY <2>1, <2>2 DEF CharmsInv, ApiCharmsTypeOK, TodoInv, SchemaInv
  <2>4. FollowInv' /\ SecretInv' /\ RunInv' /\ RelatedInv' /\ AddressInv'
    BY <2>1, <2>2
       DEF CharmsInv, FollowInv, SecretInv, RunInv, RelatedInv, AddressInv, AllStopped, Follows
  <2>5. ActiveInv' /\ FileInv' /\ ProgressInv'
    BY <2>1, <2>2 DEF CharmsInv, ActiveInv, FileInv, ProgressInv, Ready
  <2> QED  BY <2>3, <2>4, <2>5 DEF CharmsInv
<1> QED  BY <1>1, <1>2, <1>3, <1>4 DEF CharmsNext

LEMMA CharmsInvImplies == CharmsInv => ApiCharmsTypeOK /\ ServicesRunInOrder
    /\ ProgramsConverge
<1> SUFFICES ASSUME CharmsInv PROVE ApiCharmsTypeOK /\ ServicesRunInOrder /\ ProgramsConverge
  OBVIOUS
<1>1. Idle => Left = {}
  BY IdleFacts
<1>2. ServicesRunInOrder
  BY <1>1
     DEF CharmsInv, ServicesRunInOrder, RunInv, RelatedInv, ActiveInv, AllStopped, CharmAtRest
<1>3. ASSUME CharmAtRest, related, lacking = {}, cplan.leads \/ (minted /\ told),
             \A h \in Handlers : up[h], ~ gaveup
      PROVE  /\ Bootstrapped /\ schema /\ shown = "active"
             /\ \A h \in Handlers \ (torn \cup changed) : run[h] = wanted
  <2>1. Ready /\ Left = {}
    BY <1>1, <1>3 DEF Ready, CharmAtRest
  <2>2. /\ ubooted /\ told /\ schema /\ shown = "active"
        /\ \A h \in Handlers : file[h] = wanted /\ run[h] # Stopped
    BY <2>1 DEF CharmsInv, ProgressInv
  <2> QED  BY <2>2 DEF CharmsInv, FileInv, Bootstrapped
<1> QED  BY <1>2, <1>3 DEF CharmsInv, ProgramsConverge

\* Services run only where they may: in every state of every charm of the
\* catalogue, whatever its unit is, for any number of configurations and faults.
THEOREM ServicesRunInOrderHolds == CharmsSpec => []ServicesRunInOrder
<1>1. CharmsInv => ServicesRunInOrder
  BY CharmsInvImplies
<1> QED  BY <1>1, CharmsInitInv, CharmsNextInv, PTL DEF CharmsSpec

\* When no event waits, a unit that has all it needs is bootstrapped and active
\* and runs every service on the configuration of the moment.
THEOREM ProgramsConvergeHolds == CharmsSpec => [](ApiCharmsTypeOK /\ ProgramsConverge)
<1>1. CharmsInv => ApiCharmsTypeOK /\ ProgramsConverge
  BY CharmsInvImplies
<1> QED  BY <1>1, CharmsInitInv, CharmsNextInv, PTL DEF CharmsSpec
==============================================================================
