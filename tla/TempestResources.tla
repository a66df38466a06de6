-------------------------- MODULE TempestResources --------------------------
(***************************************************************************)
(* Keystone's leader at work on its own store: its first setup, the users  *)
(* asked for over identity-credentials, and the request of tempest over    *)
(* identity-ops, which tears down what an earlier one left behind and sets *)
(* up a domain, a project and a user anew.  Tempest's unit keeps what it   *)
(* got in a secret and its environment, initialised from it, in its pod.   *)
(***************************************************************************)
EXTENDS KeystoneStore

CONSTANTS
    CredUsers,     \* the users asked for over identity-credentials
    MaxPasswords,  \* bound on the passwords ever made
    TPlans,        \* the sets of faults that go together in a behaviour
    MaxTFaults     \* bound on the faults of one behaviour

ASSUME TempestAssumption == MaxPasswords \in Nat /\ MaxTFaults \in Nat

VARIABLES
    kstore,      \* what keystone has
    installed,   \* setup_initial_projects_and_users has ended once
    credSecret,  \* credSecret[n]: the password of user n in its secret, 0 without
    kOps,        \* keystone has a relation-changed of identity-ops waiting
    related,     \* tempest is related to keystone
    tSecret,     \* the credential secret; password 0 where there is none
    tRequest,    \* the password in the request of the databag, 0 without one
    tAnswer,     \* what the response of the databag says
    tProcessed,  \* the requests stored as processed
    tReady,      \* "tempest-ready" in the peer databag
    workspace,   \* what the environment in the pod was initialised with
    rebuild,     \* options have changed since (config_rebuild_hash)
    tHooks,      \* hooks of tempest that wait
    passwords,   \* the passwords made so far
    tPlan, tFaults

keystoneVars == <<kstore, installed, credSecret>>
tempestVars == <<keystoneVars, kOps, related, tSecret, tRequest, tAnswer, tProcessed,
                 tReady, workspace, rebuild, tHooks, passwords, tPlan, tFaults>>

NoSecret == [password |-> 0, domain |-> NoObject, url |-> FALSE]
NoAnswer == [to |-> 0, domain |-> NoObject, url |-> FALSE]

TempestTypeOK ==
    /\ {g.user : g \in kstore.grants} \subseteq {u.id : u \in kstore.users}
    /\ {g.on : g \in kstore.grants} \subseteq {e.id : e \in kstore.domains \cup kstore.projects}
    /\ installed \in BOOLEAN /\ kOps \in BOOLEAN /\ related \in BOOLEAN
    /\ \A p \in {tRequest, tSecret.password, tAnswer.to} \cup tProcessed : p \in 0 .. passwords
    /\ tReady \in BOOLEAN /\ rebuild \in BOOLEAN
    /\ tHooks \subseteq {"joined", "changed", "start", "configure"}
    /\ passwords \in 0 .. MaxPasswords
    /\ tFaults \in 0 .. MaxTFaults

TFault(k) ==
    /\ k \in tPlan
    /\ tFaults < MaxTFaults
    /\ tFaults' = tFaults + 1

-----------------------------------------------------------------------------
(* What keystone is asked to do.                                           *)

\* keystone-manage bootstrap, before the charm can ask for anything
BootstrapStore ==
    [EmptyStore EXCEPT !.projects = {[id |-> 2, name |-> "admin", domain |-> 1]},
                       !.roles = {[id |-> 3, name |-> "admin"], [id |-> 4, name |-> "member"],
                                  [id |-> 5, name |-> "service"]},
                       !.next = 6]

\* create_service_account
AccountOps(n, pw) ==
    LET grant == [Op("grant_role") EXCEPT !.project = Name("services"), !.user = Name(n),
                      !.projectDomain = Name("service_domain"),
                      !.userDomain = Name("service_domain")]
    IN  << [Op("create_user") EXCEPT !.name = Name(n), !.password = pw,
                                     !.domain = Name("service_domain")],
           [grant EXCEPT !.role = Name("admin")], [grant EXCEPT !.role = Name("service")] >>

\* _setup_admin_accounts, _setup_service_accounts
SetupOps ==
    LET admin == Name("admin")
        domain == Name("admin_domain")
        grant == [Op("grant_role") EXCEPT !.user = admin, !.userDomain = domain]
    IN  << [Op("create_domain") EXCEPT !.name = domain],
           [Op("create_project") EXCEPT !.name = admin, !.domain = domain],
           [Op("create_user") EXCEPT !.name = admin, !.domain = domain],
           [Op("create_role") EXCEPT !.name = Name("member")],
           [Op("create_role") EXCEPT !.name = admin],
           [grant EXCEPT !.role = Name("member"), !.project = admin, !.projectDomain = domain],
           [grant EXCEPT !.role = admin, !.project = admin, !.projectDomain = domain],
           [grant EXCEPT !.role = admin, !.domain = domain],
           [Op("create_domain") EXCEPT !.name = Name("service_domain")],
           [Op("create_project") EXCEPT !.name = Name("services"),
                                        !.domain = Name("service_domain")] >>

\* A plausible mistake: what an earlier request left is not torn down.
TeardownNothing == <<>>

\* teardown_ops
Teardown ==
    LET domain == ResultOf("show_domain")
    IN  << [Op("show_domain") EXCEPT !.name = Name("tempest")],
           [Op("delete_project") EXCEPT !.name = Name("project"), !.domain = domain],
           [Op("delete_user") EXCEPT !.name = Name("user"), !.domain = domain],
           [Op("update_domain") EXCEPT !.domain = domain, !.enable = FALSE],
           [Op("delete_domain") EXCEPT !.name = domain] >>

\* _setup_tempest_resource_ops
ResourceOps(pw) ==
    LET domain == ResultOf("create_domain")
        grant == [Op("grant_role") EXCEPT !.role = ResultOf("create_role"),
                      !.user = ResultOf("create_user"), !.userDomain = domain]
    IN  << [Op("create_role") EXCEPT !.name = Name("admin")],
           [Op("create_domain") EXCEPT !.name = Name("tempest")],
           [Op("create_project") EXCEPT !.name = Name("project"), !.domain = domain],
           [Op("create_user") EXCEPT !.name = Name("user"), !.domain = domain, !.password = pw],
           [grant EXCEPT !.domain = domain],
           [grant EXCEPT !.project = ResultOf("create_project"), !.projectDomain = domain] >>

TempestRequest(pw) == Teardown \o ResourceOps(pw)

\* Keystone would let the holder of s in, with the roles that tempest needs.
Usable(s) ==
    \E d \in kstore.domains, p \in kstore.projects, u \in kstore.users :
        /\ d.id = s.domain /\ d.enabled
        /\ p.domain = d.id /\ u.domain = d.id
        /\ u.password = s.password
        /\ {[role |-> 3, user |-> u.id, on |-> x] : x \in {d.id, p.id}} \subseteq kstore.grants

-----------------------------------------------------------------------------
(* Keystone.                                                               *)

\* Setup raises at the first error and runs from the start in the next hook.
SetUpKeystone ==
    /\ ~ installed
    /\ \/ /\ kstore' = Handle(kstore, SetupOps, {}).store
          /\ installed' = TRUE
          /\ UNCHANGED tFaults
       \/ /\ \E k \in 1 .. Len(SetupOps) :
                kstore' = Handle(kstore, SubSeq(SetupOps, 1, k), {}).store
          /\ TFault("kill")
          /\ UNCHANGED installed
    /\ UNCHANGED <<credSecret, kOps, related, tSecret, tRequest, tAnswer, tProcessed,
                   tReady, workspace, rebuild, tHooks, passwords, tPlan>>

\* A plausible mistake: every hook makes a new secret.
CredentialsNew(n) == passwords + 1

\* _retrieve_or_set_secret
Credentials(n) == IF credSecret[n] = 0 THEN passwords + 1 ELSE credSecret[n]

\* add_credentials; what a hook that dies did in keystone stays, and its secret
\* goes, so the next one makes another password for the user that is there.
AddCredentials(n) ==
    LET pw == Credentials(n)
    IN  /\ installed /\ pw < MaxPasswords
        /\ passwords' = IF pw > passwords THEN pw ELSE passwords
        /\ \/ /\ kstore' = Handle(kstore, AccountOps(n, pw), {}).store
              /\ credSecret' = [credSecret EXCEPT ![n] = pw]
              /\ UNCHANGED tFaults
           \/ /\ \E k \in 1 .. 3 :
                    kstore' = Handle(kstore, SubSeq(AccountOps(n, pw), 1, k), {}).store
              /\ TFault("kill")
              /\ UNCHANGED credSecret
        /\ UNCHANGED <<installed, kOps, related, tSecret, tRequest, tAnswer, tProcessed,
                       tReady, workspace, rebuild, tHooks, tPlan>>

\* The results tempest reads: that of create_domain, and list_endpoint's
Answer(run) ==
    LET domain == SelectSeq(run.results, LAMBDA r : r.op = "create_domain")[1]
    IN  [to |-> tRequest, domain |-> domain.value, url |-> TRUE]

\* handle_ops_from_event, check_outstanding_identity_ops_requests
HandleOps ==
    LET ops == TempestRequest(tRequest)
    IN  /\ kOps /\ installed
        /\ \/ /\ \/ /\ kstore' = Handle(kstore, ops, {}).store
                    /\ tAnswer' = Answer(Handle(kstore, ops, {}))
                    /\ UNCHANGED tFaults
                 \/ \E i \in 1 .. Len(ops) :
                       /\ kstore' = Handle(kstore, ops, {i}).store
                       /\ tAnswer' = Answer(Handle(kstore, ops, {i}))
                       /\ TFault("fail")
              /\ kOps' = FALSE
              /\ tHooks' = IF tAnswer' = tAnswer THEN tHooks ELSE tHooks \cup {"changed"}
           \/ /\ \E k \in 1 .. Len(ops) : kstore' = Handle(kstore, SubSeq(ops, 1, k), {}).store
              /\ TFault("kill")
              /\ UNCHANGED <<kOps, tAnswer, tHooks>>
        /\ UNCHANGED <<installed, credSecret, related, tSecret, tRequest, tProcessed,
                       tReady, workspace, rebuild, passwords, tPlan>>

\* relation-changed for other data than the request: it runs again.
HandleAgain ==
    /\ tRequest # 0 /\ ~ kOps
    /\ TFault("again")
    /\ kOps' = TRUE
    /\ UNCHANGED <<keystoneVars, related, tSecret, tRequest, tAnswer, tProcessed, tReady,
                   workspace, rebuild, tHooks, passwords, tPlan>>

-----------------------------------------------------------------------------
(* Tempest.                                                                *)

\* configure_unit: options that have changed make the environment unready, and
\* init_tempest skips one that is ready.
ToInit(ready) == ~ ready \/ rebuild

\* configure_charm with a secret of this content, in a hook that leaves others
ConfigureTempest(secret, ready, others) ==
    \/ /\ ~ (secret.url /\ secret.domain # NoObject) \/ ~ ToInit(ready)
       /\ tReady' = ready
       /\ tHooks' = others
       /\ UNCHANGED <<workspace, rebuild, tFaults>>
    \/ /\ secret.url /\ secret.domain # NoObject /\ ToInit(ready)
       /\ \/ /\ Usable(secret)
             /\ tReady' = TRUE /\ workspace' = secret /\ rebuild' = FALSE
             /\ tHooks' = others
             /\ UNCHANGED tFaults
          \/ \* tempest-init fails and the event is deferred.
             /\ (~ Usable(secret) /\ UNCHANGED tFaults) \/ TFault("init")
             /\ tReady' = FALSE
             /\ tHooks' = others \cup {"configure"}
             /\ UNCHANGED <<workspace, rebuild>>

\* relation-joined, once for each unit of keystone: _on_provider_ready
Joined ==
    LET pw == IF tSecret.password = 0 THEN passwords + 1 ELSE tSecret.password
    IN  /\ "joined" \in tHooks /\ pw <= MaxPasswords
        /\ passwords' = IF pw > passwords THEN pw ELSE passwords
        /\ tSecret' = [tSecret EXCEPT !.password = pw]
        /\ IF pw \in tProcessed \/ tRequest = pw
             THEN UNCHANGED <<tRequest, kOps>>
             ELSE tRequest' = pw /\ kOps' = TRUE
        /\ ConfigureTempest(tSecret', FALSE, tHooks \ {"joined"})
        /\ UNCHANGED <<keystoneVars, related, tAnswer, tProcessed, tPlan>>

\* relation-changed: _on_response_available
ResponseChanged ==
    /\ "changed" \in tHooks
    /\ tProcessed' = tProcessed \cup {tAnswer.to}
    /\ tSecret' = [tSecret EXCEPT !.url = @ \/ tAnswer.url,
                       !.domain = IF tAnswer.domain = NoObject THEN @ ELSE tAnswer.domain]
    /\ ConfigureTempest(tSecret', tReady, tHooks \ {"changed"})
    /\ UNCHANGED <<keystoneVars, kOps, related, tRequest, tAnswer, passwords, tPlan>>

Configure ==
    /\ "configure" \in tHooks /\ "start" \notin tHooks
    /\ ConfigureTempest(tSecret, tReady, tHooks \ {"configure"})
    /\ UNCHANGED <<keystoneVars, kOps, related, tSecret, tRequest, tAnswer, tProcessed,
                   passwords, tPlan>>

\* A plausible mistake: a restart keeps the mark.
StartKeeps == tReady' = tReady

\* _on_start, and _on_upgrade_charm
Restarted == tReady' = FALSE

StartTempest ==
    /\ "start" \in tHooks
    /\ Restarted
    /\ tHooks' = tHooks \ {"start"}
    /\ UNCHANGED <<keystoneVars, kOps, related, tSecret, tRequest, tAnswer, tProcessed,
                   workspace, rebuild, passwords, tPlan, tFaults>>

\* _delete_secret
SecretGone == NoSecret

\* relation-broken: _on_provider_goneaway
Broken ==
    /\ related /\ tSecret # NoSecret
    /\ TFault("broken")
    /\ related' = FALSE /\ tReady' = FALSE
    /\ tSecret' = SecretGone /\ tRequest' = 0 /\ tAnswer' = NoAnswer
    /\ kOps' = FALSE
    /\ tHooks' = tHooks \ {"joined", "changed"}
    /\ UNCHANGED <<keystoneVars, tProcessed, workspace, rebuild, passwords, tPlan>>

Relate ==
    /\ ~ related /\ passwords < MaxPasswords
    /\ related' = TRUE
    /\ tHooks' = tHooks \cup {"joined"}
    /\ UNCHANGED <<keystoneVars, kOps, tSecret, tRequest, tAnswer, tProcessed, tReady,
                   workspace, rebuild, passwords, tPlan, tFaults>>

\* A second unit of keystone joins.
JoinedAgain ==
    /\ related /\ tSecret # NoSecret
    /\ TFault("join")
    /\ tHooks' = tHooks \cup {"joined"}
    /\ UNCHANGED <<keystoneVars, kOps, related, tSecret, tRequest, tAnswer, tProcessed,
                   tReady, workspace, rebuild, passwords, tPlan>>

\* The pod is replaced, and its files with it.
PodRestarts ==
    /\ TFault("pod")
    /\ workspace' = NoSecret
    /\ tHooks' = tHooks \cup {"start", "configure"}
    /\ UNCHANGED <<keystoneVars, kOps, related, tSecret, tRequest, tAnswer, tProcessed,
                   tReady, rebuild, passwords, tPlan>>

OptionsChange ==
    /\ TFault("options")
    /\ rebuild' = TRUE
    /\ tHooks' = tHooks \cup {"configure"}
    /\ UNCHANGED <<keystoneVars, kOps, related, tSecret, tRequest, tAnswer, tProcessed,
                   tReady, workspace, passwords, tPlan>>

TempestInit ==
    /\ kstore = BootstrapStore /\ installed = FALSE
    /\ credSecret = [n \in CredUsers |-> 0]
    /\ kOps = FALSE /\ related = FALSE
    /\ tSecret = NoSecret /\ tRequest = 0 /\ tAnswer = NoAnswer /\ tProcessed = {}
    /\ tReady = FALSE /\ workspace = NoSecret /\ rebuild = FALSE
    /\ tHooks = {} /\ passwords = 0
    /\ tPlan \in TPlans /\ tFaults = 0

KeystoneHook == SetUpKeystone \/ HandleOps
TempestHook == Joined \/ ResponseChanged \/ Configure \/ StartTempest

TempestNext ==
    \/ KeystoneHook \/ TempestHook
    \/ \E n \in CredUsers : AddCredentials(n)
    \/ HandleAgain \/ Broken \/ Relate \/ JoinedAgain \/ PodRestarts \/ OptionsChange

TempestSpec == TempestInit /\ [][TempestNext]_tempestVars

-----------------------------------------------------------------------------
(* Properties.                                                             *)

\* At rest, a tempest that calls itself ready has an environment in its pod that
\* opens a domain, a project and a user of keystone, through restarts of the pod,
\* relations that come and go and hooks of keystone that die (set_tempest_ready).
\* A request that keystone runs twice makes the domain anew under it.
ReadyIsUsable ==
    \/ "again" \in tPlan
    \/ (tHooks = {} /\ ~ kOps /\ tReady) => workspace = tSecret /\ Usable(workspace)

\* What keystone's setup made stays, whatever tempest has torn down, also where
\* there is no domain to tear down and its id is empty (teardown_ops).
SetupStands ==
    installed => Handle(kstore, SetupOps, {}).store = kstore

\* A user asked for over identity-credentials can log in with its secret, unless
\* a hook died in the middle (add_credentials).
CredentialsWork ==
    \/ "kill" \in tPlan
    \/ \A n \in CredUsers : credSecret[n] # 0 =>
          \E u \in kstore.users : u.name = n /\ u.password = credSecret[n]

\* A related tempest is ready in the end, unless an operation of its request
\* failed: a request is never sent again (is_request_processed).
TempestReadyInTheEnd ==
    "fail" \notin tPlan => <>[](related => tReady)
=============================================================================
