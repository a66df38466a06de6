-------------------------- MODULE ServiceAccounts --------------------------
(***************************************************************************)
(* The service users that keystone makes for the applications related over *)
(* identity-service.  Keystone's leader keeps one Juju secret for each     *)
(* application, which Juju has it rotate: every rotation makes a user with *)
(* a new name, the clients move to the new revision at their own pace, and *)
(* the users of revisions nobody reads any more are deleted.               *)
(*                                                                         *)
(* A user is <<a, n>>, the n-th that was made for application a; its name  *)
(* is svc_a with a random suffix.                                          *)
(***************************************************************************)
EXTENDS Integers, FiniteSets

CONSTANTS
    Apps,         \* the related applications
    Dashed,       \* those with a dash in their name
    NameExtends,  \* <<a, b>>: the name of b begins with the name of a
    Clients,      \* <<a, u>>: unit u of application a reads its credentials
    Requesters,   \* applications that may ask for an extra role
    MaxUsers,     \* bound on the users made for one application
    SvcPlans,     \* the sets of faults that go together in a behaviour
    MaxSvcFaults  \* bound on the faults of one behaviour

ASSUME SvcAssumption ==
    /\ Dashed \subseteq Apps /\ Requesters \subseteq Apps
    /\ NameExtends \subseteq (Apps \X Apps)
    /\ \A c \in Clients : c[1] \in Apps
    /\ \A a \in Apps : \E c \in Clients : c[1] = a
    /\ MaxUsers \in Nat /\ MaxSvcFaults \in Nat

VARIABLES
    booted,     \* bootstrapped() and leader: can_service_requests
    asked,      \* the applications with service-endpoints in their databag
    wanted,     \* those with extra-roles in their databag
    svcSecret,  \* svcSecret[a]: the user in the secret of a, 0 without a secret
    marker,     \* marker[a]: in keystone's databag 0 nothing, 1 the credentials,
                \* 2 the credentials, with the extra roles processed
    svcUsers,   \* the users in keystone
    granted,    \* the users with the extra role
    tracks,     \* tracks[c]: the user of the revision c reads, 0 before the first
    retired,    \* old_service_users in the peer databag; of one application in
                \* the order of their numbers
    svcHooks,   \* hooks that wait: <<kind, application>>
    clientHooks,\* the clients with a secret-changed or relation-changed that waits
    made,       \* made[a]: the users made for a
    svcPlan, svcFaults

svcVars == <<booted, asked, wanted, svcSecret, marker, svcUsers, granted, tracks,
             retired, svcHooks, clientHooks, made, svcPlan, svcFaults>>

SvcTypeOK ==
    /\ booted \in BOOLEAN
    /\ asked \subseteq Apps /\ wanted \subseteq asked
    /\ svcSecret \in [Apps -> 0 .. MaxUsers]
    /\ marker \in [Apps -> 0 .. 2]
    /\ granted \subseteq svcUsers /\ svcUsers \subseteq Apps \X (1 .. MaxUsers)
    /\ tracks \in [Clients -> 0 .. MaxUsers]
    /\ retired \subseteq Apps \X (1 .. MaxUsers)
    /\ svcHooks \subseteq {"request", "rotate", "remove"} \X Apps
    /\ clientHooks \subseteq Clients
    /\ made \in [Apps -> 0 .. MaxUsers]
    /\ svcFaults \in 0 .. MaxSvcFaults

SvcFault(k) ==
    /\ k \in svcPlan
    /\ svcFaults < MaxSvcFaults
    /\ svcFaults' = svcFaults + 1

ClientsOf(S) == {c \in Clients : c[1] \in S}

-----------------------------------------------------------------------------
(* register_service, for the applications S one after the other.           *)

\* _retrieve_or_set_secret: the user in the secret, or a new one.
UserOf(a) == IF svcSecret[a] = 0 THEN made[a] + 1 ELSE svcSecret[a]

\* create_service_account: the user, unless it exists, and its roles
Accounts(S, R) ==
    /\ \A a \in S : UserOf(a) <= MaxUsers
    /\ svcUsers' = svcUsers \cup {<<a, UserOf(a)>> : a \in S}
    /\ granted' = granted \cup {<<a, UserOf(a)>> : a \in R \cap wanted}
    /\ made' = [a \in Apps |-> IF a \in S /\ UserOf(a) > made[a]
                               THEN UserOf(a) ELSE made[a]]

\* check_outstanding_identity_service_requests
Outstanding == {a \in asked : marker[a] # IF a \in wanted THEN 2 ELSE 1}

Registered(S) ==
    /\ Accounts(S, S)
    /\ svcSecret' = [a \in Apps |-> IF a \in S THEN UserOf(a) ELSE svcSecret[a]]
    /\ marker' = [a \in Apps |-> IF a \notin S THEN marker[a]
                                 ELSE IF a \in wanted THEN 2 ELSE 1]
    /\ clientHooks' = clientHooks \cup ClientsOf({a \in S : marker'[a] # marker[a]})

\* The hook dies: what it did in keystone stays, the rest is lost.
HalfRegistered(S) ==
    /\ \E T \in SUBSET S : \E R \in SUBSET T : Accounts(T, R)
    /\ SvcFault("kill")
    /\ UNCHANGED <<svcSecret, marker, clientHooks>>

\* configure_charm of the leader, and the first one boots keystone
ConfigureAppLeader ==
    /\ ~ booted \/ Outstanding # {}
    /\ \/ /\ Registered(Outstanding)
          /\ booted' = TRUE
          /\ UNCHANGED svcFaults
       \/ /\ HalfRegistered(Outstanding)
          /\ UNCHANGED booted
    /\ UNCHANGED <<asked, wanted, tracks, retired, svcHooks, svcPlan>>

\* relation-changed: register_service_from_event, which drops it before keystone
\* can service requests and does not look at what was processed.
Request(a) ==
    /\ <<"request", a>> \in svcHooks
    /\ \/ /\ ~ booted
          /\ svcHooks' = svcHooks \ {<<"request", a>>}
          /\ UNCHANGED <<svcSecret, marker, svcUsers, granted, clientHooks, made,
                         svcFaults>>
       \/ /\ booted
          /\ Registered({a})
          /\ svcHooks' = svcHooks \ {<<"request", a>>}
          /\ UNCHANGED svcFaults
       \/ /\ booted
          /\ HalfRegistered({a})
          /\ UNCHANGED svcHooks
    /\ UNCHANGED <<booted, asked, wanted, tracks, retired, svcPlan>>

-----------------------------------------------------------------------------
(* Rotation.                                                               *)

\* Labels are compared with the application's name as it is, and those of the
\* secrets have underscores for dashes.
Labelled(a) == a \notin Dashed

\* _identity_service_extra_roles of the relation's databag
RotatedRoles(a) == {a} \cap wanted

\* A plausible mistake: the user that is replaced is not listed.
RetiredForgets(a) == retired

Retired(a) == retired \cup {<<a, svcSecret[a]>>}

SvcRotate(a) ==
    LET user == <<a, made[a] + 1>>
        make == /\ svcUsers' = svcUsers \cup {user}
                /\ granted' = granted \cup {<<b, user[2]>> : b \in RotatedRoles(a)}
                /\ made' = [made EXCEPT ![a] = @ + 1]
    IN  /\ <<"rotate", a>> \in svcHooks
        /\ \/ \* another application's label, or no longer the leader
              /\ (~ Labelled(a) /\ UNCHANGED svcFaults) \/ SvcFault("elect")
              /\ svcHooks' = svcHooks \ {<<"rotate", a>>}
              /\ UNCHANGED <<svcUsers, granted, made, svcSecret, retired, clientHooks>>
           \/ /\ Labelled(a) /\ made[a] < MaxUsers
              /\ make
              /\ svcSecret' = [svcSecret EXCEPT ![a] = user[2]]
              /\ retired' = Retired(a)
              /\ svcHooks' = svcHooks \ {<<"rotate", a>>}
              /\ clientHooks' = clientHooks \cup {c \in ClientsOf({a}) : tracks[c] # 0}
              /\ UNCHANGED svcFaults
           \/ /\ Labelled(a) /\ made[a] < MaxUsers
              /\ make
              /\ SvcFault("kill")
              /\ UNCHANGED <<svcSecret, retired, svcHooks, clientHooks>>
        /\ UNCHANGED <<booted, asked, wanted, marker, tracks, svcPlan>>

\* A plausible mistake: every user on the list goes.
CreatedForAny(a, user) == TRUE

\* A plausible mistake: labels and names are never alike.
CreatedForNobody(a, user) == FALSE

\* The name of the user begins with the secret's label.
CreatedFor(a, user) ==
    \/ user[1] = a
    \/ "similar" \in svcPlan /\ <<a, user[1]>> \in NameExtends

\* The users that _on_secret_remove has deleted when it dies: the first few of
\* the list, at least one.
FirstOf(doomed) ==
    {gone \in SUBSET doomed \ {{}} :
        \A u \in gone, v \in doomed : v[1] = u[1] /\ v[2] < u[2] => v \in gone}

\* delete_user for each of them, which raises for a user that does not exist.
DeleteEach(gone) ==
    /\ gone \subseteq svcUsers
    /\ svcUsers' = svcUsers \ gone
    /\ granted' = granted \ gone

\* _on_secret_remove of any revision. When a user does not exist, the hook
\* fails, this time and every time it runs again.
SvcRemove(a) ==
    LET doomed == {user \in retired : CreatedFor(a, user)}
    IN  /\ <<"remove", a>> \in svcHooks
        /\ \/ /\ ~ Labelled(a)
              /\ svcHooks' = svcHooks \ {<<"remove", a>>}
              /\ UNCHANGED <<svcUsers, granted, retired, svcFaults>>
           \/ /\ Labelled(a)
              /\ DeleteEach(doomed)
              /\ retired' = retired \ doomed
              /\ svcHooks' = svcHooks \ {<<"remove", a>>}
              /\ UNCHANGED svcFaults
           \/ /\ Labelled(a)
              /\ \E gone \in FirstOf(doomed) : DeleteEach(gone)
              /\ SvcFault("kill")
              /\ UNCHANGED <<retired, svcHooks>>
        /\ UNCHANGED <<booted, asked, wanted, svcSecret, marker, tracks, clientHooks,
                       made, svcPlan>>

-----------------------------------------------------------------------------
(* The clients, and Juju.                                                  *)

\* register_services of the client's leader, with and without extra roles
RegisterServices(a, roles) ==
    /\ a \notin asked \/ (roles /\ a \notin wanted)
    /\ roles => a \in Requesters
    /\ asked' = asked \cup {a}
    /\ wanted' = IF roles THEN wanted \cup {a} ELSE wanted
    /\ svcHooks' = svcHooks \cup {<<"request", a>>}
    /\ UNCHANGED <<booted, svcSecret, marker, svcUsers, granted, tracks, retired,
                   clientHooks, made, svcPlan, svcFaults>>

\* service_user_name and service_password read the latest revision; Juju tells
\* keystone when nobody reads the one before.
ClientConfigures(c) ==
    /\ c \in clientHooks
    /\ clientHooks' = clientHooks \ {c}
    /\ tracks' = [tracks EXCEPT ![c] = svcSecret[c[1]]]
    /\ svcHooks' = IF \/ tracks[c] \in {0, tracks'[c]}
                      \/ \E d \in ClientsOf({c[1]}) : tracks'[d] = tracks[c]
                   THEN svcHooks ELSE svcHooks \cup {<<"remove", c[1]>>}
    /\ UNCHANGED <<booted, asked, wanted, svcSecret, marker, svcUsers, granted,
                   retired, made, svcPlan, svcFaults>>

NothingWaits(S) ==
    /\ \A h \in svcHooks : h[2] \notin S
    /\ clientHooks \cap ClientsOf(S) = {}

\* SecretRotate.MONTHLY: long after the clients have moved, but the secrets of
\* different applications may be due together.
SvcRotationDue(a) ==
    /\ svcSecret[a] # 0 /\ made[a] < MaxUsers
    /\ NothingWaits(IF "together" \in svcPlan THEN {a} ELSE Apps)
    /\ svcHooks' = svcHooks \cup {<<"rotate", a>>}
    /\ UNCHANGED <<booted, asked, wanted, svcSecret, marker, svcUsers, granted, tracks,
                   retired, clientHooks, made, svcPlan, svcFaults>>

SvcInit ==
    /\ booted = FALSE
    /\ asked = {} /\ wanted = {}
    /\ svcSecret = [a \in Apps |-> 0]
    /\ marker = [a \in Apps |-> 0]
    /\ svcUsers = {} /\ granted = {}
    /\ tracks = [c \in Clients |-> 0]
    /\ retired = {}
    /\ svcHooks = {} /\ clientHooks = {}
    /\ made = [a \in Apps |-> 0]
    /\ svcPlan \in SvcPlans
    /\ svcFaults = 0

SvcHook ==
    \/ ConfigureAppLeader
    \/ \E a \in Apps : Request(a) \/ SvcRotate(a) \/ SvcRemove(a)
    \/ \E c \in Clients : ClientConfigures(c)

SvcNext ==
    \/ SvcHook
    \/ \E a \in Apps : \/ \E roles \in BOOLEAN : RegisterServices(a, roles)
                       \/ SvcRotationDue(a)

SvcSpec == SvcInit /\ [][SvcNext]_svcVars

-----------------------------------------------------------------------------
(* Properties.                                                             *)

\* The credentials a client reads belong to a user of keystone: rotation and the
\* removal of old users (_on_secret_remove) never take a user in use, unless
\* an application rotates together with one whose name its own name extends.
ClientsCanLogIn ==
    \/ {"together", "similar"} \subseteq svcPlan
    \/ \A c \in Clients : tracks[c] # 0 => <<c[1], tracks[c]>> \in svcUsers

\* When nothing waits, every application that asked before or after keystone was
\* ready is served, its user has the roles it asks for, also where the request
\* came in the middle of a rotation (register_service, _on_secret_rotate), and
\* keystone has no other service users: a hook that dies forgets the one it made.
AskedIsServed ==
    (booted /\ NothingWaits(Apps) /\ Outstanding = {}) =>
        /\ \A a \in asked : /\ svcSecret[a] # 0
                            /\ \A c \in ClientsOf({a}) : tracks[c] = svcSecret[a]
                            /\ a \in wanted => <<a, svcSecret[a]>> \in granted
        /\ \/ "kill" \in svcPlan
           \/ svcUsers = {<<a, svcSecret[a]>> : a \in asked}

\* Users of old revisions are deleted in the end.  A removal that dies half way
\* fails for ever after, as does a second one of users that are gone.
RetiredUsersGo ==
    svcPlan \cap {"kill", "similar"} = {} => <>[](retired \cap svcUsers = {})

\* Every rotation the leader runs makes new credentials.
RotationsTakeEffect ==
    [][\A a \in Apps : (<<"rotate", a>> \in svcHooks \ svcHooks')
                          => svcSecret'[a] # svcSecret[a]]_svcVars
=============================================================================
