---------------------------- MODULE IdentityOps ----------------------------
(***************************************************************************)
(* How a charm gets and rotates a service user of its own in keystone over *)
(* the identity-ops relation.  The leader of the client (here: the handler *)
(* UserIdentityResourceRequiresHandler) keeps two Juju secrets, the        *)
(* credentials it asks for and the ones it writes into configuration       *)
(* files, and sends one request at a time through its application databag; *)
(* the leader of keystone answers through its own.  Both databags hold one *)
(* value: a new request or response replaces the one before.               *)
(*                                                                         *)
(* Credentials are numbered: pair n is the user name and the password of   *)
(* the n-th rotation (add_suffix makes every user name new).               *)
(***************************************************************************)
EXTENDS Integers

CONSTANTS
    Units,       \* the units of the client application
    MaxVersion,  \* bound on the rotations
    Overlap,     \* TRUE: these and secret hooks may come while a request is open
    Faults,      \* the kinds of fault the environment may cause
    MaxFaults    \* bound on the faults of one behaviour

FaultKinds ==
    { "kill",    \* keystone's hook dies after it has run the operations
      "fail",    \* keystone answers an operation with an error
      "again",   \* a unit of either side changes its address: relation-changed
      "elect" }  \* leadership of the client moves

ASSUME UnitsAssumption == Units # {}
ASSUME BoundAssumption == MaxVersion \in Nat \ {0} /\ Overlap \in BOOLEAN
ASSUME FaultAssumption == Faults \subseteq FaultKinds /\ MaxFaults \in Nat

Versions == 1 .. MaxVersion
NoUser   == 0

Create(v)   == <<"create", v>>
Delete(S)   == <<"delete", S>>
NoRequest   == <<"none", NoUser>>
Requests    == {Create(v) : v \in Versions} \cup {Delete(S) : S \in SUBSET Versions}
NoResponse  == [to |-> NoRequest, ok |-> FALSE, deleted |-> {}]

VARIABLES
    leader,     \* the leader of the client
    ready,      \* ready[u]: provider_ready in the StoredState of u
    processed,  \* processed[u]: the requests u has stored as processed
    cred,       \* the pair in the secret of the label user-identity-resource-
    config,     \* the pair in the secret of the label configure-credential-
    oldUsers,   \* old_users in the peer application databag
    request,    \* the request in the client's databag
    response,   \* the response in keystone's databag
    account,    \* account[v]: the password of user v in keystone
    busy,       \* the request keystone's hook works on
    joined,     \* the units that have run relation-joined
    changed,    \* the units with a relation-changed hook waiting
    obsolete,   \* a secret-remove of the configuration secret waits
    faults      \* faults so far

clientVars == <<ready, processed, cred, config, oldUsers, joined, obsolete>>
vars == <<leader, clientVars, request, response, account, busy, changed, faults>>

TypeOK ==
    /\ leader \in Units
    /\ ready \in [Units -> BOOLEAN]
    /\ processed \in [Units -> SUBSET Requests]
    /\ cred \in Versions \cup {NoUser}
    /\ config \in Versions \cup {NoUser}
    /\ oldUsers \subseteq Versions
    /\ request \in Requests \cup {NoRequest}
    /\ response \in [to : Requests \cup {NoRequest}, ok : BOOLEAN,
                     deleted : SUBSET Versions]
    /\ account \in [Versions -> Versions \cup {NoUser}]
    /\ busy \in Requests \cup {NoRequest}
    /\ joined \subseteq Units
    /\ changed \subseteq Units
    /\ obsolete \in BOOLEAN
    /\ faults \in 0 .. MaxFaults

Init ==
    /\ leader \in Units
    /\ ready = [u \in Units |-> FALSE]
    /\ processed = [u \in Units |-> {}]
    /\ cred = NoUser
    /\ config = NoUser
    /\ oldUsers = {}
    /\ request = NoRequest
    /\ response = NoResponse
    /\ account = [v \in Versions |-> NoUser]
    /\ busy = NoRequest
    /\ joined = {}
    /\ changed = {}
    /\ obsolete = FALSE
    /\ faults = 0

Fault(kind) ==
    /\ kind \in Faults
    /\ faults < MaxFaults
    /\ faults' = faults + 1

-----------------------------------------------------------------------------
(* The client.                                                             *)

\* request_ops: a request stored as processed is not sent again.
RequestOps(u, r) ==
    request' = IF ready'[u] /\ r \notin processed[u] THEN r ELSE request

\* relation-joined: the leader creates its credentials and asks for the user.
ProviderReady(u) ==
    /\ u \notin joined
    /\ joined' = joined \cup {u}
    /\ ready' = [ready EXCEPT ![u] = TRUE]
    /\ \/ /\ u = leader
          /\ cred' = IF cred = NoUser THEN 1 ELSE cred
          /\ RequestOps(u, Create(cred'))
       \/ /\ u # leader
          /\ UNCHANGED <<cred, request>>
    /\ UNCHANGED <<leader, processed, config, oldUsers, response, account, busy,
                   changed, obsolete, faults>>

\* A plausible mistake: an answer is taken for a success.
ProcessCreateUserUnchecked ==
    /\ config' = cred
    /\ oldUsers' = oldUsers \cup ({config} \ {NoUser, cred})
    /\ UNCHANGED obsolete

\* Every operation of a create request succeeded: the credentials of the
\* moment become the configured ones, and the user they replace is listed.
ProcessCreateUser ==
    \/ /\ response.ok
       /\ config' = cred
       /\ IF config \notin {NoUser, cred}
            THEN oldUsers' = oldUsers \cup {config} /\ obsolete' = TRUE
            ELSE UNCHANGED <<oldUsers, obsolete>>
    \/ /\ ~ response.ok
       /\ UNCHANGED <<config, oldUsers, obsolete>>

ProcessDeleteUser ==
    /\ oldUsers' = oldUsers \ response.deleted
    /\ UNCHANGED <<config, obsolete>>

\* relation-changed: every unit stores the response as processed, the leader
\* acts on it.  The response is not compared with the request.
ResponseAvailable(u) ==
    /\ u \in changed
    /\ changed' = changed \ {u}
    /\ processed' = [processed EXCEPT ![u] = @ \cup ({response.to} \ {NoRequest})]
    /\ \/ u = leader /\ response.to[1] = "create" /\ ProcessCreateUser
       \/ u = leader /\ response.to[1] = "delete" /\ ProcessDeleteUser
       \/ /\ u # leader \/ response = NoResponse
          /\ UNCHANGED <<config, oldUsers, obsolete>>
    /\ UNCHANGED <<leader, ready, cred, request, response, account, busy,
                   joined, faults>>

\* The last request has been answered and the answer has been handled.
Quiet ==
    /\ request = response.to
    /\ busy = NoRequest
    /\ changed = {}

\* secret-rotate, which Juju sends to the leader.
SecretRotate ==
    /\ cred \in 1 .. MaxVersion - 1
    /\ Overlap \/ Quiet
    /\ cred' = cred + 1
    /\ UNCHANGED ready
    /\ RequestOps(leader, Create(cred'))
    /\ UNCHANGED <<leader, processed, config, oldUsers, response, account, busy,
                   joined, changed, obsolete, faults>>

\* A plausible mistake: the list is emptied when the request is sent, which
\* another may replace before keystone has taken it.
SecretRemoveEmpties ==
    /\ obsolete
    /\ Overlap \/ Quiet
    /\ obsolete' = FALSE
    /\ oldUsers' = {}
    /\ UNCHANGED ready
    /\ IF oldUsers = {} THEN UNCHANGED request
                        ELSE RequestOps(leader, Delete(oldUsers))
    /\ UNCHANGED <<leader, processed, cred, config, response, account,
                   busy, joined, changed, faults>>

\* secret-remove of the configuration secret: nobody uses the old revision.
SecretRemove ==
    /\ obsolete
    /\ Overlap \/ Quiet
    /\ obsolete' = FALSE
    /\ UNCHANGED ready
    /\ IF oldUsers = {} THEN UNCHANGED request
                        ELSE RequestOps(leader, Delete(oldUsers))
    /\ UNCHANGED <<leader, processed, cred, config, oldUsers, response, account,
                   busy, joined, changed, faults>>

\* The new leader has run relation-joined, like every unit of the client.
Elect(u) ==
    /\ u # leader
    /\ u \in joined /\ leader \in joined
    /\ Fault("elect")
    /\ leader' = u
    /\ UNCHANGED <<clientVars, request, response, account, busy, changed>>

-----------------------------------------------------------------------------
(* Keystone.                                                               *)

\* relation-changed, or check_outstanding_identity_ops_requests.
TakeRequest ==
    /\ busy = NoRequest
    /\ request # response.to
    /\ busy' = request
    /\ UNCHANGED <<leader, clientVars, request, response, account, changed,
                   faults>>

\* relation-changed comes for other data, too, and does not ask whether the
\* request has been answered: its operations run again.
RetakeRequest ==
    /\ busy = NoRequest
    /\ request = response.to /\ request # NoRequest
    /\ Fault("again")
    /\ busy' = request
    /\ UNCHANGED <<leader, clientVars, request, response, account, changed>>

\* The response is written when the hook ends; Juju tells every client unit.
Respond(ok, deleted) ==
    /\ response' = [to |-> busy, ok |-> ok, deleted |-> deleted]
    /\ changed' = Units
    /\ busy' = NoRequest

\* create_user takes the password the secret has now; a user that exists is
\* returned as it is (may_exist).
Created(v) ==
    account' = [account EXCEPT ![v] = IF account[v] = NoUser THEN cred ELSE @]

\* A plausible mistake: a user that exists already is an uncaught error.
CreateUserOnce(v) ==
    /\ busy = Create(v)
    /\ account[v] = NoUser
    /\ Created(v)
    /\ Respond(TRUE, {})
    /\ UNCHANGED <<leader, clientVars, request, faults>>

CreateUser(v) ==
    /\ busy = Create(v)
    /\ \/ /\ Created(v)
          /\ Respond(TRUE, {})
          /\ UNCHANGED faults
       \/ /\ Fault("fail")
          /\ Created(v) \/ UNCHANGED account
          /\ Respond(FALSE, {})
    /\ UNCHANGED <<leader, clientVars, request>>

Removed(D) ==
    account' = [v \in Versions |-> IF v \in D THEN NoUser ELSE account[v]]

\* delete_user raises for a user that does not exist, and may fail for others.
DeleteUsers(S) ==
    /\ busy = Delete(S)
    /\ LET known == {v \in S : account[v] # NoUser}
       IN  \/ /\ Removed(known)
              /\ Respond(known = S, known)
              /\ UNCHANGED faults
           \/ /\ Fault("fail")
              /\ \E D \in SUBSET known : Removed(D) /\ Respond(FALSE, D)
    /\ UNCHANGED <<leader, clientVars, request>>

\* The operations are done and the response is lost with the hook.
KeystoneKilled ==
    /\ busy # NoRequest
    /\ Fault("kill")
    /\ \/ \E v \in Versions : busy = Create(v) /\ Created(v)
       \/ \E S \in SUBSET Versions : busy = Delete(S) /\ Removed(S)
    /\ busy' = NoRequest
    /\ UNCHANGED <<leader, clientVars, request, response, changed>>

\* relation-changed is also sent for data other than the response.
KeystoneUnitChanged ==
    /\ joined = Units
    /\ Overlap \/ request = response.to
    /\ Fault("again")
    /\ changed' = Units
    /\ UNCHANGED <<leader, clientVars, request, response, account, busy>>

Keystone ==
    \/ TakeRequest
    \/ \E v \in Versions : CreateUser(v)
    \/ \E S \in SUBSET Versions : DeleteUsers(S)

Next ==
    \/ \E u \in Units : ProviderReady(u) \/ ResponseAvailable(u) \/ Elect(u)
    \/ SecretRotate
    \/ SecretRemove
    \/ Keystone
    \/ RetakeRequest
    \/ KeystoneKilled
    \/ KeystoneUnitChanged

Spec == Init /\ [][Next]_vars

\* Juju runs the hooks of the relation on both sides.
FairSpec ==
    /\ Spec
    /\ \A u \in Units : WF_vars(ProviderReady(u)) /\ WF_vars(ResponseAvailable(u))
    /\ WF_vars(Keystone)

-----------------------------------------------------------------------------
(* Properties.                                                             *)

\* The credentials that configuration files are rendered from open the door:
\* keystone has that user, with that password, through rotations, deletions
\* of old users, failures and elections.
ConfigUsable == config # NoUser => account[config] = config

\* A user that has been configured stays in configuration or on the list of
\* users to delete until keystone has deleted it.
UsersAccountedFor ==
    [][\A v \in Versions :
         v \in oldUsers \cup {config}
            => v \in oldUsers' \cup {config'} \/ account'[v] = NoUser]_vars

\* Every request is answered in the end, also when keystone's hooks die.
RequestsAnswered == <>[](request = response.to)
=============================================================================
