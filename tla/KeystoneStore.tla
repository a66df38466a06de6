--------------------------- MODULE KeystoneStore ---------------------------
(***************************************************************************)
(* The operations of keystone's charm on keystone itself (KeystoneClient), *)
(* which its setup, its relations and its clients' requests are made of.   *)
(*                                                                         *)
(* Names that differ in case only are one name: every lookup folds it.     *)
(* Identifiers of objects are numbers; 0 is the missing object.            *)
(***************************************************************************)
EXTENDS Integers, Sequences, FiniteSets, SequencesExt

NoObject == 0

\* What an operation is called with: a name, the id of an object, or the id in
\* the result of an earlier operation ("{{ create_domain[0].id }}").
Name(n)     == [name |-> n, id |-> NoObject, of |-> ""]
Id(i)       == [name |-> "", id |-> i, of |-> ""]
ResultOf(o) == [name |-> "", id |-> NoObject, of |-> o]
Missing     == Name("")

Op(name) == [op |-> name, name |-> Missing, domain |-> Missing, project |-> Missing,
             userDomain |-> Missing, projectDomain |-> Missing, user |-> Missing,
             role |-> Missing, password |-> 0, enable |-> TRUE]

\* The project "default" is where keystone puts what names no domain.
EmptyStore == [domains  |-> {[id |-> 1, name |-> "default", enabled |-> TRUE]},
               projects |-> {}, users |-> {}, roles |-> {}, grants |-> {}, next |-> 2]

Done(s, value) == [ok |-> TRUE, store |-> s, value |-> value]
Raised(s)      == [ok |-> FALSE, store |-> s, value |-> NoObject]

Is(object, x) == object.id = x.id \/ object.name = x.name
Only(S) == IF S = {} THEN NoObject ELSE (CHOOSE e \in S : TRUE).id

\* get_domain_object, get_role_object
Domain(s, x) == Only({d \in s.domains : Is(d, x)})
Role(s, x)   == Only({r \in s.roles : Is(r, x)})

\* The projects and users that get_project_object and get_user_object find; they
\* raise when there is more than one.
Projects(s, x, d) == {p \in s.projects : Is(p, x) /\ d \in {NoObject, p.domain}}
Users(s, x, d, p) ==
    {u \in s.users : Is(u, x) /\ d \in {NoObject, u.domain} /\ p \in {NoObject, u.project}}
Many(S) == Cardinality(S) > 1

InDomain(d) == IF d = NoObject THEN 1 ELSE d

-----------------------------------------------------------------------------
(* Domains, projects and roles.                                            *)

CreateDomain(s, o) ==
    IF Domain(s, o.name) # NoObject THEN Done(s, Domain(s, o.name))
    ELSE Done([s EXCEPT !.domains = @ \cup {[id |-> s.next, name |-> o.name.name,
                                             enabled |-> o.enable]},
                        !.next = @ + 1], s.next)

UpdateDomain(s, o) ==
    LET d == Domain(s, o.domain)
    IN  IF d = NoObject THEN Raised(s)
        ELSE Done([s EXCEPT !.domains = {IF e.id = d THEN [e EXCEPT !.enabled = o.enable]
                                         ELSE e : e \in @}], d)

\* The name goes to keystone as an id; only a disabled domain can be deleted, and
\* everything in it goes.
DeleteDomain(s, o) ==
    IF \A d \in s.domains : d.id # o.name.id \/ d.enabled THEN Raised(s)
    ELSE LET inside(S) == {e \in S : e.domain = o.name.id}
         IN  Done([s EXCEPT !.domains = {d \in @ : d.id # o.name.id},
                            !.projects = @ \ inside(@), !.users = @ \ inside(@),
                            !.grants = {g \in @ : /\ g.on # o.name.id
                                                  /\ g.user \notin {u.id : u \in inside(s.users)}
                                                  /\ g.on \notin {p.id : p \in inside(s.projects)}}],
                  NoObject)

ShowDomain(s, o) == Done(s, Domain(s, o.name))

\* A plausible mistake: a project that exists is made again.
CreateProjectAgain(s, o) ==
    Done([s EXCEPT !.projects = @ \cup {[id |-> s.next, name |-> o.name.name,
                                          domain |-> InDomain(Domain(s, o.domain))]},
                   !.next = @ + 1], s.next)

CreateProject(s, o) ==
    LET d == Domain(s, o.domain)
        found == Projects(s, o.name, d)
    IN  IF Many(found) THEN Raised(s)
        ELSE IF found # {} THEN Done(s, Only(found))
        ELSE Done([s EXCEPT !.projects = @ \cup {[id |-> s.next, name |-> o.name.name,
                                                  domain |-> InDomain(d)]},
                            !.next = @ + 1], s.next)

DeleteProject(s, o) ==
    LET found == Projects(s, o.name, Domain(s, o.domain))
    IN  IF Cardinality(found) # 1 THEN Raised(s)
        ELSE Done([s EXCEPT !.projects = @ \ found,
                            !.grants = {g \in @ : g.on # Only(found)}], NoObject)

CreateRole(s, o) ==
    IF Role(s, o.name) # NoObject THEN Done(s, Role(s, o.name))
    ELSE Done([s EXCEPT !.roles = @ \cup {[id |-> s.next, name |-> o.name.name]},
                        !.next = @ + 1], s.next)

-----------------------------------------------------------------------------
(* Users and grants.                                                       *)

\* The default project of a new user: the domain of the project is asked where
\* the name is in several domains.
DefaultProject(s, o) ==
    LET found == Projects(s, o.project, Domain(s, o.domain))
    IN  IF Many(found) THEN Projects(s, o.project, Domain(s, o.projectDomain))
        ELSE found

\* A user that exists is returned as it is, its password with it.
CreateUserInStore(s, o) ==
    LET d == Domain(s, o.domain)
        p == DefaultProject(s, o)
        found == Users(s, o.name, d, Only(p))
    IN  IF Many(p) \/ Many(found) THEN Raised(s)
        ELSE IF found # {} THEN Done(s, Only(found))
        ELSE IF \E u \in s.users : u.name = o.name.name /\ u.domain = InDomain(d) THEN Raised(s)
        ELSE Done([s EXCEPT !.users = @ \cup {[id |-> s.next, name |-> o.name.name,
                                domain |-> InDomain(d), project |-> Only(p),
                                password |-> o.password]},
                            !.next = @ + 1], s.next)

\* update_user looks for the user by the new name, not by the old one.
UpdateUser(s, o) ==
    LET found == Users(s, o.name, Domain(s, o.domain), NoObject)
    IN  IF Cardinality(found) # 1 THEN Raised(s)
        ELSE Done([s EXCEPT !.users = {IF u \in found THEN [u EXCEPT !.password = o.password]
                                       ELSE u : u \in @}], Only(found))

\* keystone does not delete a user that is not there.
DeleteUser(s, o) ==
    LET found == Users(s, o.name, Domain(s, o.domain), NoObject)
    IN  IF Cardinality(found) # 1 THEN Raised(s)
        ELSE Done([s EXCEPT !.users = @ \ found,
                            !.grants = {g \in @ : g.user # Only(found)}], NoObject)

\* On a project or on a domain, never on both
GrantRole(s, o) ==
    LET user == Users(s, o.user, Domain(s, o.userDomain), NoObject)
        project == Projects(s, o.project, Domain(s, o.projectDomain))
        on == IF o.domain = Missing THEN Only(project) ELSE Domain(s, o.domain)
    IN  IF \/ (o.domain = Missing) = (o.project = Missing)
           \/ Cardinality(user) # 1 \/ Many(project)
           \/ NoObject \in {on, Role(s, o.role)}
        THEN Raised(s)
        ELSE Done([s EXCEPT !.grants = @ \cup {[role |-> Role(s, o.role),
                                                user |-> Only(user), on |-> on]}],
                  NoObject)

-----------------------------------------------------------------------------
(* handle_op_request: the operations of a request one after the other; one *)
(* that raises does not keep the next ones from running.                   *)

Call(s, o) ==
    CASE o.op = "create_domain"  -> CreateDomain(s, o)
      [] o.op = "update_domain"  -> UpdateDomain(s, o)
      [] o.op = "delete_domain"  -> DeleteDomain(s, o)
      [] o.op = "show_domain"    -> ShowDomain(s, o)
      [] o.op = "create_project" -> CreateProject(s, o)
      [] o.op = "delete_project" -> DeleteProject(s, o)
      [] o.op = "create_role"    -> CreateRole(s, o)
      [] o.op = "create_user"    -> CreateUserInStore(s, o)
      [] o.op = "update_user"    -> UpdateUser(s, o)
      [] o.op = "delete_user"    -> DeleteUser(s, o)
      [] o.op = "grant_role"     -> GrantRole(s, o)

\* A template takes the id of the first result of an operation, and is empty where
\* that has none.
Filled(context, x) ==
    IF x.of = "" THEN x
    ELSE LET of == SelectSeq(context, LAMBDA r : r.op = x.of)
         IN  IF of = <<>> THEN Missing ELSE Id(of[1].value)

FilledOp(context, o) ==
    [o EXCEPT !.name = Filled(context, @), !.domain = Filled(context, @),
              !.project = Filled(context, @), !.userDomain = Filled(context, @),
              !.projectDomain = Filled(context, @), !.user = Filled(context, @),
              !.role = Filled(context, @)]

\* ops of which those numbered in bad fail in keystone, without effect
Handle(s, ops, bad) ==
    LET step(run, i) ==
            LET o == FilledOp(run.results, ops[i])
                r == IF i \in bad THEN Raised(run.store) ELSE Call(run.store, o)
            IN  [store |-> r.store,
                 results |-> Append(run.results, [op |-> o.op, ok |-> r.ok, value |-> r.value])]
    IN  FoldLeft(step, [store |-> s, results |-> <<>>], [i \in 1 .. Len(ops) |-> i])
=============================================================================
