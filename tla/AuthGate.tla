------------------------------ MODULE AuthGate ------------------------------
(***************************************************************************)
(* Who a request is for and what it may do: group paths (auth/groups.py),  *)
(* roles (auth/context.py) and the dependencies FastAPI solves one after   *)
(* the other before the handler of a route runs (auth/dependencies.py).    *)
(*                                                                         *)
(* A group path is the sequence of its parts.  The verdict on the token    *)
(* may change between two dependencies: it expires, the keys of the realm  *)
(* rotate, Keycloak goes down.                                             *)
(***************************************************************************)
EXTENDS Integers, Sequences, FiniteSets, SequencesExt

CONSTANTS
    Strict,      \* strict
    MaxGroups,   \* bound on the groups of the user
    MaxDeps,     \* bound on the dependencies of the route
    MaxChanges   \* bound on the changes of the verdict

ASSUME AuthAssumption ==
    /\ Strict \in BOOLEAN
    /\ MaxGroups \in Nat /\ MaxDeps \in 1..3 /\ MaxChanges \in Nat

Admin == <<"Administrators">>
Evaluator == <<"Evaluators">>
Applicant == <<"Applicants">>
Secretary == <<"Secretary">>
DepartmentSecretary == <<"Secretary", "Department">>
ProgramSecretary == <<"Secretary", "Program">>
ParentAgent == <<"Agents", "Parent">>
ChildAgent == <<"Agents", "Child">>
GroupEnum == {Admin, Evaluator, Applicant, Secretary, DepartmentSecretary, ProgramSecretary,
              <<"Agents">>, ParentAgent, ChildAgent}

SUPER_GROUPS == {Admin}

\* Paths a realm may also have: below a known group, and one that only ends alike.
Paths == GroupEnum \cup {<<"Secretary", "Program", "MSc">>, <<"Applicants", "Administrators">>}

ParentOrSame(group, required) == IsPrefix(group, required)
\* group == required or group.startswith(required + "/")
Within(group, required) == IsPrefix(required, group)

ValidateUserGroups(user, required) ==
    \/ user \cap SUPER_GROUPS # {}
    \/ required = {}
    \/ \E r \in required, g \in user : Within(g, r)

HasGroup(user, path) == \E g \in user : Within(g, path)

\* is_secretary, is_agent and is_evaluator, in the order their contexts load
RoleNames == <<"secretary", "agent", "evaluator">>
RolesOf(user) ==
    {r \in {"secretary", "agent", "evaluator"} :
        CASE r = "secretary" -> HasGroup(user, ProgramSecretary)
                                \/ HasGroup(user, DepartmentSecretary)
          [] r = "agent" -> HasGroup(user, ParentAgent) \/ HasGroup(user, ChildAgent)
          [] OTHER -> HasGroup(user, Evaluator)}

-----------------------------------------------------------------------------
VARIABLES
    onInvalid,   \* on_invalid: "anonymous" or "401"
    groups, claims, department,   \* what the token says
    hasToken,    \* the request has a bearer token
    scopes,      \* scopes of Security(get_auth, scopes=[...])
    verdict,     \* what decoding the token comes to now
    changes,     \* changes of the verdict so far
    kept,        \* request.state.token_payload is set
    decodes,     \* successful decodes of this request
    todo,        \* dependencies still to solve
    loading,     \* the context of the first of them is being loaded
    loaded,      \* role contexts loaded into it
    authorized,  \* get_auth returned
    context,     \* what a context dependency gave
    outcome      \* "open", "handler", or the status of the answer

tokenVars == <<onInvalid, groups, claims, department, hasToken, scopes>>
vars == <<tokenVars, verdict, changes, kept, decodes, todo, loading, loaded, authorized,
          context, outcome>>

Dependencies == {"auth", "context", "optional"}
Routes == {s \in UNION {[1..n -> Dependencies] : n \in 1..MaxDeps} : IsInjective(s)}
RequiredClaims == {"sub", "email", "groups"}

TypeOK ==
    /\ verdict \in {"claims", "401", "503"} /\ changes \in 0..MaxChanges
    /\ kept \in BOOLEAN /\ decodes \in 0..3
    /\ loading \in BOOLEAN /\ authorized \in BOOLEAN
    /\ loaded \subseteq RolesOf(groups)
    /\ context \in [Dependencies -> {"none", "anonymous", "user"}]
    /\ outcome \in {"open", "handler", "401", "403", "503", "500"}

Init ==
    /\ onInvalid \in {"anonymous", "401"}
    /\ groups \in {S \in SUBSET Paths : Cardinality(S) <= MaxGroups}
    /\ claims \in {RequiredClaims, RequiredClaims \ {"email"}, RequiredClaims \ {"groups"}}
    /\ department \in {"none", "number", "garbage"}
    /\ hasToken \in BOOLEAN
    /\ scopes \in {{}, {ProgramSecretary}, {Evaluator}, {Secretary, Admin}}
    /\ verdict \in {"claims", "401", "503"} /\ changes = 0
    /\ kept = FALSE /\ decodes = 0
    /\ todo \in Routes
    /\ loading = FALSE /\ loaded = {} /\ authorized = FALSE
    /\ context = [d \in Dependencies |-> "none"]
    /\ outcome = "open"

Changes ==
    /\ outcome = "open" /\ changes < MaxChanges
    /\ changes' = changes + 1
    /\ verdict' \in {"claims", "401", "503"} \ {verdict}
    /\ UNCHANGED <<tokenVars, kept, decodes, todo, loading, loaded, authorized, context, outcome>>

KeepsNothing(v) == FALSE
Keeps(v) == v = "claims"

\* _decode_once, with what it comes to
DecodeOnce(v) ==
    IF kept THEN v = "claims" /\ UNCHANGED <<kept, decodes>>
    ELSE /\ v = verdict
         /\ kept' = Keeps(v)
         /\ decodes' = IF v = "claims" THEN decodes + 1 ELSE decodes

\* payload.get("groups", [])
Groups == IF "groups" \in claims THEN groups ELSE {}

\* build_auth_context does not raise.
ContextBuilds == Strict => RequiredClaims \subseteq claims /\ department # "garbage"

Solving(d) == outcome = "open" /\ todo # <<>> /\ Head(todo) = d /\ ~loading

Refuse(status) == outcome' = status /\ UNCHANGED <<todo, loading, authorized, context>>

\* make_get_auth: 401 without a token (oauth2_scheme), then the decode, then 403.
GetAuth ==
    /\ Solving("auth")
    /\ IF ~hasToken THEN Refuse("401") /\ UNCHANGED <<kept, decodes>>
       ELSE \E v \in {"claims", "401", "503"} :
          /\ DecodeOnce(v)
          /\ CASE v # "claims" -> Refuse(v)
               [] v = "claims" /\ ~ValidateUserGroups(Groups, scopes) -> Refuse("403")
               [] OTHER -> /\ authorized' = TRUE /\ todo' = Tail(todo)
                           /\ UNCHANGED <<loading, context, outcome>>
    /\ UNCHANGED <<tokenVars, verdict, changes, loaded>>

\* The payload became a context; load_role_contexts is next.
BeginLoading == loading' = TRUE /\ UNCHANGED <<todo, authorized, context, outcome>>

\* make_get_auth_context
GetAuthContext ==
    /\ Solving("context")
    /\ IF ~hasToken THEN Refuse("401") /\ UNCHANGED <<kept, decodes>>
       ELSE \E v \in {"claims", "401", "503"} :
          /\ DecodeOnce(v)
          /\ CASE v # "claims" -> Refuse(v)
               [] v = "claims" /\ ~ContextBuilds -> Refuse("401")
               [] OTHER -> BeginLoading
    /\ UNCHANGED <<tokenVars, verdict, changes, loaded>>

Anonymous == /\ context' = [context EXCEPT !["optional"] = "anonymous"]
             /\ todo' = Tail(todo)
             /\ UNCHANGED <<loading, authorized, outcome>>

\* except HTTPException: ServiceUnavailableError is none and goes through.
AnyFailure(v) == TRUE
IsHTTPException(v) == v # "503"

InvalidToken == IF onInvalid = "401" THEN Refuse("401") ELSE Anonymous

\* make_get_optional_auth_context
GetOptionalAuthContext ==
    /\ Solving("optional")
    /\ IF ~hasToken THEN Anonymous /\ UNCHANGED <<kept, decodes>>
       ELSE \E v \in {"claims", "401", "503"} :
          /\ DecodeOnce(v)
          /\ CASE v # "claims" /\ ~IsHTTPException(v) -> Refuse(v)
               [] v # "claims" /\ IsHTTPException(v) -> InvalidToken
               [] v = "claims" /\ ~ContextBuilds -> InvalidToken
               [] OTHER -> BeginLoading
    /\ UNCHANGED <<tokenVars, verdict, changes, loaded>>

NotLoaded == SelectSeq(RoleNames, LAMBDA r : r \in RolesOf(Groups) \ loaded)

\* load_role_contexts: one await per role of the user ...
LoadRole ==
    /\ outcome = "open" /\ loading /\ NotLoaded # <<>>
    /\ loaded' = loaded \cup {Head(NotLoaded)}
    /\ UNCHANGED <<tokenVars, verdict, changes, kept, decodes, todo, loading, authorized, context,
                   outcome>>

\* ... which may fail in the database ...
LoadFails ==
    /\ outcome = "open" /\ loading /\ NotLoaded # <<>>
    /\ Refuse("500")
    /\ UNCHANGED <<tokenVars, verdict, changes, kept, decodes, loaded>>

AllRolesLoaded == NotLoaded = <<>>

\* ... and the context goes to the handler.
GiveContext ==
    /\ outcome = "open" /\ loading /\ AllRolesLoaded
    /\ context' = [context EXCEPT ![Head(todo)] = "user"]
    /\ todo' = Tail(todo) /\ loading' = FALSE /\ loaded' = {}
    /\ UNCHANGED <<tokenVars, verdict, changes, kept, decodes, authorized, outcome>>

Handle ==
    /\ outcome = "open" /\ todo = <<>>
    /\ outcome' = "handler"
    /\ UNCHANGED <<tokenVars, verdict, changes, kept, decodes, todo, loading, loaded, authorized,
                   context>>

\* What a request does between its arrival at the route and its handler, or the
\* answer of a dependency; RequestPath has the steps around it.
GateStep == Changes \/ GetAuth \/ GetAuthContext \/ GetOptionalAuthContext
            \/ LoadRole \/ LoadFails \/ GiveContext \/ Handle

-----------------------------------------------------------------------------
(* Properties *)

\* One identity per request: once a dependency accepted the token, the optional
\* context does not take its user for anonymous, unless the claims are refused.
OneIdentity ==
    [][context["optional"] = "none" /\ context'["optional"] = "anonymous" /\ ContextBuilds
         => ~authorized /\ context["context"] # "user"]_vars

\* A Keycloak that is down never makes the user of a token anonymous.
DownIsNotAnonymous ==
    [][context["optional"] = "none" /\ context'["optional"] = "anonymous" /\ hasToken
         => verdict = "401" \/ ~ContextBuilds]_vars

\* The handler of a protected route runs only for a user with a group at or
\* below a required one, or an administrator; a group that only ends with the
\* same text, or lies above the required one, does not count (the docstring of
\* validate_user_groups has it the other way round).
HandlerIsAuthorized ==
    outcome = "handler" /\ authorized /\ scopes # {} =>
        \E g \in Groups : g = Admin \/ \E r \in scopes :
            Len(r) <= Len(g) /\ SubSeq(g, 1, Len(r)) = r
=============================================================================
