------------------------------ MODULE Execution ------------------------------
(***************************************************************************)
(* GraphQL operations (internal/graph): the checks before execution, the   *)
(* generated executor, which resolves the root fields of a mutation one    *)
(* after the other and those of a query at once, the resolvers with their  *)
(* guards, the links of avatars and what is answered.                      *)
(*                                                                         *)
(* A document is [kind, fields, written, expanded]: its root fields in     *)
(* order, and how many fields it selects with each fragment counted once   *)
(* and wherever it is used.  A field is [name, avatar, tooLong].  A caller *)
(* sends a document as text, or with the hash under which the server is to *)
(* keep it, or the hash alone (AutomaticPersistedQuery).                   *)
(***************************************************************************)
EXTENDS Avatar

CONSTANTS
    Requests,        \* operations at once
    Admins,          \* the profiles with the role ADMIN
    Anonymous,       \* a caller without valid credentials
    NullLink,        \* what a client sends for a null
    Documents,       \* the documents callers send
    MaxFields,       \* config.GraphQLMaxFields
    ComplexityLimit, \* config.GraphQLComplexityLimit
    APQCacheSize,    \* config.GraphQLAPQCacheSize
    MaxOperations    \* bound: operations of a behaviour

ASSUME ExecutionAssumption ==
    /\ Admins \subseteq Profiles /\ Admins # {} /\ Anonymous \notin Profiles
    /\ MaxFields \in Nat /\ ComplexityLimit \in Nat
    /\ APQCacheSize \in Nat \ {0} /\ MaxOperations \in Nat /\ Nobody \notin Requests

\* The root fields: those for admins, those that describe the schema, ...
AdminFields == {"echo", "debug", "testTranslation"}
Introspection == {"__schema", "__type"}

\* ... and all that have no resolver of this project, and so no guard.
OpenFields == Introspection \cup {"__typename"}
FieldNames == AdminFields \cup OpenFields \cup {"me", "updateProfile", "addTestJob"}

\* What a row may hold and a client may send as an avatar.  A selection set is never empty.
Storable == LinkValues \cup {NoLink}
Sendable == Storable \cup {BlankLink, NotAUrl, NullLink}
ASSUME DocumentsAssumption ==
    /\ Documents \subseteq
          [kind : {"query", "mutation"}, written : Nat, expanded : Nat,
           fields : Seq([name : FieldNames, avatar : Sendable, tooLong : BOOLEAN])]
    /\ \A doc \in Documents : doc.fields # <<>>
    /\ NullLink \notin LinkValues

VARIABLES
    cfg,      \* the configuration, read once
    avatar,   \* profiles.avatar_url of each profile
    writer,   \* (history) who gave it its value: a request, or Nobody
    signer,   \* whether s.signer has been built
    persisted,\* the documents kept under their hash
    exec,       \* the operations being executed
    answered, \* what each request was answered last: the fields with a value, and errors
    started   \* operations so far

execVars == <<cfg, avatar, writer, signer, persisted, exec, answered, started>>

\* A root field: how far it is, what it resolved to and (history) whether it
\* changed anything and whether a call to make its link failed.
Untouched == [step |-> "todo", error |-> "none", stored |-> NoLink, link |-> NoLink,
              effect |-> FALSE, failed |-> FALSE]
Idle == [stage |-> "idle", caller |-> Anonymous, avatar |-> NoLink, doc |-> <<>>, field |-> <<>>]
NoAnswer == [caller |-> Anonymous, doc |-> <<>>, shown |-> {}, errors |-> {}]

Codes == {"none", "UNAUTHENTICATED", "FORBIDDEN", "INTERNAL", "BAD_USER_INPUT",
          "TOO_MANY_REQUESTS"}
FieldStates ==
    [step : {"todo", "link", "region", "done"}, error : Codes, stored : Storable,
     link : Storable, effect : BOOLEAN, failed : BOOLEAN]
Callers == Profiles \cup {Anonymous}

ExecTypeOK ==
    /\ cfg \in Configs
    /\ avatar \in [Profiles -> Storable]
    /\ writer \in [Profiles -> Requests \cup {Nobody}]
    /\ signer \in BOOLEAN
    /\ persisted \subseteq Documents
    /\ exec \in [Requests -> [stage : {"idle", "run"}, caller : Callers, avatar : Storable,
                             doc : Documents \cup {<<>>}, field : Seq(FieldStates)]]
    /\ answered \in [Requests -> [caller : Callers, doc : Documents \cup {<<>>},
                                 shown : SUBSET FieldNames,
                                 errors : SUBSET (Codes \cup {"MASKED", "REJECTED"})]]
    /\ started \in 0..MaxOperations

ExecInit ==
    /\ cfg \in Configs
    /\ avatar = [p \in Profiles |-> NoLink]
    /\ writer = [p \in Profiles |-> Nobody]
    /\ signer = FALSE
    /\ persisted = {}
    /\ exec = [r \in Requests |-> Idle]
    /\ answered = [r \in Requests |-> NoAnswer]
    /\ started = 0
-----------------------------------------------------------------------------
\* Who a caller is: with the mock identity on, nobody is anonymous.
UserOf(caller) ==
    IF caller = Anonymous /\ MockEnabled(cfg) THEN CHOOSE p \in Admins : TRUE ELSE caller

\* queryShapeLimit, on the text that was sent: a hash alone has none.
FitsShape(doc, form) == form = "hash" \/ doc.written <= MaxFields

\* AutomaticPersistedQuery: what is kept once an operation came in; the oldest
\* document may make room.
Kept(doc, form) ==
    IF form # "both" THEN {persisted}
    ELSE IF doc \in persisted \/ Cardinality(persisted) < APQCacheSize
    THEN {persisted \cup {doc}}
    ELSE {(persisted \ {old}) \cup {doc} : old \in persisted}

\* No field has a cost of its own, so a document costs the fields it selects.
Affordable(doc) == doc.expanded <= ComplexityLimit

\* Mutant: a document is kept before its shape is looked at.
AdmissionKeepsFirst(doc, form) ==
    {[kept |-> k, ok |-> FitsShape(doc, form) /\ (form = "hash" => doc \in persisted)
                         /\ Affordable(doc)] : k \in Kept(doc, form)}

\* What is kept and whether the operation is executed: the shape limit, the
\* persisted queries and the complexity limit, in this order.
Admission(doc, form) ==
    {[kept |-> k, ok |-> FitsShape(doc, form) /\ (form = "hash" => doc \in persisted)
                         /\ Affordable(doc)] :
       k \in IF FitsShape(doc, form) THEN Kept(doc, form) ELSE {persisted}}

Submit(r, caller, doc, form) ==
    /\ exec[r].stage = "idle" /\ started < MaxOperations
    /\ started' = started + 1
    /\ \E a \in Admission(doc, form) :
          /\ persisted' = a.kept
          /\ exec' = IF ~a.ok THEN exec
                   ELSE [exec EXCEPT ![r] =
                           [stage |-> "run", caller |-> caller, doc |-> doc,
                            avatar |-> IF UserOf(caller) = Anonymous THEN NoLink
                                       ELSE avatar[UserOf(caller)],
                            field |-> [i \in DOMAIN doc.fields |-> Untouched]]]
          /\ answered' = [answered EXCEPT ![r] =
                            IF a.ok THEN NoAnswer
                            ELSE [NoAnswer EXCEPT !.errors = {"REJECTED"}]]
    /\ UNCHANGED <<cfg, avatar, writer, signer>>

\* Mutant: the fields of a mutation are resolved at once, like a query's.
MayResolveAtOnce(r, i) == exec[r].stage = "run" /\ exec[r].field[i].step = "todo"

\* _Mutation comes to a field when those before it are complete, ...
ItsTurn(r, i) == \A j \in 1..(i - 1) : exec[r].field[j].step = "done"

\* ... and _Query starts all of its fields at once.
MayResolve(r, i) ==
    /\ exec[r].stage = "run" /\ exec[r].field[i].step = "todo"
    /\ exec[r].doc.kind = "mutation" => ItsTurn(r, i)

User(r) == UserOf(exec[r].caller)
Field(r, i) == exec[r].doc.fields[i]
Becomes(r, i, state) == exec' = [exec EXCEPT ![r].field[i] = state]
Succeeds(r, i) == Becomes(r, i, [Untouched EXCEPT !.step = "done"])

\* ResolveField: an error, or a panic that is recovered, makes the field null.
Fails(r, i, code) == Becomes(r, i, [Untouched EXCEPT !.step = "done", !.error = code])

KeepsRest == UNCHANGED <<cfg, signer, persisted, answered, started>>
KeepsRows == UNCHANGED <<avatar, writer>>

\* __typename is answered on the spot.
ResolveTypename(r, i) ==
    /\ MayResolve(r, i) /\ Field(r, i).name = "__typename" /\ Succeeds(r, i)
    /\ KeepsRows /\ KeepsRest

\* Require and RequireRole, at the head of every resolver.
GuardRefuses(r, i) ==
    /\ MayResolve(r, i) /\ Field(r, i).name \notin OpenFields
    /\ \/ User(r) = Anonymous /\ Fails(r, i, "UNAUTHENTICATED")
       \/ /\ User(r) # Anonymous /\ User(r) \notin Admins
          /\ Field(r, i).name \in AdminFields
          /\ Fails(r, i, "FORBIDDEN")
    /\ KeepsRows /\ KeepsRest

Guarded(r, i, names) ==
    /\ MayResolve(r, i) /\ User(r) # Anonymous /\ Field(r, i).name \in names
    /\ Field(r, i).name \in AdminFields => User(r) \in Admins

\* Echo, Debug, TestTranslation; a failing count or a panic is our own error.
ResolveAdminField(r, i) ==
    /\ Guarded(r, i, AdminFields)
    /\ Succeeds(r, i) \/ Fails(r, i, "INTERNAL")
    /\ KeepsRows /\ KeepsRest

\* Mutant: introspection is on everywhere.
ResolveSchemaAnywhere(r, i) ==
    /\ MayResolve(r, i) /\ Field(r, i).name \in Introspection /\ Succeeds(r, i)
    /\ KeepsRows /\ KeepsRest

\* IntrospectSchema, IntrospectType: anybody may ask, but not in production.
ResolveSchema(r, i) ==
    /\ MayResolve(r, i) /\ Field(r, i).name \in Introspection
    /\ IF IsProduction(cfg) THEN Fails(r, i, "INTERNAL") ELSE Succeeds(r, i)
    /\ KeepsRows /\ KeepsRest

\* AddTestJob: length, the user's quota, the queue; an enqueue that failed may
\* have been carried out all the same.
ResolveAddTestJob(r, i) ==
    /\ Guarded(r, i, {"addTestJob"})
    /\ IF Field(r, i).tooLong THEN Fails(r, i, "BAD_USER_INPUT")
       ELSE \/ Fails(r, i, "TOO_MANY_REQUESTS")
            \/ \E effect \in BOOLEAN :
                  Becomes(r, i, [Untouched EXCEPT !.step = "done", !.error = "INTERNAL",
                                                  !.effect = effect])
            \/ Becomes(r, i, [Untouched EXCEPT !.step = "done", !.effect = TRUE])
    /\ KeepsRows /\ KeepsRest

\* Me converts the profile the caller was resolved to.
ResolveMe(r, i) ==
    /\ Guarded(r, i, {"me"})
    /\ Becomes(r, i, [Untouched EXCEPT !.step = "link", !.stored = exec[r].avatar])
    /\ KeepsRows /\ KeepsRest

\* The write of the row: what it returns is the row written, unless that
\* answer is lost.
Writes(r, i, new) ==
    LET p == User(r)
        value == Written(avatar[p], new)
        written == [Untouched EXCEPT !.stored = value, !.effect = TRUE]
    IN /\ avatar' = [avatar EXCEPT ![p] = value]
       /\ writer' = IF new = NoLink THEN writer ELSE [writer EXCEPT ![p] = r]
       /\ \/ Becomes(r, i, [written EXCEPT !.step = "link"])
          \/ Becomes(r, i, [written EXCEPT !.step = "done", !.error = "INTERNAL"])

\* ProfileUpdateInput: a null field is a field left out.
Decoded(link) == IF link = NullLink THEN NoLink ELSE link

\* UpdateProfile: validation, the owner of the avatar's file, the write; what
\* the field asks of the database may fail.
ResolveUpdateProfile(r, i) ==
    /\ Guarded(r, i, {"updateProfile"})
    /\ LET f == Field(r, i)
           sent == Decoded(f.avatar)
           new == StoredAvatar(cfg, User(r), sent)
       IN IF f.tooLong \/ ~IsValidAvatar(sent)
          THEN Fails(r, i, "BAD_USER_INPUT") /\ KeepsRows
          ELSE \/ \E link \in new : Writes(r, i, link)
               \/ new = {} /\ Fails(r, i, "BAD_USER_INPUT") /\ KeepsRows
               \/ Fails(r, i, "INTERNAL") /\ KeepsRows
    /\ KeepsRest

Links(r, i, link, failed) ==
    Becomes(r, i, [exec[r].field[i] EXCEPT !.step = "done", !.link = link, !.failed = failed])

\* avatarLink: a link that cannot be made, or is not the profile's own, is hidden.
MakeLink(r, i) ==
    /\ exec[r].field[i].step = "link"
    /\ LET stored == exec[r].field[i].stored
           mine == MayBeServed(cfg, User(r), stored)
       IN IF ServedAsStored(cfg, stored) THEN Links(r, i, stored, FALSE)
          ELSE \/ Links(r, i, NoLink, TRUE)
               \/ ~mine /\ Links(r, i, NoLink, FALSE)
               \/ /\ mine /\ (FilesArePublic(cfg) \/ signer)
                  /\ Links(r, i, LinkFor(cfg, KeyOf(cfg, stored)), FALSE)
               \/ /\ mine /\ ~FilesArePublic(cfg) /\ ~signer
                  /\ Becomes(r, i, [exec[r].field[i] EXCEPT !.step = "region"])
    /\ KeepsRows /\ KeepsRest

\* Mutant: who comes second finds a signer he did not build, and gives up.
LookUpRegionFirstOnly(r, i) ==
    /\ exec[r].field[i].step = "region"
    /\ LET key == KeyOf(cfg, exec[r].field[i].stored)
       IN \/ signer' = TRUE /\ Links(r, i, IF signer THEN NoLink ELSE LinkFor(cfg, key), FALSE)
          \/ Links(r, i, NoLink, TRUE) /\ UNCHANGED signer
    /\ KeepsRows /\ UNCHANGED <<cfg, persisted, answered, started>>

\* linkSignerFor: every reader that finds no signer asks the storage for the
\* region, outside the lock; the first client built is kept, a failure is not.
LookUpRegion(r, i) ==
    /\ exec[r].field[i].step = "region"
    /\ LET key == KeyOf(cfg, exec[r].field[i].stored)
       IN \/ signer' = TRUE /\ Links(r, i, LinkFor(cfg, key), FALSE)
          \/ Links(r, i, NoLink, TRUE) /\ UNCHANGED signer
    /\ KeepsRows /\ UNCHANGED <<cfg, persisted, answered, started>>

\* newErrorPresenter: in production our own errors lose their text.
Presented(code) == IF code = "INTERNAL" /\ IsProduction(cfg) THEN "MASKED" ELSE code

\* A root field that failed is null, and makes the data null unless it may be
\* null, which __type alone may.
Shown(r) ==
    LET fine(i) == exec[r].field[i].error = "none"
    IN IF \E i \in DOMAIN exec[r].field : ~fine(i) /\ Field(r, i).name # "__type" THEN {}
       ELSE {Field(r, i).name : i \in {j \in DOMAIN exec[r].field : fine(j)}}

Reply(r) ==
    /\ exec[r].stage = "run"
    /\ \A i \in DOMAIN exec[r].field : exec[r].field[i].step = "done"
    /\ LET errors == {Presented(exec[r].field[i].error) : i \in DOMAIN exec[r].field} \ {"none"}
       IN answered' = [answered EXCEPT ![r] =
                         [caller |-> exec[r].caller, doc |-> exec[r].doc,
                          shown |-> Shown(r), errors |-> errors]]
    /\ exec' = [exec EXCEPT ![r] = Idle]
    /\ UNCHANGED <<cfg, avatar, writer, signer, persisted, started>>

\* Somebody other than this API writes a row: an operator, an import, or the API
\* as it was before uploads had owners.
Import(p, link) ==
    /\ avatar[p] = NoLink
    /\ avatar' = [avatar EXCEPT ![p] = link]
    /\ writer' = [writer EXCEPT ![p] = Nobody]
    /\ UNCHANGED <<cfg, signer, persisted, exec, answered, started>>

MutationField(r, i) ==
    /\ exec[r].doc.kind = "mutation"
    /\ \/ ResolveTypename(r, i) \/ GuardRefuses(r, i) \/ ResolveAdminField(r, i)
       \/ ResolveAddTestJob(r, i) \/ ResolveUpdateProfile(r, i)

QueryField(r, i) ==
    /\ exec[r].doc.kind = "query"
    /\ \/ ResolveTypename(r, i) \/ GuardRefuses(r, i) \/ ResolveAdminField(r, i)
       \/ ResolveMe(r, i) \/ ResolveSchema(r, i)

Resolve(r, i) == MutationField(r, i) \/ QueryField(r, i) \/ MakeLink(r, i) \/ LookUpRegion(r, i)

ExecNext ==
    \/ \E r \in Requests, caller \in Profiles \cup {Anonymous}, doc \in Documents,
         form \in {"text", "both", "hash"} : Submit(r, caller, doc, form)
    \/ \E r \in Requests : \E i \in DOMAIN exec[r].field : Resolve(r, i)
    \/ \E r \in Requests : Reply(r)
    \/ \E p \in Profiles, f \in Files : Import(p, PermanentLink(cfg, <<f>>))

ExecSpec == ExecInit /\ [][ExecNext]_execVars
-----------------------------------------------------------------------------
\* The API keeps, and hands out a link to, no file of ours but the profile's
\* own, whoever wrote the row.  A file of nobody's is hidden as well, also one that
\* was stored before, which docs/adr/0003, 123-125, says "keeps working".
\* (storedAvatar, avatarLink)
OnlyOwnFiles ==
    /\ \A p \in Profiles :
          writer[p] \in Requests /\ IsOurs(cfg, avatar[p]) => OwnedBy(KeyOf(cfg, avatar[p]), p)
    /\ \A r \in Requests : \A i \in DOMAIN exec[r].field :
          LET f == exec[r].field[i]
          IN IsOurs(cfg, f.stored) /\ f.link # NoLink => OwnedBy(KeyOf(cfg, f.stored), User(r))

\* A reader is given a link to his own file that the storage honours, unless a
\* call that he made himself failed: not because others race him to build the
\* link signer, or failed to.  (avatarLink, linkSignerFor, LinkFor)
OwnLinkIsServed ==
    \A r \in Requests : \A i \in DOMAIN exec[r].field :
       LET f == exec[r].field[i]
       IN /\ f.step = "done" /\ f.error = "none" /\ ~f.failed
          /\ IsOurs(cfg, f.stored) /\ OwnedBy(KeyOf(cfg, f.stored), User(r))
          => Honours(cfg, KeyOf(cfg, f.stored), f.link)

\* A client that sends back the link it was given, signature and all, stores
\* what was stored: no link of ours that expires is ever kept.
\* (LinkFor, storedAvatar, validateFileLinks)
AvatarRoundTrip ==
    \A r \in Requests : \A i \in DOMAIN exec[r].field :
       LET f == exec[r].field[i]
       IN f.link # NoLink => StoredAvatar(cfg, User(r), f.link) = {f.stored}

\* Of the fields of a mutation that changed a profile the last one in the
\* document prevails, unless somebody else wrote since.  (_Mutation)
LastFieldPrevails ==
    \A r \in Requests :
       LET changed == {i \in DOMAIN exec[r].field :
                         exec[r].field[i].effect /\ Field(r, i).name = "updateProfile"}
       IN changed # {} /\ writer[User(r)] = r =>
             avatar[User(r)] = exec[r].field[Max(changed)].stored

\* Whatever environment a server came up in: a caller without credentials is
\* shown __typename and no more, but by a development server; admin data is for
\* admins; and no other server describes its schema or its errors.
\* (Load, Build, RequireRole, NewHandler, newErrorPresenter)
AnswersAreRestrained ==
    \A r \in Requests :
       LET a == answered[r]
           developing == cfg.nodeEnv \in {"development", "test"}
       IN /\ a.caller = Anonymous =>
                \/ a.shown \subseteq {"__typename"}
                \/ developing /\ (cfg.mock \/ a.shown \subseteq OpenFields)
          /\ a.shown \cap AdminFields # {} => UserOf(a.caller) \in Admins
          /\ ~developing => "INTERNAL" \notin a.errors /\ a.shown \cap Introspection = {}

\* No document over the cap on its fields is ever executed, by hash either.
\* (queryShapeLimit)
CapHoldsByHash == \A r \in Requests : exec[r].stage = "run" => exec[r].doc.written <= MaxFields
=============================================================================
