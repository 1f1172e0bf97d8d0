---------------------------- MODULE ExecutionProofs ----------------------------
(***************************************************************************)
(* Proofs about Execution, for any profiles, files, environments, documents*)
(* and limits.  The facts about links come first: a key survives being     *)
(* made into a link and read back.  Then what one step of a field may do   *)
(* to it (Outcome), and the invariant of a field it keeps.                 *)
(***************************************************************************)
EXTENDS Execution, SequenceTheorems, TLAPS

(***************************************************************************)
(* Links and keys                                                          *)
(***************************************************************************)

\* A server runs with a configuration that Load accepted.
LEMMA ConfigIsSound ==
    ASSUME NEW c \in Configs
    PROVE  /\ c.base.path \in Seq(Segments)
           /\ ~FilesArePublic(c) => c.base.path = <<Bucket>>
           /\ c.nodeEnv \in {"development", "test", "production"}
           /\ MockEnabled(c) => c.mock /\ c.nodeEnv \in {"development", "test"}
<1>1. PICK env \in Environments : Accepts(env) /\ c = Trimmed(env)
  BY DEF Configs
<1>2. env.base.path \in Seq(Segments)
  BY EnvironmentsAssumption
<1>3. env \in [complete : BOOLEAN, nodeEnv : STRING, mock : BOOLEAN, password : Passwords,
           origins : SUBSET Origins, visibility : STRING, ttl : Int,
           base : [scheme : STRING, path : Seq(Segments), slashes : Nat, query : BOOLEAN]]
  BY EnvironmentsAssumption
<1>4. c.base.path = env.base.path /\ c.nodeEnv = env.nodeEnv /\ c.mock = env.mock
  BY <1>1, <1>3 DEF Trimmed
<1>5. LinksAreSound(c) /\ env.nodeEnv \in {"development", "test", "production"}
  BY <1>1 DEF Accepts
<1>6. ~FilesArePublic(c) => c.base.path = <<Bucket>>
  BY <1>5 DEF LinksAreSound
<1>7. MockEnabled(c) => c.mock /\ c.nodeEnv \in {"development", "test"}
  BY <1>4, <1>5 DEF MockEnabled, IsProduction
<1> QED BY <1>2, <1>4, <1>5, <1>6, <1>7

\* A path that a key was appended to begins with that path, and what follows
\* it is the key.
LEMMA KeyComesBack ==
    ASSUME NEW path \in Seq(Segments), NEW key \in Seq(Segments), key # <<>>
    PROVE  /\ IsStrictPrefix(path, path \o key)
           /\ SubSeq(path \o key, Len(path) + 1, Len(path \o key)) = key
<1> DEFINE m == Len(path)  n == Len(key)  whole == path \o key
<1>1. /\ m \in Nat /\ n \in Nat /\ n >= 1
      /\ whole \in Seq(Segments) /\ Len(whole) = m + n
  OBVIOUS
<1>2. SubSeq(whole, m + 1, m + n) = key
  <2>1. m + 1 \in (m + 1)..(m + n) /\ m + n \in (m + 1)..(m + n)
    BY <1>1
  <2>2. SubSeq(whole, m + 1, m + n) = SubSeq(key, (m + 1) - m, (m + n) - m)
    BY <2>1, SubSeqOfConcat2
  <2>3. (m + 1) - m = 1 /\ (m + n) - m = n
    BY <1>1
  <2> QED BY <2>2, <2>3, SubSeqFull
<1>3. SubSeq(path, 1, m) = path
  BY SubSeqFull
<1>4. SubSeq(whole, 1, m) = path
  <2>1. CASE m = 0
    <3>1. SubSeq(whole, 1, m) = <<>> /\ path = <<>>
      BY <2>1, SubSeqEmpty
    <3> QED BY <3>1
  <2>2. CASE m # 0
    <3>1. 1 \in 1..m /\ m \in 1..m
      BY <1>1, <2>2
    <3> QED BY <3>1, <1>3, SubSeqOfConcat1
  <2> QED BY <2>1, <2>2
<1>5. path # whole
  BY <1>1
<1>6. m <= Len(whole)
  BY <1>1
<1> QED BY <1>1, <1>2, <1>3, <1>4, <1>5, <1>6 DEF IsStrictPrefix, IsPrefix

\* What a link of ours names is a key: a path without a segment "..".
LEMMA KeyIsPath ==
    ASSUME NEW c \in Configs, NEW link \in Storable, IsOurs(c, link)
    PROVE  /\ link \in LinkValues /\ KeyOf(c, link) \in Seq(Segments)
           /\ KeyOf(c, link) # <<>> /\ ~Contains(KeyOf(c, link), Dots)
<1> DEFINE base == c.base.path  path == link.path  m == Len(base)  n == Len(path)
<1>1. link \in LinkValues
  BY DEF IsOurs, IsLink, Storable
<1>2. base \in Seq(Segments) /\ path \in Seq(Segments) /\ m \in Nat /\ n \in Nat
  BY <1>1, ConfigIsSound DEF LinkValues
<1>3. m <= n /\ SubSeq(base, 1, m) = SubSeq(path, 1, m) /\ base # path
  BY DEF IsOurs, IsStrictPrefix, IsPrefix
<1>4. m # n
  <2>1. SubSeq(base, 1, m) = base /\ SubSeq(path, 1, n) = path
    BY <1>2, SubSeqFull
  <2> QED BY <1>3, <2>1
<1>5. m + 1 \in Int /\ n \in Int /\ m + 1 <= n /\ n - (m + 1) + 1 # 0
  BY <1>2, <1>3, <1>4
<1>6. \A i \in (m + 1)..n : path[i] \in Segments
  BY <1>2
<1>7. /\ SubSeq(path, m + 1, n) \in Seq(Segments)
      /\ Len(SubSeq(path, m + 1, n)) = IF m + 1 <= n THEN n - (m + 1) + 1 ELSE 0
  BY <1>5, <1>6, SubSeqProperties
<1>8. SubSeq(path, m + 1, n) # <<>>
  <2>1. Len(SubSeq(path, m + 1, n)) # 0
    BY <1>5, <1>7
  <2>2. \A s : s = <<>> => Len(s) = 0
    OBVIOUS
  <2> QED BY <2>1, <2>2
<1>9. ~Contains(KeyOf(c, link), Dots)
  BY DEF IsOurs
<1> QED BY <1>1, <1>7, <1>8, <1>9 DEF KeyOf

\* The permanent link of a key is one of ours and names that key.
LEMMA PermanentLinkNamesKey ==
    ASSUME NEW c \in Configs, NEW key \in Seq(Segments), key # <<>>, ~Contains(key, Dots)
    PROVE  /\ PermanentLink(c, key) \in LinkValues
           /\ IsOurs(c, PermanentLink(c, key)) /\ KeyOf(c, PermanentLink(c, key)) = key
<1>1. c.base.path \in Seq(Segments)
  BY ConfigIsSound
<1>2. PermanentLink(c, key) \in LinkValues
  BY <1>1 DEF PermanentLink, Link, LinkValues
<1>3. PermanentLink(c, key).path = c.base.path \o key /\ PermanentLink(c, key).host = "ours"
  BY DEF PermanentLink, Link
<1>4. /\ IsStrictPrefix(c.base.path, c.base.path \o key)
      /\ SubSeq(c.base.path \o key, Len(c.base.path) + 1, Len(c.base.path \o key)) = key
  BY <1>1, KeyComesBack
<1>5. KeyOf(c, PermanentLink(c, key)) = key
  BY <1>3, <1>4 DEF KeyOf
<1> QED BY <1>2, <1>3, <1>4, <1>5, LinksAssumption DEF IsOurs, IsLink

\* So does the link a reader is given, signed or not: a link that expires is
\* made only where the base is the bucket.
LEMMA ServedLinkNamesKey ==
    ASSUME NEW c \in Configs, NEW key \in Seq(Segments), key # <<>>, ~Contains(key, Dots)
    PROVE  /\ LinkFor(c, key) \in LinkValues
           /\ IsOurs(c, LinkFor(c, key)) /\ KeyOf(c, LinkFor(c, key)) = key
<1>1. CASE FilesArePublic(c)
  BY <1>1, PermanentLinkNamesKey DEF LinkFor
<1>2. CASE ~FilesArePublic(c)
  <2>1. LinkFor(c, key) = SignedLink(key) /\ c.base.path = <<Bucket>>
    BY <1>2, ConfigIsSound DEF LinkFor
  <2>2. <<Bucket>> \in Seq(Segments)
    BY EnvironmentsAssumption
  <2>3. SignedLink(key) \in LinkValues
    BY <2>2 DEF SignedLink, Link, LinkValues
  <2>4. SignedLink(key).path = <<Bucket>> \o key /\ SignedLink(key).host = "ours"
    BY DEF SignedLink, Link
  <2>5. IsStrictPrefix(<<Bucket>>, <<Bucket>> \o key) /\ KeyOf(c, SignedLink(key)) = key
    BY <2>1, <2>2, <2>4, KeyComesBack DEF KeyOf
  <2> QED BY <2>1, <2>3, <2>4, <2>5, LinksAssumption DEF IsOurs, IsLink
<1> QED BY <1>1, <1>2

\* And it is one that the storage gives the file for.
LEMMA ServedLinkIsHonoured ==
    ASSUME NEW c \in Configs, NEW key \in Seq(Segments), key # <<>>, ~Contains(key, Dots)
    PROVE  Honours(c, key, LinkFor(c, key))
<1>1. IsLink(LinkFor(c, key))
  BY ServedLinkNamesKey DEF IsOurs
<1>2. LinkFor(c, key) = IF FilesArePublic(c) THEN PermanentLink(c, key) ELSE SignedLink(key)
  BY DEF LinkFor
<1>3. /\ PermanentLink(c, key).host = "ours" /\ PermanentLink(c, key).path = c.base.path \o key
      /\ SignedLink(key).host = "ours" /\ SignedLink(key).path = <<Bucket>> \o key
      /\ SignedLink(key).signed
  BY DEF PermanentLink, SignedLink, Link
<1> QED BY <1>1, <1>2, <1>3 DEF Honours

\* A stored value that is an address of ours is the permanent one.
IsPermanent(c, stored) == IsOurs(c, stored) => stored = PermanentLink(c, KeyOf(c, stored))

\* storedAvatar stores permanent forms only, and of the profile's own files.
LEMMA StoredIsPermanent ==
    ASSUME NEW c \in Configs, NEW p \in Profiles,
           NEW sent \in Storable \cup {BlankLink}, NEW new \in StoredAvatar(c, p, sent)
    PROVE  /\ new \in Storable \cup {BlankLink}
           /\ new \in Storable => IsPermanent(c, new)
           /\ IsOurs(c, new) => OwnedBy(KeyOf(c, new), p)
<1>1. CASE ~IsOurs(c, sent)
  <2>1. new = sent
    BY <1>1 DEF StoredAvatar
  <2> QED BY <1>1, <2>1 DEF IsPermanent
<1>2. CASE IsOurs(c, sent)
  <2>1. sent \in Storable
    BY <1>2 DEF IsOurs, IsLink
  <2>2. new = PermanentLink(c, KeyOf(c, sent)) /\ OwnedBy(KeyOf(c, sent), p)
    BY <1>2 DEF StoredAvatar
  <2>3. new \in LinkValues /\ KeyOf(c, new) = KeyOf(c, sent)
    BY <1>2, <2>1, <2>2, KeyIsPath, PermanentLinkNamesKey
  <2> QED BY <2>2, <2>3 DEF IsPermanent, Storable
<1> QED BY <1>1, <1>2

\* A client that sends the link it was given to its own file stores what was
\* stored: the link may be signed, what is stored is not.
LEMMA RoundTrip ==
    ASSUME NEW c \in Configs, NEW p, NEW stored \in Storable,
           IsPermanent(c, stored), MayBeServed(c, p, stored)
    PROVE  StoredAvatar(c, p, LinkFor(c, KeyOf(c, stored))) = {stored}
<1>1. IsOurs(c, stored) /\ OwnedBy(KeyOf(c, stored), p)
  BY DEF MayBeServed
<1>2. LET link == LinkFor(c, KeyOf(c, stored))
      IN  IsOurs(c, link) /\ KeyOf(c, link) = KeyOf(c, stored)
  BY <1>1, KeyIsPath, ServedLinkNamesKey
<1> QED BY <1>1, <1>2 DEF StoredAvatar, IsPermanent

(***************************************************************************)
(* The inductive invariant                                                 *)
(***************************************************************************)

\* A user may be given what a root field of some name answers.
Allowed(c, name, user) ==
    /\ name \in Introspection => ~IsProduction(c)
    /\ name \notin OpenFields => user # Anonymous
    /\ name \in AdminFields => user \in Admins

\* A root field: it stands for a permanent value, was let through before it got
\* anywhere, and its link is the stored value or a link to the user's own file.
FieldInv(c, f, name, user) ==
    /\ f.step = "todo" => ~f.effect
    /\ f.step # "done" => f.link = NoLink
    /\ f.step \in {"link", "region"} \/ (f.step = "done" /\ f.error = "none") =>
          Allowed(c, name, user)
    /\ f.effect /\ name = "updateProfile" => user # Anonymous
    /\ IsPermanent(c, f.stored)
    /\ f.step = "region" => MayBeServed(c, user, f.stored)
    /\ f.link # NoLink =>
          \/ ServedAsStored(c, f.stored) /\ f.link = f.stored
          \/ MayBeServed(c, user, f.stored) /\ f.link = LinkFor(c, KeyOf(c, f.stored))
    /\ /\ f.step = "done" /\ f.error = "none" /\ f.link = NoLink
       /\ MayBeServed(c, user, f.stored)
       => f.failed

FieldsInv == \A r \in Requests : \A i \in DOMAIN exec[r].field :
    FieldInv(cfg, exec[r].field[i], Field(r, i).name, User(r))

\* What is executed was let in, and no row or copy of one has a link that expires.
RunInv == \A r \in Requests :
    /\ exec[r].stage = "idle" => exec[r].field = <<>>
    /\ exec[r].stage = "run" => exec[r].doc \in Documents /\ exec[r].doc.written <= MaxFields
                               /\ DOMAIN exec[r].field = DOMAIN exec[r].doc.fields
    /\ IsPermanent(cfg, exec[r].avatar)

KeptInv == \A doc \in persisted : doc.written <= MaxFields

RowInv == \A p \in Profiles :
    /\ IsPermanent(cfg, avatar[p])
    /\ writer[p] \in Requests /\ IsOurs(cfg, avatar[p]) => OwnedBy(KeyOf(cfg, avatar[p]), p)

\* The fields of a mutation are begun one after the other, and only they write.
OrderInv == \A r \in Requests : \A i \in DOMAIN exec[r].field :
    /\ exec[r].doc.kind = "mutation" /\ exec[r].field[i].step # "todo" => ItsTurn(r, i)
    /\ exec[r].field[i].effect /\ Field(r, i).name = "updateProfile" =>
          exec[r].doc.kind = "mutation"

Changed(r) == {i \in DOMAIN exec[r].field :
                 exec[r].field[i].effect /\ Field(r, i).name = "updateProfile"}

\* Whoever wrote a row last has its value in the last field that wrote.
LastInv == \A r \in Requests :
    Changed(r) # {} /\ writer[User(r)] = r =>
       \E m \in Changed(r) :
          /\ \A i \in Changed(r) : m >= i
          /\ avatar[User(r)] = exec[r].field[m].stored

\* AnswersAreRestrained, of one answer to one user.
Restrained(c, a, user) ==
    LET developing == c.nodeEnv \in {"development", "test"}
    IN /\ a.caller = Anonymous =>
             \/ a.shown \subseteq {"__typename"}
             \/ developing /\ (c.mock \/ a.shown \subseteq OpenFields)
       /\ a.shown \cap AdminFields # {} => user \in Admins
       /\ ~developing => "INTERNAL" \notin a.errors /\ a.shown \cap Introspection = {}

ExecInv == ExecTypeOK /\ FieldsInv /\ RunInv /\ KeptInv /\ RowInv /\ OrderInv /\ LastInv
           /\ AnswersAreRestrained

(***************************************************************************)
(* What a step does                                                        *)
(***************************************************************************)

\* A step makes one field of a request what it becomes, and nothing else.
LEMMA BecomesEffect ==
    ASSUME ExecTypeOK, NEW r \in Requests, NEW i \in DOMAIN exec[r].field,
           NEW s \in FieldStates, Becomes(r, i, s)
    PROVE  /\ exec' \in [Requests -> [stage : {"idle", "run"}, caller : Callers, avatar : Storable,
                                     doc : Documents \cup {<<>>}, field : Seq(FieldStates)]]
           /\ \A q \in Requests :
                 /\ exec'[q].stage = exec[q].stage /\ exec'[q].caller = exec[q].caller
                 /\ exec'[q].doc = exec[q].doc /\ exec'[q].avatar = exec[q].avatar
                 /\ DOMAIN exec'[q].field = DOMAIN exec[q].field
                 /\ \A j \in DOMAIN exec[q].field :
                       exec'[q].field[j] = IF q = r /\ j = i THEN s ELSE exec[q].field[j]
<1> DEFINE Execs == [stage : {"idle", "run"}, caller : Callers, avatar : Storable,
                     doc : Documents \cup {<<>>}, field : Seq(FieldStates)]
           e == exec[r]
           field == [e.field EXCEPT ![i] = s]
           new == [e EXCEPT !.field = field]
<1>1. exec \in [Requests -> Execs]
  BY DEF ExecTypeOK
<1>2. exec' = [exec EXCEPT ![r] = new]
  BY DEF Becomes
<1>3. e \in Execs /\ e.field \in Seq(FieldStates)
  BY <1>1
<1>4. /\ field \in Seq(FieldStates) /\ DOMAIN field = DOMAIN e.field
      /\ \A j \in DOMAIN e.field : field[j] = IF j = i THEN s ELSE e.field[j]
  BY <1>3
<1> HIDE DEF field
<1>5. /\ new \in Execs /\ new.field = field /\ new.stage = e.stage /\ new.caller = e.caller
      /\ new.doc = e.doc /\ new.avatar = e.avatar
  BY <1>3, <1>4
<1> HIDE DEF new
<1>6. exec' \in [Requests -> Execs]
  BY <1>1, <1>2, <1>5
<1>7. exec'[r] = new /\ \A q \in Requests : q # r => exec'[q] = exec[q]
  BY <1>1, <1>2
<1> QED BY <1>4, <1>5, <1>6, <1>7

\* A user is a profile, or nobody is logged in.
LEMMA UserIsCaller ==
    ASSUME ExecTypeOK, NEW caller \in Callers
    PROVE  /\ UserOf(caller) \in Callers
           /\ UserOf(caller) # Anonymous => UserOf(caller) \in Profiles
           /\ caller = Anonymous /\ UserOf(caller) # Anonymous => MockEnabled(cfg)
<1>1. (CHOOSE p \in Admins : TRUE) \in Profiles
  BY ExecutionAssumption
<1> QED BY <1>1 DEF UserOf, Callers

\* A resolver that ends without a profile: refused, failed or answered.  Only
\* addTestJob may have changed something.
Ended(r, i, s) ==
    /\ MayResolve(r, i)
    /\ s.step = "done" /\ s.stored = NoLink /\ s.link = NoLink
    /\ s.effect => Field(r, i).name # "updateProfile"
    /\ s.error = "none" => Allowed(cfg, Field(r, i).name, User(r))
    /\ KeepsRows

\* One that has the caller's profile to convert.
Fetched(r, i, s) ==
    /\ MayResolve(r, i) /\ Allowed(cfg, Field(r, i).name, User(r))
    /\ s.step = "link" /\ s.stored = exec[r].avatar /\ s.link = NoLink /\ ~s.effect
    /\ KeepsRows

\* One that wrote the row, for all that its answer may be lost.
Wrote(r, i, s) ==
    /\ MayResolve(r, i) /\ Allowed(cfg, Field(r, i).name, User(r))
    /\ exec[r].doc.kind = "mutation" /\ Field(r, i).name = "updateProfile" /\ User(r) \in Profiles
    /\ s.step = "link" \/ (s.step = "done" /\ s.error = "INTERNAL")
    /\ s.link = NoLink /\ s.effect
    /\ avatar' = [avatar EXCEPT ![User(r)] = s.stored]
    /\ \/ s.stored = avatar[User(r)] /\ UNCHANGED writer
       \/ /\ writer' = [writer EXCEPT ![User(r)] = r] /\ IsPermanent(cfg, s.stored)
          /\ IsOurs(cfg, s.stored) => OwnedBy(KeyOf(cfg, s.stored), User(r))

\* The profile's link is made, hidden, or waits for the region.
Converted(r, i, s) ==
    LET f == exec[r].field[i]
        mine == MayBeServed(cfg, User(r), f.stored)
    IN /\ f.step \in {"link", "region"}
       /\ \/ f.step = "link" /\ mine /\ s = [f EXCEPT !.step = "region"]
          \/ \E link \in Storable, failed \in BOOLEAN :
                /\ s = [f EXCEPT !.step = "done", !.link = link, !.failed = failed]
                /\ \/ ServedAsStored(cfg, f.stored) /\ link = f.stored
                   \/ link = NoLink /\ (mine => failed)
                   \/ mine /\ link = LinkFor(cfg, KeyOf(cfg, f.stored))
       /\ KeepsRows

Outcome(r, i, s) == Ended(r, i, s) \/ Fetched(r, i, s) \/ Wrote(r, i, s) \/ Converted(r, i, s)

\* Every path through a resolver has one of these outcomes.
LEMMA ResolveOutcomes ==
    ASSUME ExecTypeOK, FieldsInv, RunInv, NEW r \in Requests, NEW i \in DOMAIN exec[r].field,
           Resolve(r, i)
    PROVE  /\ UNCHANGED <<cfg, persisted, answered, started>> /\ signer' \in BOOLEAN
           /\ \E s \in FieldStates : Becomes(r, i, s) /\ Outcome(r, i, s)
<1> DEFINE name == Field(r, i).name  user == User(r)  f == exec[r].field[i]
           Goal == /\ UNCHANGED <<cfg, persisted, answered, started>> /\ signer' \in BOOLEAN
                   /\ \E s \in FieldStates : Becomes(r, i, s) /\ Outcome(r, i, s)
<1>1. /\ exec[r].field \in Seq(FieldStates) /\ f \in FieldStates /\ exec[r].avatar \in Storable
      /\ exec[r].caller \in Callers /\ signer \in BOOLEAN /\ cfg \in Configs
  <2>1. /\ exec[r].field \in Seq(FieldStates) /\ exec[r].avatar \in Storable
        /\ exec[r].caller \in Callers /\ signer \in BOOLEAN /\ cfg \in Configs
    BY DEF ExecTypeOK
  <2> QED BY <2>1
<1>2. user \in Callers /\ (user # Anonymous => user \in Profiles)
  BY <1>1, UserIsCaller DEF User
<1>3. KeepsRest => UNCHANGED <<cfg, persisted, answered, started>> /\ signer' \in BOOLEAN
  BY <1>1 DEF KeepsRest
<1>4. ASSUME NEW s \in FieldStates, MayResolve(r, i), Becomes(r, i, s),
             s.step = "done", s.stored = NoLink, s.link = NoLink,
             s.effect => name # "updateProfile",
             s.error = "none" => Allowed(cfg, name, user), KeepsRows, KeepsRest
      PROVE  Goal
  <2>1. Ended(r, i, s)
    BY <1>4 DEF Ended
  <2> QED BY <1>3, <1>4, <2>1 DEF Outcome
<1>6. ASSUME NEW code \in Codes
      PROVE  LET s == [Untouched EXCEPT !.step = "done", !.error = code]
             IN  /\ s \in FieldStates /\ s.step = "done" /\ s.stored = NoLink /\ s.link = NoLink
                 /\ s.error = code /\ ~s.effect
  BY DEF Untouched, FieldStates, Codes, Storable
<1>7. ASSUME NEW effect \in BOOLEAN
      PROVE  LET s == [Untouched EXCEPT !.step = "done", !.effect = effect]
             IN  /\ s \in FieldStates /\ s.step = "done" /\ s.stored = NoLink /\ s.link = NoLink
                 /\ s.error = "none" /\ s.effect = effect
  BY DEF Untouched, FieldStates, Codes, Storable
<1>0. LET s == [Untouched EXCEPT !.step = "done"]
      IN  /\ s \in FieldStates /\ s.step = "done" /\ s.stored = NoLink /\ s.link = NoLink
          /\ s.error = "none" /\ ~s.effect
  BY DEF Untouched, FieldStates, Codes, Storable
<1>8. ASSUME NEW code \in Codes \ {"none"}, MayResolve(r, i), Fails(r, i, code), KeepsRows, KeepsRest
      PROVE  Goal
  BY <1>4, <1>6, <1>8 DEF Fails
<1>9. ASSUME MayResolve(r, i), Succeeds(r, i), Allowed(cfg, name, user), KeepsRows, KeepsRest
      PROVE  Goal
  BY <1>4, <1>0, <1>9 DEF Succeeds
<1>10. /\ "INTERNAL" \in Codes \ {"none"} /\ "BAD_USER_INPUT" \in Codes \ {"none"}
       /\ "UNAUTHENTICATED" \in Codes \ {"none"} /\ "FORBIDDEN" \in Codes \ {"none"}
       /\ "TOO_MANY_REQUESTS" \in Codes \ {"none"} /\ "none" \in Codes
  BY DEF Codes
<1> HIDE DEF Goal
<1>11. ASSUME GuardRefuses(r, i) PROVE Goal
  BY <1>8, <1>10, <1>11 DEF GuardRefuses
<1>23. ASSUME ResolveTypename(r, i) PROVE Goal
  <2>1. MayResolve(r, i) /\ name = "__typename" /\ Succeeds(r, i) /\ KeepsRows /\ KeepsRest
    BY <1>23 DEF ResolveTypename
  <2>2. Allowed(cfg, name, user)
    BY <2>1 DEF Allowed, Introspection, OpenFields, AdminFields
  <2> QED BY <1>9, <2>1, <2>2
<1>12. ASSUME NEW names, Guarded(r, i, names), names \subseteq AdminFields \cup {"me", "addTestJob", "updateProfile"}
       PROVE  MayResolve(r, i) /\ name \in names /\ user \in Profiles /\ Allowed(cfg, name, user)
  BY <1>2, <1>12 DEF Guarded, Allowed, AdminFields, Introspection
<1>13. ASSUME ResolveAdminField(r, i) PROVE Goal
  <2>1. Guarded(r, i, AdminFields) /\ KeepsRows /\ KeepsRest
        /\ (Succeeds(r, i) \/ Fails(r, i, "INTERNAL"))
    BY <1>13 DEF ResolveAdminField
  <2> QED BY <1>8, <1>9, <1>10, <1>12, <2>1
<1>14. ASSUME ResolveSchema(r, i) PROVE Goal
  <2>1. /\ MayResolve(r, i) /\ name \in Introspection /\ KeepsRows /\ KeepsRest
        /\ IF IsProduction(cfg) THEN Fails(r, i, "INTERNAL") ELSE Succeeds(r, i)
    BY <1>14 DEF ResolveSchema
  <2>2. ~IsProduction(cfg) => Allowed(cfg, name, user)
    BY <2>1 DEF Allowed, AdminFields, Introspection, OpenFields
  <2> QED BY <1>8, <1>9, <1>10, <2>1, <2>2
<1>15. ASSUME ResolveAddTestJob(r, i) PROVE Goal
  <2>1. Guarded(r, i, {"addTestJob"}) /\ KeepsRows /\ KeepsRest
    BY <1>15 DEF ResolveAddTestJob
  <2>2. MayResolve(r, i) /\ name = "addTestJob" /\ Allowed(cfg, name, user)
    BY <1>12, <2>1
  <2>3. CASE Fails(r, i, "BAD_USER_INPUT") \/ Fails(r, i, "TOO_MANY_REQUESTS")
    BY <1>8, <1>10, <2>1, <2>2, <2>3
  <2>4. ASSUME NEW effect \in BOOLEAN,
               Becomes(r, i, [Untouched EXCEPT !.step = "done", !.error = "INTERNAL",
                                               !.effect = effect])
        PROVE  Goal
    <3> DEFINE s == [Untouched EXCEPT !.step = "done", !.error = "INTERNAL", !.effect = effect]
    <3>1. /\ s \in FieldStates /\ s.step = "done" /\ s.stored = NoLink /\ s.link = NoLink
          /\ s.error = "INTERNAL"
      BY DEF Untouched, FieldStates, Codes, Storable
    <3>2. Becomes(r, i, s)
      BY <2>4
    <3> HIDE DEF s
    <3> QED BY <1>4, <2>1, <2>2, <3>1, <3>2
  <2>5. CASE Becomes(r, i, [Untouched EXCEPT !.step = "done", !.effect = TRUE])
    BY <1>4, <1>7, <1>10, <2>1, <2>2, <2>5
  <2> QED BY <1>15, <2>3, <2>4, <2>5 DEF ResolveAddTestJob
<1>16. ASSUME ResolveMe(r, i) PROVE Goal
  <2> DEFINE s == [Untouched EXCEPT !.step = "link", !.stored = exec[r].avatar]
  <2>1. Guarded(r, i, {"me"}) /\ Becomes(r, i, s) /\ KeepsRows /\ KeepsRest
    BY <1>16 DEF ResolveMe
  <2>2. s \in FieldStates
    BY <1>1 DEF Untouched, FieldStates, Codes, Storable
  <2>3. s.step = "link" /\ s.stored = exec[r].avatar /\ s.link = NoLink /\ ~s.effect
    BY DEF Untouched
  <2> HIDE DEF s
  <2>4. Fetched(r, i, s)
    BY <1>12, <2>1, <2>3 DEF Fetched
  <2> QED BY <1>3, <2>1, <2>2, <2>4 DEF Goal, Outcome
<1>17. ASSUME ResolveUpdateProfile(r, i), exec[r].doc.kind = "mutation" PROVE Goal
  <2> DEFINE sent == Decoded(Field(r, i).avatar)
  <2>1. Guarded(r, i, {"updateProfile"}) /\ KeepsRest
    BY <1>17 DEF ResolveUpdateProfile
  <2>2. /\ MayResolve(r, i) /\ user \in Profiles /\ Allowed(cfg, name, user)
        /\ name = "updateProfile"
    BY <1>12, <2>1
  <2>3. CASE (Fails(r, i, "BAD_USER_INPUT") \/ Fails(r, i, "INTERNAL")) /\ KeepsRows
    BY <1>8, <1>10, <2>1, <2>2, <2>3
  <2>4. ASSUME IsValidAvatar(sent), NEW new \in StoredAvatar(cfg, user, sent), Writes(r, i, new)
        PROVE  Goal
    <3>1. sent \in Storable \cup {BlankLink}
      <4>1. exec[r].stage = "run"
        BY <2>2 DEF MayResolve
      <4>2. exec[r].doc \in Documents /\ i \in DOMAIN exec[r].doc.fields
        BY <4>1 DEF RunInv
      <4>3. exec[r].doc.fields \in Seq([name : FieldNames, avatar : Sendable, tooLong : BOOLEAN])
        BY <4>2, DocumentsAssumption
      <4>4. Field(r, i) \in [name : FieldNames, avatar : Sendable, tooLong : BOOLEAN]
        <5>1. \A S : \A q \in Seq(S) : \A k \in DOMAIN q : q[k] \in S
          OBVIOUS
        <5> QED BY <4>2, <4>3, <5>1 DEF Field
      <4>5. Field(r, i).avatar \in Sendable
        BY <4>4
      <4> QED BY <2>4, <4>5 DEF Decoded, IsValidAvatar, Sendable, Storable
    <3>2. /\ new \in Storable \cup {BlankLink}
          /\ new \in Storable => IsPermanent(cfg, new)
          /\ IsOurs(cfg, new) => OwnedBy(KeyOf(cfg, new), user)
      BY <1>1, <2>2, <2>4, <3>1, StoredIsPermanent
    <3> DEFINE value == Written(avatar[user], new)
               s == [Untouched EXCEPT !.stored = value, !.effect = TRUE, !.step = "link"]
               t == [Untouched EXCEPT !.stored = value, !.effect = TRUE, !.step = "done",
                                      !.error = "INTERNAL"]
    <3>3. value \in Storable /\ avatar[user] \in Storable
      BY <2>2, <3>2 DEF Written, Storable, ExecTypeOK
    <3>4. /\ avatar' = [avatar EXCEPT ![user] = value]
          /\ writer' = IF new = NoLink THEN writer ELSE [writer EXCEPT ![user] = r]
          /\ Becomes(r, i, s) \/ Becomes(r, i, t)
      BY <2>4 DEF Writes, Untouched
    <3>5. new # NoLink => /\ IsPermanent(cfg, value)
                          /\ IsOurs(cfg, value) => OwnedBy(KeyOf(cfg, value), user)
      <4>1. CASE new = BlankLink
        BY <4>1 DEF Written, IsPermanent, IsOurs, IsLink
      <4>2. CASE new # BlankLink
        BY <3>2, <4>2 DEF Written
      <4> QED BY <4>1, <4>2
    <3>6. new = NoLink => value = avatar[user]
      BY DEF Written
    <3> HIDE DEF value
    <3>7. s \in FieldStates /\ t \in FieldStates
      BY <3>3 DEF Untouched, FieldStates, Codes, Storable
    <3>8. /\ s.stored = value /\ s.step = "link" /\ s.link = NoLink /\ s.effect
          /\ t.stored = value /\ t.step = "done" /\ t.error = "INTERNAL" /\ t.link = NoLink
          /\ t.effect
      BY DEF Untouched
    <3> HIDE DEF s, t
    <3>9. \/ value = avatar[user] /\ UNCHANGED writer
          \/ /\ writer' = [writer EXCEPT ![user] = r] /\ IsPermanent(cfg, value)
             /\ IsOurs(cfg, value) => OwnedBy(KeyOf(cfg, value), user)
      <4>1. CASE new = NoLink
        BY <3>4, <3>6, <4>1
      <4>2. CASE new # NoLink
        BY <3>4, <3>5, <4>2
      <4> QED BY <4>1, <4>2
    <3>10. Wrote(r, i, s)
      BY <1>17, <2>2, <3>4, <3>8, <3>9 DEF Wrote
    <3>11. Wrote(r, i, t)
      BY <1>17, <2>2, <3>4, <3>8, <3>9 DEF Wrote
    <3> QED BY <1>3, <2>1, <3>4, <3>7, <3>10, <3>11 DEF Goal, Outcome
  <2> QED BY <1>17, <2>3, <2>4 DEF ResolveUpdateProfile
<1>18. ASSUME f.step \in {"link", "region"}, NEW link \in Storable, NEW failed \in BOOLEAN,
              Links(r, i, link, failed), KeepsRows,
              UNCHANGED <<cfg, persisted, answered, started>>, signer' \in BOOLEAN,
              \/ ServedAsStored(cfg, f.stored) /\ link = f.stored
              \/ link = NoLink /\ (MayBeServed(cfg, user, f.stored) => failed)
              \/ MayBeServed(cfg, user, f.stored) /\ link = LinkFor(cfg, KeyOf(cfg, f.stored))
       PROVE  Goal
  <2> DEFINE s == [f EXCEPT !.step = "done", !.link = link, !.failed = failed]
  <2>1. Becomes(r, i, s)
    BY <1>18 DEF Links
  <2>2. s \in FieldStates
    BY <1>1, <1>18 DEF FieldStates
  <2>3. Converted(r, i, s)
    BY <1>18 DEF Converted
  <2> QED BY <1>18, <2>1, <2>2, <2>3 DEF Goal, Outcome
<1>19. f.stored \in Storable /\ NoLink \in Storable
  BY <1>1 DEF FieldStates, Storable
<1>20. MayBeServed(cfg, user, f.stored) => LinkFor(cfg, KeyOf(cfg, f.stored)) \in Storable
  BY <1>1, <1>19, KeyIsPath, ServedLinkNamesKey DEF MayBeServed, Storable
<1>21. ASSUME MakeLink(r, i) PROVE Goal
  <2> DEFINE mine == MayBeServed(cfg, user, f.stored)
  <2>1. f.step = "link" /\ KeepsRows /\ KeepsRest
    BY <1>21 DEF MakeLink
  <2>2. CASE ServedAsStored(cfg, f.stored) /\ Links(r, i, f.stored, FALSE)
    BY <1>3, <1>18, <1>19, <2>1, <2>2
  <2>3. CASE Links(r, i, NoLink, TRUE)
    BY <1>3, <1>18, <1>19, <2>1, <2>3
  <2>4. CASE ~mine /\ Links(r, i, NoLink, FALSE)
    BY <1>3, <1>18, <1>19, <2>1, <2>4
  <2>5. CASE mine /\ Links(r, i, LinkFor(cfg, KeyOf(cfg, f.stored)), FALSE)
    BY <1>3, <1>18, <1>20, <2>1, <2>5
  <2>6. CASE mine /\ Becomes(r, i, [f EXCEPT !.step = "region"])
    <3>1. [f EXCEPT !.step = "region"] \in FieldStates
      BY <1>1 DEF FieldStates
    <3>2. Converted(r, i, [f EXCEPT !.step = "region"])
      BY <2>1, <2>6 DEF Converted
    <3> QED BY <1>3, <2>1, <2>6, <3>1, <3>2 DEF Goal, Outcome
  <2> QED BY <1>21, <2>2, <2>3, <2>4, <2>5, <2>6 DEF MakeLink
<1>22. ASSUME LookUpRegion(r, i) PROVE Goal
  <2>1. /\ f.step = "region" /\ KeepsRows /\ UNCHANGED <<cfg, persisted, answered, started>>
        /\ \/ signer' = TRUE /\ Links(r, i, LinkFor(cfg, KeyOf(cfg, f.stored)), FALSE)
           \/ Links(r, i, NoLink, TRUE) /\ UNCHANGED signer
    BY <1>22 DEF LookUpRegion
  <2>2. MayBeServed(cfg, user, f.stored)
    BY <2>1 DEF FieldsInv, FieldInv
  <2>3. signer' \in BOOLEAN
    BY <1>1, <2>1
  <2> QED BY <1>18, <1>19, <1>20, <2>1, <2>2, <2>3
<1> QED BY <1>11, <1>13, <1>14, <1>15, <1>16, <1>17, <1>21, <1>22,
           <1>23 DEF Goal, Resolve, MutationField, QueryField

(***************************************************************************)
(* A step of a resolver keeps the invariant                                *)
(***************************************************************************)

\* The parts of the state that a resolver moves, and what they become.
Resolved(r, i, s) ==
    /\ s \in FieldStates /\ Outcome(r, i, s)
    /\ UNCHANGED <<cfg, persisted, answered, started>> /\ signer' \in BOOLEAN
    /\ exec' \in [Requests -> [stage : {"idle", "run"}, caller : Callers, avatar : Storable,
                              doc : Documents \cup {<<>>}, field : Seq(FieldStates)]]
    /\ \A q \in Requests :
          /\ exec'[q].stage = exec[q].stage /\ exec'[q].caller = exec[q].caller
          /\ exec'[q].doc = exec[q].doc /\ exec'[q].avatar = exec[q].avatar
          /\ User(q)' = User(q) /\ DOMAIN exec'[q].field = DOMAIN exec[q].field
          /\ \A j \in DOMAIN exec[q].field :
                /\ Field(q, j)' = Field(q, j)
                /\ exec'[q].field[j] = IF q = r /\ j = i THEN s ELSE exec[q].field[j]

\* A resolver is such a step.
LEMMA ResolveEffect ==
    ASSUME ExecInv, NEW r \in Requests, NEW i \in DOMAIN exec[r].field, Resolve(r, i)
    PROVE  \E s \in FieldStates : Resolved(r, i, s)
<1>1. PICK s \in FieldStates : Becomes(r, i, s) /\ Outcome(r, i, s)
  BY ResolveOutcomes DEF ExecInv
<1>2. UNCHANGED <<cfg, persisted, answered, started>> /\ signer' \in BOOLEAN
  BY ResolveOutcomes DEF ExecInv
<1>3. /\ exec' \in [Requests -> [stage : {"idle", "run"}, caller : Callers, avatar : Storable,
                                doc : Documents \cup {<<>>}, field : Seq(FieldStates)]]
      /\ \A q \in Requests :
            /\ exec'[q].stage = exec[q].stage /\ exec'[q].caller = exec[q].caller
            /\ exec'[q].doc = exec[q].doc /\ exec'[q].avatar = exec[q].avatar
            /\ DOMAIN exec'[q].field = DOMAIN exec[q].field
            /\ \A j \in DOMAIN exec[q].field :
                  exec'[q].field[j] = IF q = r /\ j = i THEN s ELSE exec[q].field[j]
  BY <1>1, BecomesEffect DEF ExecInv
<1>4. \A q \in Requests : User(q)' = User(q)
  BY <1>2, <1>3 DEF User, UserOf
<1>5. \A q \in Requests : \A j \in DOMAIN exec[q].field : Field(q, j)' = Field(q, j)
  BY <1>3 DEF Field
<1> QED BY <1>1, <1>2, <1>3, <1>4, <1>5 DEF Resolved

\* What a field may become keeps the invariant of a field.
LEMMA OutcomeKeepsField ==
    ASSUME ExecInv, NEW r \in Requests, NEW i \in DOMAIN exec[r].field,
           NEW s \in FieldStates, Outcome(r, i, s)
    PROVE  FieldInv(cfg, s, Field(r, i).name, User(r))
<1> DEFINE name == Field(r, i).name  user == User(r)  f == exec[r].field[i]
<1>1. FieldInv(cfg, f, name, user) /\ IsPermanent(cfg, exec[r].avatar)
  BY DEF ExecInv, FieldsInv, RunInv
<1>2. exec[r].field \in Seq(FieldStates)
  BY DEF ExecInv, ExecTypeOK
<1>3. f \in FieldStates
  BY <1>2
<1>4. ~IsOurs(cfg, NoLink)
  BY DEF IsOurs, IsLink
<1>5. CASE Ended(r, i, s)
  BY <1>4, <1>5 DEF Ended, FieldInv, IsPermanent, MayBeServed
<1>6. CASE Fetched(r, i, s)
  BY <1>1, <1>6 DEF Fetched, FieldInv
<1>7. CASE Wrote(r, i, s)
  <2>1. IsPermanent(cfg, s.stored)
    BY <1>7 DEF Wrote, ExecInv, RowInv
  <2>2. user # Anonymous
    BY <1>7, ExecutionAssumption DEF Wrote
  <2> QED BY <1>7, <2>1, <2>2 DEF Wrote, FieldInv
<1>8. CASE Converted(r, i, s)
  <2>1. CASE f.step = "link" /\ MayBeServed(cfg, user, f.stored) /\ s = [f EXCEPT !.step = "region"]
    <3>1. /\ s.step = "region" /\ s.stored = f.stored /\ s.link = f.link /\ s.effect = f.effect
          /\ s.error = f.error
      BY <1>3, <2>1 DEF FieldStates
    <3> QED BY <1>1, <2>1, <3>1 DEF FieldInv
  <2>2. ASSUME NEW link \in Storable, NEW failed \in BOOLEAN, f.step \in {"link", "region"},
               s = [f EXCEPT !.step = "done", !.link = link, !.failed = failed],
               \/ ServedAsStored(cfg, f.stored) /\ link = f.stored
               \/ link = NoLink /\ (MayBeServed(cfg, user, f.stored) => failed)
               \/ MayBeServed(cfg, user, f.stored) /\ link = LinkFor(cfg, KeyOf(cfg, f.stored))
        PROVE  FieldInv(cfg, s, name, user)
    <3>1. /\ s.step = "done" /\ s.stored = f.stored /\ s.link = link /\ s.effect = f.effect
          /\ s.error = f.error /\ s.failed = failed
      BY <1>3, <2>2 DEF FieldStates
    <3>2. Allowed(cfg, name, user) /\ IsPermanent(cfg, f.stored)
      BY <1>1, <2>2 DEF FieldInv
    <3>3. link # NoLink => \/ ServedAsStored(cfg, f.stored) /\ link = f.stored
                           \/ MayBeServed(cfg, user, f.stored) /\ link = LinkFor(cfg, KeyOf(cfg, f.stored))
      BY <2>2
    <3>4. link = NoLink /\ MayBeServed(cfg, user, f.stored) => failed
      <4>1. MayBeServed(cfg, user, f.stored) => ~ServedAsStored(cfg, f.stored)
        BY DEF MayBeServed, ServedAsStored
      <4>2. MayBeServed(cfg, user, f.stored) => LinkFor(cfg, KeyOf(cfg, f.stored)) # NoLink
        <5>1. cfg \in Configs /\ f.stored \in Storable
          BY <1>3 DEF ExecInv, ExecTypeOK, FieldStates
        <5> QED BY <5>1, KeyIsPath, ServedLinkNamesKey, LinksAssumption DEF MayBeServed
      <4> QED BY <2>2, <4>1, <4>2
    <3>5. s.effect /\ name = "updateProfile" => user # Anonymous
      BY <1>1, <3>1 DEF FieldInv
    <3> QED BY <3>1, <3>2, <3>3, <3>4, <3>5 DEF FieldInv
  <2> QED BY <1>8, <2>1, <2>2 DEF Converted
<1> QED BY <1>5, <1>6, <1>7, <1>8 DEF Outcome

\* The fields keep their invariant, ...
LEMMA ResolveKeepsFields ==
    ASSUME ExecInv, NEW r \in Requests, NEW i \in DOMAIN exec[r].field, Resolve(r, i)
    PROVE  FieldsInv'
<1>1. PICK s \in FieldStates : Resolved(r, i, s)
  BY ResolveEffect
<1>2. FieldInv(cfg, s, Field(r, i).name, User(r))
  BY <1>1, OutcomeKeepsField DEF Resolved
<1>3. ASSUME NEW q \in Requests, NEW j \in DOMAIN exec'[q].field
      PROVE  FieldInv(cfg', exec'[q].field[j], Field(q, j)'.name, User(q)')
  <2>1. /\ j \in DOMAIN exec[q].field /\ cfg' = cfg /\ User(q)' = User(q) /\ Field(q, j)' = Field(q, j)
        /\ exec'[q].field[j] = IF q = r /\ j = i THEN s ELSE exec[q].field[j]
    BY <1>1, <1>3 DEF Resolved
  <2>2. FieldInv(cfg, exec[q].field[j], Field(q, j).name, User(q))
    BY <2>1 DEF ExecInv, FieldsInv
  <2> QED BY <1>2, <2>1, <2>2
<1> QED BY <1>3 DEF FieldsInv

\* ... and so do what is executed, ...
LEMMA ResolveKeepsRuns ==
    ASSUME ExecInv, NEW r \in Requests, NEW i \in DOMAIN exec[r].field, Resolve(r, i)
    PROVE  RunInv' /\ KeptInv'
<1>1. PICK s \in FieldStates : Resolved(r, i, s)
  BY ResolveEffect
<1>2. KeptInv'
  BY <1>1 DEF Resolved, ExecInv, KeptInv
<1>3. ASSUME NEW q \in Requests
      PROVE  /\ exec'[q].stage = "idle" => exec'[q].field = <<>>
             /\ exec'[q].stage = "run" => exec'[q].doc \in Documents /\ exec'[q].doc.written <= MaxFields
                                         /\ DOMAIN exec'[q].field = DOMAIN exec'[q].doc.fields
             /\ IsPermanent(cfg', exec'[q].avatar)
  <2>1. /\ exec'[q].stage = exec[q].stage /\ exec'[q].doc = exec[q].doc
        /\ exec'[q].avatar = exec[q].avatar /\ DOMAIN exec'[q].field = DOMAIN exec[q].field
        /\ cfg' = cfg
    BY <1>1 DEF Resolved
  <2>2. exec'[q].field \in Seq(FieldStates)
    BY <1>1 DEF Resolved
  <2>3. exec[q].field = <<>> => exec'[q].field = <<>>
    <3>1. \A seq \in Seq(FieldStates) : DOMAIN seq = {} => seq = <<>>
      OBVIOUS
    <3>2. DOMAIN <<>> = {}
      OBVIOUS
    <3> QED BY <2>1, <2>2, <3>1, <3>2
  <2> QED BY <2>1, <2>3 DEF ExecInv, RunInv
<1> QED BY <1>2, <1>3 DEF RunInv

\* ... the rows, ...
LEMMA ResolveKeepsRows ==
    ASSUME ExecInv, NEW r \in Requests, NEW i \in DOMAIN exec[r].field, Resolve(r, i)
    PROVE  /\ RowInv' /\ avatar' \in [Profiles -> Storable]
           /\ writer' \in [Profiles -> Requests \cup {Nobody}]
<1>1. PICK s \in FieldStates : Resolved(r, i, s)
  BY ResolveEffect
<1>2. /\ avatar \in [Profiles -> Storable] /\ writer \in [Profiles -> Requests \cup {Nobody}]
      /\ cfg' = cfg
  BY <1>1 DEF ExecInv, ExecTypeOK, Resolved
<1>3. CASE KeepsRows
  BY <1>2, <1>3 DEF KeepsRows, ExecInv, RowInv
<1>4. CASE Wrote(r, i, s)
  <2> DEFINE p == User(r)
  <2>1. /\ p \in Profiles /\ avatar' = [avatar EXCEPT ![p] = s.stored]
        /\ \/ s.stored = avatar[p] /\ writer' = writer
           \/ /\ writer' = [writer EXCEPT ![p] = r] /\ IsPermanent(cfg, s.stored)
              /\ IsOurs(cfg, s.stored) => OwnedBy(KeyOf(cfg, s.stored), p)
    BY <1>4 DEF Wrote
  <2>2. s.stored \in Storable
    BY DEF FieldStates
  <2>3. avatar' \in [Profiles -> Storable] /\ writer' \in [Profiles -> Requests \cup {Nobody}]
    BY <1>2, <2>1, <2>2
  <2>4. /\ IsPermanent(cfg, avatar'[p])
        /\ writer'[p] \in Requests /\ IsOurs(cfg, avatar'[p]) => OwnedBy(KeyOf(cfg, avatar'[p]), p)
    BY <1>2, <2>1 DEF ExecInv, RowInv
  <2>5. \A q \in Profiles : q # p => avatar'[q] = avatar[q] /\ writer'[q] = writer[q]
    BY <1>2, <2>1
  <2> QED BY <1>2, <2>3, <2>4, <2>5 DEF ExecInv, RowInv
<1> QED BY <1>1, <1>3, <1>4 DEF Resolved, Outcome, Ended, Fetched, Converted

\* Fields are numbered from one.
LEMMA FieldNumbers ==
    ASSUME ExecTypeOK, NEW r \in Requests
    PROVE  \E n \in Nat : /\ DOMAIN exec[r].field = 1..n
                         /\ \A j \in 1..n : exec[r].field[j] \in FieldStates
<1>1. exec[r].field \in Seq(FieldStates)
  BY DEF ExecTypeOK
<1> QED BY <1>1

\* What the outcomes say of the field they begin with: it is not done, and its
\* turn has come.
LEMMA OutcomeInTurn ==
    ASSUME ExecInv, NEW r \in Requests, NEW i \in DOMAIN exec[r].field,
           NEW s \in FieldStates, Outcome(r, i, s)
    PROVE  /\ exec[r].field[i].step # "done"
           /\ exec[r].doc.kind = "mutation" => ItsTurn(r, i)
           /\ Wrote(r, i, s) => exec[r].field[i].step = "todo" /\ exec[r].doc.kind = "mutation"
           /\ \/ Wrote(r, i, s)
              \/ /\ KeepsRows
                 /\ Field(r, i).name = "updateProfile" => s.effect = exec[r].field[i].effect
                 /\ exec[r].field[i].effect => s.stored = exec[r].field[i].stored
<1> DEFINE f == exec[r].field[i]
<1>1. f \in FieldStates /\ s \in FieldStates
  BY FieldNumbers DEF ExecInv
<1>2. f.step = "todo" => ~f.effect
  BY DEF ExecInv, FieldsInv, FieldInv
<1>3. f.effect \in BOOLEAN /\ s.effect \in BOOLEAN
  BY <1>1 DEF FieldStates
<1>4. CASE Ended(r, i, s) \/ Fetched(r, i, s)
  BY <1>2, <1>3, <1>4 DEF Ended, Fetched, Wrote, MayResolve
<1>5. CASE Wrote(r, i, s)
  BY <1>5 DEF Wrote, MayResolve
<1>6. CASE Converted(r, i, s)
  <2>1. f.step \in {"link", "region"} /\ KeepsRows
    BY <1>6 DEF Converted
  <2>2. s.effect = f.effect /\ s.stored = f.stored
    BY <1>1, <1>6 DEF Converted, FieldStates
  <2>3. exec[r].doc.kind = "mutation" => ItsTurn(r, i)
    BY <2>1 DEF ExecInv, OrderInv
  <2>4. ~Wrote(r, i, s)
    BY <2>1 DEF Wrote, MayResolve
  <2> QED BY <2>1, <2>2, <2>3, <2>4
<1> QED BY <1>4, <1>5, <1>6 DEF Outcome

\* ... the order of the fields ...
LEMMA ResolveKeepsOrder ==
    ASSUME ExecInv, NEW r \in Requests, NEW i \in DOMAIN exec[r].field, Resolve(r, i)
    PROVE  OrderInv'
<1>1. PICK s \in FieldStates : Resolved(r, i, s)
  BY ResolveEffect
<1>2. Outcome(r, i, s)
  BY <1>1 DEF Resolved
<1> SUFFICES ASSUME NEW q \in Requests, NEW j \in DOMAIN exec'[q].field
             PROVE  /\ exec'[q].doc.kind = "mutation" /\ exec'[q].field[j].step # "todo"
                          => \A k \in 1..(j - 1) : exec'[q].field[k].step = "done"
                    /\ exec'[q].field[j].effect /\ Field(q, j)'.name = "updateProfile"
                          => exec'[q].doc.kind = "mutation"
  BY DEF OrderInv, ItsTurn
<1>3. PICK n \in Nat : DOMAIN exec[q].field = 1..n /\ \A k \in 1..n : exec[q].field[k] \in FieldStates
  BY FieldNumbers DEF ExecInv
<1>4. /\ j \in 1..n /\ exec'[q].doc = exec[q].doc
      /\ \A k \in 1..n : /\ exec'[q].field[k] = IF q = r /\ k = i THEN s ELSE exec[q].field[k]
                         /\ Field(q, k)' = Field(q, k)
  BY <1>1, <1>3 DEF Resolved
<1>5. \A k \in 1..(j - 1) : k \in 1..n /\ k # j
  BY <1>4
<1>6. /\ exec[q].doc.kind = "mutation" /\ exec[q].field[j].step # "todo"
            => \A k \in 1..(j - 1) : exec[q].field[k].step = "done"
      /\ exec[q].field[j].effect /\ Field(q, j).name = "updateProfile"
            => exec[q].doc.kind = "mutation"
  BY <1>3, <1>4 DEF ExecInv, OrderInv, ItsTurn
<1>7. CASE q # r
  BY <1>4, <1>5, <1>6, <1>7
<1>8. CASE q = r /\ j # i
  <2>1. exec[r].field[i].step # "done"
    BY <1>2, OutcomeInTurn
  <2> QED BY <1>4, <1>5, <1>6, <1>8, <2>1
<1>9. CASE q = r /\ j = i
  <2>1. exec[r].doc.kind = "mutation" => \A k \in 1..(i - 1) : exec[r].field[k].step = "done"
    BY <1>2, OutcomeInTurn DEF ItsTurn
  <2>2. s.effect /\ Field(r, i).name = "updateProfile" => exec[r].doc.kind = "mutation"
    BY <1>2, <1>6, <1>9, OutcomeInTurn
  <2> QED BY <1>4, <1>5, <1>9, <2>1, <2>2
<1> QED BY <1>7, <1>8, <1>9

\* ... and whose value a row has.
LEMMA ResolveKeepsLast ==
    ASSUME ExecInv, NEW r \in Requests, NEW i \in DOMAIN exec[r].field, Resolve(r, i)
    PROVE  LastInv'
<1>1. PICK s \in FieldStates : Resolved(r, i, s)
  BY ResolveEffect
<1>2. Outcome(r, i, s)
  BY <1>1 DEF Resolved
<1> SUFFICES ASSUME NEW q \in Requests, Changed(q)' # {}, writer'[User(q)'] = q
             PROVE  \E m \in Changed(q)' :
                       /\ \A k \in Changed(q)' : m >= k
                       /\ avatar'[User(q)'] = exec'[q].field[m].stored
  BY DEF LastInv
<1>3. PICK n \in Nat : DOMAIN exec[q].field = 1..n /\ \A k \in 1..n : exec[q].field[k] \in FieldStates
  BY FieldNumbers DEF ExecInv
<1>4. /\ exec'[q].doc = exec[q].doc /\ User(q)' = User(q) /\ DOMAIN exec'[q].field = 1..n
      /\ \A k \in 1..n : /\ exec'[q].field[k] = IF q = r /\ k = i THEN s ELSE exec[q].field[k]
                         /\ Field(q, k)' = Field(q, k)
  BY <1>1, <1>3 DEF Resolved
<1>5. ASSUME \A k \in 1..n : Field(q, k).name = "updateProfile" =>
                exec'[q].field[k].effect = exec[q].field[k].effect,
             \A k \in 1..n : exec[q].field[k].effect =>
                exec'[q].field[k].stored = exec[q].field[k].stored,
             avatar'[User(q)] = avatar[User(q)], writer'[User(q)] = writer[User(q)]
      PROVE  \E m \in Changed(q)' :
                       /\ \A k \in Changed(q)' : m >= k
                       /\ avatar'[User(q)'] = exec'[q].field[m].stored
  <2>1. Changed(q)' = Changed(q)
    BY <1>3, <1>4, <1>5 DEF Changed
  <2>2. PICK m \in Changed(q) : /\ \A k \in Changed(q) : m >= k
                                /\ avatar[User(q)] = exec[q].field[m].stored
    BY <1>4, <1>5, <2>1 DEF ExecInv, LastInv
  <2>3. m \in 1..n /\ exec[q].field[m].effect
    BY <1>3 DEF Changed
  <2>4. avatar'[User(q)'] = exec'[q].field[m].stored
    BY <1>4, <1>5, <2>2, <2>3
  <2>5. \A k \in Changed(q)' : m >= k
    BY <2>1, <2>2
  <2> QED BY <2>1, <2>4, <2>5
<1>6. CASE ~Wrote(r, i, s)
  <2>1. /\ KeepsRows
        /\ Field(r, i).name = "updateProfile" => s.effect = exec[r].field[i].effect
        /\ exec[r].field[i].effect => s.stored = exec[r].field[i].stored
    BY <1>2, <1>6, OutcomeInTurn
  <2> QED BY <1>4, <1>5, <2>1 DEF KeepsRows
<1>7. CASE Wrote(r, i, s) /\ q # r
  <2>1. /\ avatar \in [Profiles -> Storable] /\ writer \in [Profiles -> Requests \cup {Nobody}]
        /\ User(r) \in Profiles /\ avatar' = [avatar EXCEPT ![User(r)] = s.stored]
        /\ \/ s.stored = avatar[User(r)] /\ writer' = writer
           \/ writer' = [writer EXCEPT ![User(r)] = r]
    BY <1>7 DEF Wrote, ExecInv, ExecTypeOK
  <2>2. User(q) \in Profiles
    <3>1. PICK k \in 1..n : exec[q].field[k].effect /\ Field(q, k).name = "updateProfile"
      BY <1>4, <1>7 DEF Changed
    <3>2. User(q) # Anonymous
      BY <1>3, <3>1 DEF ExecInv, FieldsInv, FieldInv
    <3>3. exec[q].caller \in Callers
      BY DEF ExecInv, ExecTypeOK
    <3> QED BY <3>2, <3>3, UserIsCaller DEF User, ExecInv
  <2>3. avatar'[User(q)] = avatar[User(q)] /\ writer'[User(q)] = writer[User(q)]
    <3>1. CASE User(q) = User(r)
      BY <1>4, <1>7, <2>1, <2>2, <3>1
    <3>2. CASE User(q) # User(r)
      BY <2>1, <2>2, <3>2
    <3> QED BY <3>1, <3>2
  <2> QED BY <1>4, <1>5, <1>7, <2>3
<1>8. CASE Wrote(r, i, s) /\ q = r
  <2>1. exec[r].field[i].step = "todo" /\ exec[r].doc.kind = "mutation" /\ i \in 1..n
    BY <1>2, <1>3, <1>8, OutcomeInTurn
  <2>2. ASSUME NEW k \in Changed(q)'
        PROVE  i >= k
    <3>1. k \in 1..n /\ exec'[q].field[k].effect
      BY <1>4 DEF Changed
    <3>2. SUFFICES ASSUME k > i PROVE FALSE
      BY <2>1, <3>1
    <3>3. exec[r].field[k].effect
      BY <1>4, <1>8, <2>1, <3>1, <3>2
    <3>4. exec[r].field[k].step # "todo"
      BY <1>3, <1>8, <3>1, <3>3 DEF ExecInv, FieldsInv, FieldInv
    <3>5. i \in 1..(k - 1)
      BY <2>1, <3>1, <3>2
    <3>6. exec[r].field[i].step = "done"
      BY <1>3, <1>8, <2>1, <3>1, <3>4, <3>5 DEF ExecInv, OrderInv, ItsTurn
    <3> QED BY <2>1, <3>6
  <2>3. i \in Changed(q)'
    <3>1. s.effect /\ Field(r, i).name = "updateProfile"
      BY <1>8 DEF Wrote
    <3> QED BY <1>4, <1>8, <2>1, <3>1 DEF Changed
  <2>4. avatar'[User(q)'] = exec'[q].field[i].stored
    BY <1>4, <1>8, <2>1 DEF Wrote, ExecInv, ExecTypeOK
  <2> QED BY <2>2, <2>3, <2>4
<1> QED BY <1>6, <1>7, <1>8

\* A resolver keeps the whole invariant.
LEMMA ResolveKeepsExecInv ==
    ASSUME ExecInv, NEW r \in Requests, NEW i \in DOMAIN exec[r].field, Resolve(r, i)
    PROVE  ExecInv'
<1>1. PICK s \in FieldStates : Resolved(r, i, s)
  BY ResolveEffect
<1>2. ExecTypeOK'
  BY <1>1, ResolveKeepsRows DEF Resolved, ExecInv, ExecTypeOK
<1>3. AnswersAreRestrained'
  <2>1. answered' = answered /\ cfg' = cfg
    BY <1>1 DEF Resolved
  <2> QED BY <2>1 DEF ExecInv, AnswersAreRestrained, UserOf
<1> QED BY <1>2, <1>3, ResolveKeepsFields, ResolveKeepsRuns, ResolveKeepsRows, ResolveKeepsOrder,
           ResolveKeepsLast DEF ExecInv

\* The answers are restrained when each of them is.
LEMMA AnswersOneByOne ==
    AnswersAreRestrained <=>
       \A r \in Requests : Restrained(cfg, answered[r], UserOf(answered[r].caller))
BY DEF AnswersAreRestrained, Restrained

(***************************************************************************)
(* Requests, answers and imports keep the invariant                        *)
(***************************************************************************)

\* What is kept is within the cap, and what is executed by its hash was kept.
LEMMA AdmissionIsCapped ==
    ASSUME ExecTypeOK, KeptInv, NEW doc \in Documents, NEW form, NEW a \in Admission(doc, form)
    PROVE  /\ a.kept \subseteq Documents
           /\ \A d \in a.kept : d.written <= MaxFields
           /\ a.ok => doc.written <= MaxFields
<1>1. PICK k \in IF FitsShape(doc, form) THEN Kept(doc, form) ELSE {persisted} :
         a = [kept |-> k, ok |-> FitsShape(doc, form) /\ (form = "hash" => doc \in persisted)
                                 /\ Affordable(doc)]
  BY DEF Admission
<1>2. persisted \subseteq Documents /\ \A d \in persisted : d.written <= MaxFields
  BY DEF ExecTypeOK, KeptInv
<1>3. a.kept = k /\ (a.ok => FitsShape(doc, form) /\ (form = "hash" => doc \in persisted))
  BY <1>1
<1>4. FitsShape(doc, form) => form = "hash" \/ doc.written <= MaxFields
  BY DEF FitsShape
<1>5. k = persisted \/ (form # "hash" /\ FitsShape(doc, form) /\ k \subseteq persisted \cup {doc})
  <2>1. CASE form = "both" /\ FitsShape(doc, form)
    BY <1>1, <2>1 DEF Kept
  <2>2. CASE form # "both" \/ ~FitsShape(doc, form)
    BY <1>1, <2>2 DEF Kept
  <2> QED BY <2>1, <2>2
<1> QED BY <1>2, <1>3, <1>4, <1>5

\* A request that comes in: it is answered at once, or begins with nothing done.
LEMMA SubmitKeepsExecInv ==
    ASSUME ExecInv, NEW r \in Requests, NEW caller \in Callers, NEW doc \in Documents, NEW form,
           Submit(r, caller, doc, form)
    PROVE  ExecInv'
<1> DEFINE Execs == [stage : {"idle", "run"}, caller : Callers, avatar : Storable,
                     doc : Documents \cup {<<>>}, field : Seq(FieldStates)]
           Answers == [caller : Callers, doc : Documents \cup {<<>>},
                       shown : SUBSET FieldNames,
                       errors : SUBSET (Codes \cup {"MASKED", "REJECTED"})]
           user == UserOf(caller)
           own == IF user = Anonymous THEN NoLink ELSE avatar[user]
           field == [i \in DOMAIN doc.fields |-> Untouched]
           run == [stage |-> "run", caller |-> caller, doc |-> doc, avatar |-> own, field |-> field]
           refused == [NoAnswer EXCEPT !.errors = {"REJECTED"}]
<1>1. PICK a \in Admission(doc, form) :
         /\ persisted' = a.kept
         /\ exec' = IF ~a.ok THEN exec ELSE [exec EXCEPT ![r] = run]
         /\ answered' = [answered EXCEPT ![r] = IF a.ok THEN NoAnswer ELSE refused]
  BY DEF Submit
<1>2. /\ UNCHANGED <<cfg, avatar, writer, signer>> /\ started' = started + 1
      /\ started < MaxOperations /\ exec[r].stage = "idle"
  BY DEF Submit
<1>3. /\ a.kept \subseteq Documents /\ (\A d \in a.kept : d.written <= MaxFields)
      /\ (a.ok => doc.written <= MaxFields)
  BY AdmissionIsCapped DEF ExecInv
<1>4. /\ exec \in [Requests -> Execs] /\ answered \in [Requests -> Answers] /\ cfg \in Configs
      /\ avatar \in [Profiles -> Storable]
  BY DEF ExecInv, ExecTypeOK
<1>5. own \in Storable /\ IsPermanent(cfg, own)
  <2>1. ~IsOurs(cfg, NoLink) /\ NoLink \in Storable
    BY DEF IsOurs, IsLink, Storable
  <2>2. user # Anonymous => user \in Profiles
    BY UserIsCaller DEF ExecInv
  <2>3. \A p \in Profiles : avatar[p] \in Storable /\ IsPermanent(cfg, avatar[p])
    BY <1>4 DEF ExecInv, RowInv
  <2> QED BY <2>1, <2>2, <2>3 DEF IsPermanent
<1>6. PICK n \in Nat : DOMAIN doc.fields = 1..n
  <2>1. doc.fields \in Seq([name : FieldNames, avatar : Sendable, tooLong : BOOLEAN])
    BY DocumentsAssumption
  <2> QED BY <2>1
<1>7. Untouched \in FieldStates
  BY DEF Untouched, FieldStates, Codes, Storable
<1>8. field \in Seq(FieldStates)
  BY <1>6, <1>7
<1>9. /\ run \in Execs /\ run.stage = "run" /\ run.caller = caller /\ run.doc = doc
      /\ run.avatar = own /\ run.field = field /\ DOMAIN field = DOMAIN doc.fields
      /\ \A i \in DOMAIN field : field[i] = Untouched
  BY <1>5, <1>8
<1>10. NoAnswer \in Answers /\ refused \in Answers /\ NoAnswer.shown = {} /\ refused.shown = {}
       /\ NoAnswer.errors = {} /\ refused.errors = {"REJECTED"}
  BY DEF NoAnswer, Callers, Codes
<1> HIDE DEF field, run, own, refused
<1>11. /\ exec' \in [Requests -> Execs]
       /\ \A q \in Requests : exec'[q] = exec[q] \/ (q = r /\ a.ok /\ exec'[q] = run)
  BY <1>1, <1>4, <1>9
<1>12. /\ answered' \in [Requests -> Answers]
       /\ \A q \in Requests : answered'[q] = answered[q] \/ answered'[q] \in {NoAnswer, refused}
  BY <1>1, <1>4, <1>10
<1>13. ExecTypeOK'
  <2>1. started' \in 0..MaxOperations
    BY <1>2, ExecutionAssumption DEF ExecInv, ExecTypeOK
  <2> QED BY <1>1, <1>2, <1>3, <1>11, <1>12, <2>1 DEF ExecInv, ExecTypeOK
<1>14. FieldInv(cfg, Untouched, doc.fields[1].name, user)
       /\ \A i \in DOMAIN doc.fields : FieldInv(cfg, Untouched, doc.fields[i].name, user)
  BY DEF FieldInv, Untouched, IsPermanent, MayBeServed, IsOurs, IsLink
<1>15. FieldsInv'
  <2> SUFFICES ASSUME NEW q \in Requests, NEW j \in DOMAIN exec'[q].field
               PROVE  FieldInv(cfg, exec'[q].field[j], exec'[q].doc.fields[j].name,
                               UserOf(exec'[q].caller))
    <3>1. \A q \in Requests : User(q)' = UserOf(exec'[q].caller)
      BY <1>2 DEF User, UserOf
    <3> QED BY <1>2, <3>1 DEF FieldsInv, Field
  <2>2. CASE exec'[q] = exec[q]
    BY <2>2 DEF ExecInv, FieldsInv, Field, User
  <2>3. CASE exec'[q] = run
    BY <1>9, <1>14, <2>3
  <2> QED BY <1>11, <2>2, <2>3
<1>16. RunInv'
  <2> SUFFICES ASSUME NEW q \in Requests
               PROVE /\ exec'[q].stage = "idle" => exec'[q].field = <<>>
                     /\ exec'[q].stage = "run" =>
                           exec'[q].doc \in Documents /\ exec'[q].doc.written <= MaxFields
                           /\ DOMAIN exec'[q].field = DOMAIN exec'[q].doc.fields
                     /\ IsPermanent(cfg, exec'[q].avatar)
    BY <1>2 DEF RunInv
  <2>1. CASE exec'[q] = exec[q]
    BY <2>1 DEF ExecInv, RunInv
  <2>2. CASE exec'[q] = run /\ a.ok
    BY <1>3, <1>5, <1>9, <2>2
  <2> QED BY <1>11, <2>1, <2>2
<1>17. KeptInv' /\ RowInv'
  BY <1>1, <1>2, <1>3 DEF KeptInv, ExecInv, RowInv
<1>18. OrderInv'
  <2> SUFFICES ASSUME NEW q \in Requests, NEW i \in DOMAIN exec'[q].field
               PROVE  /\ exec'[q].doc.kind = "mutation" /\ exec'[q].field[i].step # "todo"
                            => \A j \in 1..(i - 1) : exec'[q].field[j].step = "done"
                      /\ exec'[q].field[i].effect /\ exec'[q].doc.fields[i].name = "updateProfile"
                            => exec'[q].doc.kind = "mutation"
    BY DEF OrderInv, ItsTurn, Field
  <2>1. CASE exec'[q] = exec[q]
    BY <2>1 DEF ExecInv, OrderInv, ItsTurn, Field
  <2>2. CASE exec'[q] = run
    <3>1. exec'[q].field[i].step = "todo" /\ ~exec'[q].field[i].effect
      BY <1>9, <2>2 DEF Untouched
    <3> QED BY <3>1
  <2> QED BY <1>11, <2>1, <2>2
<1>19. LastInv'
  <2> SUFFICES ASSUME NEW q \in Requests, Changed(q)' # {}, writer'[User(q)'] = q
               PROVE  \E m \in Changed(q)' :
                         /\ \A k \in Changed(q)' : m >= k
                         /\ avatar'[User(q)'] = exec'[q].field[m].stored
    BY DEF LastInv
  <2>1. CASE exec'[q] = exec[q]
    <3>1. Changed(q)' = Changed(q) /\ User(q)' = User(q)
      BY <1>2, <2>1 DEF Changed, Field, User, UserOf
    <3> QED BY <1>2, <2>1, <3>1 DEF ExecInv, LastInv
  <2>2. CASE exec'[q] = run
    <3>1. Changed(q)' = {}
      BY <1>9, <2>2 DEF Changed, Untouched
    <3> QED BY <3>1
  <2> QED BY <1>11, <2>1, <2>2
<1>20. AnswersAreRestrained'
  <2> SUFFICES ASSUME NEW q \in Requests
               PROVE  Restrained(cfg, answered'[q], UserOf(answered'[q].caller))
    BY <1>2 DEF AnswersAreRestrained, Restrained, UserOf
  <2>1. CASE answered'[q] = answered[q]
    BY <2>1, AnswersOneByOne DEF ExecInv
  <2>2. CASE answered'[q] \in {NoAnswer, refused}
    BY <1>10, <2>2 DEF Restrained
  <2> QED BY <1>12, <2>1, <2>2
<1> QED BY <1>13, <1>15, <1>16, <1>17, <1>18, <1>19, <1>20 DEF ExecInv

\* A server that came up has the invariant: nothing runs and no row has a value.
LEMMA InitHasExecInv == ExecInit => ExecInv
<1> SUFFICES ASSUME ExecInit PROVE ExecInv
  OBVIOUS
<1>1. /\ cfg \in Configs /\ avatar = [p \in Profiles |-> NoLink]
      /\ writer = [p \in Profiles |-> Nobody] /\ signer = FALSE /\ persisted = {} /\ started = 0
      /\ exec = [r \in Requests |-> Idle] /\ answered = [r \in Requests |-> NoAnswer]
  BY DEF ExecInit
<1>2. /\ Idle \in [stage : {"idle", "run"}, caller : Callers, avatar : Storable,
                   doc : Documents \cup {<<>>}, field : Seq(FieldStates)]
      /\ Idle.stage = "idle" /\ Idle.field = <<>> /\ Idle.avatar = NoLink
  BY DEF Idle, Callers, Storable
<1>3. /\ NoAnswer \in [caller : Callers, doc : Documents \cup {<<>>},
                       shown : SUBSET FieldNames,
                       errors : SUBSET (Codes \cup {"MASKED", "REJECTED"})]
      /\ NoAnswer.shown = {} /\ NoAnswer.errors = {}
  BY DEF NoAnswer, Callers
<1>4. IsPermanent(cfg, NoLink) /\ ~IsOurs(cfg, NoLink)
  BY DEF IsPermanent, IsOurs, IsLink
<1>5. \A r \in Requests : exec[r] = Idle /\ DOMAIN exec[r].field = {}
  BY <1>1, <1>2
<1>6. ExecTypeOK
  <2>1. avatar \in [Profiles -> Storable] /\ writer \in [Profiles -> Requests \cup {Nobody}]
    BY <1>1 DEF Storable
  <2>2. started \in 0..MaxOperations
    BY <1>1, ExecutionAssumption
  <2> QED BY <1>1, <1>2, <1>3, <2>1, <2>2 DEF ExecTypeOK
<1>7. FieldsInv /\ OrderInv
  BY <1>5 DEF FieldsInv, OrderInv
<1>8. RunInv
  BY <1>2, <1>4, <1>5 DEF RunInv
<1>9. KeptInv /\ RowInv
  BY <1>1, <1>4, ExecutionAssumption DEF KeptInv, RowInv
<1>10. LastInv
  BY <1>5 DEF LastInv, Changed
<1>11. \A r \in Requests : Restrained(cfg, answered[r], UserOf(answered[r].caller))
  BY <1>1, <1>3 DEF Restrained
<1> QED BY <1>6, <1>7, <1>8, <1>9, <1>10, <1>11, AnswersOneByOne DEF ExecInv

\* A field that is shown was allowed, and in production no error of ours is.
LEMMA ReplyIsRestrained ==
    ASSUME ExecInv, NEW r \in Requests, Reply(r)
    PROVE  /\ Restrained(cfg, answered'[r], UserOf(answered'[r].caller))
           /\ answered'[r] \in [caller : Callers, doc : Documents \cup {<<>>},
                                shown : SUBSET FieldNames,
                                errors : SUBSET (Codes \cup {"MASKED", "REJECTED"})]
<1> DEFINE doc == exec[r].doc
           errors == {Presented(exec[r].field[i].error) : i \in DOMAIN exec[r].field} \ {"none"}
           shown == Shown(r)
           answer == [caller |-> exec[r].caller, doc |-> doc, shown |-> shown, errors |-> errors]
<1>1. answered'[r] = answer
  BY DEF Reply, ExecInv, ExecTypeOK
<1>2. PICK n \in Nat : DOMAIN exec[r].field = 1..n /\ \A k \in 1..n : exec[r].field[k] \in FieldStates
  BY FieldNumbers DEF ExecInv
<1>3. doc \in Documents /\ DOMAIN doc.fields = 1..n /\ exec[r].caller \in Callers
  BY <1>2 DEF Reply, ExecInv, RunInv, ExecTypeOK
<1>4. \A i \in 1..n : doc.fields[i].name \in FieldNames
  <2>1. doc.fields \in Seq([name : FieldNames, avatar : Sendable, tooLong : BOOLEAN])
    BY <1>3, DocumentsAssumption
  <2>2. \A S : \A q \in Seq(S) : \A k \in DOMAIN q : q[k] \in S
    OBVIOUS
  <2>3. \A i \in 1..n : doc.fields[i] \in [name : FieldNames, avatar : Sendable, tooLong : BOOLEAN]
    BY <1>3, <2>1, <2>2
  <2> QED BY <2>3
<1>5. \A i \in 1..n : /\ exec[r].field[i].step = "done" /\ exec[r].field[i].error \in Codes
                      /\ FieldInv(cfg, exec[r].field[i], doc.fields[i].name, User(r))
  BY <1>2 DEF Reply, ExecInv, FieldsInv, Field, FieldStates
<1>6. \A i \in 1..n : exec[r].field[i].error = "none" => Allowed(cfg, doc.fields[i].name, User(r))
  BY <1>5 DEF FieldInv
<1>7. cfg \in Configs /\ cfg.nodeEnv \in {"development", "test", "production"}
  BY ConfigIsSound DEF ExecInv, ExecTypeOK
<1>8. \A name \in shown : name \in FieldNames /\ Allowed(cfg, name, User(r))
  <2>1. shown \subseteq {doc.fields[i].name : i \in {j \in 1..n : exec[r].field[j].error = "none"}}
    BY <1>2 DEF Shown, Field
  <2> QED BY <1>4, <1>6, <2>1
<1>9. /\ errors \subseteq Codes \cup {"MASKED", "REJECTED"}
      /\ IsProduction(cfg) => "INTERNAL" \notin errors
  BY <1>2, <1>5 DEF Presented, Codes
<1>10. User(r) = UserOf(exec[r].caller)
  BY DEF User
<1> HIDE DEF errors, shown
<1>11. answer \in [caller : Callers, doc : Documents \cup {<<>>}, shown : SUBSET FieldNames,
                   errors : SUBSET (Codes \cup {"MASKED", "REJECTED"})]
  BY <1>3, <1>8, <1>9
<1>12. answer.caller = exec[r].caller /\ answer.shown = shown /\ answer.errors = errors
  OBVIOUS
<1> HIDE DEF answer, doc
<1>13. cfg.nodeEnv \notin {"development", "test"} <=> IsProduction(cfg)
  BY <1>7 DEF IsProduction
<1>14. ASSUME exec[r].caller = Anonymous
       PROVE  \/ shown \subseteq {"__typename"}
              \/ cfg.nodeEnv \in {"development", "test"} /\ (cfg.mock \/ shown \subseteq OpenFields)
  <2>1. CASE User(r) = Anonymous
    <3>1. shown \subseteq OpenFields
      BY <1>8, <2>1 DEF Allowed
    <3>2. IsProduction(cfg) => shown \cap Introspection = {}
      BY <1>8 DEF Allowed
    <3> QED BY <1>13, <3>1, <3>2 DEF OpenFields
  <2>2. CASE User(r) # Anonymous
    BY <1>3, <1>7, <1>10, <1>14, <2>2, UserIsCaller, ConfigIsSound DEF ExecInv
  <2> QED BY <2>1, <2>2
<1>15. Restrained(cfg, answer, User(r))
  <2>1. shown \cap AdminFields # {} => User(r) \in Admins
    BY <1>8 DEF Allowed
  <2>2. IsProduction(cfg) => shown \cap Introspection = {}
    BY <1>8 DEF Allowed
  <2> QED BY <1>9, <1>12, <1>13, <1>14, <2>1, <2>2 DEF Restrained
<1> QED BY <1>1, <1>10, <1>11, <1>12, <1>15

\* An answer ends its request.
LEMMA ReplyKeepsExecInv ==
    ASSUME ExecInv, NEW r \in Requests, Reply(r)
    PROVE  ExecInv'
<1> DEFINE Execs == [stage : {"idle", "run"}, caller : Callers, avatar : Storable,
                     doc : Documents \cup {<<>>}, field : Seq(FieldStates)]
<1>1. /\ UNCHANGED <<cfg, avatar, writer, signer, persisted, started>>
      /\ exec' = [exec EXCEPT ![r] = Idle]
      /\ \A q \in Requests : q # r => answered'[q] = answered[q]
  BY DEF Reply, ExecInv, ExecTypeOK
<1>2. Idle \in Execs /\ Idle.stage = "idle" /\ Idle.field = <<>> /\ Idle.avatar = NoLink
  BY DEF Idle, Callers, Storable
<1>3. /\ exec' \in [Requests -> Execs]
      /\ \A q \in Requests : exec'[q] = exec[q] \/ (exec'[q] = Idle /\ DOMAIN exec'[q].field = {})
  BY <1>1, <1>2 DEF ExecInv, ExecTypeOK
<1>4. \A q \in Requests : UserOf(exec[q].caller)' = UserOf(exec'[q].caller)
  BY <1>1 DEF UserOf
<1>5. ExecTypeOK'
  <2>1. answered' \in [Requests -> [caller : Callers, doc : Documents \cup {<<>>},
                                    shown : SUBSET FieldNames,
                                    errors : SUBSET (Codes \cup {"MASKED", "REJECTED"})]]
    BY ReplyIsRestrained DEF Reply, ExecInv, ExecTypeOK
  <2> QED BY <1>1, <1>3, <2>1 DEF ExecInv, ExecTypeOK
<1>6. FieldsInv' /\ OrderInv'
  <2>1. ASSUME NEW q \in Requests, NEW i \in DOMAIN exec'[q].field
        PROVE  /\ FieldInv(cfg, exec'[q].field[i], exec'[q].doc.fields[i].name, UserOf(exec'[q].caller))
               /\ exec'[q].doc.kind = "mutation" /\ exec'[q].field[i].step # "todo"
                     => \A j \in 1..(i - 1) : exec'[q].field[j].step = "done"
               /\ exec'[q].field[i].effect /\ exec'[q].doc.fields[i].name = "updateProfile"
                     => exec'[q].doc.kind = "mutation"
    <3>1. exec'[q] = exec[q]
      BY <1>3, <2>1
    <3> QED BY <2>1, <3>1 DEF ExecInv, FieldsInv, OrderInv, Field, User, ItsTurn
  <2>2. \A q \in Requests : User(q)' = UserOf(exec'[q].caller)
    BY <1>1 DEF User, UserOf
  <2> QED BY <1>1, <2>1, <2>2 DEF FieldsInv, OrderInv, Field, ItsTurn
<1>7. RunInv'
  <2>1. IsPermanent(cfg, NoLink)
    BY DEF IsPermanent, IsOurs, IsLink
  <2> QED BY <1>1, <1>2, <1>3, <2>1 DEF ExecInv, RunInv
<1>8. KeptInv' /\ RowInv'
  BY <1>1 DEF ExecInv, KeptInv, RowInv
<1>9. LastInv'
  <2> SUFFICES ASSUME NEW q \in Requests, Changed(q)' # {}, writer'[User(q)'] = q
               PROVE  \E m \in Changed(q)' :
                         /\ \A k \in Changed(q)' : m >= k
                         /\ avatar'[User(q)'] = exec'[q].field[m].stored
    BY DEF LastInv
  <2>1. exec'[q] = exec[q]
    BY <1>3 DEF Changed
  <2>2. Changed(q)' = Changed(q) /\ User(q)' = User(q)
    BY <1>1, <2>1 DEF Changed, Field, User, UserOf
  <2> QED BY <1>1, <2>1, <2>2 DEF ExecInv, LastInv
<1>10. AnswersAreRestrained'
  <2> SUFFICES ASSUME NEW q \in Requests
               PROVE  Restrained(cfg, answered'[q], UserOf(answered'[q].caller))
    BY <1>1 DEF AnswersAreRestrained, Restrained, UserOf
  <2>1. CASE q = r
    BY <2>1, ReplyIsRestrained
  <2>2. CASE q # r
    BY <1>1, <2>2, AnswersOneByOne DEF ExecInv
  <2> QED BY <2>1, <2>2
<1> QED BY <1>5, <1>6, <1>7, <1>8, <1>9, <1>10 DEF ExecInv

\* A row that somebody else writes has the permanent form too, and no writer.
LEMMA ImportKeepsExecInv ==
    ASSUME ExecInv, NEW p \in Profiles, NEW f \in Files, Import(p, PermanentLink(cfg, <<f>>))
    PROVE  ExecInv'
<1> DEFINE link == PermanentLink(cfg, <<f>>)
<1>1. /\ avatar' = [avatar EXCEPT ![p] = link] /\ writer' = [writer EXCEPT ![p] = Nobody]
      /\ UNCHANGED <<cfg, signer, persisted, exec, answered, started>>
  BY DEF Import
<1>2. cfg \in Configs /\ cfg.base.path \in Seq(Segments) /\ <<f>> \in Seq(Segments) /\ <<f>> # <<>>
  BY ConfigIsSound, OwnerAssumption DEF ExecInv, ExecTypeOK
<1>3. link \in Storable
  BY <1>2 DEF PermanentLink, Link, LinkValues, Storable
<1>4. IsPermanent(cfg, link)
  <2>1. SUFFICES KeyOf(cfg, link) = <<f>>
    BY DEF IsPermanent
  <2>2. link.path = cfg.base.path \o <<f>>
    BY DEF PermanentLink, Link
  <2>3. SubSeq(cfg.base.path \o <<f>>, Len(cfg.base.path) + 1, Len(cfg.base.path \o <<f>>)) = <<f>>
    BY <1>2, KeyComesBack
  <2> HIDE DEF link
  <2> QED BY <2>2, <2>3 DEF KeyOf
<1> HIDE DEF link
<1>5. /\ avatar' \in [Profiles -> Storable] /\ writer' \in [Profiles -> Requests \cup {Nobody}]
      /\ \A q \in Profiles : IF q = p THEN avatar'[q] = link /\ writer'[q] \notin Requests
                             ELSE avatar'[q] = avatar[q] /\ writer'[q] = writer[q]
  BY <1>1, <1>3, ExecutionAssumption DEF ExecInv, ExecTypeOK
<1>6. ExecTypeOK' /\ KeptInv'
  BY <1>1, <1>5 DEF ExecInv, ExecTypeOK, KeptInv
<1>7. FieldsInv' /\ OrderInv' /\ RunInv' /\ AnswersAreRestrained'
  <2>1. UNCHANGED <<cfg, exec, answered>>
    BY <1>1
  <2>2. FieldsInv' /\ RunInv'
    BY <2>1 DEF ExecInv, FieldsInv, RunInv, Field, User, UserOf
  <2>3. OrderInv'
    BY <2>1 DEF ExecInv, OrderInv, Field, ItsTurn
  <2>4. AnswersAreRestrained'
    BY <2>1 DEF ExecInv, AnswersAreRestrained, UserOf
  <2> QED BY <2>2, <2>3, <2>4
<1>8. RowInv'
  BY <1>1, <1>4, <1>5 DEF ExecInv, RowInv
<1>9. LastInv'
  <2> SUFFICES ASSUME NEW q \in Requests, Changed(q)' # {}, writer'[User(q)'] = q
               PROVE  \E m \in Changed(q)' :
                         /\ \A k \in Changed(q)' : m >= k
                         /\ avatar'[User(q)'] = exec'[q].field[m].stored
    BY DEF LastInv
  <2>1. Changed(q)' = Changed(q) /\ User(q)' = User(q)
    BY <1>1 DEF Changed, Field, User, UserOf
  <2>2. User(q) \in Profiles
    <3>1. PICK k \in DOMAIN exec[q].field : exec[q].field[k].effect /\ Field(q, k).name = "updateProfile"
      BY <2>1 DEF Changed
    <3>2. User(q) # Anonymous /\ exec[q].caller \in Callers
      BY <3>1 DEF ExecInv, FieldsInv, FieldInv, ExecTypeOK
    <3> QED BY <3>2, UserIsCaller DEF User, ExecInv
  <2>3. writer[User(q)] = q /\ avatar'[User(q)] = avatar[User(q)]
    BY <1>5, <2>1, <2>2
  <2> QED BY <1>1, <2>1, <2>3 DEF ExecInv, LastInv
<1> QED BY <1>6, <1>7, <1>8, <1>9 DEF ExecInv

\* The invariant is inductive.
LEMMA NextKeepsExecInv == ExecInv /\ [ExecNext]_execVars => ExecInv'
<1> SUFFICES ASSUME ExecInv, [ExecNext]_execVars PROVE ExecInv'
  OBVIOUS
<1>1. ASSUME NEW r \in Requests, NEW caller \in Profiles \cup {Anonymous}, NEW doc \in Documents,
             NEW form \in {"text", "both", "hash"}, Submit(r, caller, doc, form)
      PROVE  ExecInv'
  BY <1>1, SubmitKeepsExecInv DEF Callers
<1>2. ASSUME NEW r \in Requests, NEW i \in DOMAIN exec[r].field, Resolve(r, i)
      PROVE  ExecInv'
  BY <1>2, ResolveKeepsExecInv
<1>3. ASSUME NEW r \in Requests, Reply(r)
      PROVE  ExecInv'
  BY <1>3, ReplyKeepsExecInv
<1>4. ASSUME NEW p \in Profiles, NEW f \in Files, Import(p, PermanentLink(cfg, <<f>>))
      PROVE  ExecInv'
  BY <1>4, ImportKeepsExecInv
<1>5. CASE UNCHANGED execVars
  <2>1. /\ cfg' = cfg /\ avatar' = avatar /\ writer' = writer /\ signer' = signer
        /\ persisted' = persisted /\ exec' = exec /\ answered' = answered /\ started' = started
    BY <1>5 DEF execVars
  <2>2. ExecTypeOK' /\ RunInv' /\ KeptInv' /\ RowInv'
    BY <2>1 DEF ExecInv, ExecTypeOK, RunInv, KeptInv, RowInv
  <2>3. FieldsInv' /\ OrderInv'
    BY <2>1 DEF ExecInv, FieldsInv, OrderInv, Field, User, UserOf, ItsTurn
  <2>4. LastInv'
    <3> SUFFICES ASSUME NEW q \in Requests, Changed(q)' # {}, writer'[User(q)'] = q
                 PROVE  \E m \in Changed(q)' :
                           /\ \A i \in Changed(q)' : m >= i
                           /\ avatar'[User(q)'] = exec'[q].field[m].stored
      BY DEF LastInv
    <3>1. Changed(q)' = Changed(q) /\ User(q)' = User(q)
      BY <2>1 DEF Changed, Field, User, UserOf
    <3> QED BY <2>1, <3>1 DEF ExecInv, LastInv
  <2>5. AnswersAreRestrained'
    BY <2>1 DEF ExecInv, AnswersAreRestrained, UserOf
  <2> QED BY <2>2, <2>3, <2>4, <2>5 DEF ExecInv
<1> QED BY <1>1, <1>2, <1>3, <1>4, <1>5 DEF ExecNext

\* It holds of every state of an execution.
LEMMA ExecInvHolds == ExecSpec => []ExecInv
BY InitHasExecInv, NextKeepsExecInv, PTL DEF ExecSpec

(***************************************************************************)
(* What follows from it                                                    *)
(***************************************************************************)

\* Types: every profile's value is a link or nothing, every operation is idle or
\* a document being executed, every answer carries only known codes.
THEOREM ExecutionTypes == ExecSpec => []ExecTypeOK
BY ExecInvHolds, PTL DEF ExecInv

\* The API keeps, and hands out a link to, no file of ours but the profile's
\* own, whoever wrote the row.  (storedAvatar, avatarLink)
THEOREM OnlyOwnFilesAreLinked == ExecSpec => []OnlyOwnFiles
<1>1. ExecInv => OnlyOwnFiles
  <2> SUFFICES ASSUME ExecInv PROVE OnlyOwnFiles
    OBVIOUS
  <2>1. \A p \in Profiles : writer[p] \in Requests /\ IsOurs(cfg, avatar[p]) =>
           OwnedBy(KeyOf(cfg, avatar[p]), p)
    BY DEF ExecInv, RowInv
  <2>2. ASSUME NEW r \in Requests, NEW i \in DOMAIN exec[r].field,
               IsOurs(cfg, exec[r].field[i].stored), exec[r].field[i].link # NoLink
        PROVE  OwnedBy(KeyOf(cfg, exec[r].field[i].stored), User(r))
    BY <2>2 DEF ExecInv, FieldsInv, FieldInv, ServedAsStored, MayBeServed
  <2> QED BY <2>1, <2>2 DEF OnlyOwnFiles
<1> QED BY <1>1, ExecInvHolds, PTL

\* A reader is given a link to his own file that the storage honours, unless a
\* call that he made himself failed, however many race him to build the link
\* signer.  (avatarLink, linkSignerFor, LinkFor)
THEOREM OwnLinksAreServed == ExecSpec => []OwnLinkIsServed
<1>1. ExecInv => OwnLinkIsServed
  <2> SUFFICES ASSUME ExecInv, NEW r \in Requests, NEW i \in DOMAIN exec[r].field,
                      exec[r].field[i].step = "done", exec[r].field[i].error = "none",
                      ~exec[r].field[i].failed, IsOurs(cfg, exec[r].field[i].stored),
                      OwnedBy(KeyOf(cfg, exec[r].field[i].stored), User(r))
               PROVE  Honours(cfg, KeyOf(cfg, exec[r].field[i].stored), exec[r].field[i].link)
    BY DEF OwnLinkIsServed
  <2> DEFINE f == exec[r].field[i]
  <2>1. FieldInv(cfg, f, Field(r, i).name, User(r)) /\ cfg \in Configs
    BY DEF ExecInv, FieldsInv, ExecTypeOK
  <2>2. f.stored \in Storable
    BY FieldNumbers DEF ExecInv, FieldStates
  <2>3. MayBeServed(cfg, User(r), f.stored) /\ ~ServedAsStored(cfg, f.stored)
    BY DEF MayBeServed, ServedAsStored
  <2>4. f.link = LinkFor(cfg, KeyOf(cfg, f.stored))
    BY <2>1, <2>3 DEF FieldInv
  <2> QED BY <2>1, <2>2, <2>4, KeyIsPath, ServedLinkIsHonoured
<1> QED BY <1>1, ExecInvHolds, PTL

\* A client that sends back the link it was given stores what was stored: no
\* link of ours that expires is ever kept.  (LinkFor, storedAvatar,
\* validateFileLinks)
THEOREM LinksComeBackAsStored == ExecSpec => []AvatarRoundTrip
<1>1. ExecInv => AvatarRoundTrip
  <2> SUFFICES ASSUME ExecInv, NEW r \in Requests, NEW i \in DOMAIN exec[r].field,
                      exec[r].field[i].link # NoLink
               PROVE  StoredAvatar(cfg, User(r), exec[r].field[i].link) = {exec[r].field[i].stored}
    BY DEF AvatarRoundTrip
  <2> DEFINE f == exec[r].field[i]
  <2>1. FieldInv(cfg, f, Field(r, i).name, User(r)) /\ cfg \in Configs
    BY DEF ExecInv, FieldsInv, ExecTypeOK
  <2>2. f.stored \in Storable
    BY FieldNumbers DEF ExecInv, FieldStates
  <2>3. CASE ServedAsStored(cfg, f.stored) /\ f.link = f.stored
    BY <2>3 DEF ServedAsStored, StoredAvatar
  <2>4. CASE MayBeServed(cfg, User(r), f.stored) /\ f.link = LinkFor(cfg, KeyOf(cfg, f.stored))
    BY <2>1, <2>2, <2>4, RoundTrip DEF FieldInv
  <2> QED BY <2>1, <2>3, <2>4 DEF FieldInv
<1> QED BY <1>1, ExecInvHolds, PTL

\* Of the fields of a mutation that changed a profile the last one in the
\* document prevails, unless somebody else wrote since.  (_Mutation)
THEOREM LastFieldOfMutationPrevails == ExecSpec => []LastFieldPrevails
<1>1. ExecInv => LastFieldPrevails
  <2> SUFFICES ASSUME ExecInv, NEW r \in Requests, Changed(r) # {}, writer[User(r)] = r
               PROVE  avatar[User(r)] = exec[r].field[Max(Changed(r))].stored
    BY DEF LastFieldPrevails, Changed
  <2>1. PICK m \in Changed(r) : /\ \A i \in Changed(r) : m >= i
                                /\ avatar[User(r)] = exec[r].field[m].stored
    BY DEF ExecInv, LastInv
  <2>2. PICK n \in Nat : DOMAIN exec[r].field = 1..n
    BY FieldNumbers DEF ExecInv
  <2>3. Changed(r) \subseteq 1..n
    BY <2>2 DEF Changed
  <2>4. Max(Changed(r)) = m
    <3>1. \A i \in Changed(r) : (\A j \in Changed(r) : i >= j) => i = m
      BY <2>1, <2>3
    <3> QED BY <2>1, <3>1 DEF Max
  <2> QED BY <2>1, <2>4
<1> QED BY <1>1, ExecInvHolds, PTL

\* In whatever environment a server came up: a caller without credentials is
\* shown __typename and no more, but by a development server; admin data is for
\* admins; and no other server describes its schema or its errors.
\* (Load, Build, RequireRole, NewHandler, newErrorPresenter)
THEOREM AnswersStayRestrained == ExecSpec => []AnswersAreRestrained
BY ExecInvHolds, PTL DEF ExecInv

\* No document over the cap on its fields is ever executed, by hash either.
\* (queryShapeLimit)
THEOREM CapHoldsForHashes == ExecSpec => []CapHoldsByHash
<1>1. ExecInv => CapHoldsByHash
  BY DEF ExecInv, RunInv, CapHoldsByHash
<1> QED BY <1>1, ExecInvHolds, PTL
=============================================================================
