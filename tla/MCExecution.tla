---------------------------- MODULE MCExecution ----------------------------
(***************************************************************************)
(* A small instance of Execution: an administrator, a user, a file of each *)
(* and one of nobody, and the documents they send.                         *)
(***************************************************************************)
EXTENDS Execution

CONSTANTS admin, user, f1, f2, f3, bucket, deep, secret, blank, site, dots

\* A private production server as it is meant to be started, and what may
\* differ from it.
Sound == [complete |-> TRUE, nodeEnv |-> "production", mock |-> FALSE, password |-> secret,
          origins |-> {site, blank}, visibility |-> "private", ttl |-> 1,
          base |-> [scheme |-> "https", path |-> <<bucket>>, slashes |-> 1, query |-> FALSE]]
MCEnvironments ==
    {Sound, [Sound EXCEPT !.visibility = "public", !.base.path = <<deep>>, !.ttl = 0],
     [Sound EXCEPT !.base.path = <<deep, bucket>>], [Sound EXCEPT !.ttl = 0],
     [Sound EXCEPT !.mock = TRUE], [Sound EXCEPT !.nodeEnv = "Production", !.mock = TRUE],
     [Sound EXCEPT !.origins = {blank}], [Sound EXCEPT !.base.scheme = "htps"],
     [Sound EXCEPT !.nodeEnv = "development", !.mock = TRUE, !.origins = {}]}

MCOwner == [f \in Files |-> IF f = f1 THEN admin ELSE IF f = f2 THEN user ELSE Nobody]

Named(name) == [name |-> name, avatar |-> NoLink, tooLong |-> FALSE]
Update(link) == [Named("updateProfile") EXCEPT !.avatar = link]
Doc(kind, fields) == [kind |-> kind, fields |-> fields, written |-> 2, expanded |-> 2]
Elsewhere == Link("other", <<f1>>, FALSE)

\* Links to each file as readers are given them, one past the bucket, and what
\* is no link of ours.
AvatarDocuments ==
    {Doc("mutation", <<Update(SignedLink(<<f2>>)), Update(BlankLink)>>),
     Doc("mutation", <<Update(SignedLink(<<f1>>))>>),
     Doc("mutation", <<Update(Link("ours", <<deep, f2>>, FALSE)), Update(NullLink)>>),
     Doc("mutation", <<Update(Link("ours", <<bucket, dots, f2>>, FALSE))>>),
     Doc("query", <<Named("me"), Named("me")>>)}
GuardDocuments ==
    {Doc("mutation", <<Named("addTestJob"), Update(Elsewhere)>>),
     Doc("mutation", <<[Named("addTestJob") EXCEPT !.tooLong = TRUE], Update(NotAUrl)>>),
     Doc("query", <<Named("__schema"), Named("debug")>>), Doc("query", <<Named("__schema")>>),
     Doc("query", <<Named("__typename"), Named("__type")>>),
     Doc("mutation", <<Named("__typename")>>)}
CapDocuments ==
    {Doc("mutation", <<Named("echo")>>), [Doc("query", <<Named("me")>>) EXCEPT !.written = 3],
     [Doc("query", <<Named("me")>>) EXCEPT !.expanded = 3]}
MCDocuments == AvatarDocuments \cup GuardDocuments \cup CapDocuments
=============================================================================
