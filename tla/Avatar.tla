-------------------------------- MODULE Avatar --------------------------------
(***************************************************************************)
(* The two forms of an avatar (internal/graph/resolver/convert.go and the  *)
(* link half of internal/upload/service.go): the database keeps the        *)
(* permanent address of a file, or somebody else's URL; a reader is given  *)
(* a link that may be signed and expire, and may send it back.             *)
(*                                                                         *)
(* A link is [host, path, signed]: the storage's public host or another,   *)
(* and the path under it, segment by segment.  A key is a path too.        *)
(***************************************************************************)
EXTENDS Config, FiniteSets, SequencesExt

CONSTANTS
    Profiles, Nobody,  \* profiles, and the owner of a file without a row of its own
    Files, Owner,      \* files, each with the key <<file>>, and who uploaded each
    Dots,              \* a segment ".."
    NoLink, BlankLink, NotAUrl

ASSUME OwnerAssumption == Owner \in [Files -> Profiles \cup {Nobody}] /\ Files \subseteq Segments

LinkValues == [host : {"ours", "other"}, path : Seq(Segments), signed : BOOLEAN]
ASSUME LinksAssumption ==
    /\ NoLink \notin LinkValues /\ BlankLink \notin LinkValues /\ NotAUrl \notin LinkValues
    /\ NoLink # BlankLink

Link(host, path, signed) == [host |-> host, path |-> path, signed |-> signed]
IsLink(link) == link \notin {NoLink, BlankLink, NotAUrl}

PermanentLink(cfg, key) == Link("ours", cfg.base.path \o key, FALSE)

\* PresignedGetObject addresses <endpoint>/<bucket>/<key>, whatever the base.
SignedLink(key) == Link("ours", <<Bucket>> \o key, TRUE)

\* KeyFromLink: the key, without the signature, and whether it is one of ours.
KeyOf(cfg, link) == SubSeq(link.path, Len(cfg.base.path) + 1, Len(link.path))
IsOurs(cfg, link) ==
    /\ IsLink(link) /\ link.host = "ours" /\ IsStrictPrefix(cfg.base.path, link.path)
    /\ ~Contains(KeyOf(cfg, link), Dots)

OwnedBy(key, p) == \E f \in Files : key = <<f>> /\ Owner[f] = p

\* validateProfileUpdate's check of the URL; lengths are not told apart.
IsValidAvatar(link) == link # NotAUrl

\* Mutant: the owner is not asked for.
StoredAvatarOfAnyone(cfg, p, link) ==
    IF ~IsOurs(cfg, link) THEN {link} ELSE {PermanentLink(cfg, KeyOf(cfg, link))}

\* storedAvatar: the permanent form of a link a client sent, or none to accept.
StoredAvatar(cfg, p, link) ==
    IF ~IsOurs(cfg, link) THEN {link}
    ELSE IF OwnedBy(KeyOf(cfg, link), p) THEN {PermanentLink(cfg, KeyOf(cfg, link))} ELSE {}

\* UpdateProfile's SQL: an absent field is kept, a blank one is cleared.
Written(old, new) == IF new = NoLink THEN old ELSE IF new = BlankLink THEN NoLink ELSE new

\* avatarLink: the stored value is served as it is, ...
ServedAsStored(cfg, stored) == ~IsOurs(cfg, stored)

\* Mutant: a reader may be given a link to anybody's file.
MayBeServedAnyone(cfg, p, stored) == IsOurs(cfg, stored)

\* ... or as a link to its file, if it is the profile's own, ...
MayBeServed(cfg, p, stored) ==
    IsOurs(cfg, stored) /\ OwnedBy(KeyOf(cfg, stored), p)

\* Mutant: the permanent address is good enough.
LinkForBare(cfg, key) == PermanentLink(cfg, key)

\* ... which LinkFor makes; a private one needs the link signer.
LinkFor(cfg, key) == IF FilesArePublic(cfg) THEN PermanentLink(cfg, key) ELSE SignedLink(key)

\* What the storage gives a file for: in an open bucket the address that files
\* are published under, in a closed one a signed link that names the bucket.
Honours(cfg, key, link) ==
    /\ IsLink(link) /\ link.host = "ours"
    /\ IF FilesArePublic(cfg) THEN link.path = cfg.base.path \o key
       ELSE link.signed /\ link.path = <<Bucket>> \o key
=============================================================================
