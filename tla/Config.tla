-------------------------------- MODULE Config --------------------------------
(***************************************************************************)
(* The configuration (internal/config/config.go): which environments the   *)
(* server boots with, and what it makes of them.  An environment is a      *)
(* record of the variables that Load checks:                               *)
(*   complete   every required variable is set, and not to nothing         *)
(*   nodeEnv, mock, password                                               *)
(*   origins    the entries of CORS_ORIGIN, blank ones included            *)
(*   visibility, ttl                                                       *)
(*   base       S3_PUBLIC_BASE_URL: its scheme, its path, how many slashes *)
(*              end it and whether it has a query or a fragment            *)
(***************************************************************************)
EXTENDS Integers, Sequences

CONSTANTS
    Environments,   \* the environments the server may be started in
    Bucket,         \* S3_BUCKET
    MaxLinkTTL,     \* MaxFileLinkTTL, in the unit of ttl
    DefaultPassword, BlankOrigin,
    Passwords, Origins, Segments   \* what they and the segments of paths are

ASSUME EnvironmentsAssumption ==
    /\ Environments \subseteq
          [complete : BOOLEAN, nodeEnv : STRING, mock : BOOLEAN, password : Passwords,
           origins : SUBSET Origins, visibility : STRING, ttl : Int,
           base : [scheme : STRING, path : Seq(Segments), slashes : Nat, query : BOOLEAN]]
    /\ Bucket \in Segments

IsProduction(env) == env.nodeEnv = "production"
FilesArePublic(env) == env.visibility = "public"
CORSOrigin(env) == env.origins \ {BlankOrigin}

\* TrimRight: a file's address is the base, one slash and the key.
Trimmed(env) == [env EXCEPT !.base.slashes = 0]

\* Mutant: the path need not be the bucket and nothing else.
LinksAreSoundAnyPath(env) ==
    /\ env.visibility \in {"private", "public"}
    /\ env.base.scheme \in {"http", "https"} /\ ~env.base.query
    /\ FilesArePublic(env) \/ env.ttl \in 1..MaxLinkTTL

\* validateFileLinks.
LinksAreSound(env) ==
    /\ env.visibility \in {"private", "public"}
    /\ env.base.scheme \in {"http", "https"} /\ ~env.base.query
    /\ FilesArePublic(env) \/ (env.ttl \in 1..MaxLinkTTL /\ env.base.path = <<Bucket>>)

\* Mutant: anything but "production" is a development environment.
AcceptsNearMiss(env) ==
    /\ env.complete
    /\ env.mock => env.nodeEnv # "production"
    /\ LinksAreSound(Trimmed(env))
    /\ IsProduction(env) => CORSOrigin(env) # {} /\ env.password # DefaultPassword

\* Load: the environments it does not refuse.
Accepts(env) ==
    /\ env.complete
    /\ env.nodeEnv \in {"development", "test", "production"}
    /\ env.mock => env.nodeEnv \in {"development", "test"}
    /\ LinksAreSound(Trimmed(env))
    /\ IsProduction(env) => CORSOrigin(env) # {} /\ env.password # DefaultPassword

\* The configurations a server can run with.
Configs == {Trimmed(env) : env \in {e \in Environments : Accepts(e)}}

\* Build: the mock identity stands in for a login outside production.
MockEnabled(cfg) == cfg.mock /\ ~IsProduction(cfg)
=============================================================================
