---------------------------- MODULE ImageVersion ----------------------------
(***************************************************************************)
(* The KubeRay entry of status.releases: which image the operator resolves *)
(* and which version it reads from the image reference, and which image    *)
(* applyParams later in the pass writes to the params.env that is rendered.*)
(* The two decide on their own, from other files. A reference is a         *)
(* sequence of tokens: the separators the parser looks for, "space" for a  *)
(* blank, and words, which stand for the text between them. The parser is  *)
(* checked against the grammar: every reference is spelt from its parts,   *)
(* and the version found must be its tag.                                  *)
(***************************************************************************)
EXTENDS Naturals, Sequences, SequencesExt

CONSTANTS
    Hosts,    \* registry hosts
    Ports,    \* their ports
    Words,    \* path components and digests
    Paths,    \* paths: words and the slashes between them
    Blanks,   \* what may surround a reference
    Tags,     \* image tags, which are the versions to report
    None,     \* no host, no port, no tag, no digest
    Missing   \* RELATED_IMAGE_* unset or empty, no params.env, no such key

ASSUME TokensAssumption ==
    ({":", "/", "@", "space"} \cup {None, Missing})
        \cap (Hosts \cup Ports \cup Words \cup Tags) = {}

ASSUME PathsAssumption == Paths \subseteq Seq(Words \cup {"/"}) \ {<<>>}

ASSUME BlanksAssumption == Blanks \subseteq Seq({"space"})

VARIABLES
    related,   \* RELATED_IMAGE_ODH_KUBERAY_OPERATOR_CONTROLLER_IMAGE
    vendored,  \* the image of the vendored params.env
    params,    \* the image of params.env in the writable copy
    releases,  \* status.releases without the platform's entry
    pc         \* the next of the pass's actions that matter here

vars == <<related, vendored, params, releases, pc>>

(* A reference by its parts; blanks may surround it in the environment or   *)
(* in params.env.                                                           *)
References ==
    {r \in [host: Hosts \cup {None}, port: Ports \cup {None}, path: Paths,
            tag: Tags \cup {None}, digest: Words \cup {None}, blanks: Blanks] :
        r.host = None => r.port = None}

Optional(x, s) == IF x = None THEN <<>> ELSE s

(* The text of a reference: [host[:port]/]path[:tag][@digest].              *)
HostText(r) ==
    Optional(r.host, <<r.host>> \o Optional(r.port, <<":", r.port>>) \o <<"/">>)

ImageText(r) ==
    r.blanks
    \o (HostText(r) \o r.path
            \o Optional(r.tag, <<":", r.tag>>)
            \o Optional(r.digest, <<"@", r.digest, ":", r.digest>>))
    \o r.blanks

-----------------------------------------------------------------------------
(* Position of the last t in s, 0 when there is none.                       *)
LastIndex(s, t) == SelectLastInSeq(s, LAMBDA x : x = t)

TrimSpace(s) ==
    LET Text(x) == x # "space"
    IN  IF SelectInSeq(s, Text) = 0 THEN <<>>
        ELSE SubSeq(s, SelectInSeq(s, Text), SelectLastInSeq(s, Text))

(* The image without its digest.                                            *)
CutDigest(image) ==
    LET digest == LastIndex(image, "@")
    IN  IF digest > 0 THEN SubSeq(image, 1, digest - 1) ELSE image

(* Mutant: any colon starts the tag.                                        *)
kubeRayVersionAfterColon(image) ==
    LET name  == CutDigest(TrimSpace(image))
        colon == LastIndex(name, ":")
    IN  IF colon > 0 THEN SubSeq(name, colon + 1, Len(name)) ELSE <<>>

kubeRayVersionFromImage(image) ==
    LET name  == CutDigest(TrimSpace(image))
        colon == LastIndex(name, ":")
    IN  IF colon > LastIndex(name, "/") THEN SubSeq(name, colon + 1, Len(name))
        ELSE <<>>

(* parseParams of the vendored params.env; the empty string on any error.   *)
defaultKubeRayImage ==
    IF vendored = Missing THEN <<>> ELSE ImageText(vendored)

resolveKubeRayImage ==
    IF related = Missing THEN defaultKubeRayImage ELSE ImageText(related)

resolveKubeRayVersion ==
    LET version == kubeRayVersionFromImage(resolveKubeRayImage)
    IN  IF version # <<>> THEN version
        ELSE kubeRayVersionFromImage(defaultKubeRayImage)

desiredModuleReleases(version) == IF version = <<>> THEN {} ELSE {version}

releasesAction ==
    /\ pc = "releases" /\ pc' = "params"
    /\ releases' = desiredModuleReleases(resolveKubeRayVersion)
    /\ UNCHANGED <<related, vendored, params>>

(* Mutant: the override is taken for a default.                             *)
updateParamIfMissing(image) == IF image = Missing THEN related ELSE image

(* applyParams goes through the keys that the file has, so without one      *)
(* RELATED_IMAGE_* has nothing to override.                                 *)
updateParam(image) ==
    IF image # Missing /\ related # Missing THEN related ELSE image

applyParams ==
    /\ pc = "params" /\ pc' = "render"
    /\ params' = updateParam(params)
    /\ UNCHANGED <<related, vendored, releases>>

(* A pass ends here or there, with an error, in a crash of the container or *)
(* done; the copy stays, so the next one rewrites what this one has written.*)
PassEnds ==
    /\ pc # "releases" /\ pc' = "releases"
    /\ UNCHANGED <<related, vendored, params, releases>>

(* The status still holds the release an earlier operator reported.         *)
EarlierReleases == {<<"earlier">>}

Init ==
    /\ related \in References \cup {Missing}
    /\ vendored \in References \cup {Missing}
    /\ params = vendored
    /\ releases = EarlierReleases
    /\ pc = "releases"

Next == releasesAction \/ applyParams \/ PassEnds

Spec == Init /\ [][Next]_vars

-----------------------------------------------------------------------------
TagOf(r) == IF r = Missing THEN <<>> ELSE Optional(r.tag, <<r.tag>>)

(* kubeRayVersionFromImage finds the tag of every well-formed reference, and*)
(* nothing where there is none: not the port of the registry, not a part of *)
(* the digest, not a blank.                                                 *)
VersionIsTag ==
    \A r \in {related, vendored} \ {Missing} :
        kubeRayVersionFromImage(ImageText(r)) = TagOf(r)

(* The release that releasesAction has reported names the image that        *)
(* applyParams has put where kustomize reads it, in the first pass and in   *)
(* every repetition, and whichever of the two sources it is from. Only an   *)
(* image without a tag goes under the tag of the vendored one, and a        *)
(* release is missing only when neither has a tag. A params.env without the *)
(* key is the exception: applyParams then deploys no image of the platform, *)
(* while the release still names it.                                        *)
ReleaseNamesDeployed ==
    pc = "render" =>
        /\ <<>> \notin releases
        /\ params # Missing =>
             /\ TagOf(params) # <<>> => releases = {TagOf(params)}
             /\ TagOf(params) = <<>> => releases \subseteq {TagOf(vendored)}
             /\ releases = {} => TagOf(params) = <<>> /\ TagOf(vendored) = <<>>
        /\ params = Missing =>
             /\ vendored = Missing
             /\ releases \subseteq {TagOf(related)}
=============================================================================
