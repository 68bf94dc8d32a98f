---------------------------- MODULE TemplateRender ----------------------------
(***************************************************************************)
(* What the build job's renderer writes for a source at a commit. The      *)
(* template package does it and the repository only packs the result, so   *)
(* this module states what the jobs around it read of it.                  *)
(***************************************************************************)
EXTENDS FrozenCandidate

Pages(checkout) == {path \in DOMAIN checkout.site : checkout.site[path].type = "html"}

ManifestOf(sha, checkout) ==
    LET listing(paths) ==
            LET files == FileSequence([path \in paths |-> checkout.site[path].bytes])
            IN  [i \in DOMAIN files |-> EntryOf(files[i])]
        counted == [schemaId |-> "artifact-manifest",
                    artifactId |-> "minted",
                    routes |-> listing(Pages(checkout)),
                    assets |-> listing(DOMAIN checkout.site \ Pages(checkout)),
                    artifactFileCount |-> Cardinality(DOMAIN checkout.site),
                    artifactByteCount |->
                        MapThenSumSet(LAMBDA path : checkout.site[path].bytes.byteLength,
                                      DOMAIN checkout.site),
                    buildInputDigest |-> [buildInput |-> checkout.name],
                    generatedAt |-> sha,
                    sourceCommit |-> sha,
                    workflowIdentity |-> "publish-v2"]
        sealed == counted ++
                    [artifactDigest |-> ArtifactDigestOf(ManifestInventory(counted))]
    IN  sealed ++ [manifestDigest |-> ManifestDigestOf(sealed)]

BuildInputOf(checkout) ==
    LET lock == JsonMember(checkout.files, LockPath)
    IN  [inputDigest |-> [buildInput |-> checkout.name],
         baseUrl |-> JsonMember(checkout.files, PublicationPath).canonicalBase,
         basePath |-> "/",
         rootDigest |-> [root |-> checkout.name],
         renderPolicies |-> checkout.renderPolicies,
         packages |-> [schemas |-> lock.schemas, template |-> lock.template,
                       theme |-> lock.theme, publisher |-> lock.publisher]]

ThemeContractOf(checkout) ==
    LET theme == JsonMember(checkout.files, LockPath).theme
    IN  [package |-> theme.package, version |-> theme.version,
         stylingContractDigest |-> [styling |-> theme]]

Rendered(sha, checkout) ==
    [path \in UnfrozenMetadataMembers |->
        CASE path = UnfrozenManifestMember -> [json |-> ManifestOf(sha, checkout)]
          [] path = BuildInputMember -> [json |-> BuildInputOf(checkout)]
          [] path = ThemeContractMember -> [json |-> ThemeContractOf(checkout)]]
    ++ [path \in DOMAIN checkout.site |-> checkout.site[path].bytes]
=============================================================================
