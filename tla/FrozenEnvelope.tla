--------------------------- MODULE FrozenEnvelope ---------------------------
(***************************************************************************)
(* The frozen envelope: the one file in which the payload of a site, its   *)
(* manifest, its provenance and its SBOM travel from the freeze job to the *)
(* jobs that authorize, attest and deploy it. An envelope is a magic, a    *)
(* record count and the records; payload records come first, in the byte   *)
(* order of their paths, the three metadata records last. The encoding is  *)
(* meant to be canonical: what a decoder accepts is the encoding of what   *)
(* it answers.                                                             *)
(*                                                                         *)
(* A path is one of PathOrder. The bytes of a file are [text, byteLength]; *)
(* those of a document are [jcs |-> document], or [json |-> document] when *)
(* they are not its canonical form. A digest is a record that names what   *)
(* it was taken over.                                                      *)
(*                                                                         *)
(* Source: scripts/workflow/frozen-envelope.mjs.                           *)
(***************************************************************************)
EXTENDS WorkloadContract, SequencesExt

CONSTANTS
    PathOrder,               \* the paths of this instance, in the byte order of their UTF-8
    IllFormedPaths,          \* those requirePayloadPath refuses: absolute, "..", control
    MaximumRecordCount,      \* 200003
    MaximumEnvelopeBytes     \* 1 GiB

MetadataRecords ==
    << [kind |-> "manifest",   path |-> "metadata/artifact-manifest.jcs"],
       [kind |-> "provenance", path |-> "metadata/provenance.jcs"],
       [kind |-> "sbom",       path |-> "metadata/sbom.spdx.json"] >>

ASSUME EnvelopeAssumption ==
    /\ PathOrder \in Seq(ToSet(PathOrder)) /\ IsInjective(PathOrder)
    /\ IllFormedPaths \subseteq ToSet(PathOrder)
    /\ MaximumRecordCount \in Nat
    /\ MaximumEnvelopeBytes \in Nat

TaggedSha256(bytes) == [sha256 |-> bytes]
JcsBytes(document) == [jcs |-> document]

PathRank == [path \in ToSet(PathOrder) |-> CHOOSE i \in DOMAIN PathOrder : PathOrder[i] = path]

CompareUtf8(left, right) ==
    {left, right} \subseteq ToSet(PathOrder) /\ PathRank[left] < PathRank[right]

ByPath(left, right) == CompareUtf8(left.path, right.path)

(* Sorted by path, where no two have one: each row has as many before it   *)
(* as there are rows of lesser paths.                                      *)
InByteOrder(rows) ==
    LET lesser(i) == {j \in DOMAIN rows : ByPath(rows[j], rows[i])}
    IN  [place \in DOMAIN rows |->
            rows[CHOOSE i \in DOMAIN rows : Cardinality(lesser(i)) = place - 1]]

RequirePayloadPath(path) ==
    /\ path \notin IllFormedPaths
    /\ \A i \in DOMAIN MetadataRecords : MetadataRecords[i].path # path

SumOf(values) == FoldLeft(LAMBDA total, value : total + value, 0, values)

-----------------------------------------------------------------------------
(* The manifest lists every file, its pages under routes and the rest      *)
(* under assets; an entry is a path, a byte length and a digest.           *)

EntryOf(file) ==
    [path |-> file.path, byteLength |-> file.bytes.byteLength,
     sha256 |-> TaggedSha256(file.bytes)]

ManifestEntries(manifest) == manifest.routes \o manifest.assets

ManifestInventoryIsValid(manifest) ==
    LET paths == [i \in DOMAIN ManifestEntries(manifest) |->
                     ManifestEntries(manifest)[i].path]
    IN  /\ \A i \in DOMAIN paths : RequirePayloadPath(paths[i])
        /\ IsInjective(paths)

ManifestInventory(manifest) == InByteOrder(ManifestEntries(manifest))

ArtifactDigestOf(entries) == [artifact |-> entries]
ManifestDigestOf(manifest) ==
    [artifactManifest |-> Without(manifest, {"artifactId", "manifestDigest"})]
ProvenanceDigestOf(provenance) == [buildProvenance |-> provenance]

-----------------------------------------------------------------------------
(* Reading. RecordsAreInOrder is the pass over the stream, RecordsAgree    *)
(* what the manifest, the provenance and the SBOM must say of each other   *)
(* and of the payload.                                                     *)

EnvelopeByteCount(stream) ==
    Len(stream.records)
        + SumOf([i \in DOMAIN stream.records |->
                    IF Has(stream.records[i].content, "byteLength")
                    THEN stream.records[i].content.byteLength ELSE 0])

\* Mutant: a decoder that stops at the last record does not look behind it.
EndsOrGoesOn(stream) == Len(stream.records) >= stream.count

(* Neither cut short nor with bytes left over. *)
EndsWithItsRecords(stream) == Len(stream.records) = stream.count /\ ~stream.tail

RecordIsInPlace(stream, i) ==
    LET payloadCount == stream.count - Len(MetadataRecords)
        record == stream.records[i]
    IN  IF i > payloadCount
        THEN LET expected == MetadataRecords[i - payloadCount]
             IN  record.kind = expected.kind /\ record.path = expected.path
        ELSE /\ record.kind = "payload"
             /\ RequirePayloadPath(record.path)
             /\ i > 1 => ByPath(stream.records[i - 1], record)

RecordsAreInOrder(stream) ==
    /\ EnvelopeByteCount(stream) <= MaximumEnvelopeBytes
    /\ stream.magic
    /\ stream.count \in Len(MetadataRecords) .. MaximumRecordCount
    /\ EndsWithItsRecords(stream)
    /\ \A i \in 1 .. stream.count : RecordIsInPlace(stream, i)

(* parseJcsObject: a JSON object, and the bytes are its canonical form. *)
ParsesAsJcsObject(content) == Has(content, "jcs")

PayloadOf(stream) ==
    [i \in 1 .. stream.count - Len(MetadataRecords) |->
        [path |-> stream.records[i].path, bytes |-> stream.records[i].content]]

MetadataOf(stream, kind) ==
    LET i == CHOOSE i \in DOMAIN MetadataRecords : MetadataRecords[i].kind = kind
    IN  stream.records[stream.count - Len(MetadataRecords) + i].content

RecordsAgree(stream) ==
    /\ \A i \in DOMAIN MetadataRecords :
          ParsesAsJcsObject(MetadataOf(stream, MetadataRecords[i].kind))
    /\ LET payload == PayloadOf(stream)
           manifest == MetadataOf(stream, "manifest").jcs
           provenance == MetadataOf(stream, "provenance").jcs
           entries == ManifestInventory(manifest)
       IN  /\ manifest.schemaId = "artifact-manifest"
           /\ ManifestInventoryIsValid(manifest)
           /\ Len(entries) = Len(payload)
           /\ manifest.artifactFileCount = Len(payload)
           /\ manifest.artifactByteCount
                 = SumOf([i \in DOMAIN entries |-> entries[i].byteLength])
           /\ \A i \in DOMAIN payload : EntryOf(payload[i]) = entries[i]
           /\ manifest.artifactDigest = ArtifactDigestOf(entries)
           /\ Has(manifest, "artifactId")
           /\ manifest.manifestDigest = ManifestDigestOf(manifest)
           /\ provenance.schemaId = "build-provenance"
           /\ provenance.artifactDigest = manifest.artifactDigest
           /\ provenance.manifestDigest = manifest.manifestDigest
           /\ provenance.sbomDigest = TaggedSha256(MetadataOf(stream, "sbom"))

Decodes(stream) == RecordsAreInOrder(stream) /\ RecordsAgree(stream)

DecodeFrozenEnvelope(stream) ==
    LET manifest == MetadataOf(stream, "manifest").jcs
        provenance == MetadataOf(stream, "provenance").jcs
    IN  [files |-> PayloadOf(stream),
         manifest |-> manifest,
         provenance |-> provenance,
         sbom |-> MetadataOf(stream, "sbom").jcs,
         artifactDigest |-> manifest.artifactDigest,
         manifestDigest |-> manifest.manifestDigest,
         provenanceDigest |-> ProvenanceDigestOf(provenance),
         sbomDigest |-> provenance.sbomDigest,
         frozenEnvelopeByteCount |-> EnvelopeByteCount(stream),
         frozenEnvelopeDigest |-> TaggedSha256(stream)]

-----------------------------------------------------------------------------
(* Writing: the files are sorted, the metadata follows in canonical form,  *)
(* and what was written must decode, or nothing is answered.               *)

\* Mutant: the files are written in the order they were read.
AsRead(files) == files

Sorted(files) == InByteOrder(files)

StreamOf(input) ==
    LET files == Sorted(input.files)
        payload == [i \in DOMAIN files |->
                       [kind |-> "payload", path |-> files[i].path,
                        content |-> files[i].bytes]]
        metadata == [i \in DOMAIN MetadataRecords |->
                        [kind |-> MetadataRecords[i].kind,
                         path |-> MetadataRecords[i].path,
                         content |-> JcsBytes(input[MetadataRecords[i].kind])]]
    IN  [magic |-> TRUE,
         count |-> Len(payload) + Len(metadata),
         records |-> payload \o metadata,
         tail |-> FALSE]

Encodes(input) ==
    /\ Len(input.files) + Len(MetadataRecords) <= MaximumRecordCount
    /\ \A i \in DOMAIN input.files : RequirePayloadPath(input.files[i].path)
    /\ IsInjective([i \in DOMAIN input.files |-> input.files[i].path])
    /\ EnvelopeByteCount(StreamOf(input)) <= MaximumEnvelopeBytes
    /\ Decodes(StreamOf(input))

EncodeFrozenEnvelope(input) == StreamOf(input)
=============================================================================
