--------------------------- MODULE AdapterCatalog ---------------------------
(***************************************************************************)
(* The closed catalog of adapter artifacts a toolchain carries: one row    *)
(* for the release of each adapter it has installed, and the rows of the   *)
(* releases it still admits in a lock after them. A row is a record with   *)
(* the members below and the adapter's id; an integrity is a value that    *)
(* names the package and version it was taken over.                        *)
(*                                                                         *)
(* Source: packages/publish-action/src/adapter-artifact-catalog.js.        *)
(***************************************************************************)
EXTENDS Functions

RowMembers ==
    {"package", "version", "integrity", "registry", "contractVersion",
     "compatibleWith"}

(* A lock's row is a catalog row without the adapter's id. *)
LockRow(entry) == Restrict(entry, RowMembers)

AdapterPackages(toolchain) == {entry.package : entry \in toolchain.catalog}

FindAdapterArtifact(toolchain, package) ==
    CHOOSE entry \in toolchain.catalog : entry.package = package

AdmittedAdapterArtifacts(toolchain, package) ==
    IF package \in AdapterPackages(toolchain)
    THEN {entry \in toolchain.catalog \cup toolchain.previous :
             entry.package = package}
    ELSE {}

IsAdmittedAdapterVersion(toolchain, package, version) ==
    \E entry \in AdmittedAdapterArtifacts(toolchain, package) :
        entry.version = version

(* requireAdapterArtifact returns the row it admits, or refuses. *)
AdmitsAdapterRow(toolchain, row) ==
    \E entry \in AdmittedAdapterArtifacts(toolchain, row.package) :
        LockRow(entry) = row

AdmittedArtifact(toolchain, row) ==
    CHOOSE entry \in AdmittedAdapterArtifacts(toolchain, row.package) :
        LockRow(entry) = row
=============================================================================
