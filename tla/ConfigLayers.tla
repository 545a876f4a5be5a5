---------------------------- MODULE ConfigLayers ----------------------------
(***************************************************************************)
(* Configuration documents, as trees, and how one of them is laid over     *)
(* another: the local override over the base Project, and a Process        *)
(* Profile over its Process (src/config/profile.rs).  A mapping keeps the  *)
(* order of its keys, which is the order of Processes, Process Groups and  *)
(* Dependencies.                                                           *)
(***************************************************************************)
EXTENDS Naturals, Sequences, TLC

LOCAL INSTANCE SequencesExt

Null == [is |-> "null"]

Scalar(value) == [is |-> "scalar", of |-> value]

\* A list of nodes.  A list of names is a Scalar: it is replaced whole.
List(nodes) == [is |-> "list", of |-> nodes]

EmptyMapping == [is |-> "mapping", keys |-> <<>>, of |-> <<>>]

IsMapping(node) == node.is = "mapping"

Has(node, key) == IsMapping(node) /\ key \in DOMAIN node.of

\* A typed field that may be left out is also left out when it is null.
Given(node, key) == Has(node, key) /\ node.of[key].is # "null"

Option(node, key, default) == IF Given(node, key) THEN node.of[key].of ELSE default

Section(node, key) == IF Given(node, key) THEN node.of[key] ELSE EmptyMapping

Insert(map, key, value) ==
    IF key \in DOMAIN map.of
    THEN [map EXCEPT !.of[key] = value]
    ELSE [map EXCEPT !.keys = Append(@, key), !.of = (key :> value) @@ @]

\* The last entry takes the place of the one that leaves.
Drop(map, key) ==
    IF key \notin DOMAIN map.of THEN map
    ELSE [map EXCEPT
            !.keys = LET last == Len(@) IN
                SubSeq([i \in 1..last |-> IF @[i] = key THEN @[last] ELSE @[i]], 1, last - 1),
            !.of = [other \in DOMAIN @ \ {key} |-> @[other]]]

\* A mapping with these entries, in this order, no two of one key.
Mapping(entries) ==
    [is |-> "mapping", keys |-> [i \in DOMAIN entries |-> entries[i][1]],
     of |-> [key \in {entries[i][1] : i \in DOMAIN entries} |->
                entries[CHOOSE i \in DOMAIN entries : entries[i][1] = key][2]]]

-----------------------------------------------------------------------------
\* A null variable stays: it removes what an environment file or the parent
\* process says of it, which no mapping holds.
MergeEnvironment(base, overlay) ==
    IF Has(base, "environment") /\ IsMapping(base.of["environment"])
    THEN FoldLeft(LAMBDA map, name : Insert(map, name, overlay.of[name]),
                  base.of["environment"], overlay.keys)
    ELSE overlay

RECURSIVE MergeYaml(_, _)

MergeEntry(base, key, value) ==
    IF key = "environment" /\ IsMapping(value)
        THEN Insert(base, key, MergeEnvironment(base, value))
    ELSE IF value.is = "null"
        THEN Drop(base, key)
    ELSE Insert(base, key, MergeYaml(IF Has(base, key) THEN base.of[key] ELSE EmptyMapping, value))

MergeYaml(base, overlay) ==
    IF IsMapping(overlay)
    THEN FoldLeft(LAMBDA map, key : MergeEntry(map, key, overlay.of[key]),
                  IF IsMapping(base) THEN base ELSE EmptyMapping, overlay.keys)
    ELSE overlay

\* Dependencies are one contract: a Process Profile replaces all of them.
MergeProcessProfile(base, patch) ==
    MergeYaml(IF Has(patch, "depends_on") THEN Drop(base, "depends_on") ELSE base, patch)

-----------------------------------------------------------------------------
\* A Process without a field is a null, which would read as a removal.
NormalizeProcessEntries(document) ==
    IF ~Has(document, "processes") \/ ~IsMapping(document.of["processes"]) THEN document
    ELSE [document EXCEPT !.of["processes"].of =
            [name \in DOMAIN @ |-> IF @[name].is = "null" THEN EmptyMapping ELSE @[name]]]

When(condition, problem) == IF condition THEN {problem} ELSE {}

\* A later stage is reached without problems in those before it.
Stages(problems, later) == IF problems # {} THEN problems ELSE later

\* What a local override may not do.  It must be a mapping, of this version,
\* and removes no Process.
OverrideProblems(local) ==
    IF ~IsMapping(local) THEN {"override is no mapping"}
    ELSE UNION {
        When(Has(local, "processes") /\ ~Given(local, "processes"), "override without Processes"),
        When(Has(local, "version") /\ Option(local, "version", 0) # 1, "override changes version"),
        When(LET processes == Section(local, "processes") IN
                \E name \in DOMAIN processes.of : processes.of[name].is = "null",
             "override removes Process")}

ApplyLocalOverride(document, local) ==
    NormalizeProcessEntries(MergeYaml(NormalizeProcessEntries(document), local))

-----------------------------------------------------------------------------
\* Every environment below the node, other than in its Process Profiles, maps
\* names to strings and nulls (src/config/env.rs).
RECURSIVE ShapesAreValid(_)
ShapesAreValid(node) ==
    CASE node.is = "mapping" ->
            /\ \A key \in DOMAIN node.of \ {"profiles"} : ShapesAreValid(node.of[key])
            /\ Given(node, "environment") =>
                /\ IsMapping(node.of["environment"])
                /\ \A name \in DOMAIN node.of["environment"].of :
                    node.of["environment"].of[name].is \in {"scalar", "null"}
      [] node.is = "list" -> \A i \in DOMAIN node.of : ShapesAreValid(node.of[i])
      [] OTHER -> TRUE

ValidateShapes(document) ==
    LET processes == Section(document, "processes") IN
    \A name \in DOMAIN processes.of : ShapesAreValid(processes.of[name])
=============================================================================
