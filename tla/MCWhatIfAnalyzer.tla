-------------------------- MODULE MCWhatIfAnalyzer --------------------------
(***************************************************************************)
(* A cluster with two child resources, and the patterns for them.           *)
(***************************************************************************)
EXTENDS WhatIfAnalyzer, TLC

(* The paths of properties, a value that is an ARM expression, and names.   *)
MCSubjects == {"tags.owner", "provisioningState", "sku", "principalId", "[reference(..)]",
               "literal", "aks", "ghost"}
MCPatterns == {"tags", "state", "sku", "principal", "reference", "ghost"}
MCHits == [q \in MCPatterns |->
             CASE q = "tags"      -> {"tags.owner"}
               [] q = "state"     -> {"provisioningState"}
               [] q = "sku"       -> {"sku"}
               [] q = "principal" -> {"principalId"}
               [] q = "reference" -> {"[reference(..)]"}
               [] q = "ghost"     -> {"ghost"}]

Entry(scope, category, pattern) ==
  [scope |-> scope, category |-> category, pattern |-> pattern]

(* The file as it is, and without the patterns for the cluster's own sku    *)
(* and state.                                                               *)
Full == <<Entry(Common, "custom_patterns", "tags"),
          Entry(Common, "arm_reference_patterns", "reference"),
          Entry("role", "auto_managed_patterns", "principal"),
          Entry("cluster", "readonly_patterns", "state"),
          Entry("cluster", "auto_managed_patterns", "sku"),
          Entry("cluster", "create_false_positive_patterns", "ghost")>>
Pruned == SubSeq(Full, 1, 3)

Prop(path, value, change) ==
  [path |-> path, value |-> value, change |-> change, default |-> FALSE, bicep |-> "unknown"]

Change(operation, type, name, props) ==
  [operation |-> operation, type |-> type, provider |-> IF type = Common THEN "cluster" ELSE type,
   name |-> name, child |-> FALSE, states |-> TRUE, acrpull |-> FALSE, props |-> props]

(* A modified cluster; a modified resource group, whose type is not found,  *)
(* with creates that are real, in doubt, and in the pattern file; a child,  *)
(* and changes of the filtered type, of which no statistics are kept.       *)
MCWhatIfResults ==
  {{Change("Modify", "cluster", "aks", {Prop("sku", "literal", "Modify"),
                                        Prop("provisioningState", "[reference(..)]", "Delete")})},
   {Change("Modify", Common, "aks", {Prop("tags.owner", "literal", "Create")}),
    Change("Create", "cluster", "ghost", {}),
    Change("Create", "cluster", "aks", {}),
    [Change("Create", "role", "aks", {}) EXCEPT !.states = FALSE],
    Change("NoChange", "cluster", "aks", {}),
    Change("Delete", "role", "aks", {Prop("tags.owner", "[reference(..)]", "Delete"),
                                     Prop("principalId", "[reference(..)]", "NoEffect")}),
    [Change("Unsupported", "role", "aks", {}) EXCEPT !.acrpull = TRUE],
    Change("Ignore", "role", "aks", {}),
    [Change("Modify", "cluster", "aks",
            {[Prop("literal", "literal", "Modify") EXCEPT !.bicep = "defined"],
             [Prop("literal", "literal", "Modify") EXCEPT !.default = TRUE]})
       EXCEPT !.child = TRUE]}}

MCPatternFiles == {Full, Pruned, Unparsable}

(* Any two analyses are alike. *)
Alike == Permutations(Analyzers)
=============================================================================
