SPECIFICATION Spec
CONSTANTS
  Types = {cluster, registry}
  Objects = {"sku"}
  Arrays = {"pools"}
  Leaves = {"name"}
  MaxLines = 10
INVARIANT
  SearchIsExact
SYMMETRY
  Symmetry
