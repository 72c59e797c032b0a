\* The action filter against the spec's decision table, on all records.
CONSTANT Null = Null
SPECIFICATION Spec
INVARIANT ActionFilterMatchesTable
