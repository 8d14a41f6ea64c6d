CONSTANT MaxInt = 31
SPECIFICATION Spec
INVARIANTS PortableAgrees PowExceptMin FoldExact
