CONSTANT Names <- MCNames
SPECIFICATION Spec
INVARIANT TypeOK
