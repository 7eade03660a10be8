CONSTANT Names <- MCNames
SPECIFICATION Spec
INVARIANT SensitiveWithheld
